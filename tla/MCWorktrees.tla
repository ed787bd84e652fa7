------------------------------- MODULE MCWorktrees -------------------------------
(***************************************************************************)
(* Worktrees on small instances, one per .cfg file.                        *)
(***************************************************************************)
EXTENDS Worktrees
=============================================================================
