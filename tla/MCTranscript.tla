------------------------------ MODULE MCTranscript ------------------------------
(***************************************************************************)
(* Transcript on a small instance.                                         *)
(***************************************************************************)
EXTENDS Transcript, TLC

MCSymmetry == Permutations(Bodies) \cup Permutations(ToolUses)
=============================================================================
