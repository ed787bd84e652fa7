----------------------------- MODULE MCCoordinator -----------------------------
(***************************************************************************)
(* Coordinator on small instances, one per .cfg file.                      *)
(***************************************************************************)
EXTENDS Coordinator, TLC

\* Conversations, events, turns and interactions are interchangeable.
Symmetry ==
  Permutations(Conversations) \cup Permutations(Messages) \cup Permutations(Stops)
    \cup Permutations(Turns) \cup Permutations(Interactions)
=============================================================================
