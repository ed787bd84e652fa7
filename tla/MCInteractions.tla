------------------------------ MODULE MCInteractions ------------------------------
(***************************************************************************)
(* Interactions on a small instance: a text that is clear and one that     *)
(* only begins so, suggestions that allow and one that denies.             *)
(***************************************************************************)
EXTENDS Interactions, TLC

MCTexts == {<<"yes">>, <<"no", "more">>}

MCProposals ==
  [r \in Rules |->
     {{}, [behavior : {"allow"}, rule : {r}] \cup [behavior : {"deny"}, rule : Rules \ {r}]}]

MCSymmetry == Permutations(Sessions) \cup Permutations(Calls) \cup Permutations(Replies)
=============================================================================
