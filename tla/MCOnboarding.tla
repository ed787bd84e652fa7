------------------------------- MODULE MCOnboarding -------------------------------
(***************************************************************************)
(* Onboarding on a small instance: a process sets up and enrolls, another  *)
(* removes and deletes beside it, a daemon renews the tokens of one of two *)
(* connectors.                                                             *)
(***************************************************************************)
EXTENDS Onboarding

CONSTANTS setting, removing, b1, b2

MCClis == {setting, removing}
MCCommandsOf ==
  [p \in MCClis |-> IF p = setting THEN {"init", "complete", "use"} ELSE {"remove", "delete"}]
MCConnectorOf == [id \in {b1, b2} |-> IF id = b1 THEN "slack" ELSE "linear"]
=============================================================================
