------------------------------- MODULE MCGateway -------------------------------
(***************************************************************************)
(* Gateway on a small instance: two RelayClients that replace each other   *)
(* at the Relay, Bindings that come and go, and faults at any point.       *)
(***************************************************************************)
EXTENDS Gateway
=============================================================================
