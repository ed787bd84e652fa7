-------------------------------- MODULE MCRelay --------------------------------
(***************************************************************************)
(* Relay on a small instance: an installation that reconnects, one more    *)
(* that competes for its Binding, webhooks that outnumber the outbox.      *)
(***************************************************************************)
EXTENDS Relay
=============================================================================
