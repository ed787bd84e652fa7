------------------------------ MODULE MCDeliveries ------------------------------
(***************************************************************************)
(* Deliveries on small instances, one per .cfg file.                       *)
(***************************************************************************)
EXTENDS Deliveries
=============================================================================
