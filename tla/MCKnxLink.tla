----------------------------- MODULE MCKnxLink -----------------------------
(***************************************************************************)
(* Model checking of the connection to the bus.                             *)
(***************************************************************************)
EXTENDS KnxLink, TLC
=============================================================================
