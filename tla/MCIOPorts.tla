----------------------------- MODULE MCIOPorts -----------------------------
(***************************************************************************)
(* Model checking of IO ports of every kind.                               *)
(***************************************************************************)
EXTENDS IOPorts, TLC
=============================================================================
