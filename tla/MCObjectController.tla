------------------------ MODULE MCObjectController ------------------------
(***************************************************************************)
(* Model checking of the object registry.                                  *)
(***************************************************************************)
EXTENDS ObjectController, TLC

Symmetric == Permutations(Objects) \cup Permutations(Clients) \cup Permutations(Addresses)
=============================================================================
