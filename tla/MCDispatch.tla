---------------------------- MODULE MCDispatch ----------------------------
(***************************************************************************)
(* Instances of module Dispatch: two objects and three rules.              *)
(***************************************************************************)
EXTENDS Dispatch, TLC

CONSTANTS a, b, both, either, rise

\* A client listens to object a in front of the rules.
PairListeners == (a :> <<Client, both, either, rise>>) @@ (b :> <<both, Client, either, rise>>)
PairOperator  == (both :> "and") @@ (either :> "or") @@ (rise :> "threshold")
PairOperands  == (both :> <<a, b>>) @@ (either :> <<a, b>>) @@ (rise :> <<a, b>>)
PairDeltas    == (both :> {}) @@ (either :> {}) @@ (rise :> {"up"})

\* All objects are known, or only the second one.
AllButFirst == {{a, b}, {b}}
=============================================================================
