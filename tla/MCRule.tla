------------------------------ MODULE MCRule ------------------------------
(***************************************************************************)
(* Model checking of one rule and of its action lists: when module Rule    *)
(* executes a list does not depend on what becomes of its actions, and     *)
(* module RuleLists allows a list to be executed at any time.  Their       *)
(* states are explored side by side, one part in each behaviour.  No       *)
(* symmetry among the callers, since liveness is checked.                  *)
(***************************************************************************)
EXTENDS Rule, RuleLists, TLC

CONSTANTS a1, a2

TwoLists == "OnTrue" :> <<a1>> @@ "IfTrue" :> <<>> @@ "OnFalse" :> <<>> @@ "IfFalse" :> <<a2>>

VARIABLE part    \* the part of the rule that moves

RuleStep == part = "rule" /\ Next /\ UNCHANGED listVars
ListStep == part = "lists" /\ ListsNext /\ UNCHANGED vars

BothInit == part \in {"rule", "lists"} /\ Init /\ ListsInit
BothNext == (RuleStep \/ ListStep) /\ UNCHANGED part

BothSpec ==
    /\ BothInit
    /\ [][BothNext]_<<part, vars, listVars>>
    /\ WF_vars(part = "rule" /\ RunInitializer /\ UNCHANGED <<part, listVars>>)
    /\ \A a \in Activations :
          WF_vars(part = "rule" /\ Finish(a) /\ UNCHANGED <<part, listVars>>)
=============================================================================
