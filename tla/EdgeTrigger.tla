---------------------------- MODULE EdgeTrigger ----------------------------
(***************************************************************************)
(* What an automation rule promises to its user.  A rule watches the truth *)
(* value of its condition.  Every sample of the condition runs the         *)
(* stateless list of that value; the stateful list runs exactly when the   *)
(* sample differs from the level the rule remembers, and from then on the  *)
(* rule remembers the sampled level.  The level may also be reset (rule    *)
(* initialisation), which never counts as an edge, and the lists of one    *)
(* value may be forced from outside, which leaves the level alone.         *)
(***************************************************************************)
VARIABLES
    level,   \* the remembered truth value of the condition
    ran      \* what the last step started: [by |-> cause, lists |-> action lists]

Stateless(b) == IF b THEN "IfTrue" ELSE "IfFalse"
Stateful(b)  == IF b THEN "OnTrue" ELSE "OnFalse"

Nothing == [by |-> "nobody", lists |-> {}]

Init == level = FALSE /\ ran = Nothing

Sample(b) ==
    /\ level' = b
    /\ ran' = [by    |-> "evaluate",
               lists |-> {Stateless(b)} \cup {Stateful(c) : c \in {b} \ {level}}]

Reset(b) ==
    /\ level' = b
    /\ ran' \in {Nothing, [by |-> "initialize", lists |-> {Stateless(b)}]}

Force(b) ==
    /\ ran' = [by |-> "command", lists |-> {Stateful(b), Stateless(b)}]
    /\ UNCHANGED level

Quiet ==
    /\ ran' = Nothing
    /\ UNCHANGED level

Next ==
    \/ Quiet
    \/ \E b \in BOOLEAN : Sample(b) \/ Reset(b) \/ Force(b)

Spec == Init /\ [][Next]_<<level, ran>>
=============================================================================
