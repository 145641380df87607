----------------------------- MODULE MCActions -----------------------------
(***************************************************************************)
(* Model checking of a group with two sub-actions of all classes.          *)
(***************************************************************************)
EXTENDS Actions, TLC

CONSTANTS g, s1, s2

TwoSubActions == <<s1, s2>>

Pair(c, d) == s1 :> c @@ s2 :> d

\* Pairs in which one sub-action disturbs the other, and the rest.
AllPlans ==
    {Pair("dim-up", d) : d \in {"cycle-on-off", "toggle-value", "cancel", "set-value"}}
    \cup {Pair("copy-value", "shell-cmd"), Pair("set-string", "send-sms"),
          Pair("formula", "send-email")}

SomeDims ==
    {[start |-> 1, stop |-> 5, duration |-> 1000],
     [start |-> 5, stop |-> 0, duration |-> 2000],
     [start |-> 3, stop |-> 3, duration |-> 1000]}
=============================================================================
