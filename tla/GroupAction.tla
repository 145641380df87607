---------------------------- MODULE GroupAction ----------------------------
(***************************************************************************)
(* An action that executes a list of other actions: RepeatListAction and   *)
(* ConditionalAction (src/src/ruleserver.cpp).  The group starts its       *)
(* sub-actions, sleeps, and stays alive until all of them are finished, so *)
(* that a cancellation of the group can be passed on to them.              *)
(***************************************************************************)
EXTENDS ActionThread

CONSTANTS
    Group,        \* the repeat or conditional action
    SubActions,   \* its list of actions
    Count,        \* repetitions of a repeat action
    Overlap       \* FALSE: the group is executed only when its last run and
                  \* every cancellation of it are over

ASSUME GroupConstants ==
    /\ Group \in Actions
    /\ SubActions \in Seq(Actions \ {Group})
    /\ Count \in Nat \ {0}
    /\ Overlap \in BOOLEAN

VARIABLES
    kind,      \* the class of the group, fixed by the configuration
    round,     \* repetitions each run of the group has started
    current    \* the sub-action each run of the group is stopping, or 0

groupVars == <<raised, tid, at, stopping, kind, round, current>>

Rounds == IF kind = "conditional" THEN 1 ELSE Count

Subs == {SubActions[i] : i \in 1..Len(SubActions)}

GroupTypeOK ==
    /\ ThreadTypeOK
    /\ kind \in {"repeat", "conditional"}
    /\ round \in [Runs -> 0..Rounds]
    /\ current \in [Runs -> 0..Len(SubActions)]
    /\ \A k \in Runs : (current[k] # 0) <=> (at[Group][k] = "cancelling")

GroupInit ==
    /\ ThreadInit
    /\ kind \in {"repeat", "conditional"}
    /\ round = [k \in Runs |-> 0]
    /\ current = [k \in Runs |-> 0]

-----------------------------------------------------------------------------
Idle == UNCHANGED <<kind, round, current>>

\* A rule executes the group.  With Overlap = FALSE only at rest.
ExecuteGroup ==
    /\ Overlap \/ \A a \in Actions : Resting(a)
    /\ Start({Group}, at)
    /\ round' = [round EXCEPT ![Free(Group)] = 0]
    /\ UNCHANGED <<stopping, kind, current>>

\* The delay in front of the group.
GroupDelays(k) ==
    /\ at[Group][k] = "new"
    /\ Move(Group, k, Sleep(Group))
    /\ Idle
    /\ UNCHANGED <<raised, tid, stopping>>

\* Between two repetitions the period passes.  (Assumption: the sub-actions
\* are over by then, so that none of them is executed while it runs.)
GroupTimeOut(k) ==
    /\ round[k] \in 1..Rounds - 1 => \A s \in Subs : ~Live(s)
    /\ TimeOut(Group, k)
    /\ Idle

\* The body of the loop of RepeatListAction::Run: no switch between the
\* sub-actions, the first of which runs when the group sleeps.
StartRound(k) ==
    /\ round[k] < Rounds
    /\ round' = [round EXCEPT ![k] = @ + 1]
    /\ Start(Subs, [at EXCEPT ![Group][k] = Sleep(Group)])
    /\ UNCHANGED <<stopping, kind, current>>

Repeat(k) ==
    /\ kind = "repeat"
    /\ at[Group][k] \in {"new", "timedOut"}
    /\ StartRound(k)

\* ConditionalAction::Run: the condition may wait for an object to be read.
EvaluateCondition(k) ==
    /\ kind = "conditional"
    /\ at[Group][k] \in {"new", "timedOut"}
    /\ round[k] = 0
    /\ Move(Group, k, "busy")
    /\ Idle
    /\ UNCHANGED <<raised, tid, stopping>>

ConditionTrue(k) ==
    /\ at[Group][k] = "busy"
    /\ StartRound(k)

\* isFinished() of the sub-actions as tid tells it.
AllFinished == \A s \in Subs : tid[s] = 0

Exit(k, ids, places) ==
    /\ tid' = [ids EXCEPT ![Group] = 0]
    /\ at' = [places EXCEPT ![Group][k] = "gone"]
    /\ current' = [current EXCEPT ![k] = 0]

\* The loop that waits for the sub-actions, entered after the last period or
\* when the condition was false, polls every second.
WaitForSubActions(k) ==
    /\ \/ at[Group][k] = "timedOut" /\ round[k] = Rounds
       \/ at[Group][k] = "busy"
    /\ round' = [round EXCEPT ![k] = Rounds]
    /\ \/ AllFinished /\ Exit(k, tid, at)
       \/ ~AllFinished /\ Move(Group, k, Sleep(Group)) /\ UNCHANGED <<tid, current>>
    /\ UNCHANGED <<raised, stopping, kind>>

\* Mistake: the first sub-action without a thread ends the walk.
NextToStopHasty(i, ids) ==
    IF i < Len(SubActions) /\ ids[SubActions[i + 1]] # 0 THEN i + 1 ELSE 0

\* The first sub-action behind the i-th that has a thread, or 0.
NextToStop(i, ids) ==
    LET todo == {j \in i + 1..Len(SubActions) : ids[SubActions[j]] # 0}
    IN IF todo = {} THEN 0 ELSE CHOOSE j \in todo : \A h \in todo : j <= h

\* Stop on the sub-actions behind the i-th, up to the next one that yields.
CancelFrom(k, i, ids) ==
    LET j == NextToStop(i, ids) IN
    \/ /\ j = 0
       /\ Exit(k, ids, at)
       /\ UNCHANGED raised
    \/ /\ j # 0
       /\ raised' = [raised EXCEPT ![SubActions[j]] = TRUE]
       /\ at' = [at EXCEPT ![Group][k] = "cancelling", ![SubActions[j]] = Wake(SubActions[j])]
       /\ current' = [current EXCEPT ![k] = j]
       /\ tid' = ids

\* A stopped group cancels its sub-actions, if it has started any.
GroupStopped(k) ==
    /\ at[Group][k] = "stopped"
    /\ IF round[k] = 0
       THEN Exit(k, tid, at) /\ UNCHANGED raised
       ELSE CancelFrom(k, 0, tid)
    /\ UNCHANGED <<stopping, kind, round>>

CancelNext(k) ==
    /\ at[Group][k] = "cancelling"
    /\ CancelFrom(k, current[k], [tid EXCEPT ![SubActions[current[k]]] = 0])
    /\ UNCHANGED <<stopping, kind, round>>

GroupRun(k) ==
    \/ GroupDelays(k) \/ GroupTimeOut(k) \/ Repeat(k)
    \/ EvaluateCondition(k) \/ ConditionTrue(k) \/ WaitForSubActions(k)
    \/ GroupStopped(k) \/ CancelNext(k)

StopGroup(c) == (StopBegin(c, Group) \/ StopEnd(c)) /\ Idle

-----------------------------------------------------------------------------
\* As long as a sub-action runs that was not told to stop, the group runs,
\* and can pass a cancellation on to it ("Wait until all actions are finished
\* to be able to cancel them if main action is canceled").
GroupOutlivesSubActions ==
    \A s \in Subs, k \in Runs :
        (Alive(s, k) /\ ~raised[s] /\ at[s][k] # "stopped") => Live(Group)
=============================================================================
