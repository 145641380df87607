--------------------------- MODULE ActionThread ---------------------------
(***************************************************************************)
(* The threads that run actions: class Action (src/src/ruleserver.h) on    *)
(* class Thread (src/src/threads.cpp).  Every execution of an action       *)
(* spawns a detached Pth thread, here a run; all runs of one action share  *)
(* the members should_stop and tid.                                        *)
(*                                                                         *)
(* A run works in steps and sleeps in between, in Action::sleep, which     *)
(* waits for a timeout or for should_stop.  The Pth scheduler looks at     *)
(* these events at every switch: raising the semaphore yields, so every    *)
(* run asleep at that moment is found stopped, while a run blocked in a    *)
(* call of its own notices at its next sleep.                              *)
(*                                                                         *)
(* What a run works on is left to the modules that extend this one.        *)
(***************************************************************************)
EXTENDS Naturals, Sequences, FiniteSets

CONSTANTS
    Actions,
    Cancellers, \* threads that cancel actions
    MaxRuns     \* bound: live runs of one action

ASSUME ActionThreadConstants == MaxRuns \in Nat \ {0}

VARIABLES
    raised,     \* should_stop of an action is positive
    tid,        \* the run an action remembers, or 0
    at,         \* what each run of an action is doing
    stopping    \* the actions a caller is inside Thread::Stop of: none or one

threadVars == <<raised, tid, at, stopping>>

Runs == 1..MaxRuns

\* new: not yet dispatched; timedOut and stopped: how its sleep ended; busy:
\* working, in a call that may block; cancelling: inside Stop of a sub-action.
Places == {"gone", "new", "asleep", "timedOut", "stopped", "busy", "cancelling"}

Alive(a, k) == at[a][k] # "gone"
Live(a) == \E k \in Runs : Alive(a, k)

ThreadTypeOK ==
    /\ raised \in [Actions -> BOOLEAN]
    /\ tid \in [Actions -> {0} \cup Runs]
    /\ at \in [Actions -> [Runs -> Places]]
    /\ stopping \in [Cancellers -> SUBSET Actions]
    /\ \A a \in Actions, k \in Runs : at[a][k] = "asleep" => ~raised[a]

ThreadInit ==
    /\ raised = [a \in Actions |-> FALSE]
    /\ tid = [a \in Actions |-> 0]
    /\ at = [a \in Actions |-> [k \in Runs |-> "gone"]]
    /\ stopping = [c \in Cancellers |-> {}]

-----------------------------------------------------------------------------
HasFree(a) == \E k \in Runs : ~Alive(a, k)
Free(a) == CHOOSE k \in Runs : ~Alive(a, k) /\ \A j \in 1..k - 1 : Alive(a, j)

\* Thread::Start(true) of every action in as, with all runs at `places':
\* a running thread is neither waited for nor stopped, since it is detached.
Start(as, places) ==
    /\ \A a \in as : HasFree(a)
    /\ raised' = [a \in Actions |-> raised[a] /\ a \notin as]
    /\ tid' = [a \in Actions |-> IF a \in as THEN Free(a) ELSE tid[a]]
    /\ at' = [a \in Actions |-> IF a \in as THEN [places[a] EXCEPT ![Free(a)] = "new"]
                                            ELSE places[a]]

Resting(a) == ~Live(a) /\ \A c \in Cancellers : a \notin stopping[c]

\* The runs of an action after its semaphore was raised.
Wake(a) == [k \in Runs |-> IF at[a][k] = "asleep" THEN "stopped" ELSE at[a][k]]

\* Action::cancel, that is Thread::Stop: raising the semaphore yields.
StopBegin(c, a) ==
    /\ stopping[c] = {}
    /\ tid[a] # 0
    /\ raised' = [raised EXCEPT ![a] = TRUE]
    /\ at' = [at EXCEPT ![a] = Wake(a)]
    /\ stopping' = [stopping EXCEPT ![c] = {a}]
    /\ UNCHANGED tid

\* The rest of Thread::Stop forgets the thread, whichever it now is.
StopEnd(c) ==
    /\ stopping[c] # {}
    /\ tid' = [a \in Actions |-> IF a \in stopping[c] THEN 0 ELSE tid[a]]
    /\ stopping' = [stopping EXCEPT ![c] = {}]
    /\ UNCHANGED <<raised, at>>

Move(a, k, to) == at' = [at EXCEPT ![a][k] = to]

\* How Action::sleep finds the semaphore at the first scheduling.
Sleep(a) == IF raised[a] THEN "stopped" ELSE "asleep"

\* A run sleeps: for the delay of the action first, then between its steps.
RunSleeps(a, k) ==
    /\ at[a][k] \in {"new", "busy"}
    /\ Move(a, k, Sleep(a))
    /\ UNCHANGED <<raised, tid, stopping>>

TimeOut(a, k) ==
    /\ at[a][k] = "asleep"
    /\ Move(a, k, "timedOut")
    /\ UNCHANGED <<raised, tid, stopping>>

\* A step of the action proper; a delay below 10 ms does not even yield.
RunWorks(a, k) ==
    /\ at[a][k] \in {"new", "timedOut"}
    /\ Move(a, k, "busy")
    /\ UNCHANGED <<raised, tid, stopping>>

\* Action::Run returns to ThreadWrapper, which clears tid, whoever set it.
RunExits(a, k) ==
    /\ at[a][k] \in {"stopped", "timedOut", "busy"}
    /\ Move(a, k, "gone")
    /\ tid' = [tid EXCEPT ![a] = 0]
    /\ UNCHANGED <<raised, stopping>>

=============================================================================
