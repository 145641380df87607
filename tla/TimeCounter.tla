----------------------------- MODULE TimeCounter -----------------------------
(***************************************************************************)
(* A rule whose condition is a time counter over an object (class          *)
(* TimeCounterCondition, src/src/ruleserver.cpp), with the clock and the   *)
(* thread of the timer manager that evaluates the rule again when the      *)
(* counter is due (src/src/timermanager.cpp).                              *)
(*                                                                         *)
(* The object triggers the rule, but tells its other listeners first, and  *)
(* these may block for any time.  Before its first value is known, an      *)
(* evaluation waits inside the condition, and takes the time before it     *)
(* waits.  The timer manager polls its list: every second, or, when it     *)
(* found the list empty, after a longer time, whatever is added meanwhile. *)
(***************************************************************************)
EXTENDS Integers

CONSTANTS
    Callers,      \* calls into the rule that can wait together
    Threshold,    \* threshold_m
    ResetDelay,   \* resetDelay_m
    ReadLimit,    \* seconds that an evaluation waits at most, 1 in the code
    Long,         \* seconds until the list is looked at again, 10 in the code
    MaxTells,     \* bound: changes the rule has not been told of
    MaxTime       \* bound: seconds

ASSUME TimeCounterConstants ==
    /\ {Threshold, ResetDelay, ReadLimit, Long, MaxTells, MaxTime} \subseteq Nat
    /\ Threshold > 0 /\ Long > 0

\* A read waits a second.
ASSUME ShortReads == ReadLimit <= 1

VARIABLES
    clock,
    on, known,    \* the object: what is inside the counter, and init_m
    tells,        \* changes whose listeners are told, the rule not yet
    since,        \* when it was last switched, became known or told the rule
    start,        \* the time an evaluation that waits has taken, or 0
    counter, lastTime, lastVal, execTime,
    queued,       \* the condition is in taskList_m
    busy,         \* and there is a task of somebody else, that is never due
    wake,         \* when the timer manager looks at its list
    prev,         \* prevValue_m of the rule
    trueTime,     \* history: seconds since the last reset in which the object
                  \* was on or the rule not told of a change
    waited        \* history: seconds waited by the evaluations since then that
                  \* found the object changed

vars == <<clock, on, known, tells, since, start, counter, lastTime, lastVal, execTime,
          queued, busy, wake, prev, trueTime, waited>>

Object == <<on, known, tells, since>>

TypeOK ==
    /\ clock \in 1..MaxTime
    /\ {on, known, lastVal, queued, busy, prev} \subseteq BOOLEAN
    /\ tells \in 0..MaxTells
    /\ since \in 0..clock
    /\ start \in [Callers -> 0..clock]
    /\ lastTime \in 0..clock
    /\ execTime \in 0..(MaxTime + Threshold + ResetDelay + 2)
    /\ counter \in -waited..MaxTime
    /\ trueTime \in 0..MaxTime
    /\ waited \in Nat
    /\ wake \in 1..(clock + Long)
    /\ lastVal => known

Init ==
    /\ clock = 1
    /\ on = FALSE /\ known = FALSE /\ tells = 0 /\ since = 0
    /\ start = [c \in Callers |-> 0]
    /\ counter = 0 /\ lastTime = 0 /\ lastVal = FALSE /\ execTime = 0
    /\ queued = FALSE
    /\ busy \in BOOLEAN
    /\ wake = 1
    /\ prev = FALSE
    /\ trueTime = 0 /\ waited = 0

-----------------------------------------------------------------------------
\* TimeCounterCondition::evaluate

\* Mistake: the time since the last evaluation counts whatever it found.
CountedAnyway(now) ==
    IF counter < Threshold /\ lastTime > 0 THEN counter + (now - lastTime) ELSE counter

\* The counter, with the time since the last evaluation if that found the
\* object on.
Counted(now) ==
    IF lastVal /\ counter < Threshold THEN counter + (now - lastTime) ELSE counter

\* Mistake: the time is that of the last evaluation.
NextExecBefore(now, val) ==
    IF val THEN lastTime + (Threshold - Counted(now)) + 1 ELSE lastTime + ResetDelay + 1

\* When the rule is to be evaluated again.
NextExec(now, val) ==
    IF val THEN now + (Threshold - Counted(now)) + 1 ELSE now + ResetDelay + 1

\* Mistake: an object that is switched off is not looked at again.
RescheduledOn(now, val) == val /\ Counted(now) < Threshold

Rescheduled(now, val) == IF val THEN Counted(now) < Threshold ELSE lastVal

\* The counter is reset.
Expired(now, val) ==
    IF val \/ lastVal THEN FALSE ELSE lastTime = 0 \/ now - lastTime > ResetDelay

\* The rule is evaluated, with the time taken at first and the value found at
\* last, and its task moves: FixedTimeTask::reschedule adds it unless it is
\* due already.
Evaluate(now, val) ==
    /\ lastTime' = IF val \/ lastVal THEN now ELSE IF Expired(now, val) THEN 0 ELSE lastTime
    /\ lastVal' = val
    /\ counter' = IF Expired(now, val) THEN 0 ELSE Counted(now)
    /\ trueTime' = IF Expired(now, val) THEN 0 ELSE trueTime
    /\ waited' = IF Expired(now, val) THEN 0
                 ELSE IF val = lastVal THEN waited ELSE waited + (clock - now)
    /\ prev' = (~Expired(now, val) /\ Counted(now) >= Threshold)
    /\ execTime' = IF Rescheduled(now, val) THEN NextExec(now, val) ELSE execTime

\* removeTask, and reschedule at the present time.
Requeued(now, val) ==
    IF Rescheduled(now, val) THEN NextExec(now, val) > clock ELSE queued

-----------------------------------------------------------------------------
\* A telegram switches the object, or brings its first value; its listeners
\* are told one by one.
Switch(v) ==
    /\ v # on \/ ~known
    /\ tells < MaxTells
    /\ on' = v /\ known' = TRUE /\ since' = clock
    /\ tells' = tells + 1
    /\ UNCHANGED <<clock, start, counter, lastTime, lastVal, execTime, queued, busy,
                   wake, prev, trueTime, waited>>

\* It is the rule's turn, which finds the object as it is now.
Tell ==
    /\ tells > 0
    /\ tells' = tells - 1 /\ since' = clock
    /\ Evaluate(clock, on)
    /\ queued' = Requeued(clock, on)
    /\ UNCHANGED <<clock, on, known, start, busy, wake>>

\* The rule is evaluated for another reason: RuleServer::initialize, or
\* another trigger of the rule.
EvaluateAtOnce ==
    /\ known
    /\ Evaluate(clock, on)
    /\ queued' = Requeued(clock, on)
    /\ UNCHANGED <<clock, Object, start, busy, wake>>

\* The evaluation waits in Object::get.
EvaluateBegin(c) ==
    /\ ~known
    /\ start[c] = 0
    /\ start' = [start EXCEPT ![c] = clock]
    /\ UNCHANGED <<clock, Object, counter, lastTime, lastVal, execTime, queued, busy,
                   wake, prev, trueTime, waited>>

\* There is an answer, or there is none in time.
EvaluateEnd(c) ==
    /\ start[c] # 0
    /\ known' = TRUE
    /\ since' = IF known THEN since ELSE clock
    /\ Evaluate(start[c], on)
    /\ queued' = Requeued(start[c], on)
    /\ start' = [start EXCEPT ![c] = 0]
    /\ UNCHANGED <<clock, on, tells, busy, wake>>

-----------------------------------------------------------------------------
\* TimerManager::Run: what checkTaskList does with the list.

Due == queued /\ execTime <= clock

\* How long the thread sleeps if nothing is due.
Sleeps == IF queued \/ busy THEN 1 ELSE Long

Poll ==
    /\ wake <= clock
    /\ ~Due
    /\ wake' = clock + Sleeps
    /\ UNCHANGED <<clock, Object, start, counter, lastTime, lastVal, execTime, queued,
                   busy, prev, trueTime, waited>>

\* onTimer evaluates the rule; the task is first in the list again, or still,
\* is taken out, and rescheduled.
Fire ==
    /\ wake <= clock
    /\ Due
    /\ Evaluate(clock, on)
    /\ queued' = (execTime' > clock)
    /\ wake' = clock
    /\ UNCHANGED <<clock, Object, start, busy>>

\* The timer manager is not late, and a read ends in time.
Tick ==
    /\ clock < MaxTime
    /\ wake > clock
    /\ \A c \in Callers : start[c] = 0 \/ clock < start[c] + ReadLimit
    /\ clock' = clock + 1
    /\ trueTime' = IF known /\ (on \/ tells > 0) THEN trueTime + 1 ELSE trueTime
    /\ UNCHANGED <<Object, start, counter, lastTime, lastVal, execTime, queued, busy,
                   wake, prev, waited>>

Next ==
    \/ \E v \in BOOLEAN : Switch(v)
    \/ Tell
    \/ EvaluateAtOnce
    \/ \E c \in Callers : EvaluateBegin(c) \/ EvaluateEnd(c)
    \/ Poll
    \/ Fire
    \/ Tick

Spec == Init /\ [][Next]_vars

-----------------------------------------------------------------------------
\* How late the timer manager may be.
Late == IF busy THEN 1 ELSE Long

\* The rule becomes true only after the object was on for the threshold since
\* the counter was reset, but for the time in which the rule was not told that
\* it changed, and for what an evaluation that found it changed has waited.
\* Other evaluations take an earlier time than the ones they overtook, too: the
\* differences they add up cancel out.
NeverEarly == prev => trueTime + waited >= Threshold

\* While the object stays on, and the rule was told, the rule becomes true in
\* time: the counter asks to be evaluated again whenever it is not there yet.
\* While it stays off, the counter is reset in time.  Without a reset delay, an
\* evaluation that waited finds it due already: it is not put in the list, and
\* is reset by the next evaluation, whenever that is.
InTime ==
    known /\ tells = 0 =>
        /\ on /\ clock > since + Threshold + 1 + Late + waited => prev
        /\ ~on /\ (ResetDelay > 0 \/ waited = 0) /\ clock > since + ResetDelay + 1 + Late =>
              ~prev /\ counter = 0

\* A counter that has to be looked at again is in the list of the timer
\* manager, whoever evaluated the rule last and however long that took: but for
\* the one case without a reset delay.
Pending ==
    /\ lastVal /\ counter < Threshold => queued
    /\ ~lastVal /\ lastTime > 0 /\ (ResetDelay > 0 \/ waited = 0) => queued

=============================================================================
