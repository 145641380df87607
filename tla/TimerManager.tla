--------------------------- MODULE TimerManager ---------------------------
(***************************************************************************)
(* The timer queue (class TimerManager) and the timers of the rules        *)
(* (class PeriodicTask) of src/src/timermanager.cpp.  The manager's thread *)
(* looks at the first task of a queue sorted by execution time, fires it   *)
(* or skips it when it is much too late, and has it rescheduled.  Firing   *)
(* evaluates a rule and may block there, while other threads change the    *)
(* queue: a rule is configured or deleted, or an object that holds the     *)
(* date or time of a timer changes.                                        *)
(*                                                                         *)
(* A time specification is the set of its occurrences, as                  *)
(* PeriodicTask::findNext computes them; the objects it reads have values, *)
(* so findNext does not block.  A task Late units late is skipped; Late    *)
(* stands for one minute, so occurrences are multiples of Late.            *)
(***************************************************************************)
EXTENDS Integers, Sequences, FiniteSets, FiniteSetsExt, SequencesExt

CONSTANTS
    Tasks,
    Every,      \* [Tasks -> Int]: after_m, or -1 for a timer with <at>
    During,     \* [Tasks -> Int]: during_m, or -1 for a timer with <until>
    Until,      \* [Tasks -> SUBSET Nat]: occurrences of until_m
    AtChoices,  \* [Tasks -> SUBSET SUBSET Nat]: occurrences at_m may have; more
                \* than one choice means that it depends on an object
    Late,       \* a task so late is skipped
    Horizon,    \* bound: the last time of the clock
    NoTask

ASSUME TimerConstants ==
    /\ NoTask \notin Tasks
    /\ Every \in [Tasks -> Int]
    /\ During \in [Tasks -> Int]
    /\ \A t \in Tasks : Every[t] = -1 \/ (Every[t] > 0 /\ During[t] >= 0)
    /\ \A t \in Tasks : During[t] >= -1
    /\ \A t \in Tasks : Until[t] \subseteq Nat \ {0}
    /\ \A t \in Tasks : AtChoices[t] \subseteq SUBSET (Nat \ {0})
    /\ Late \in Nat \ {0}
    /\ Horizon \in Nat

VARIABLES
    now,        \* time(0)
    taskList,   \* taskList_m
    exec,       \* nextExecTime_m of each task, 0 if there is none
    value,      \* value_m
    at,         \* the occurrences of at_m
    live,       \* the tasks that exist
    firing,     \* the task in its onTimer, or NoTask
    checked,    \* the argument of the checkTaskList in progress
    skipped     \* the tasks that were skipped since they were created

vars == <<now, taskList, exec, value, at, live, firing, checked, skipped>>

TypeOK ==
    /\ now \in 1..Horizon
    /\ taskList \in Seq(Tasks)
    /\ exec \in [Tasks -> Int]
    /\ value \in [Tasks -> BOOLEAN]
    /\ \A t \in Tasks : at[t] \in AtChoices[t]
    /\ live \subseteq Tasks
    /\ firing \in live \cup {NoTask}
    /\ checked \in 0..now
    /\ skipped \subseteq live

Init ==
    /\ now = 1
    /\ taskList = <<>>
    /\ exec = [t \in Tasks |-> 0]
    /\ value = [t \in Tasks |-> FALSE]
    /\ at \in {f \in [Tasks -> UNION {AtChoices[t] : t \in Tasks}] :
                  \A t \in Tasks : f[t] \in AtChoices[t]}
    /\ live = {}
    /\ firing = NoTask
    /\ checked = 0
    /\ skipped = {}

-----------------------------------------------------------------------------
\* PeriodicTask::findNext: the first occurrence after n, or 0.
FindNext(occurrences, n) ==
    LET later == {x \in occurrences : x > n}
    IN IF later = {} THEN 0 ELSE Min(later)

\* TimerManager::addTask behind the tasks of the same time or earlier.
Add(list, t, e) ==
    LET earlier == {i \in 1..Len(list) : \A j \in 1..i : exec[list[j]] <= e}
    IN InsertAt(list, Cardinality(earlier) + 1, t)

\* TimerManager::removeTask of a task that is in the queue once, or is not.
Without(list, t) ==
    IF Contains(list, t) THEN RemoveAt(list, CHOOSE i \in 1..Len(list) : list[i] = t)
                         ELSE list

\* Mistake: a period that runs ends at the next <at>.
NextChangeAtOnly(t, on, occurrences, n) ==
    IF on
    THEN IF During[t] # -1 THEN n + During[t] ELSE FindNext(occurrences, n)
    ELSE IF Every[t] # -1 THEN n + Every[t] ELSE FindNext(occurrences, n)

\* PeriodicTask::reschedule of a task that is on or off: the time of its
\* next change after n.
NextChange(t, on, occurrences, n) ==
    IF on
    THEN IF During[t] # -1 THEN n + During[t] ELSE FindNext(Until[t], n)
    ELSE IF Every[t] # -1 THEN n + Every[t] ELSE FindNext(occurrences, n)

\* Mistake: the end is looked for from now on instead of from its start.
FirstStopFromNow(t, occurrences, n) ==
    CASE During[t] = -1 -> FindNext(Until[t], n)
      [] During[t] # -1 /\ Every[t] = -1 -> FindNext(occurrences, n) + During[t]
      [] During[t] # -1 /\ Every[t] # -1 -> n + During[t]

\* The end of the period a task might be in on its first schedule.
FirstStop(t, occurrences, n) ==
    CASE During[t] = -1 -> FindNext(Until[t], n)
      [] During[t] # -1 /\ Every[t] = -1 ->
            FindNext(occurrences, n - During[t]) + During[t]
      [] During[t] # -1 /\ Every[t] # -1 -> n + During[t]

\* PeriodicTask::reschedule(n) with the task outside the queue, `list'.  The
\* first schedule guesses whether the task is on.
Reschedule(t, list, occurrences, n) ==
    LET first == exec[t] = 0 /\ During[t] # 0
        start == NextChange(t, FALSE, occurrences, n)
        stop  == FirstStop(t, occurrences, n)
        on    == IF first THEN stop < start ELSE value[t]
        next  == IF first
                 THEN IF on THEN stop ELSE start
                 ELSE NextChange(t, on, occurrences, n)
    IN /\ value' = [value EXCEPT ![t] = on]
       /\ exec' = [exec EXCEPT ![t] = next]
       /\ taskList' = IF next # 0 THEN Add(list, t, next) ELSE list

-----------------------------------------------------------------------------
\* TimerCondition::importXml
Create(t) ==
    /\ t \notin live
    /\ live' = live \cup {t}
    /\ Reschedule(t, taskList, at[t], now)
    /\ UNCHANGED <<now, at, firing, checked, skipped>>

\* PeriodicTask::~PeriodicTask, not while the rule is being evaluated.
Delete(t) ==
    /\ t \in live
    /\ firing # t
    /\ live' = live \ {t}
    /\ taskList' = Without(taskList, t)
    /\ exec' = [exec EXCEPT ![t] = 0]
    /\ value' = [value EXCEPT ![t] = FALSE]
    /\ skipped' = skipped \ {t}
    /\ UNCHANGED <<now, at, firing, checked>>

\* PeriodicTask::onChange of a timer that depends on an object.
ObjectChanges(t) ==
    /\ t \in live
    /\ \E occurrences \in AtChoices[t] \ {at[t]} :
          /\ at' = [at EXCEPT ![t] = occurrences]
          /\ Reschedule(t, Without(taskList, t), occurrences, now)
    /\ UNCHANGED <<now, live, firing, checked, skipped>>

\* checkTaskList calls onTimer of the first task, whose listener may block.
Fire ==
    /\ firing = NoTask
    /\ taskList # <<>>
    /\ LET t == Head(taskList) IN
          /\ exec[t] <= now
          /\ exec[t] > now - Late
          /\ firing' = t
          /\ value' = [value EXCEPT ![t] = ~@]
    /\ checked' = now
    /\ UNCHANGED <<now, taskList, exec, at, live, skipped>>

\* A timer without duration goes off at once and calls its listener again.
Pulses(t) == During[t] = 0 /\ value[t]

Pulse ==
    /\ firing # NoTask
    /\ Pulses(firing)
    /\ value' = [value EXCEPT ![firing] = FALSE]
    /\ UNCHANGED <<now, taskList, exec, at, live, firing, checked, skipped>>

\* Mistake: the front is popped whatever it is by now.
FireEndBlindly ==
    /\ firing # NoTask
    /\ ~Pulses(firing)
    /\ IF taskList # <<>>
       THEN Reschedule(firing, Tail(taskList), at[firing], checked)
       ELSE UNCHANGED <<taskList, exec, value>>
    /\ firing' = NoTask
    /\ checked' = 0
    /\ UNCHANGED <<now, at, live, skipped>>

\* onTimer has returned: the task is rescheduled if it is in front still.
\* (On a queue emptied meanwhile the code compares with the list's sentinel,
\* which is no task.)
FireEnd ==
    /\ firing # NoTask
    /\ ~Pulses(firing)
    /\ IF taskList # <<>> /\ Head(taskList) = firing
       THEN Reschedule(firing, Tail(taskList), at[firing], checked)
       ELSE UNCHANGED <<taskList, exec, value>>
    /\ firing' = NoTask
    /\ checked' = 0
    /\ UNCHANGED <<now, at, live, skipped>>

\* "TimerTask skipped due to clock skew or heavy load"
Skip ==
    /\ firing = NoTask
    /\ taskList # <<>>
    /\ LET t == Head(taskList) IN
          /\ exec[t] <= now - Late
          /\ Reschedule(t, Tail(taskList), at[t], now)
          /\ skipped' = skipped \cup {t}
    /\ UNCHANGED <<now, at, live, firing, checked>>

Tick ==
    /\ now < Horizon
    /\ now' = now + 1
    /\ UNCHANGED <<taskList, exec, value, at, live, firing, checked, skipped>>

Next ==
    \/ \E t \in Tasks : Create(t) \/ Delete(t) \/ ObjectChanges(t)
    \/ Fire \/ Pulse \/ FireEnd \/ Skip
    \/ Tick

Spec == Init /\ [][Next]_vars

-----------------------------------------------------------------------------
Queued(t) == \E i \in 1..Len(taskList) : taskList[i] = t

Sorted ==
    \A i, j \in 1..Len(taskList) :
        i < j => exec[taskList[i]] <= exec[taskList[j]] /\ taskList[i] # taskList[j]

\* A timer that is off never sleeps over the next occurrence of its <at>.
WakesForNextOccurrence ==
    \A t \in live \ {firing} :
        (Every[t] = -1 /\ ~value[t] /\ FindNext(at[t], now) # 0)
            => (exec[t] # 0 /\ exec[t] <= FindNext(at[t], now))

\* The queue is sorted, holds every task that has a time exactly once and no
\* other, and every task that has to wake has a time: whatever happened to it
\* while a task was firing (checkTaskList compares the front with the task it
\* fired before it pops it) or when it was late (it is skipped).
QueueSound ==
    /\ Sorted
    /\ \A t \in Tasks : Queued(t) <=> (t \in live /\ exec[t] # 0)
    /\ WakesForNextOccurrence

\* The period a timer with <at> describes: from an occurrence up to the
\* end of its duration or its next <until>.
InPeriod(t, n) ==
    \E a \in at[t] :
        /\ a <= n
        /\ IF During[t] = -1 THEN ~\E u \in Until[t] : a < u /\ u <= n
                             ELSE n < a + During[t]

Settled ==
    /\ firing = NoTask
    /\ \A i \in 1..Len(taskList) : exec[taskList[i]] > now

\* Whenever no task is due, a timer with <at> and <until> is on exactly during
\* its periods, unless the manager was late by a minute and skipped it.
FollowsSchedule ==
    Settled => \A t \in live \ skipped :
        (Every[t] = -1 /\ During[t] = -1) => (value[t] = InPeriod(t, now))

\* A timer that begins inside one of its periods begins switched on ("first
\* schedule. check if value must be on or off", PeriodicTask::reschedule).
FirstScheduleRight ==
    [][\A t \in Tasks :
          (Create(t) /\ Every[t] = -1 /\ During[t] # 0) => (value'[t] = InPeriod(t, now))]_vars
=============================================================================
