------------------------- MODULE TimeCounterProofs -------------------------
(***************************************************************************)
(* A time counter that has to be looked at again is always in the list of  *)
(* the timer manager, but for one case without a reset delay; its rule     *)
(* becomes true no sooner than the object was on, or the rule not told of  *)
(* a change, for the threshold, and no later than the timer manager may be *)
(* late; for any number of evaluations that wait, thresholds and delays.   *)
(***************************************************************************)
EXTENDS TimeCounter, TLAPS

\* The types, without the bounds that only a finite instance has.
Types ==
    /\ clock \in Nat \ {0}
    /\ on \in BOOLEAN /\ lastVal \in BOOLEAN /\ queued \in BOOLEAN
    /\ start \in [Callers -> Nat]
    /\ counter \in Int /\ execTime \in Int
    /\ lastTime \in Nat /\ waited \in Nat

\* An evaluation that waits has not waited for longer than a read takes.
Waits == \A c \in Callers : start[c] # 0 => start[c] <= clock /\ clock <= start[c] + ReadLimit

\* While the reset is awaited, the counter is due when it may be reset, not
\* before: an evaluation that finds it due resets it.
DueForReset == ~lastVal /\ lastTime > 0 => execTime = lastTime + ResetDelay + 1

IInv == Types /\ Waits /\ DueForReset /\ Pending

-----------------------------------------------------------------------------
\* A rule that was just configured: the counter is at rest, nobody waits.
LEMMA Initially == Init => IInv
<1>. SUFFICES ASSUME Init PROVE IInv
  OBVIOUS
<1>1. Types
  <2>1. on \in BOOLEAN /\ lastVal \in BOOLEAN /\ queued \in BOOLEAN
    BY Zenon DEF Init
  <2>2. clock \in Nat \ {0} /\ start \in [Callers -> Nat]
    BY DEF Init
  <2>3. counter \in Int /\ execTime \in Int /\ lastTime \in Nat /\ waited \in Nat
    BY DEF Init
  <2>. QED
    BY <2>1, <2>2, <2>3 DEF Types
<1>2. Waits
  BY DEF Init, Waits
<1>3. DueForReset /\ Pending
  BY DEF Init, DueForReset, Pending
<1>. QED
  BY <1>1, <1>2, <1>3 DEF IInv

\* An evaluation keeps the types of what it changes, whatever it found.
LEMMA EvaluateTypes ==
    ASSUME Types, NEW now \in Nat \ {0}, NEW val \in BOOLEAN, Evaluate(now, val),
           now <= clock
    PROVE  /\ counter' \in Int /\ execTime' \in Int
           /\ lastTime' \in Nat /\ waited' \in Nat
           /\ lastVal' \in BOOLEAN
<1>1. Counted(now) \in Int
  BY DEF Types, Counted
<1>2. NextExec(now, val) \in Int
  BY <1>1, TimeCounterConstants DEF Types, NextExec
<1>3. waited' \in Nat
  <2>. clock - now \in Nat
    BY DEF Types
  <2>. QED
    BY DEF Types, Evaluate
<1>. QED
  BY <1>1, <1>2, <1>3 DEF Types, Evaluate

\* Whether the task is in the list after an evaluation is a Boolean.
LEMMA RequeuedType ==
    ASSUME Types, NEW now, NEW val
    PROVE  Requeued(now, val) \in BOOLEAN
<1>1. CASE Rescheduled(now, val)
  BY <1>1 DEF Requeued
<1>2. CASE ~Rescheduled(now, val)
  BY <1>2 DEF Requeued, Types
<1>. QED
  BY <1>1, <1>2

\* After an evaluation, the counter is due when it may be reset.
LEMMA EvaluateDue ==
    ASSUME Types, DueForReset, NEW now \in Nat \ {0}, NEW val \in BOOLEAN, Evaluate(now, val)
    PROVE  DueForReset'
<1>. lastVal' = val
  BY DEF Evaluate
<1>1. CASE val
  BY <1>1 DEF DueForReset
<1>2. CASE ~val /\ lastVal
  <2>. lastTime' = now /\ execTime' = now + ResetDelay + 1
    BY <1>2 DEF Evaluate, Rescheduled, NextExec
  <2>. QED
    BY DEF DueForReset
<1>3. CASE ~val /\ ~lastVal
  <2>. execTime' = execTime /\ lastTime' \in {0, lastTime}
    BY <1>3 DEF Evaluate, Rescheduled
  <2>. QED
    BY <1>3 DEF DueForReset
<1>. QED
  BY <1>1, <1>2, <1>3

\* After an evaluation whose task moves, whatever time it was made for within
\* the limit of a read, the counter is in the list if it has to be.
LEMMA EvaluatePending ==
    ASSUME Types, Pending, NEW now \in Nat \ {0}, NEW val \in BOOLEAN, Evaluate(now, val),
           now <= clock, clock <= now + ReadLimit,
           queued' = Requeued(now, val)
    PROVE  Pending'
<1>. lastVal' = val
  BY DEF Evaluate
<1>. Counted(now) \in Int
  BY DEF Types, Counted
<1>1. CASE val /\ Counted(now) < Threshold
  <2>. NextExec(now, val) > clock
    BY <1>1, TimeCounterConstants, ShortReads DEF Types, NextExec
  <2>. QED
    BY <1>1 DEF Requeued, Rescheduled, Pending
<1>2. CASE val /\ ~(Counted(now) < Threshold)
  <2>. counter' = Counted(now)
    BY <1>2 DEF Evaluate, Expired
  <2>. QED
    BY <1>2 DEF Pending
<1>3. CASE ~val /\ lastVal
  <2>. waited' = waited + (clock - now)
    BY <1>3 DEF Evaluate, Expired
  <2>. ResetDelay > 0 \/ waited' = 0 => NextExec(now, val) > clock
    BY <1>3, TimeCounterConstants, ShortReads DEF Types, NextExec
  <2>. QED
    BY <1>3 DEF Requeued, Rescheduled, Pending
<1>4. CASE ~val /\ ~lastVal
  <2>1. lastTime' \in {0, lastTime} /\ queued' = queued
    BY <1>4 DEF Evaluate, Requeued, Rescheduled
  <2>2. lastTime' = 0 \/ waited' = waited
    <3>1. val = lastVal
      BY <1>4 DEF Types
    <3>. QED
      BY <1>4, <3>1 DEF Evaluate
  <2>. QED
    BY <1>4, <2>1, <2>2 DEF Pending
<1>. QED
  BY <1>1, <1>2, <1>3, <1>4

\* The same for the evaluation by the timer manager: it takes a counter out of
\* the list that is reset or has got to its threshold, and no other.
LEMMA FirePending ==
    ASSUME Types, DueForReset, Pending, Fire
    PROVE  Pending'
<1>. /\ Evaluate(clock, on)
     /\ execTime <= clock
     /\ queued' = (execTime' > clock)
  BY DEF Fire, Due
<1>. /\ lastVal' = on
     /\ Counted(clock) \in Int
  BY DEF Evaluate, Types, Counted
<1>1. CASE Rescheduled(clock, on)
  <2>. execTime' = NextExec(clock, on)
    BY <1>1 DEF Evaluate
  <2>. NextExec(clock, on) > clock
    BY <1>1, TimeCounterConstants DEF Types, NextExec, Rescheduled
  <2>. QED
    BY DEF Pending
<1>2. CASE on /\ ~Rescheduled(clock, on)
  <2>. counter' = Counted(clock) /\ ~(Counted(clock) < Threshold)
    BY <1>2 DEF Evaluate, Expired, Rescheduled
  <2>. QED
    BY <1>2 DEF Pending
<1>3. CASE ~on /\ ~Rescheduled(clock, on)
  <2>1. ~lastVal
    BY <1>3 DEF Rescheduled
  <2>2. Expired(clock, on)
    BY <1>3, <2>1, TimeCounterConstants DEF Types, DueForReset, Expired
  <2>3. lastTime' = 0
    BY <1>3, <2>1, <2>2 DEF Evaluate
  <2>. QED
    BY <1>3, <2>3 DEF Pending
<1>. QED
  BY <1>1, <1>2, <1>3

-----------------------------------------------------------------------------
\* Every step keeps the invariant: those of the evaluations by the lemmas
\* above, the others because they change neither the counter nor the list.
LEMMA Inductive == IInv /\ [Next]_vars => IInv'
<1>. SUFFICES ASSUME IInv, [Next]_vars PROVE IInv'
  OBVIOUS
<1>. USE DEF IInv
<1>1. ASSUME NEW v \in BOOLEAN, Switch(v) PROVE IInv'
  <2>. /\ on' = v
       /\ UNCHANGED <<clock, start, counter, lastTime, lastVal, execTime, queued, waited>>
    BY <1>1 DEF Switch
  <2>. QED
    BY DEF Types, Waits, DueForReset, Pending
<1>9. ASSUME Tell PROVE IInv'
  <2>. Evaluate(clock, on) /\ queued' = Requeued(clock, on) /\ UNCHANGED <<clock, start, on>>
    BY <1>9 DEF Tell
  <2>1. Types'
    BY EvaluateTypes, RequeuedType DEF Types
  <2>2. Waits'
    BY DEF Waits
  <2>3. DueForReset' /\ Pending'
    BY EvaluateDue, EvaluatePending, TimeCounterConstants DEF Types
  <2>. QED
    BY <2>1, <2>2, <2>3
<1>2. ASSUME EvaluateAtOnce PROVE IInv'
  <2>. /\ Evaluate(clock, on) /\ queued' = Requeued(clock, on)
       /\ UNCHANGED <<clock, start, on>>
    BY <1>2 DEF EvaluateAtOnce, Object
  <2>1. Types'
    BY EvaluateTypes, RequeuedType DEF Types
  <2>2. Waits'
    BY DEF Waits
  <2>3. DueForReset' /\ Pending'
    BY EvaluateDue, EvaluatePending, TimeCounterConstants DEF Types
  <2>. QED
    BY <2>1, <2>2, <2>3
<1>3. ASSUME NEW c \in Callers, EvaluateBegin(c) PROVE IInv'
  <2>. /\ start' = [start EXCEPT ![c] = clock]
       /\ UNCHANGED <<clock, on, counter, lastTime, lastVal, execTime, queued, waited>>
    BY <1>3 DEF EvaluateBegin, Object
  <2>1. Types'
    BY DEF Types
  <2>2. Waits'
    BY TimeCounterConstants DEF Types, Waits
  <2>3. DueForReset' /\ Pending'
    BY DEF DueForReset, Pending
  <2>. QED
    BY <2>1, <2>2, <2>3
<1>4. ASSUME NEW c \in Callers, EvaluateEnd(c) PROVE IInv'
  <2>. /\ start[c] # 0
       /\ Evaluate(start[c], on) /\ queued' = Requeued(start[c], on)
       /\ start' = [start EXCEPT ![c] = 0]
       /\ UNCHANGED <<clock, on>>
    BY <1>4 DEF EvaluateEnd
  <2>. start[c] \in Nat \ {0} /\ on \in BOOLEAN /\ start[c] <= clock /\ clock <= start[c] + ReadLimit
    BY DEF Types, Waits
  <2>1. Types'
    BY EvaluateTypes, RequeuedType DEF Types
  <2>2. Waits'
    BY DEF Types, Waits
  <2>3. DueForReset' /\ Pending'
    BY EvaluateDue, EvaluatePending
  <2>. QED
    BY <2>1, <2>2, <2>3
<1>5. ASSUME Poll PROVE IInv'
  <2>. UNCHANGED <<clock, on, start, counter, lastTime, lastVal, execTime, queued, waited>>
    BY <1>5 DEF Poll, Object
  <2>. QED
    BY DEF Types, Waits, DueForReset, Pending
<1>6. ASSUME Fire PROVE IInv'
  <2>. /\ Evaluate(clock, on) /\ queued' = (execTime' > clock)
       /\ UNCHANGED <<clock, start, on>>
    BY <1>6 DEF Fire, Object
  <2>1. Types'
    BY EvaluateTypes DEF Types
  <2>2. Waits'
    BY DEF Waits
  <2>3. DueForReset' /\ Pending'
    BY <1>6, EvaluateDue, FirePending DEF Types
  <2>. QED
    BY <2>1, <2>2, <2>3
<1>7. ASSUME Tick PROVE IInv'
  <2>. /\ clock' = clock + 1
       /\ \A c \in Callers : start[c] = 0 \/ clock < start[c] + ReadLimit
       /\ UNCHANGED <<on, start, counter, lastTime, lastVal, execTime, queued, waited>>
    BY <1>7 DEF Tick, Object
  <2>1. Types'
    BY DEF Types
  <2>2. Waits'
    BY TimeCounterConstants DEF Types, Waits
  <2>3. DueForReset' /\ Pending'
    BY DEF DueForReset, Pending
  <2>. QED
    BY <2>1, <2>2, <2>3
<1>8. CASE UNCHANGED vars
  BY <1>8 DEF vars, Object, Types, Waits, DueForReset, Pending
<1>. QED
  BY <1>1, <1>2, <1>3, <1>4, <1>5, <1>6, <1>7, <1>8, <1>9 DEF Next

\* A counter that has to be looked at again is in the list of the timer manager,
\* whoever evaluated the rule last (TimeCounterCondition::evaluate,
\* FixedTimeTask::reschedule, TimerManager::checkTaskList), but for a reset
\* without delay that was found due by an evaluation that waited.
THEOREM PendingEver == Spec => []Pending
<1>1. IInv => Pending
  BY DEF IInv
<1>. QED
  BY Initially, Inductive, <1>1, PTL DEF Spec

-----------------------------------------------------------------------------
\* The types of what the time limits are about.
MoreTypes ==
    /\ trueTime \in Nat /\ since \in Nat /\ wake \in Nat /\ tells \in Nat
    /\ known \in BOOLEAN /\ busy \in BOOLEAN

\* The last evaluation has found the object as it is, unless the rule is to be
\* told of a change.
InStep ==
    /\ tells = 0 => lastVal = on
    /\ ~known => ~on /\ ~lastVal /\ tells = 0 /\ lastTime = 0 /\ ~queued
    /\ since <= clock /\ lastTime <= clock

\* The counter with the seconds not counted yet.
Sum == counter + (IF lastVal THEN clock - lastTime ELSE 0)

\* It is not ahead of the time the object was on or the rule not told, and not
\* behind the time since it was switched on, but for what evaluations waited.
Counting ==
    /\ prev <=> counter >= Threshold
    /\ counter < Threshold => Sum <= trueTime + waited /\ Sum >= -waited
    /\ counter >= Threshold => trueTime + waited >= Threshold
    /\ lastVal /\ counter < Threshold =>
          /\ execTime = lastTime + (Threshold - counter) + 1
          /\ tells = 0 => lastTime <= counter + since + waited
    /\ ~lastVal =>
          /\ lastTime # 0 /\ tells = 0 => lastTime <= since
          /\ lastTime = 0 => counter = 0

\* The timer manager looks at its list in time.
Polling ==
    /\ clock <= wake /\ wake <= clock + Late
    /\ queued => wake <= execTime + Late

JInv == MoreTypes /\ InStep /\ Counting /\ Polling

-----------------------------------------------------------------------------
\* A rule that was just configured is in step with its object, and the timer
\* manager about to look at its list.
LEMMA InitiallyInTime == Init => JInv
<1>. SUFFICES ASSUME Init PROVE JInv
  OBVIOUS
<1>1. known \in BOOLEAN /\ busy \in BOOLEAN /\ (prev <=> FALSE)
  BY Zenon DEF Init
<1>2. MoreTypes
  BY <1>1 DEF Init, MoreTypes
<1>3. InStep
  <2>1. ~lastVal /\ ~on /\ lastTime = 0 /\ ~queued /\ tells = 0
    BY Zenon DEF Init
  <2>2. since <= clock /\ lastTime <= clock
    BY DEF Init
  <2>3. lastVal = on
    BY Zenon DEF Init
  <2>. QED
    BY <2>1, <2>2, <2>3 DEF InStep
<1>4. Counting
  <2>. ~lastVal /\ counter = 0 /\ lastTime = 0 /\ trueTime = 0 /\ waited = 0
    BY DEF Init
  <2>. Sum = 0
    BY DEF Sum
  <2>. QED
    BY <1>1, TimeCounterConstants DEF Counting
<1>5. Polling
  BY TimeCounterConstants DEF Init, Polling, Late
<1>. QED
  BY <1>2, <1>3, <1>4, <1>5 DEF JInv

\* How an evaluation comes about.  The rule is told of a change; or another
\* evaluation, that may have taken its time before others that are done; or one
\* that waited for the first value without an answer, and finds the object off.
Found(now) ==
    \/ known /\ tells' \in Nat /\ since' = clock /\ now = clock
    \/ known /\ tells' = tells /\ since' = since
    \/ ~known /\ tells' = tells /\ since' = clock

\* An evaluation moves seconds from those not counted to the counter, or the
\* counter to 0, and loses none: if it took its time early, the next one counts
\* the rest, or the seconds are among those waited.
LEMMA EvaluateCounting ==
    ASSUME Types, JInv, NEW now \in Nat \ {0}, Evaluate(now, on),
           now <= clock, clock' = clock, on' = on, known' = TRUE, Found(now)
    PROVE  InStep' /\ Counting'
<1>. USE DEF JInv
<1>0. /\ clock \in Nat /\ counter \in Int /\ execTime \in Int /\ lastTime \in Nat
      /\ waited \in Nat /\ trueTime \in Nat /\ since \in Nat /\ tells \in Nat
      /\ on \in BOOLEAN /\ lastVal \in BOOLEAN
  BY DEF Types, MoreTypes
<1>1. lastVal' = on
  BY DEF Evaluate
<1>2. InStep'
  <2>1. since' <= clock
    BY <1>0 DEF InStep, Found
  <2>2. lastTime' \in {0, now, lastTime}
    BY DEF Evaluate
  <2>3. lastTime' <= clock
    BY <1>0, <2>2 DEF InStep
  <2>. QED
    BY <1>1, <2>1, <2>3 DEF InStep
<1>. SUFFICES Counting'
  BY <1>2
<1>3. /\ trueTime' = IF Expired(now, on) THEN 0 ELSE trueTime
      /\ waited' = IF Expired(now, on) THEN 0
                   ELSE IF on = lastVal THEN waited ELSE waited + (clock - now)
  BY DEF Evaluate
<1>4. /\ prev' <=> counter' >= Threshold
      /\ counter' = IF Expired(now, on) THEN 0 ELSE Counted(now)
      /\ counter' \in Int
  <2>1. counter' = IF Expired(now, on) THEN 0 ELSE Counted(now)
    BY DEF Evaluate
  <2>2. prev' <=> ~Expired(now, on) /\ Counted(now) >= Threshold
    BY Zenon DEF Evaluate
  <2>3. CASE Expired(now, on)
    BY <2>1, <2>2, <2>3, TimeCounterConstants
  <2>4. CASE ~Expired(now, on)
    BY <2>1, <2>2, <2>4 DEF Counted, Types
  <2>. QED
    BY <2>3, <2>4
<1>s. Sum' = counter' + (IF on THEN clock - lastTime' ELSE 0)
  BY <1>1 DEF Sum
<1>5. CASE on /\ lastVal
  <2>1. ~Expired(now, on) /\ lastTime' = now /\ trueTime' = trueTime /\ waited' = waited
    BY <1>3, <1>5 DEF Expired, Evaluate
  <2>2. CASE counter < Threshold
    <3>1. counter' = counter + (now - lastTime)
      BY <1>4, <1>5, <2>1, <2>2 DEF Counted
    <3>2. counter' < Threshold => execTime' = now + (Threshold - counter') + 1
      BY <1>4, <1>5, <2>1 DEF Evaluate, Rescheduled, NextExec
    <3>3. Sum = counter + (clock - lastTime)
      BY <1>5 DEF Sum
    <3>4. Sum' = Sum
      BY <1>0, <1>5, <1>s, <2>1, <3>1, <3>3
    <3>5. Sum <= trueTime + waited /\ Sum >= -waited
      BY <2>2 DEF Counting
    <3>6. counter' <= trueTime + waited
      BY <1>0, <3>1, <3>3, <3>5
    <3>7. tells' = 0 => now <= counter' + since' + waited
      <4>1. CASE since' = clock /\ now = clock
        BY <1>0, <3>1, <3>3, <3>5, <4>1
      <4>2. CASE tells' = tells /\ since' = since
        <5>. tells = 0 => lastTime <= counter + since + waited
          BY <1>5, <2>2 DEF Counting
        <5>. QED
          BY <1>0, <3>1, <4>2
      <4>3. known
        BY <1>5 DEF InStep
      <4>. QED
        BY <4>1, <4>2, <4>3 DEF Found
    <3>8. counter' >= Threshold => trueTime' + waited' >= Threshold
      BY <1>0, <1>4, <2>1, <3>6, TimeCounterConstants
    <3>. QED
      BY <1>1, <1>4, <1>5, <2>1, <3>2, <3>4, <3>5, <3>7, <3>8 DEF Counting
  <2>3. CASE ~(counter < Threshold)
    <3>1. counter' = counter
      BY <1>4, <1>5, <2>1, <2>3 DEF Counted
    <3>. QED
      BY <1>0, <1>1, <1>4, <1>5, <2>1, <2>3, <3>1, TimeCounterConstants DEF Counting
  <2>. QED
    BY <2>2, <2>3
<1>6. CASE on /\ ~lastVal
  <2>1. ~Expired(now, on) /\ lastTime' = now /\ trueTime' = trueTime
    BY <1>3, <1>6 DEF Expired, Evaluate
  <2>2. counter' = counter /\ waited' = waited + (clock - now)
    BY <1>3, <1>4, <1>6, <2>1 DEF Counted
  <2>3. counter' < Threshold => execTime' = now + (Threshold - counter') + 1
    BY <1>4, <1>6, <2>1 DEF Evaluate, Rescheduled, NextExec
  <2>4. Sum = counter /\ Sum' = counter + (clock - now)
    BY <1>0, <1>6, <1>s, <2>1, <2>2 DEF Sum
  <2>5. counter < Threshold => counter <= trueTime + waited /\ counter >= -waited
    BY <2>4 DEF Counting
  <2>6. counter < Threshold => Sum' <= trueTime' + waited' /\ Sum' >= -waited'
    BY <1>0, <2>1, <2>2, <2>4, <2>5
  <2>7. counter < Threshold => (tells' = 0 => now <= counter' + since' + waited')
    <3>1. CASE since' = clock /\ now = clock
      BY <1>0, <2>2, <2>5, <3>1
    <3>2. CASE known /\ tells' = tells
      BY <1>6, <3>2 DEF InStep
    <3>. QED
      BY <1>6, <3>1, <3>2 DEF Found, InStep
  <2>8. counter >= Threshold => trueTime' + waited' >= Threshold
    <3>. counter >= Threshold => trueTime + waited >= Threshold
      BY DEF Counting
    <3>. QED
      BY <1>0, <2>1, <2>2, TimeCounterConstants
  <2>. QED
    BY <1>1, <1>4, <1>6, <2>1, <2>2, <2>3, <2>6, <2>7, <2>8 DEF Counting
<1>7. CASE ~on /\ lastVal
  <2>1. ~Expired(now, on) /\ lastTime' = now /\ trueTime' = trueTime
    BY <1>3, <1>7 DEF Expired, Evaluate
  <2>2. waited' = waited + (clock - now)
    BY <1>3, <1>7, <2>1
  <2>3. tells' = 0 => now <= since'
    BY <1>0, <1>7 DEF Found, InStep
  <2>4. Sum' = counter'
    BY <1>4, <1>7, <1>s
  <2>5. CASE counter < Threshold
    <3>1. counter' = counter + (now - lastTime)
      BY <1>4, <1>7, <2>1, <2>5 DEF Counted
    <3>2. Sum = counter + (clock - lastTime)
      BY <1>7 DEF Sum
    <3>3. Sum <= trueTime + waited /\ Sum >= -waited
      BY <2>5 DEF Counting
    <3>4. counter' <= trueTime' + waited' /\ counter' >= -waited'
      BY <1>0, <2>1, <2>2, <3>1, <3>2, <3>3
    <3>5. counter' >= Threshold => trueTime' + waited' >= Threshold
      BY <1>0, <1>4, <2>1, <2>2, <3>4, TimeCounterConstants
    <3>. QED
      BY <1>1, <1>4, <1>7, <2>1, <2>3, <2>4, <3>4, <3>5 DEF Counting
  <2>6. CASE ~(counter < Threshold)
    <3>1. counter' = counter
      BY <1>4, <1>7, <2>1, <2>6 DEF Counted
    <3>2. trueTime + waited >= Threshold
      BY <1>0, <2>6, TimeCounterConstants DEF Counting
    <3>3. trueTime' + waited' >= Threshold
      BY <1>0, <2>1, <2>2, <3>2, TimeCounterConstants
    <3>. QED
      BY <1>1, <1>4, <1>7, <2>1, <2>3, <2>6, <3>1, <3>3 DEF Counting
  <2>. QED
    BY <2>5, <2>6
<1>8. CASE ~on /\ ~lastVal
  <2>1. lastTime' = IF Expired(now, on) THEN 0 ELSE lastTime
    BY <1>8 DEF Evaluate
  <2>2. CASE Expired(now, on)
    BY <1>1, <1>3, <1>4, <1>8, <1>s, <2>1, <2>2, TimeCounterConstants DEF Counting
  <2>3. CASE ~Expired(now, on)
    <3>0. on = lastVal
      BY <1>0, <1>8
    <3>1. /\ lastTime # 0 /\ lastTime' = lastTime /\ trueTime' = trueTime
          /\ counter' = counter /\ waited' = waited
      BY <1>3, <1>4, <1>8, <2>1, <2>3, <3>0 DEF Expired, Counted
    <3>2. tells' = 0 => lastTime <= since'
      <4>1. CASE since' = clock
        BY <4>1 DEF InStep
      <4>2. CASE tells' = tells /\ since' = since
        BY <1>8, <3>1, <4>2 DEF Counting
      <4>. QED
        BY <3>1, <4>1, <4>2 DEF Found, InStep
    <3>3. Sum = counter /\ Sum' = counter
      BY <1>0, <1>8, <1>s, <3>1 DEF Sum
    <3>. QED
      BY <1>1, <1>4, <1>8, <3>1, <3>2, <3>3 DEF Counting
  <2>. QED
    BY <2>2, <2>3
<1>. QED
  BY <1>0, <1>5, <1>6, <1>7, <1>8

\* An evaluation whose task moves puts it in the list for a later time than the
\* present, or leaves it where it was.
LEMMA EvaluatePolling ==
    ASSUME Types, MoreTypes, Polling, NEW now \in Nat \ {0}, NEW val \in BOOLEAN,
           Evaluate(now, val), now <= clock, queued' = Requeued(now, val),
           UNCHANGED <<clock, wake, busy>>
    PROVE  Polling'
<1>1. Late \in Nat /\ Late' = Late
  BY TimeCounterConstants DEF Late
<1>2. CASE Rescheduled(now, val)
  <2>1. execTime' = NextExec(now, val) /\ queued' = (NextExec(now, val) > clock)
    BY <1>2 DEF Evaluate, Requeued
  <2>2. NextExec(now, val) \in Int
    BY <2>1, EvaluateTypes
  <2>3. queued' => NextExec(now, val) > clock
    BY <2>1, Zenon
  <2>4. clock <= wake /\ wake <= clock + Late /\ clock \in Nat /\ wake \in Nat
    BY DEF Polling, Types, MoreTypes
  <2>5. NextExec(now, val) > clock => wake <= NextExec(now, val) + Late
    BY <1>1, <2>2, <2>4
  <2>. QED
    BY <1>1, <2>1, <2>3, <2>4, <2>5 DEF Polling
<1>3. CASE ~Rescheduled(now, val)
  <2>1. execTime' = execTime /\ queued' = queued
    BY <1>3 DEF Evaluate, Requeued
  <2>. QED
    BY <1>1, <2>1 DEF Polling
<1>. QED
  BY <1>2, <1>3

\* An evaluation keeps the other types, too.
LEMMA EvaluateMoreTypes ==
    ASSUME Types, MoreTypes, NEW now, NEW val, Evaluate(now, val),
           since' \in {since, clock}, known' = TRUE, busy' = busy, wake' \in {wake, clock},
           tells' \in Nat
    PROVE  MoreTypes'
<1>1. trueTime' \in Nat
  BY DEF Evaluate, MoreTypes
<1>. QED
  BY <1>1 DEF Types, MoreTypes

-----------------------------------------------------------------------------
\* Every step keeps the counter in step with the object and with the timer
\* manager.
LEMMA InductiveInTime == IInv /\ JInv /\ [Next]_vars => JInv'
<1>. SUFFICES ASSUME IInv, JInv, [Next]_vars PROVE JInv'
  OBVIOUS
<1>0. Types /\ Waits /\ MoreTypes /\ InStep /\ Counting /\ Polling
  BY DEF IInv, JInv
<1>c. clock \in Nat \ {0} /\ on \in BOOLEAN
  BY <1>0 DEF Types
<1>l. Late \in Nat \ {0}
  BY TimeCounterConstants DEF Late
<1>k. tells \in Nat /\ clock <= clock
  BY <1>0, <1>c DEF MoreTypes
<1>1. ASSUME NEW v \in BOOLEAN, Switch(v) PROVE JInv'
  <2>1. /\ UNCHANGED <<clock, counter, lastTime, lastVal, execTime, queued, busy, wake, prev,
                       trueTime, waited>>
        /\ known' = TRUE /\ since' = clock /\ tells' = tells + 1
    BY <1>1 DEF Switch
  <2>2. tells' \in Nat \ {0}
    BY <1>k, <2>1
  <2>3. MoreTypes' /\ InStep'
    BY <1>0, <1>c, <2>1, <2>2 DEF MoreTypes, InStep
  <2>4. Counting' /\ Polling'
    BY <1>0, <2>1, <2>2 DEF Counting, Sum, Polling, Late
  <2>. QED
    BY <2>3, <2>4 DEF JInv
<1>9. ASSUME Tell PROVE JInv'
  <2>1. /\ Evaluate(clock, on) /\ queued' = Requeued(clock, on)
        /\ UNCHANGED <<clock, wake, busy, on, known>>
        /\ since' = clock /\ tells > 0 /\ tells' = tells - 1
    BY <1>9 DEF Tell
  <2>2. known /\ known' = TRUE
    BY <1>0, <2>1 DEF InStep, MoreTypes
  <2>3. tells' \in Nat
    BY <1>k, <2>1
  <2>4. Found(clock)
    BY <2>1, <2>2, <2>3 DEF Found
  <2>5. InStep' /\ Counting'
    BY <1>0, <1>c, <1>k, <2>1, <2>2, <2>4, EvaluateCounting DEF JInv
  <2>6. Polling'
    BY <1>0, <1>c, <1>k, <2>1, EvaluatePolling
  <2>7. MoreTypes'
    BY <1>0, <2>1, <2>2, <2>3, EvaluateMoreTypes
  <2>. QED
    BY <2>5, <2>6, <2>7 DEF JInv
<1>2. ASSUME EvaluateAtOnce PROVE JInv'
  <2>1. /\ Evaluate(clock, on) /\ queued' = Requeued(clock, on)
        /\ UNCHANGED <<clock, wake, busy, on, known, tells, since>>
        /\ known
    BY <1>2 DEF EvaluateAtOnce, Object
  <2>2. Found(clock) /\ known' = TRUE /\ tells' \in Nat
    BY <1>0, <1>k, <2>1 DEF Found, MoreTypes
  <2>3. InStep' /\ Counting'
    BY <1>0, <1>c, <1>k, <2>1, <2>2, EvaluateCounting DEF JInv
  <2>4. Polling'
    BY <1>0, <1>c, <1>k, <2>1, EvaluatePolling
  <2>5. MoreTypes'
    BY <1>0, <2>1, <2>2, EvaluateMoreTypes
  <2>. QED
    BY <2>3, <2>4, <2>5 DEF JInv
<1>3. ASSUME NEW c \in Callers, EvaluateBegin(c) PROVE JInv'
  <2>1. UNCHANGED <<clock, on, known, tells, since, counter, lastTime, lastVal, execTime, queued,
                    busy, wake, prev, trueTime, waited>>
    BY <1>3 DEF EvaluateBegin, Object
  <2>2. MoreTypes' /\ InStep'
    BY <1>0, <2>1 DEF MoreTypes, InStep
  <2>3. Counting' /\ Polling'
    BY <1>0, <2>1 DEF Counting, Sum, Polling, Late
  <2>. QED
    BY <2>2, <2>3 DEF JInv
<1>4. ASSUME NEW c \in Callers, EvaluateEnd(c) PROVE JInv'
  <2>1. /\ start[c] # 0
        /\ Evaluate(start[c], on) /\ queued' = Requeued(start[c], on)
        /\ UNCHANGED <<clock, on, tells, busy, wake>>
        /\ known' = TRUE
        /\ since' = IF known THEN since ELSE clock
    BY <1>4 DEF EvaluateEnd
  <2>2. start[c] \in Nat \ {0} /\ start[c] <= clock
    BY <1>0, <2>1 DEF Types, Waits
  <2>3. Found(start[c])
    BY <1>0, <2>1 DEF Found, MoreTypes
  <2>4. InStep' /\ Counting'
    BY <1>0, <1>c, <2>1, <2>2, <2>3, EvaluateCounting DEF JInv
  <2>5. Polling'
    BY <1>0, <1>c, <2>1, <2>2, EvaluatePolling
  <2>6. since' \in {since, clock}
    BY <2>1
  <2>7. MoreTypes'
    BY <1>0, <1>k, <2>1, <2>6, EvaluateMoreTypes
  <2>. QED
    BY <2>4, <2>5, <2>7 DEF JInv
<1>5. ASSUME Poll PROVE JInv'
  <2>1. /\ ~Due /\ wake <= clock /\ wake' = clock + Sleeps
        /\ UNCHANGED <<clock, on, known, tells, since, counter, lastTime, lastVal, execTime,
                       queued, busy, prev, trueTime, waited>>
    BY <1>5 DEF Poll, Object
  <2>2. Sleeps \in Nat \ {0} /\ Sleeps <= Late /\ (queued => Sleeps = 1)
    <3>1. CASE busy
      BY <3>1 DEF Sleeps, Late
    <3>2. CASE ~busy
      <4>1. Late = Long /\ Long \in Nat \ {0}
        BY <3>2, TimeCounterConstants DEF Late
      <4>2. Sleeps = IF queued THEN 1 ELSE Long
        BY <3>2 DEF Sleeps
      <4>. QED
        BY <4>1, <4>2
    <3>. QED
      BY <3>1, <3>2
  <2>3. MoreTypes' /\ InStep'
    BY <1>0, <1>c, <2>1, <2>2 DEF MoreTypes, InStep
  <2>4. Counting'
    BY <1>0, <2>1 DEF Counting, Sum
  <2>5. Late' = Late
    BY <2>1 DEF Late
  <2>6. queued => execTime > clock
    BY <1>0, <2>1 DEF Due, Types
  <2>7. queued => wake' <= execTime + Late
    BY <1>0, <1>c, <1>l, <2>1, <2>2, <2>6 DEF Types
  <2>8. clock <= wake' /\ wake' <= clock + Late
    BY <1>c, <1>l, <2>1, <2>2
  <2>9. Polling'
    BY <2>1, <2>5, <2>7, <2>8 DEF Polling
  <2>. QED
    BY <2>3, <2>4, <2>9 DEF JInv
<1>6. ASSUME Fire PROVE JInv'
  <2>1. /\ Due /\ Evaluate(clock, on) /\ queued' = (execTime' > clock) /\ wake' = clock
        /\ UNCHANGED <<clock, on, known, tells, since, busy>>
    BY <1>6 DEF Fire, Object
  <2>2. known /\ known' = TRUE
    BY <1>0, <2>1 DEF Due, InStep, MoreTypes
  <2>3. Found(clock)
    BY <2>1, <2>2 DEF Found
  <2>4. InStep' /\ Counting'
    BY <1>0, <1>c, <1>k, <2>1, <2>2, <2>3, EvaluateCounting DEF JInv
  <2>5. execTime' \in Int
    BY <1>0, <1>c, <1>k, <2>1, EvaluateTypes
  <2>6. Late' = Late
    BY <2>1 DEF Late
  <2>7. Polling'
    <3>1. queued' => execTime' > clock
      BY <2>1, Zenon
    <3>0. \A e \in Int, k, l \in Nat : e > k => k <= e + l
      OBVIOUS
    <3>2. execTime' > clock => clock <= execTime' + Late
      BY <1>c, <1>l, <2>5, <3>0
    <3>. QED
      BY <1>c, <1>l, <2>1, <2>6, <3>1, <3>2 DEF Polling
  <2>8. MoreTypes'
    BY <1>0, <1>k, <2>1, <2>2, EvaluateMoreTypes
  <2>. QED
    BY <2>4, <2>7, <2>8 DEF JInv
<1>7. ASSUME Tick PROVE JInv'
  <2>1. /\ wake > clock /\ clock' = clock + 1
        /\ trueTime' = IF known /\ (on \/ tells > 0) THEN trueTime + 1 ELSE trueTime
        /\ UNCHANGED <<on, known, tells, since, counter, lastTime, lastVal, execTime, queued,
                       busy, wake, prev, waited>>
    BY <1>7 DEF Tick, Object
  <2>2. MoreTypes' /\ InStep'
    BY <1>0, <1>c, <2>1 DEF MoreTypes, InStep, Types
  <2>3. counter < Threshold => Sum' <= trueTime' + waited /\ Sum' >= -waited
    <3>0. /\ counter < Threshold => Sum <= trueTime + waited /\ Sum >= -waited
          /\ counter \in Int /\ waited \in Nat /\ trueTime \in Nat /\ lastTime \in Nat
      BY <1>0 DEF Counting, Types, MoreTypes
    <3>1. CASE lastVal
      <4>0. known /\ (on \/ tells # 0)
        BY <1>0, <3>1 DEF InStep
      <4>1. known /\ (on \/ tells > 0)
        BY <1>k, <4>0
      <4>2. trueTime' = trueTime + 1
        BY <2>1, <4>1
      <4>3. Sum = counter + (clock - lastTime) /\ Sum' = counter + ((clock + 1) - lastTime)
        BY <2>1, <3>1 DEF Sum
      <4>. QED
        BY <1>c, <3>0, <4>2, <4>3
    <3>2. CASE ~lastVal
      <4>1. Sum' = Sum /\ Sum = counter
        BY <2>1, <3>0, <3>2 DEF Sum
      <4>2. trueTime' \in Nat /\ trueTime' >= trueTime
        BY <2>1, <3>0
      <4>3. \A k, l \in Nat : counter <= k + waited /\ k <= l => counter <= l + waited
        BY <3>0
      <4>. QED
        BY <3>0, <4>1, <4>2, <4>3
    <3>. QED
      BY <3>1, <3>2
  <2>7. counter >= Threshold => trueTime' + waited >= Threshold
    BY <1>0, <2>1, TimeCounterConstants DEF Counting, Types, MoreTypes
  <2>4. Counting'
    BY <1>0, <2>1, <2>3, <2>7 DEF Counting
  <2>5. Late' = Late
    BY <2>1 DEF Late
  <2>6. Polling'
    BY <1>0, <1>c, <1>l, <2>1, <2>5 DEF Polling, MoreTypes
  <2>. QED
    BY <2>2, <2>4, <2>6 DEF JInv
<1>8. CASE UNCHANGED vars
  BY <1>8 DEF vars, Object, JInv, MoreTypes, InStep, Counting, Sum, Polling, Late
<1>. QED
  BY <1>1, <1>2, <1>3, <1>4, <1>5, <1>6, <1>7, <1>8, <1>9 DEF Next

\* The rule becomes true only after the object was on for the threshold since
\* the counter was reset (TimeCounterCondition::evaluate), but for the time in
\* which Object::onUpdate had not got to the rule and for what evaluations
\* waited, whichever evaluations overtook each other.
THEOREM NeverEarlyEver == Spec => []NeverEarly
<1>1. IInv /\ JInv => NeverEarly
  <2>. SUFFICES ASSUME IInv, JInv, prev PROVE trueTime + waited >= Threshold
    BY DEF NeverEarly
  <2>. QED
    BY DEF JInv, Counting
<1>. QED
  BY Initially, Inductive, InitiallyInTime, InductiveInTime, <1>1, PTL DEF Spec

\* An object that stays on makes the rule true in time, once the rule is told,
\* and one that stays off resets the counter in time
\* (TimeCounterCondition::evaluate, TimerManager::checkTaskList).
THEOREM InTimeEver == Spec => []InTime
<1>1. ASSUME IInv, JInv PROVE InTime
  <2>0. Types /\ DueForReset /\ Pending /\ MoreTypes /\ InStep /\ Counting /\ Polling
    BY <1>1 DEF IInv, JInv
  <2>1. Late \in Nat
    BY TimeCounterConstants DEF Late
  <2>2. ASSUME known, tells = 0, on, clock > since + Threshold + 1 + Late + waited PROVE prev
    <3>1. SUFFICES ASSUME ~prev PROVE FALSE
      OBVIOUS
    <3>2. lastVal /\ counter < Threshold
      BY <2>0, <2>2, <3>1, TimeCounterConstants DEF InStep, Counting, Types
    <3>3. queued
      BY <2>0, <3>2 DEF Pending
    <3>4. execTime = lastTime + (Threshold - counter) + 1 /\ lastTime <= counter + since + waited
      BY <2>0, <2>2, <3>2 DEF Counting
    <3>5. clock <= wake /\ wake <= execTime + Late
      BY <2>0, <3>3 DEF Polling
    <3>. QED
      BY <2>0, <2>1, <2>2, <3>4, <3>5, TimeCounterConstants DEF Types, MoreTypes
  <2>3. ASSUME known, tells = 0, ~on, ResetDelay > 0 \/ waited = 0,
               clock > since + ResetDelay + 1 + Late
        PROVE  ~prev /\ counter = 0
    <3>1. ~lastVal
      BY <2>0, <2>3 DEF InStep
    <3>2. lastTime = 0
      <4>1. SUFFICES ASSUME lastTime # 0 PROVE FALSE
        OBVIOUS
      <4>2. lastTime > 0 /\ lastTime <= since
        BY <2>0, <2>3, <3>1, <4>1 DEF Counting, Types
      <4>3. queued /\ execTime = lastTime + ResetDelay + 1
        BY <2>0, <2>3, <3>1, <4>2 DEF Pending, DueForReset
      <4>4. clock <= wake /\ wake <= execTime + Late
        BY <2>0, <4>3 DEF Polling
      <4>. QED
        BY <2>0, <2>1, <2>3, <4>2, <4>3, <4>4, TimeCounterConstants DEF Types, MoreTypes
    <3>. QED
      BY <2>0, <3>1, <3>2, TimeCounterConstants DEF Counting
  <2>. QED
    BY <2>2, <2>3 DEF InTime
<1>. QED
  BY Initially, Inductive, InitiallyInTime, InductiveInTime, <1>1, PTL DEF Spec

=============================================================================
