------------------------ MODULE TimerManagerProofs ------------------------
(***************************************************************************)
(* The timer queue is sorted, holds every task that has a time once and no *)
(* other, and no task sleeps over the next time it has to wake, for any    *)
(* tasks, durations, occurrences and any horizon: whatever is configured,  *)
(* deleted or rescheduled while the manager fires a task.  Timers of a     *)
(* regular schedule begin on or off as they should, and those with <at>    *)
(* and <until> are on exactly in their periods.                            *)
(***************************************************************************)
EXTENDS TimerManager, SequenceTheorems, FiniteSetTheorems, WellFoundedInduction, TLAPS

\* The types, without the bound of the clock.
Types ==
    /\ now \in Nat \ {0}
    /\ taskList \in Seq(Tasks)
    /\ exec \in [Tasks -> Nat]
    /\ value \in [Tasks -> BOOLEAN]
    /\ at \in [Tasks -> SUBSET (Nat \ {0})]
    /\ \A t \in Tasks : at[t] \in AtChoices[t]
    /\ live \subseteq Tasks
    /\ firing \in live \cup {NoTask}
    /\ checked \in Nat /\ checked <= now

\* The queue by the times x, and who is in it.
InOrder(list, x) ==
    \A i, j \in 1..Len(list) : i < j => x[list[i]] <= x[list[j]] /\ list[i] # list[j]

In(t, list) == \E i \in 1..Len(list) : list[i] = t

Members == \A t \in Tasks : Queued(t) <=> (t \in live /\ exec[t] # 0)

\* Task t does not sleep over the next occurrence of its <at>.
Wakes(t) ==
    (Every[t] = -1 /\ ~value[t] /\ FindNext(at[t], now) # 0)
        => (exec[t] # 0 /\ exec[t] <= FindNext(at[t], now))

\* A timer without duration is on only while its listeners are told.
PulsesEnd == \A t \in Tasks : During[t] = 0 /\ t # firing => ~value[t]

\* The task that fires is in front still, with the time it fired at, and the
\* manager will reschedule it; or it was rescheduled meanwhile, because of an
\* object, and its next time will do when it has fired.
FiringKnown ==
    firing # NoTask =>
        \/ taskList # <<>> /\ taskList[1] = firing /\ exec[firing] <= checked
        \/ Wakes(firing) /\ (Pulses(firing) => exec[firing] \in 1..now)

QueueInv ==
    /\ Types /\ Sorted /\ Members /\ PulsesEnd /\ FiringKnown
    /\ \A t \in live \ {firing} : Wakes(t)

-----------------------------------------------------------------------------
\* A set of numbers with a member has a smallest one.
LEMMA Least ==
    ASSUME NEW S \in SUBSET Nat, S # {}
    PROVE  \E x \in S : \A y \in S : x <= y
<1>1. PICK x \in S : \A y \in S : ~(<<y, x>> \in OpToRel(<, Nat))
  BY NatLessThanWellFounded, WFMin
<1>2. \A y \in S : ~(y < x)
  <2>1. \A y \in S : y < x => <<y, x>> \in OpToRel(<, Nat)
    BY Zenon, <1>1 DEF OpToRel
  <2>. QED
    BY <1>1, <2>1
<1>. QED
  BY <1>2

\* FindNext finds the first of the later occurrences, or 0.
LEMMA FindNextIs ==
    ASSUME NEW S \in SUBSET (Nat \ {0}), NEW n \in Int
    PROVE  /\ FindNext(S, n) = 0 => \A x \in S : x <= n
           /\ FindNext(S, n) # 0 => /\ FindNext(S, n) \in S
                                    /\ FindNext(S, n) > n
                                    /\ \A x \in S : x > n => FindNext(S, n) <= x
           /\ FindNext(S, n) \in Nat
<1>. DEFINE later == {x \in S : x > n}
<1>1. CASE later = {}
  <2>1. FindNext(S, n) = 0
    BY <1>1 DEF FindNext
  <2>. QED
    BY <1>1, <2>1
<1>2. CASE later # {}
  <2>1. \E x \in later : \A y \in later : x <= y
    BY <1>2, Least
  <2>2. FindNext(S, n) = CHOOSE x \in later : \A y \in later : x <= y
    BY <1>2 DEF FindNext, Min
  <2>3. FindNext(S, n) \in later /\ \A y \in later : FindNext(S, n) <= y
    BY Zenon, <2>1, <2>2
  <2>. QED
    BY <2>3
<1>. QED
  BY <1>1, <1>2

\* What was the next occurrence earlier is still no later than the next one.
LEMMA FindNextGrows ==
    ASSUME NEW S \in SUBSET (Nat \ {0}), NEW m \in Int, NEW n \in Int, m <= n,
           FindNext(S, n) # 0
    PROVE  FindNext(S, m) # 0 /\ FindNext(S, m) <= FindNext(S, n)
<1>1. FindNext(S, n) \in S /\ FindNext(S, n) > n /\ FindNext(S, n) \in Nat
  BY FindNextIs
<1>2. FindNext(S, n) > m
  BY <1>1
<1>3. FindNext(S, m) # 0
  BY <1>1, <1>2, FindNextIs
<1>. QED
  BY <1>1, <1>2, <1>3, FindNextIs

-----------------------------------------------------------------------------
\* What stands where after an element was inserted behind the first k.
LEMMA InsertIs ==
    ASSUME NEW S, NEW s \in Seq(S), NEW e \in S, NEW k \in 0..Len(s)
    PROVE  /\ InsertAt(s, k + 1, e) \in Seq(S)
           /\ Len(InsertAt(s, k + 1, e)) = Len(s) + 1
           /\ \A i \in 1..k : InsertAt(s, k + 1, e)[i] = s[i]
           /\ InsertAt(s, k + 1, e)[k + 1] = e
           /\ \A i \in 1..Len(s) : i > k => InsertAt(s, k + 1, e)[i + 1] = s[i]
<1>. DEFINE n     == Len(s)
            front == SubSeq(s, 1, k)
            back  == SubSeq(s, k + 1, n)
            upTo  == front \o <<e>>
            new   == InsertAt(s, k + 1, e)
<1>1. n \in Nat /\ \A i \in 1..n : s[i] \in S
  BY ElementOfSeq, LenProperties
<1>2. new = upTo \o back
  <2>1. (k + 1) - 1 = k
    OBVIOUS
  <2>2. new = SubSeq(s, 1, (k + 1) - 1) \o <<e>> \o SubSeq(s, k + 1, Len(s))
    BY Zenon DEF InsertAt
  <2>. QED
    BY Zenon, <2>1, <2>2
<1>3. front \in Seq(S) /\ Len(front) = k /\ \A i \in 1..k : front[i] = s[i]
  <2>1. \A i \in 1..k : s[i] \in S
    BY <1>1
  <2>2. /\ front \in Seq(S)
        /\ Len(front) = IF 1 <= k THEN k - 1 + 1 ELSE 0
        /\ \A i \in 1..(k - 1 + 1) : front[i] = s[1 + i - 1]
    BY <2>1, SubSeqProperties
  <2>. HIDE DEF front
  <2>. QED
    BY <2>2
<1>4. back \in Seq(S) /\ Len(back) = n - k
      /\ \A i \in 1..(n - k) : back[i] = s[k + i]
  <2>1. \A i \in (k + 1)..n : s[i] \in S
    BY <1>1
  <2>2. /\ back \in Seq(S)
        /\ Len(back) = IF k + 1 <= n THEN n - (k + 1) + 1 ELSE 0
        /\ \A i \in 1..(n - (k + 1) + 1) : back[i] = s[(k + 1) + i - 1]
    BY <1>1, <2>1, SubSeqProperties
  <2>. HIDE DEF back
  <2>. QED
    BY <1>1, <2>2
<1>. HIDE DEF front, back, new
<1>5. /\ upTo \in Seq(S)
      /\ Len(upTo) = k + 1
      /\ \A i \in 1..k : upTo[i] = s[i]
      /\ upTo[k + 1] = e
  <2>1. <<e>> \in Seq(S) /\ Len(<<e>>) = 1 /\ <<e>>[1] = e
    OBVIOUS
  <2>2. /\ upTo \in Seq(S)
        /\ Len(upTo) = Len(front) + 1
        /\ \A i \in 1..(Len(front) + 1) :
              upTo[i] = IF i <= Len(front) THEN front[i] ELSE <<e>>[i - Len(front)]
    BY <1>3, <2>1, ConcatProperties
  <2>. HIDE DEF upTo
  <2>. QED
    BY <1>3, <2>1, <2>2
<1>. HIDE DEF upTo
<1>6. /\ new \in Seq(S) /\ Len(new) = n + 1
      /\ \A i \in 1..(n + 1) : new[i] = IF i <= k + 1 THEN upTo[i] ELSE back[i - (k + 1)]
  <2>1. /\ new \in Seq(S)
        /\ Len(new) = Len(upTo) + Len(back)
        /\ \A i \in 1..(Len(upTo) + Len(back)) :
              new[i] = IF i <= Len(upTo) THEN upTo[i] ELSE back[i - Len(upTo)]
    BY <1>2, <1>4, <1>5, ConcatProperties
  <2>2. Len(upTo) + Len(back) = n + 1
    BY <1>1, <1>4, <1>5
  <2>. QED
    BY <1>5, <2>1, <2>2
<1>. HIDE DEF n
<1>7. k \in 0..n
  BY DEF n
<1>8. \A i \in 1..k : new[i] = s[i]
  BY <1>1, <1>5, <1>6, <1>7
<1>9. new[k + 1] = e
  <2>1. k + 1 \in 1..(n + 1) /\ k + 1 <= k + 1
    BY <1>1, <1>7
  <2>2. \A i \in 1..(n + 1) : i <= k + 1 => new[i] = upTo[i]
    BY Zenon, <1>6
  <2>. QED
    BY Zenon, <1>5, <2>1, <2>2
<1>10. \A i \in 1..n : i > k => new[i + 1] = s[i]
  <2>. SUFFICES ASSUME NEW i \in 1..n, i > k PROVE new[i + 1] = s[i]
    OBVIOUS
  <2>1. i + 1 \in 1..(n + 1) /\ ~(i + 1 <= k + 1) /\ (i + 1) - (k + 1) \in 1..(n - k)
        /\ k + ((i + 1) - (k + 1)) = i
    BY <1>1, <1>7
  <2>. QED
    BY <1>4, <1>6, <2>1
<1>. QED
  BY Zenon, <1>6, <1>8, <1>9, <1>10 DEF n, new

\* The task goes behind the tasks before which all are due no later than it.
LEMMA AddIs ==
    ASSUME NEW list \in Seq(Tasks), NEW t \in Tasks, NEW e \in Nat,
           exec \in [Tasks -> Nat], InOrder(list, exec)
    PROVE  \E k \in 0..Len(list) :
              /\ \A i \in 1..k : exec[list[i]] <= e
              /\ \A i \in 1..Len(list) : i > k => exec[list[i]] > e
              /\ Add(list, t, e) \in Seq(Tasks)
              /\ Len(Add(list, t, e)) = Len(list) + 1
              /\ \A i \in 1..k : Add(list, t, e)[i] = list[i]
              /\ Add(list, t, e)[k + 1] = t
              /\ \A i \in 1..Len(list) : i > k => Add(list, t, e)[i + 1] = list[i]
<1>. DEFINE n == Len(list)
            earlier == {i \in 1..n : \A j \in 1..i : exec[list[j]] <= e}
            after == {i \in 1..n : exec[list[i]] > e}
<1>1. n \in Nat /\ \A i \in 1..n : list[i] \in Tasks /\ exec[list[i]] \in Nat
  BY ElementOfSeq, LenProperties
<1>2. \A i, j \in 1..n : i < j => exec[list[i]] <= exec[list[j]]
  BY DEF InOrder
<1>3. \E k \in 0..n : /\ \A i \in 1..k : exec[list[i]] <= e
                      /\ \A i \in 1..n : i > k => exec[list[i]] > e
  <2>1. CASE after = {}
    <3>1. \A i \in 1..n : exec[list[i]] <= e
      BY <1>1, <2>1
    <3>. WITNESS n \in 0..n
    <3>. QED
      BY <1>1, <3>1
  <2>2. CASE after # {}
    <3>0. after \subseteq Nat
      BY <1>1
    <3>1. PICK x \in after : \A y \in after : x <= y
      BY <2>2, <3>0, Least
    <3>2. x \in 1..n /\ exec[list[x]] > e
      BY <3>1
    <3>3. x - 1 \in 0..n
      BY <1>1, <3>2
    <3>4. \A i \in 1..(x - 1) : exec[list[i]] <= e
      <4>. SUFFICES ASSUME NEW i \in 1..(x - 1) PROVE exec[list[i]] <= e
        OBVIOUS
      <4>1. i \in 1..n /\ i < x
        BY <1>1, <3>2
      <4>2. i \notin after
        BY <3>1, <3>2, <4>1
      <4>. QED
        BY <1>1, <4>1, <4>2
    <3>5. \A i \in 1..n : i > x - 1 => exec[list[i]] > e
      <4>. SUFFICES ASSUME NEW i \in 1..n, i > x - 1 PROVE exec[list[i]] > e
        OBVIOUS
      <4>1. i = x \/ x < i
        BY <3>2
      <4>2. CASE x < i
        <5>1. exec[list[x]] <= exec[list[i]]
          BY <1>2, <3>2, <4>2
        <5>. QED
          BY <1>1, <3>2, <5>1
      <4>. QED
        BY <3>2, <4>1, <4>2
    <3>. QED
      BY <3>3, <3>4, <3>5
  <2>. QED
    BY <2>1, <2>2
<1>4. PICK k \in 0..n : /\ \A i \in 1..k : exec[list[i]] <= e
                        /\ \A i \in 1..n : i > k => exec[list[i]] > e
  BY <1>3
<1>5. earlier = 1..k
  <2>1. \A i \in 1..n : i > k => ~(exec[list[i]] <= e)
    BY <1>1, <1>4
  <2>2. \A i \in 1..n : i \in 1..i
    BY <1>1
  <2>3. \A i \in 1..n : i <= k => \A j \in 1..i : j \in 1..k
    BY <1>1, <1>4
  <2>. QED
    BY <1>1, <1>4, <2>1, <2>2, <2>3
<1>6. Cardinality(earlier) = k
  <2>1. Cardinality(1..k) = k
    BY <1>1, <1>4, FS_Interval
  <2>. QED
    BY Zenon, <1>5, <2>1
<1>7. Add(list, t, e) = InsertAt(list, k + 1, t)
  <2>1. Add(list, t, e) = InsertAt(list, Cardinality(earlier) + 1, t)
    BY Zenon DEF Add
  <2>. QED
    BY Zenon, <1>6, <2>1
<1>8. /\ Add(list, t, e) \in Seq(Tasks)
      /\ Len(Add(list, t, e)) = Len(list) + 1
      /\ \A i \in 1..k : Add(list, t, e)[i] = list[i]
      /\ Add(list, t, e)[k + 1] = t
      /\ \A i \in 1..Len(list) : i > k => Add(list, t, e)[i + 1] = list[i]
  <2>1. /\ InsertAt(list, k + 1, t) \in Seq(Tasks)
        /\ Len(InsertAt(list, k + 1, t)) = Len(list) + 1
        /\ \A i \in 1..k : InsertAt(list, k + 1, t)[i] = list[i]
        /\ InsertAt(list, k + 1, t)[k + 1] = t
        /\ \A i \in 1..Len(list) : i > k => InsertAt(list, k + 1, t)[i + 1] = list[i]
    <3>1. k \in 0..Len(list)
      BY <1>4
    <3>. HIDE DEF n, earlier, after
    <3>. QED
      BY <3>1, InsertIs, SMTT(60)
  <2>. QED
    BY Zenon, <1>7, <2>1
<1>. QED
  BY Zenon, <1>4, <1>8

\* A task that is not in the queue is put where the queue stays in order, and
\* behind a task that is due no later.
LEMMA AddKeepsOrder ==
    ASSUME NEW list \in Seq(Tasks), NEW t \in Tasks, NEW e \in Nat,
           exec \in [Tasks -> Nat], InOrder(list, exec), ~In(t, list)
    PROVE  /\ Add(list, t, e) \in Seq(Tasks)
           /\ InOrder(Add(list, t, e), [exec EXCEPT ![t] = e])
           /\ \A s \in Tasks : In(s, Add(list, t, e)) <=> In(s, list) \/ s = t
           /\ list # <<>> /\ exec[list[1]] <= e =>
                 Add(list, t, e) # <<>> /\ Add(list, t, e)[1] = list[1]
<1>. DEFINE n   == Len(list)
            new == Add(list, t, e)
            x   == [exec EXCEPT ![t] = e]
<1>1. n \in Nat /\ \A i \in 1..n : list[i] \in Tasks /\ exec[list[i]] \in Nat
  BY ElementOfSeq, LenProperties
<1>2. PICK k \in 0..n :
         /\ \A i \in 1..k : exec[list[i]] <= e
         /\ \A i \in 1..n : i > k => exec[list[i]] > e
         /\ new \in Seq(Tasks)
         /\ Len(new) = n + 1
         /\ \A i \in 1..k : new[i] = list[i]
         /\ new[k + 1] = t
         /\ \A i \in 1..n : i > k => new[i + 1] = list[i]
  BY AddIs, ZenonT(60)
<1>3. \A i \in 1..n : list[i] # t
  BY DEF In
<1>4. x[t] = e /\ \A i \in 1..n : x[list[i]] = exec[list[i]]
  BY <1>1, <1>3
<1>5. \A i, j \in 1..n : i < j => exec[list[i]] <= exec[list[j]] /\ list[i] # list[j]
  BY DEF InOrder
<1>. HIDE DEF n, new, x
<1>6. \A i \in 1..(n + 1) : i \in 1..k \/ i = k + 1 \/ i > k + 1
  BY <1>1, <1>2
<1>7. \A i \in 1..(n + 1) : i > k + 1 => new[i] = list[i - 1] /\ i - 1 \in 1..n
  <2>. SUFFICES ASSUME NEW i \in 1..(n + 1), i > k + 1
                PROVE  new[i] = list[i - 1] /\ i - 1 \in 1..n
    OBVIOUS
  <2>1. i - 1 \in 1..n /\ i - 1 > k /\ (i - 1) + 1 = i
    BY <1>1, <1>2
  <2>. QED
    BY <1>2, <2>1
<1>8. InOrder(new, x)
  <2>. SUFFICES ASSUME NEW i \in 1..(n + 1), NEW j \in 1..(n + 1), i < j
                PROVE  x[new[i]] <= x[new[j]] /\ new[i] # new[j]
    BY <1>2 DEF InOrder
  <2>1. CASE i \in 1..k /\ j \in 1..k
    <3>1. i \in 1..n /\ j \in 1..n /\ new[i] = list[i] /\ new[j] = list[j]
      BY <1>1, <1>2, <2>1
    <3>. QED
      BY <1>4, <1>5, <3>1
  <2>2. CASE i \in 1..k /\ j = k + 1
    <3>1. i \in 1..n /\ new[i] = list[i]
      BY <1>1, <1>2, <2>2
    <3>2. new[j] = t /\ exec[list[i]] <= e
      BY <1>2, <2>2
    <3>. QED
      BY <1>3, <1>4, <3>1, <3>2
  <2>3. CASE i \in 1..k /\ j > k + 1
    <3>1. i \in 1..n /\ i < j - 1
      BY <1>1, <2>3
    <3>2. new[i] = list[i]
      BY <1>2, <2>3
    <3>3. new[j] = list[j - 1] /\ j - 1 \in 1..n
      BY <1>7, <2>3
    <3>4. exec[list[i]] <= exec[list[j - 1]] /\ list[i] # list[j - 1]
      BY <1>5, <3>1, <3>3
    <3>. QED
      BY <1>4, <3>1, <3>2, <3>3, <3>4
  <2>4. CASE i = k + 1 /\ j > k + 1
    <3>1. new[i] = t /\ new[j] = list[j - 1] /\ j - 1 \in 1..n
      BY <1>2, <1>7, <2>4
    <3>2. exec[list[j - 1]] > e /\ exec[list[j - 1]] \in Nat
      <4>1. j - 1 > k
        BY <1>1, <2>4
      <4>. QED
        BY <1>1, <1>2, <3>1, <4>1
    <3>. QED
      BY <1>3, <1>4, <3>1, <3>2
  <2>5. CASE i > k + 1 /\ j > k + 1
    <3>1. /\ new[i] = list[i - 1] /\ i - 1 \in 1..n
          /\ new[j] = list[j - 1] /\ j - 1 \in 1..n
      BY <1>7, <2>5
    <3>2. exec[list[i - 1]] <= exec[list[j - 1]] /\ list[i - 1] # list[j - 1]
      <4>1. i - 1 < j - 1
        BY <1>1
      <4>. QED
        BY <1>5, <3>1, <4>1
    <3>. QED
      BY <1>4, <3>1, <3>2
  <2>. QED
    BY <1>2, <1>6, <2>1, <2>2, <2>3, <2>4, <2>5
<1>9. \A s \in Tasks : In(s, new) <=> In(s, list) \/ s = t
  <2>1. \A s \in Tasks : In(s, new) => In(s, list) \/ s = t
    <3>. SUFFICES ASSUME NEW i \in 1..(n + 1) PROVE In(new[i], list) \/ new[i] = t
      BY <1>2 DEF In
    <3>1. CASE i \in 1..k
      <4>1. i \in 1..n
        BY <1>1, <1>2, <3>1
      <4>2. new[i] = list[i]
        BY Zenon, <1>2, <3>1
      <4>. QED
        BY Zenon, <4>1, <4>2 DEF In, n
    <3>2. CASE i = k + 1
      BY Zenon, <1>2, <3>2
    <3>3. CASE i > k + 1
      BY Zenon, <1>7, <3>3 DEF In, n
    <3>. QED
      BY Zenon, <1>6, <3>1, <3>2, <3>3
  <2>2. In(t, new)
    <3>1. k + 1 \in 1..(n + 1)
      BY <1>1, <1>2
    <3>. QED
      BY <1>2, <3>1 DEF In
  <2>3. \A i \in 1..n : \E j \in 1..(n + 1) : new[j] = list[i]
    <3>. SUFFICES ASSUME NEW i \in 1..n PROVE \E j \in 1..(n + 1) : new[j] = list[i]
      OBVIOUS
    <3>1. i \in 1..(n + 1) /\ i + 1 \in 1..(n + 1) /\ (i \in 1..k \/ i > k)
      BY <1>1, <1>2
    <3>. QED
      BY <1>2, <3>1
  <2>4. \A s \in Tasks : In(s, list) => In(s, new)
    BY <1>2, <2>3 DEF In, n
  <2>. QED
    BY <2>1, <2>2, <2>4
<1>10. list # <<>> /\ exec[list[1]] <= e => new # <<>> /\ new[1] = list[1]
  <2>. SUFFICES ASSUME list # <<>>, exec[list[1]] <= e PROVE new # <<>> /\ new[1] = list[1]
    OBVIOUS
  <2>1. n \in Nat \ {0}
    BY EmptySeq DEF n
  <2>2. 1 \in 1..n /\ ~(exec[list[1]] > e)
    BY <1>1, <2>1
  <2>3. 1 \in 1..k
    BY <1>2, <2>2
  <2>4. Len(new) # 0
    BY <1>1, <1>2
  <2>. QED
    BY <1>2, <2>3, <2>4, EmptySeq
<1>. QED
  BY <1>2, <1>8, <1>9, <1>10 DEF new, x

\* What stands where after an element was removed.
LEMMA RemoveIs ==
    ASSUME NEW S, NEW s \in Seq(S), NEW k \in 1..Len(s)
    PROVE  /\ RemoveAt(s, k) \in Seq(S)
           /\ Len(RemoveAt(s, k)) = Len(s) - 1
           /\ \A i \in 1..(Len(s) - 1) :
                 RemoveAt(s, k)[i] = IF i < k THEN s[i] ELSE s[i + 1]
<1>. DEFINE n     == Len(s)
            front == SubSeq(s, 1, k - 1)
            back  == SubSeq(s, k + 1, n)
            new   == RemoveAt(s, k)
<1>1. n \in Nat /\ \A i \in 1..n : s[i] \in S
  BY ElementOfSeq, LenProperties
<1>2. new = front \o back
  BY Zenon DEF RemoveAt
<1>3. /\ front \in Seq(S)
      /\ Len(front) = k - 1
      /\ \A i \in 1..(k - 1) : front[i] = s[i]
  <2>1. \A i \in 1..(k - 1) : s[i] \in S
    BY <1>1
  <2>2. /\ front \in Seq(S)
        /\ Len(front) = IF 1 <= k - 1 THEN ((k - 1) - 1) + 1 ELSE 0
        /\ \A i \in 1..(((k - 1) - 1) + 1) : front[i] = s[(1 + i) - 1]
    BY <2>1, SubSeqProperties
  <2>. HIDE DEF front
  <2>. QED
    BY <2>2
<1>4. /\ back \in Seq(S)
      /\ Len(back) = n - k
      /\ \A i \in 1..(n - k) : back[i] = s[k + i]
  <2>1. \A i \in (k + 1)..n : s[i] \in S
    BY <1>1
  <2>2. /\ back \in Seq(S)
        /\ Len(back) = IF k + 1 <= n THEN (n - (k + 1)) + 1 ELSE 0
        /\ \A i \in 1..((n - (k + 1)) + 1) : back[i] = s[((k + 1) + i) - 1]
    BY <1>1, <2>1, SubSeqProperties
  <2>. HIDE DEF back
  <2>. QED
    BY <1>1, <2>2
<1>. HIDE DEF front, back, new
<1>5. /\ new \in Seq(S)
      /\ Len(new) = Len(front) + Len(back)
      /\ \A i \in 1..(Len(front) + Len(back)) :
            new[i] = IF i <= Len(front) THEN front[i] ELSE back[i - Len(front)]
  BY <1>2, <1>3, <1>4, ConcatProperties
<1>. HIDE DEF n
<1>6. k \in 1..n
  BY DEF n
<1>7. Len(new) = n - 1
  BY <1>1, <1>3, <1>4, <1>5, <1>6
<1>8. \A i \in 1..(n - 1) : new[i] = IF i < k THEN s[i] ELSE s[i + 1]
  <2>. SUFFICES ASSUME NEW i \in 1..(n - 1) PROVE new[i] = IF i < k THEN s[i] ELSE s[i + 1]
    OBVIOUS
  <2>1. new[i] = IF i <= k - 1 THEN front[i] ELSE back[i - (k - 1)]
    BY <1>1, <1>3, <1>4, <1>5, <1>6
  <2>2. CASE i < k
    BY <1>3, <1>6, <2>1, <2>2
  <2>3. CASE ~(i < k)
    <3>1. i - (k - 1) \in 1..(n - k) /\ k + (i - (k - 1)) = i + 1 /\ ~(i <= k - 1)
      BY <1>1, <1>6, <2>3
    <3>. QED
      BY <1>4, <2>1, <2>3, <3>1
  <2>. QED
    BY <2>2, <2>3
<1>. QED
  BY Zenon, <1>5, <1>7, <1>8 DEF n, new

\* Without a task the queue stays in order, and nobody else leaves it.
LEMMA WithoutKeepsOrder ==
    ASSUME NEW list \in Seq(Tasks), NEW t \in Tasks, InOrder(list, exec)
    PROVE  /\ Without(list, t) \in Seq(Tasks)
           /\ InOrder(Without(list, t), exec)
           /\ \A s \in Tasks : In(s, Without(list, t)) <=> In(s, list) /\ s # t
           /\ list # <<>> /\ list[1] # t =>
                 Without(list, t) # <<>> /\ Without(list, t)[1] = list[1]
<1>1. CASE ~Contains(list, t)
  <2>1. Without(list, t) = list
    BY Zenon, <1>1 DEF Without
  <2>2. ~In(t, list)
    BY Zenon, <1>1 DEF Contains, In
  <2>. QED
    BY Zenon, <2>1, <2>2
<1>2. CASE Contains(list, t)
  <2>. DEFINE n   == Len(list)
              k   == CHOOSE i \in 1..Len(list) : list[i] = t
              new == RemoveAt(list, k)
  <2>0. Without(list, t) = new
    BY Zenon, <1>2 DEF Without
  <2>1. k \in 1..n /\ list[k] = t
    BY Zenon, <1>2 DEF Contains
  <2>2. n \in Nat
    BY LenProperties
  <2>. HIDE DEF k
  <2>3. /\ new \in Seq(Tasks)
        /\ Len(new) = n - 1
        /\ \A i \in 1..(n - 1) : new[i] = IF i < k THEN list[i] ELSE list[i + 1]
    BY <2>1, RemoveIs
  <2>4. \A i, j \in 1..n : i < j => exec[list[i]] <= exec[list[j]] /\ list[i] # list[j]
    BY DEF InOrder
  <2>. HIDE DEF n, new
  <2>5. \A i \in 1..(n - 1) : i < k => new[i] = list[i] /\ i \in 1..n
    BY <2>1, <2>2, <2>3
  <2>6. \A i \in 1..(n - 1) : ~(i < k) => new[i] = list[i + 1] /\ i + 1 \in 1..n
    BY <2>1, <2>2, <2>3
  <2>7. InOrder(new, exec)
    <3>. SUFFICES ASSUME NEW i \in 1..(n - 1), NEW j \in 1..(n - 1), i < j
                  PROVE  exec[new[i]] <= exec[new[j]] /\ new[i] # new[j]
      BY <2>3 DEF InOrder
    <3>1. CASE i < k /\ j < k
      BY <2>4, <2>5, <3>1
    <3>2. CASE i < k /\ ~(j < k)
      <4>1. i < j + 1
        OBVIOUS
      <4>. QED
        BY <2>4, <2>5, <2>6, <3>2, <4>1
    <3>3. CASE ~(i < k) /\ ~(j < k)
      <4>1. i + 1 < j + 1
        OBVIOUS
      <4>. QED
        BY <2>4, <2>6, <3>3, <4>1
    <3>. QED
      BY <2>1, <3>1, <3>2, <3>3
  <2>8. \A s \in Tasks : In(s, new) <=> In(s, list) /\ s # t
    <3>1. \A i \in 1..n : i # k => list[i] # t
      BY <2>1, <2>4
    <3>2. ASSUME NEW i \in 1..(n - 1) PROVE In(new[i], list) /\ new[i] # t
      <4>1. CASE i < k
        <5>1. i \in 1..n /\ i # k /\ new[i] = list[i]
          BY <2>5, <4>1
        <5>. QED
          BY Zenon, <3>1, <5>1 DEF In, n
      <4>2. CASE ~(i < k)
        <5>1. i + 1 \in 1..n /\ i + 1 # k /\ new[i] = list[i + 1]
          BY <2>1, <2>2, <2>6, <4>2
        <5>. QED
          BY Zenon, <3>1, <5>1 DEF In, n
      <4>. QED
        BY Zenon, <4>1, <4>2
    <3>3. ASSUME NEW i \in 1..n, list[i] # t PROVE In(list[i], new)
      <4>1. CASE i < k
        <5>1. i \in 1..(n - 1) /\ new[i] = list[i]
          BY <2>1, <2>2, <2>5, <4>1
        <5>. QED
          BY Zenon, <2>3, <5>1 DEF In
      <4>2. CASE ~(i < k)
        <5>0. i > k
          BY <2>1, <3>3, <4>2
        <5>1. i - 1 \in 1..(n - 1) /\ ~(i - 1 < k) /\ (i - 1) + 1 = i
          BY <2>1, <2>2, <5>0
        <5>2. new[i - 1] = list[i]
          BY <2>6, <5>1
        <5>. QED
          BY Zenon, <2>3, <5>1, <5>2 DEF In
      <4>. QED
        BY Zenon, <4>1, <4>2
    <3>4. \A s \in Tasks : In(s, new) => In(s, list) /\ s # t
      BY Zenon, <2>3, <3>2 DEF In
    <3>5. \A s \in Tasks : In(s, list) /\ s # t => In(s, new)
      BY Zenon, <3>3 DEF In, n
    <3>. QED
      BY Zenon, <3>4, <3>5
  <2>9. list[1] # t => new # <<>> /\ new[1] = list[1]
    <3>. SUFFICES ASSUME list[1] # t PROVE new # <<>> /\ new[1] = list[1]
      OBVIOUS
    <3>1. k # 1
      BY <2>1
    <3>2. 1 < k /\ 1 \in 1..(n - 1)
      BY <2>1, <2>2, <3>1
    <3>3. Len(new) # 0
      BY <2>2, <2>3, <3>2
    <3>. QED
      BY <2>5, <3>2, <3>3, EmptySeq
  <2>. QED
    BY Zenon, <2>0, <2>3, <2>7, <2>8, <2>9
<1>. QED
  BY Zenon, <1>1, <1>2

\* Without its front the queue stays in order, and nobody else leaves it.
LEMMA TailKeepsOrder ==
    ASSUME NEW list \in Seq(Tasks), list # <<>>, InOrder(list, exec)
    PROVE  /\ Head(list) = list[1] /\ list[1] \in Tasks
           /\ Tail(list) \in Seq(Tasks)
           /\ InOrder(Tail(list), exec)
           /\ \A s \in Tasks : In(s, Tail(list)) <=> In(s, list) /\ s # list[1]
<1>. DEFINE n   == Len(list)
            new == Tail(list)
<1>1. n \in Nat \ {0}
  BY EmptySeq
<1>2. new \in Seq(Tasks) /\ Len(new) = n - 1 /\ \A i \in 1..(n - 1) : new[i] = list[i + 1]
  BY HeadTailProperties
<1>3. Head(list) = list[1] /\ list[1] \in Tasks
  <2>1. 1 \in 1..n
    BY <1>1
  <2>. QED
    BY <2>1, ElementOfSeq
<1>4. \A i, j \in 1..n : i < j => exec[list[i]] <= exec[list[j]] /\ list[i] # list[j]
  BY DEF InOrder
<1>. HIDE DEF n, new
<1>5. InOrder(new, exec)
  <2>. SUFFICES ASSUME NEW i \in 1..(n - 1), NEW j \in 1..(n - 1), i < j
                PROVE  exec[new[i]] <= exec[new[j]] /\ new[i] # new[j]
    BY <1>2 DEF InOrder
  <2>1. i + 1 \in 1..n /\ j + 1 \in 1..n /\ i + 1 < j + 1
    BY <1>1
  <2>. QED
    BY <1>2, <1>4, <2>1
<1>6. \A s \in Tasks : In(s, new) <=> In(s, list) /\ s # list[1]
  <2>1. ASSUME NEW i \in 1..(n - 1) PROVE In(new[i], list) /\ new[i] # list[1]
    <3>1. i + 1 \in 1..n /\ 1 \in 1..n /\ 1 < i + 1 /\ new[i] = list[i + 1]
      BY <1>1, <1>2
    <3>2. list[1] # list[i + 1]
      BY <1>4, <3>1
    <3>. QED
      BY Zenon, <3>1, <3>2 DEF In, n
  <2>2. ASSUME NEW i \in 1..n, list[i] # list[1] PROVE In(list[i], new)
    <3>0. i # 1
      BY <2>2
    <3>1. i - 1 \in 1..(n - 1) /\ (i - 1) + 1 = i
      BY <1>1, <3>0
    <3>2. new[i - 1] = list[i]
      BY <1>2, <3>1
    <3>. QED
      BY Zenon, <1>2, <3>1, <3>2 DEF In
  <2>3. \A s \in Tasks : In(s, new) => In(s, list) /\ s # list[1]
    BY Zenon, <1>2, <2>1 DEF In
  <2>4. \A s \in Tasks : In(s, list) /\ s # list[1] => In(s, new)
    BY Zenon, <2>2 DEF In, n
  <2>. QED
    BY Zenon, <2>3, <2>4
<1>. QED
  BY Zenon, <1>2, <1>3, <1>5, <1>6 DEF new

-----------------------------------------------------------------------------
\* A task that is off changes next after its pause, or at its <at>.
LEMMA StartIs ==
    ASSUME NEW t \in Tasks, NEW occ \in SUBSET (Nat \ {0}), NEW n \in Nat
    PROVE  /\ NextChange(t, FALSE, occ, n) \in Nat
           /\ NextChange(t, FALSE, occ, n) = 0 \/ NextChange(t, FALSE, occ, n) >= n
           /\ Every[t] = -1 => NextChange(t, FALSE, occ, n) = FindNext(occ, n)
<1>. DEFINE c == NextChange(t, FALSE, occ, n)
            f == FindNext(occ, n)
<1>1. Every[t] \in Int /\ (Every[t] = -1 \/ Every[t] > 0)
  BY TimerConstants
<1>2. c = IF Every[t] # -1 THEN n + Every[t] ELSE f
  BY Zenon DEF NextChange
<1>3. f \in Nat /\ (f = 0 \/ f > n)
  BY FindNextIs
<1>. HIDE DEF c, f
<1>4. c \in Nat /\ (c = 0 \/ c >= n) /\ (Every[t] = -1 => c = f)
  BY <1>1, <1>2, <1>3
<1>. QED
  BY Zenon, <1>4 DEF c, f

\* A task that is on changes next at its end.
LEMMA EndIs ==
    ASSUME NEW t \in Tasks, NEW occ \in SUBSET (Nat \ {0}), NEW n \in Nat
    PROVE  /\ NextChange(t, TRUE, occ, n) \in Nat
           /\ NextChange(t, TRUE, occ, n) = 0 \/ NextChange(t, TRUE, occ, n) >= n
           /\ During[t] = 0 => NextChange(t, TRUE, occ, n) = n
<1>. DEFINE c == NextChange(t, TRUE, occ, n)
            f == FindNext(Until[t], n)
<1>1. During[t] \in Int /\ During[t] >= -1 /\ Until[t] \in SUBSET (Nat \ {0})
  BY TimerConstants
<1>2. c = IF During[t] # -1 THEN n + During[t] ELSE f
  BY Zenon DEF NextChange
<1>3. f \in Nat /\ (f = 0 \/ f > n)
  BY <1>1, FindNextIs
<1>. HIDE DEF c, f
<1>4. c \in Nat /\ (c = 0 \/ c >= n) /\ (During[t] = 0 => c = n)
  BY <1>1, <1>2, <1>3
<1>. QED
  BY Zenon, <1>4 DEF c

\* The end guessed on the first schedule lies ahead, if it comes before the
\* start, or there is none.
LEMMA GuessIs ==
    ASSUME NEW t \in Tasks, NEW occ \in SUBSET (Nat \ {0}), NEW n \in Nat, During[t] # 0
    PROVE  /\ FirstStop(t, occ, n) \in Nat
           /\ FirstStop(t, occ, n) < NextChange(t, FALSE, occ, n)
                 => FirstStop(t, occ, n) = 0 \/ FirstStop(t, occ, n) >= n
<1>. DEFINE d     == During[t]
            f     == FindNext(occ, n - d)
            stop  == FirstStop(t, occ, n)
            start == NextChange(t, FALSE, occ, n)
<1>1. d \in Int /\ d >= -1 /\ Until[t] \in SUBSET (Nat \ {0})
  BY TimerConstants
<1>2. CASE d = -1
  <2>1. stop = FindNext(Until[t], n)
    BY Zenon, <1>2 DEF FirstStop
  <2>. DEFINE u == FindNext(Until[t], n)
  <2>2. u \in Nat /\ (u = 0 \/ u > n)
    BY <1>1, FindNextIs
  <2>. HIDE DEF stop, u
  <2>3. stop = u
    BY Zenon, <2>1 DEF u
  <2>4. stop \in Nat /\ (stop = 0 \/ stop >= n)
    BY <2>2, <2>3
  <2>. QED
    BY Zenon, <2>4 DEF stop
<1>3. CASE d # -1 /\ Every[t] = -1
  <2>1. stop = f + d
    BY <1>3 DEF FirstStop
  <2>2. d > 0 /\ n - d \in Int
    BY <1>1, <1>3
  <2>3. /\ f \in Nat
        /\ f = 0 => \A x \in occ : x <= n - d
        /\ f # 0 => f > n - d
    BY <2>2, FindNextIs
  <2>4. CASE f = 0
    <3>1. \A x \in occ : x <= n
      BY <1>1, <2>2, <2>3, <2>4
    <3>2. FindNext(occ, n) = 0
      BY <3>1, FindNextIs
    <3>3. start = 0
      BY <1>3, <3>2, StartIs
    <3>. HIDE DEF stop, start, f, d
    <3>4. stop \in Nat /\ ~(stop < start)
      BY <1>1, <2>1, <2>2, <2>4, <3>3
    <3>. QED
      BY <3>4 DEF stop, start
  <2>5. CASE f # 0
    <3>. HIDE DEF stop, start, f, d
    <3>1. stop \in Nat /\ stop >= n
      BY <1>1, <2>1, <2>2, <2>3, <2>5
    <3>. QED
      BY <3>1 DEF stop, start
  <2>. QED
    BY <2>4, <2>5
<1>4. CASE d # -1 /\ Every[t] # -1
  <2>1. stop = n + d
    BY <1>4 DEF FirstStop
  <2>. HIDE DEF stop, d
  <2>2. stop \in Nat /\ stop >= n
    BY <1>1, <1>4, <2>1
  <2>. QED
    BY <2>2 DEF stop
<1>. QED
  BY <1>2, <1>3, <1>4

\* A task outside the queue that is rescheduled: what becomes of its time, its
\* value and the queue.
LEMMA RescheduleSound ==
    ASSUME NEW t \in Tasks, NEW list \in Seq(Tasks),
           NEW occ \in SUBSET (Nat \ {0}), NEW n \in Nat,
           exec \in [Tasks -> Nat], value \in [Tasks -> BOOLEAN],
           InOrder(list, exec), ~In(t, list),
           Reschedule(t, list, occ, n)
    PROVE  /\ taskList' \in Seq(Tasks)
           /\ exec' \in [Tasks -> Nat]
           /\ value' \in [Tasks -> BOOLEAN]
           /\ InOrder(taskList', exec')
           /\ \A s \in Tasks : In(s, taskList') <=> In(s, list) \/ (s = t /\ exec'[t] # 0)
           /\ \A s \in Tasks : s # t => exec'[s] = exec[s] /\ value'[s] = value[s]
           /\ Every[t] = -1 /\ ~value'[t] => exec'[t] = FindNext(occ, n)
           /\ During[t] = 0 => /\ value'[t] = value[t]
                               /\ value[t] => exec'[t] = n
           /\ list # <<>> /\ exec[list[1]] <= n =>
                 taskList' # <<>> /\ taskList'[1] = list[1]
<1>. DEFINE first == exec[t] = 0 /\ During[t] # 0
            start == NextChange(t, FALSE, occ, n)
            stop  == FirstStop(t, occ, n)
            on    == IF first THEN stop < start ELSE value[t]
            next  == IF first
                     THEN IF on THEN stop ELSE start
                     ELSE NextChange(t, on, occ, n)
<1>1. /\ value' = [value EXCEPT ![t] = on]
      /\ exec' = [exec EXCEPT ![t] = next]
      /\ taskList' = IF next # 0 THEN Add(list, t, next) ELSE list
  BY Zenon DEF Reschedule
<1>2. on \in BOOLEAN
  <2>1. value[t] \in BOOLEAN
    BY Zenon
  <2>2. ASSUME first PROVE (stop < start) \in BOOLEAN
    <3>1. stop \in Nat /\ start \in Nat
      BY Zenon, <2>2, GuessIs, StartIs
    <3>. HIDE DEF stop, start
    <3>. QED
      BY <3>1
  <2>. HIDE DEF stop, start
  <2>. QED
    BY Zenon, <2>1, <2>2
<1>3. next \in Nat /\ (next = 0 \/ next >= n)
  <2>. HIDE DEF start, stop
  <2>1. CASE first /\ on
    <3>1. next = stop /\ stop < start
      BY Zenon, <2>1
    <3>. QED
      BY Zenon, <2>1, <3>1, GuessIs DEF start, stop
  <2>2. CASE first /\ ~on
    <3>1. next = start
      BY Zenon, <2>2
    <3>. QED
      BY Zenon, <3>1, StartIs DEF start
  <2>3. CASE ~first /\ on = TRUE
    <3>1. next = NextChange(t, TRUE, occ, n)
      BY Zenon, <2>3
    <3>. HIDE DEF next
    <3>. QED
      BY Zenon, <3>1, EndIs
  <2>4. CASE ~first /\ on = FALSE
    <3>1. next = NextChange(t, FALSE, occ, n)
      BY Zenon, <2>4
    <3>. HIDE DEF next
    <3>. QED
      BY Zenon, <3>1, StartIs
  <2>. HIDE DEF next, first, on
  <2>. QED
    BY Zenon, <1>2, <2>1, <2>2, <2>3, <2>4
<1>4. Every[t] = -1 /\ on = FALSE => next = FindNext(occ, n)
  <2>. SUFFICES ASSUME Every[t] = -1, on = FALSE PROVE next = FindNext(occ, n)
    BY Zenon
  <2>1. next = start
    BY Zenon
  <2>. HIDE DEF next
  <2>. QED
    BY Zenon, <2>1, StartIs
<1>5. During[t] = 0 => /\ on = value[t]
                       /\ on = TRUE => next = n
  <2>. SUFFICES ASSUME During[t] = 0 PROVE on = value[t] /\ (on = TRUE => next = n)
    BY Zenon
  <2>1. on = value[t] /\ next = NextChange(t, on, occ, n)
    BY Zenon
  <2>. HIDE DEF next, on
  <2>. QED
    BY Zenon, <2>1, EndIs
<1>. HIDE DEF first, start, stop, on, next
<1>6. exec'[t] = next /\ exec' \in [Tasks -> Nat]
      /\ \A s \in Tasks : s # t => exec'[s] = exec[s]
  BY <1>1, <1>3
<1>7. value'[t] = on /\ value' \in [Tasks -> BOOLEAN]
      /\ \A s \in Tasks : s # t => value'[s] = value[s]
  BY Zenon, <1>1, <1>2
<1>8. CASE next = 0
  <2>1. taskList' = list
    BY Zenon, <1>1, <1>8
  <2>2. \A i \in 1..Len(list) : list[i] \in Tasks /\ list[i] # t
    BY ElementOfSeq DEF In
  <2>3. InOrder(list, exec')
    BY <1>6, <2>2 DEF InOrder
  <2>. QED
    BY Zenon, <1>2, <1>4, <1>5, <1>6, <1>7, <1>8, <2>1, <2>3
<1>9. CASE next # 0
  <2>1. taskList' = Add(list, t, next)
    BY Zenon, <1>1, <1>9
  <2>2. /\ Add(list, t, next) \in Seq(Tasks)
        /\ InOrder(Add(list, t, next), [exec EXCEPT ![t] = next])
        /\ \A s \in Tasks : In(s, Add(list, t, next)) <=> In(s, list) \/ s = t
        /\ list # <<>> /\ exec[list[1]] <= next =>
              Add(list, t, next) # <<>> /\ Add(list, t, next)[1] = list[1]
    BY Zenon, <1>3, AddKeepsOrder
  <2>3. list # <<>> /\ exec[list[1]] <= n => exec[list[1]] <= next
    <3>. SUFFICES ASSUME list # <<>>, exec[list[1]] <= n PROVE exec[list[1]] <= next
      BY Zenon
    <3>1. list[1] \in Tasks
      BY TailKeepsOrder
    <3>2. exec[list[1]] \in Nat
      BY <3>1
    <3>. QED
      BY <1>3, <1>9, <3>2
  <2>. QED
    BY Zenon, <1>1, <1>2, <1>4, <1>5, <1>6, <1>7, <1>9, <2>1, <2>2, <2>3
<1>. QED
  BY Zenon, <1>8, <1>9

-----------------------------------------------------------------------------
\* At first there is no task.
LEMMA Initially == Init => QueueInv
<1>. SUFFICES ASSUME Init PROVE QueueInv
  OBVIOUS
<1>1. Types
  <2>1. /\ at \in [Tasks -> SUBSET (Nat \ {0})]
        /\ \A t \in Tasks : at[t] \in AtChoices[t]
    <3>1. /\ at \in [Tasks -> UNION {AtChoices[t] : t \in Tasks}]
          /\ \A t \in Tasks : at[t] \in AtChoices[t]
      BY Zenon DEF Init
    <3>2. \A t \in Tasks : at[t] \in SUBSET (Nat \ {0})
      BY <3>1, TimerConstants
    <3>3. at = [t \in Tasks |-> at[t]]
      BY Zenon, <3>1
    <3>. QED
      BY Zenon, <3>1, <3>2, <3>3
  <2>2. value \in [Tasks -> BOOLEAN]
    BY Zenon DEF Init
  <2>3. /\ now \in Nat \ {0} /\ exec \in [Tasks -> Nat] /\ live \subseteq Tasks
        /\ firing \in live \cup {NoTask} /\ checked \in Nat /\ checked <= now
    BY DEF Init
  <2>4. taskList \in Seq(Tasks)
    BY EmptySeq DEF Init
  <2>. QED
    BY Zenon, <2>1, <2>2, <2>3, <2>4 DEF Types
<1>2. Sorted /\ Members
  BY DEF Init, Sorted, Members, Queued
<1>3. PulsesEnd
  BY Zenon DEF Init, PulsesEnd
<1>4. FiringKnown /\ \A t \in live \ {firing} : Wakes(t)
  BY Zenon DEF Init, FiringKnown
<1>. QED
  BY <1>1, <1>2, <1>3, <1>4 DEF QueueInv

\* The queue after a task that is taken out of it is rescheduled: it is in
\* order, holds who must be in it, and every task wakes that did.
LEMMA QueueKept ==
    ASSUME QueueInv,
           NEW t \in Tasks, NEW list \in Seq(Tasks),
           NEW occ \in SUBSET (Nat \ {0}), NEW n \in Nat, n <= now,
           InOrder(list, exec),
           \A s \in Tasks : In(s, list) <=> In(s, taskList) /\ s # t,
           Reschedule(t, list, occ, n),
           live' = live \cup {t}, now' = now, at' = [at EXCEPT ![t] = occ]
    PROVE  /\ taskList' \in Seq(Tasks)
           /\ exec' \in [Tasks -> Nat]
           /\ value' \in [Tasks -> BOOLEAN]
           /\ Sorted' /\ Members'
           /\ Wakes(t)'
           /\ \A s \in Tasks : s # t => /\ exec'[s] = exec[s]
                                        /\ value'[s] = value[s]
                                        /\ Wakes(s) => Wakes(s)'
           /\ During[t] = 0 => /\ value'[t] = value[t]
                               /\ value[t] => exec'[t] = n
           /\ list # <<>> /\ exec[list[1]] <= n =>
                 taskList' # <<>> /\ taskList'[1] = list[1]
<1>1. ~In(t, list)
  BY Zenon
<1>2. exec \in [Tasks -> Nat] /\ value \in [Tasks -> BOOLEAN] /\ now \in Nat
      /\ at \in [Tasks -> SUBSET (Nat \ {0})]
  BY Zenon DEF QueueInv, Types
<1>3. /\ taskList' \in Seq(Tasks)
      /\ exec' \in [Tasks -> Nat]
      /\ value' \in [Tasks -> BOOLEAN]
      /\ InOrder(taskList', exec')
      /\ \A s \in Tasks : In(s, taskList') <=> In(s, list) \/ (s = t /\ exec'[t] # 0)
      /\ \A s \in Tasks : s # t => exec'[s] = exec[s] /\ value'[s] = value[s]
      /\ Every[t] = -1 /\ ~value'[t] => exec'[t] = FindNext(occ, n)
      /\ During[t] = 0 => /\ value'[t] = value[t]
                          /\ value[t] => exec'[t] = n
      /\ list # <<>> /\ exec[list[1]] <= n =>
            taskList' # <<>> /\ taskList'[1] = list[1]
  BY Zenon, <1>1, <1>2, RescheduleSound
<1>4. Sorted'
  BY Zenon, <1>3 DEF Sorted, InOrder
<1>5. Members'
  <2>1. \A s \in Tasks : In(s, taskList) <=> (s \in live /\ exec[s] # 0)
    BY Zenon DEF QueueInv, Members, Queued, In
  <2>2. \A s \in Tasks : In(s, taskList') <=> (s \in live' /\ exec'[s] # 0)
    <3>. SUFFICES ASSUME NEW s \in Tasks
                  PROVE  In(s, taskList') <=> (s \in live' /\ exec'[s] # 0)
      OBVIOUS
    <3>1. CASE s = t
      BY Zenon, <1>1, <1>3, <3>1
    <3>2. CASE s # t
      <4>1. s \in live' <=> s \in live
        BY Zenon, <3>2
      <4>. QED
        BY Zenon, <1>3, <2>1, <3>2, <4>1
    <3>. QED
      BY Zenon, <3>1, <3>2
  <2>. QED
    BY Zenon, <2>2 DEF Members, Queued, In
<1>6. Wakes(t)'
  <2>1. at'[t] = occ
    BY Zenon, <1>2
  <2>2. FindNext(occ, now) # 0 => FindNext(occ, n) # 0 /\ FindNext(occ, n) <= FindNext(occ, now)
    BY <1>2, FindNextGrows
  <2>. QED
    BY Zenon, <1>3, <2>1, <2>2 DEF Wakes
<1>7. \A s \in Tasks : s # t => (Wakes(s) => Wakes(s)')
  <2>1. \A s \in Tasks : s # t => at'[s] = at[s]
    BY Zenon, <1>2
  <2>. QED
    BY Zenon, <1>3, <2>1 DEF Wakes
<1>. QED
  BY Zenon, <1>3, <1>4, <1>5, <1>6, <1>7

\* Who is in the queue, in the words of the lemmas about lists.
LEMMA QueueIs ==
    ASSUME QueueInv
    PROVE  /\ taskList \in Seq(Tasks)
           /\ InOrder(taskList, exec)
           /\ \A s \in Tasks : In(s, taskList) <=> (s \in live /\ exec[s] # 0)
<1>1. taskList \in Seq(Tasks) /\ Sorted /\ Members
  BY Zenon DEF QueueInv, Types
<1>. QED
  BY Zenon, <1>1 DEF Sorted, InOrder, Members, Queued, In

\* A timer that is configured leaves the front to a task that fires.
LEMMA CreateKeeps == ASSUME QueueInv, NEW t \in Tasks, Create(t) PROVE QueueInv'
<1>1. /\ t \notin live /\ live' = live \cup {t}
      /\ Reschedule(t, taskList, at[t], now)
      /\ now' = now /\ at' = at /\ firing' = firing /\ checked' = checked
  BY Zenon DEF Create
<1>2. Types /\ PulsesEnd /\ FiringKnown /\ \A s \in live \ {firing} : Wakes(s)
  BY Zenon DEF QueueInv
<1>3. now \in Nat /\ now <= now /\ at[t] \in SUBSET (Nat \ {0}) /\ at' = [at EXCEPT ![t] = at[t]]
  BY <1>1, <1>2 DEF Types
<1>4. t # firing
  BY Zenon, <1>1, <1>2, TimerConstants DEF Types
<1>5. ~In(t, taskList)
  BY Zenon, <1>1, QueueIs
<1>6. \A s \in Tasks : In(s, taskList) <=> In(s, taskList) /\ s # t
  BY Zenon, <1>5
<1>7. taskList \in Seq(Tasks) /\ InOrder(taskList, exec)
  BY Zenon, QueueIs
<1>8. /\ taskList' \in Seq(Tasks)
      /\ exec' \in [Tasks -> Nat]
      /\ value' \in [Tasks -> BOOLEAN]
      /\ Sorted' /\ Members'
      /\ Wakes(t)'
      /\ \A s \in Tasks : s # t => /\ exec'[s] = exec[s]
                                   /\ value'[s] = value[s]
                                   /\ Wakes(s) => Wakes(s)'
      /\ During[t] = 0 => value'[t] = value[t]
      /\ taskList # <<>> /\ exec[taskList[1]] <= now =>
            taskList' # <<>> /\ taskList'[1] = taskList[1]
  BY Zenon, <1>1, <1>3, <1>6, <1>7, QueueKept
<1>9. Types'
  BY <1>1, <1>2, <1>8 DEF Types
<1>10. PulsesEnd'
  BY Zenon, <1>1, <1>2, <1>4, <1>8 DEF PulsesEnd
<1>11. FiringKnown'
  <2>1. firing # NoTask => firing \in Tasks
    BY Zenon, <1>2 DEF Types
  <2>. SUFFICES ASSUME NEW f \in Tasks, firing = f, f # NoTask
                PROVE  \/ taskList' # <<>> /\ taskList'[1] = f /\ exec'[f] <= checked
                       \/ Wakes(f)' /\ (Pulses(f)' => exec'[f] \in 1..now)
    BY Zenon, <1>1, <2>1 DEF FiringKnown, Wakes, Pulses
  <2>2. CASE taskList # <<>> /\ taskList[1] = f /\ exec[f] <= checked
    <3>1. exec[f] <= now
      BY <1>2, <2>2 DEF Types
    <3>. QED
      BY Zenon, <1>4, <1>8, <2>2, <3>1
  <2>3. CASE Wakes(f) /\ (Pulses(f) => exec[f] \in 1..now)
    BY Zenon, <1>4, <1>8, <2>3 DEF Pulses
  <2>. QED
    BY Zenon, <1>2, <2>2, <2>3 DEF FiringKnown
<1>12. \A s \in live' \ {firing'} : Wakes(s)'
  <2>1. live \subseteq Tasks
    BY Zenon, <1>2 DEF Types
  <2>. QED
    BY Zenon, <1>1, <1>2, <1>8, <2>1
<1>. QED
  BY Zenon, <1>8, <1>9, <1>10, <1>11, <1>12 DEF QueueInv, Wakes

\* A timer that is deleted is taken out of the queue; it is not the one that fires.
LEMMA DeleteKeeps == ASSUME QueueInv, NEW t \in Tasks, Delete(t) PROVE QueueInv'
<1>1. /\ t \in live /\ firing # t /\ live' = live \ {t}
      /\ taskList' = Without(taskList, t)
      /\ exec' = [exec EXCEPT ![t] = 0]
      /\ value' = [value EXCEPT ![t] = FALSE]
      /\ now' = now /\ at' = at /\ firing' = firing /\ checked' = checked
  BY Zenon DEF Delete
<1>2. Types /\ PulsesEnd /\ FiringKnown /\ \A s \in live \ {firing} : Wakes(s)
  BY Zenon DEF QueueInv
<1>3. /\ taskList \in Seq(Tasks) /\ InOrder(taskList, exec)
      /\ \A s \in Tasks : In(s, taskList) <=> (s \in live /\ exec[s] # 0)
  BY Zenon, QueueIs
<1>4. /\ taskList' \in Seq(Tasks)
      /\ InOrder(taskList', exec)
      /\ \A s \in Tasks : In(s, taskList') <=> In(s, taskList) /\ s # t
      /\ taskList # <<>> /\ taskList[1] # t =>
            taskList' # <<>> /\ taskList'[1] = taskList[1]
  BY Zenon, <1>1, <1>3, WithoutKeepsOrder
<1>5. exec' \in [Tasks -> Nat] /\ exec'[t] = 0 /\ \A s \in Tasks : s # t => exec'[s] = exec[s]
  BY <1>1, <1>2 DEF Types
<1>6. /\ value' \in [Tasks -> BOOLEAN]
      /\ value'[t] = FALSE
      /\ \A s \in Tasks : s # t => value'[s] = value[s]
  BY Zenon, <1>1, <1>2 DEF Types
<1>7. Types'
  BY <1>1, <1>2, <1>4, <1>5, <1>6 DEF Types
<1>8. Sorted'
  <2>1. \A i \in 1..Len(taskList') : taskList'[i] \in Tasks /\ taskList'[i] # t
    <3>1. ~In(t, taskList')
      BY Zenon, <1>4
    <3>. QED
      BY <1>4, <3>1, ElementOfSeq DEF In
  <2>2. \A i \in 1..Len(taskList') : exec'[taskList'[i]] = exec[taskList'[i]]
    BY Zenon, <1>5, <2>1
  <2>. QED
    BY Zenon, <1>4, <2>2 DEF Sorted, InOrder
<1>9. Members'
  <2>1. \A s \in Tasks : In(s, taskList') <=> (s \in live' /\ exec'[s] # 0)
    BY Zenon, <1>1, <1>3, <1>4, <1>5
  <2>. QED
    BY Zenon, <2>1 DEF Members, Queued, In
<1>10. PulsesEnd'
  BY Zenon, <1>1, <1>2, <1>6 DEF PulsesEnd
<1>11. \A s \in Tasks : s # t => (Wakes(s) => Wakes(s)')
  BY Zenon, <1>1, <1>5, <1>6 DEF Wakes
<1>12. FiringKnown'
  <2>1. firing # NoTask => firing \in Tasks
    BY Zenon, <1>2 DEF Types
  <2>. QED
    BY Zenon, <1>1, <1>2, <1>4, <1>5, <1>6, <1>11, <2>1 DEF FiringKnown, Pulses
<1>13. \A s \in live' \ {firing'} : Wakes(s)'
  <2>1. live \subseteq Tasks
    BY Zenon, <1>2 DEF Types
  <2>. QED
    BY Zenon, <1>1, <1>2, <1>11, <2>1
<1>. QED
  BY Zenon, <1>7, <1>8, <1>9, <1>10, <1>12, <1>13 DEF QueueInv, Wakes

\* An object changes: its timer is rescheduled, even while it fires.
LEMMA ObjectChangesKeeps == ASSUME QueueInv, NEW t \in Tasks, ObjectChanges(t) PROVE QueueInv'
<1>1. PICK occ \in AtChoices[t] \ {at[t]} :
         /\ at' = [at EXCEPT ![t] = occ]
         /\ Reschedule(t, Without(taskList, t), occ, now)
  BY Zenon DEF ObjectChanges
<1>2. /\ t \in live
      /\ now' = now /\ live' = live /\ firing' = firing /\ checked' = checked
  BY Zenon DEF ObjectChanges
<1>3. Types /\ PulsesEnd /\ FiringKnown /\ \A s \in live \ {firing} : Wakes(s)
  BY Zenon DEF QueueInv
<1>4. now \in Nat \ {0} /\ now <= now /\ occ \in SUBSET (Nat \ {0})
  BY <1>1, <1>3, TimerConstants DEF Types
<1>5. live' = live \cup {t}
  BY Zenon, <1>2
<1>6. /\ taskList \in Seq(Tasks) /\ InOrder(taskList, exec)
      /\ Without(taskList, t) \in Seq(Tasks)
      /\ InOrder(Without(taskList, t), exec)
      /\ \A s \in Tasks : In(s, Without(taskList, t)) <=> In(s, taskList) /\ s # t
      /\ taskList # <<>> /\ taskList[1] # t =>
            Without(taskList, t) # <<>> /\ Without(taskList, t)[1] = taskList[1]
  BY Zenon, QueueIs, WithoutKeepsOrder
<1>7. /\ taskList' \in Seq(Tasks)
      /\ exec' \in [Tasks -> Nat]
      /\ value' \in [Tasks -> BOOLEAN]
      /\ Sorted' /\ Members'
      /\ Wakes(t)'
      /\ \A s \in Tasks : s # t => /\ exec'[s] = exec[s]
                                   /\ value'[s] = value[s]
                                   /\ Wakes(s) => Wakes(s)'
      /\ During[t] = 0 => /\ value'[t] = value[t]
                          /\ value[t] => exec'[t] = now
      /\ Without(taskList, t) # <<>> /\ exec[Without(taskList, t)[1]] <= now =>
            taskList' # <<>> /\ taskList'[1] = Without(taskList, t)[1]
  <2>1. now \in Nat
    BY <1>4
  <2>. QED
    BY Zenon, <1>1, <1>2, <1>4, <1>5, <1>6, <2>1, QueueKept
<1>8. Types'
  <2>1. at' \in [Tasks -> SUBSET (Nat \ {0})] /\ \A s \in Tasks : at'[s] \in AtChoices[s]
    BY Zenon, <1>1, <1>3, <1>4 DEF Types
  <2>. QED
    BY Zenon, <1>2, <1>3, <1>7, <2>1 DEF Types
<1>9. PulsesEnd'
  BY Zenon, <1>2, <1>3, <1>7 DEF PulsesEnd
<1>10. FiringKnown'
  <2>1. firing # NoTask => firing \in Tasks
    BY Zenon, <1>3 DEF Types
  <2>. SUFFICES ASSUME NEW f \in Tasks, firing = f, f # NoTask
                PROVE  \/ taskList' # <<>> /\ taskList'[1] = f /\ exec'[f] <= checked
                       \/ Wakes(f)' /\ (Pulses(f)' => exec'[f] \in 1..now)
    BY Zenon, <1>2, <2>1 DEF FiringKnown, Wakes, Pulses
  <2>2. CASE f = t
    <3>1. now \in 1..now
      BY <1>4
    <3>2. Pulses(f)' => exec'[f] \in 1..now
      BY Zenon, <1>7, <2>2, <3>1 DEF Pulses
    <3>. QED
      BY Zenon, <1>7, <2>2, <3>2 DEF Wakes
  <2>3. CASE f # t /\ taskList # <<>> /\ taskList[1] = f /\ exec[f] <= checked
    <3>1. exec[f] <= now
      BY <1>3, <2>3 DEF Types
    <3>. QED
      BY Zenon, <1>6, <1>7, <2>3, <3>1
  <2>4. CASE f # t /\ Wakes(f) /\ (Pulses(f) => exec[f] \in 1..now)
    BY Zenon, <1>7, <2>4 DEF Pulses
  <2>. QED
    BY Zenon, <1>3, <2>2, <2>3, <2>4 DEF FiringKnown
<1>11. \A s \in live' \ {firing'} : Wakes(s)'
  <2>1. live \subseteq Tasks
    BY Zenon, <1>3 DEF Types
  <2>. QED
    BY Zenon, <1>2, <1>3, <1>7, <2>1 DEF Wakes
<1>. QED
  BY Zenon, <1>7, <1>8, <1>9, <1>10, <1>11 DEF QueueInv, Wakes

\* The first task is due and fires, from its place in the queue.
LEMMA FireKeeps == ASSUME QueueInv, Fire PROVE QueueInv'
<1>. DEFINE t == taskList[1]
<1>1. /\ firing = NoTask /\ taskList # <<>> /\ exec[Head(taskList)] <= now
      /\ firing' = Head(taskList)
      /\ value' = [value EXCEPT ![Head(taskList)] = ~@]
      /\ checked' = now /\ now' = now /\ taskList' = taskList /\ exec' = exec
      /\ at' = at /\ live' = live
  BY Zenon DEF Fire
<1>2. Types /\ PulsesEnd /\ \A s \in live \ {firing} : Wakes(s)
  BY Zenon DEF QueueInv
<1>3. /\ taskList \in Seq(Tasks) /\ InOrder(taskList, exec)
      /\ \A s \in Tasks : In(s, taskList) <=> (s \in live /\ exec[s] # 0)
  BY Zenon, QueueIs
<1>4. Head(taskList) = t /\ t \in Tasks
  BY Zenon, <1>1, <1>3, TailKeepsOrder
<1>5. t \in live
  <2>1. Len(taskList) \in Nat \ {0}
    BY Zenon, <1>1, <1>3, EmptySeq
  <2>2. 1 \in 1..Len(taskList)
    BY <2>1
  <2>3. In(t, taskList)
    BY Zenon, <2>2 DEF In
  <2>. QED
    BY Zenon, <1>3, <1>4, <2>3
<1>. HIDE DEF t
<1>6. value' \in [Tasks -> BOOLEAN] /\ \A s \in Tasks : s # t => value'[s] = value[s]
  BY Zenon, <1>1, <1>2, <1>4 DEF Types
<1>7. Types'
  <2>1. now <= now /\ now \in Nat
    BY <1>2 DEF Types
  <2>. QED
    BY Zenon, <1>1, <1>2, <1>4, <1>5, <1>6, <2>1 DEF Types
<1>8. Sorted' /\ Members'
  BY Zenon, <1>1 DEF QueueInv, Sorted, Members, Queued
<1>9. PulsesEnd'
  <2>1. \A s \in Tasks : s # NoTask
    BY Zenon, TimerConstants
  <2>. QED
    BY Zenon, <1>1, <1>2, <1>4, <1>6, <2>1 DEF PulsesEnd
<1>10. FiringKnown'
  BY Zenon, <1>1, <1>4 DEF FiringKnown, t
<1>11. \A s \in live' \ {firing'} : Wakes(s)'
  <2>1. live \subseteq Tasks /\ NoTask \notin live
    BY Zenon, <1>2, TimerConstants DEF Types
  <2>. QED
    BY Zenon, <1>1, <1>2, <1>4, <1>6, <2>1 DEF Wakes
<1>. QED
  BY Zenon, <1>7, <1>8, <1>9, <1>10, <1>11 DEF QueueInv, Wakes

\* A timer without duration goes off; if it was rescheduled meanwhile, it wakes
\* at once.
LEMMA PulseKeeps == ASSUME QueueInv, Pulse PROVE QueueInv'
<1>1. /\ firing # NoTask /\ Pulses(firing)
      /\ value' = [value EXCEPT ![firing] = FALSE]
      /\ checked' = checked /\ now' = now /\ taskList' = taskList /\ exec' = exec
      /\ at' = at /\ live' = live /\ firing' = firing
  BY Zenon DEF Pulse
<1>2. Types /\ PulsesEnd /\ FiringKnown /\ \A s \in live \ {firing} : Wakes(s)
  BY Zenon DEF QueueInv
<1>3. firing \in Tasks
  BY Zenon, <1>1, <1>2 DEF Types
<1>4. /\ value' \in [Tasks -> BOOLEAN]
      /\ value'[firing] = FALSE
      /\ \A s \in Tasks : s # firing => value'[s] = value[s]
  BY Zenon, <1>1, <1>2, <1>3 DEF Types
<1>5. Types'
  BY Zenon, <1>1, <1>2, <1>4 DEF Types
<1>6. Sorted' /\ Members'
  BY Zenon, <1>1 DEF QueueInv, Sorted, Members, Queued
<1>7. PulsesEnd'
  BY Zenon, <1>1, <1>2, <1>4 DEF PulsesEnd
<1>8. FiringKnown'
  <2>. SUFFICES ASSUME NEW f \in Tasks, firing = f
                PROVE  \/ taskList' # <<>> /\ taskList'[1] = f /\ exec'[f] <= checked
                       \/ Wakes(f)' /\ (Pulses(f)' => exec'[f] \in 1..now)
    BY Zenon, <1>1, <1>3 DEF FiringKnown, Wakes, Pulses
  <2>1. CASE taskList # <<>> /\ taskList[1] = f /\ exec[f] <= checked
    BY Zenon, <1>1, <2>1
  <2>2. CASE Pulses(f) => exec[f] \in 1..now
    <3>1. exec[f] \in 1..now
      BY Zenon, <1>1, <2>2
    <3>2. FindNext(at[f], now) # 0 => exec[f] # 0 /\ exec[f] <= FindNext(at[f], now)
      <4>. DEFINE next == FindNext(at[f], now)
      <4>1. now \in Int /\ at[f] \in SUBSET (Nat \ {0})
        BY <1>2 DEF Types
      <4>2. next \in Nat /\ (next # 0 => next > now)
        BY Zenon, <4>1, FindNextIs
      <4>. HIDE DEF next
      <4>3. next # 0 => exec[f] # 0 /\ exec[f] <= next
        BY <3>1, <4>1, <4>2
      <4>. QED
        BY Zenon, <4>3 DEF next
    <3>3. exec' = exec /\ at' = at /\ now' = now
      BY Zenon, <1>1
    <3>4. Wakes(f)'
      BY Zenon, <3>2, <3>3 DEF Wakes
    <3>5. ~Pulses(f)'
      BY Zenon, <1>4 DEF Pulses
    <3>. QED
      BY Zenon, <3>4, <3>5
  <2>. QED
    BY Zenon, <1>1, <1>2, <2>1, <2>2 DEF FiringKnown
<1>9. \A s \in live' \ {firing'} : Wakes(s)'
  <2>1. live \subseteq Tasks
    BY Zenon, <1>2 DEF Types
  <2>. QED
    BY Zenon, <1>1, <1>2, <1>4, <2>1 DEF Wakes
<1>. QED
  BY Zenon, <1>5, <1>6, <1>7, <1>8, <1>9 DEF QueueInv, Wakes

\* The front of the queue is rescheduled, whoever fired.
LEMMA FrontRescheduled ==
    ASSUME QueueInv, taskList # <<>>,
           NEW n \in Nat, n <= now,
           Reschedule(taskList[1], Tail(taskList), at[taskList[1]], n),
           live' = live, now' = now, at' = at,
           checked' \in Nat, checked' <= now,
           firing' = NoTask, \A s \in Tasks : s # taskList[1] /\ s = firing => Wakes(s),
           \A s \in Tasks : During[s] = 0 => ~value[s]
    PROVE  QueueInv'
<1>2. Types /\ \A s \in live \ {firing} : Wakes(s)
  BY Zenon DEF QueueInv
<1>3. /\ taskList \in Seq(Tasks) /\ InOrder(taskList, exec)
      /\ \A s \in Tasks : In(s, taskList) <=> (s \in live /\ exec[s] # 0)
  BY Zenon, QueueIs
<1>1. PICK t \in Tasks : t = taskList[1]
  BY Zenon, <1>3, TailKeepsOrder
<1>4. /\ t \in Tasks
      /\ Tail(taskList) \in Seq(Tasks)
      /\ InOrder(Tail(taskList), exec)
      /\ \A s \in Tasks : In(s, Tail(taskList)) <=> In(s, taskList) /\ s # t
  BY Zenon, <1>1, <1>3, TailKeepsOrder
<1>5. t \in live
  <2>1. Len(taskList) \in Nat \ {0}
    BY Zenon, <1>3, EmptySeq
  <2>2. 1 \in 1..Len(taskList)
    BY <2>1
  <2>3. In(t, taskList)
    BY Zenon, <1>1, <2>2 DEF In
  <2>. QED
    BY Zenon, <1>3, <1>4, <2>3
<1>6. Reschedule(t, Tail(taskList), at[t], n)
  BY Zenon, <1>1
<1>7. live' = live \cup {t} /\ at' = [at EXCEPT ![t] = at[t]] /\ at[t] \in SUBSET (Nat \ {0})
  BY <1>2, <1>4, <1>5 DEF Types
<1>8. /\ taskList' \in Seq(Tasks)
      /\ exec' \in [Tasks -> Nat]
      /\ value' \in [Tasks -> BOOLEAN]
      /\ Sorted' /\ Members'
      /\ Wakes(t)'
      /\ \A s \in Tasks : s # t => /\ exec'[s] = exec[s]
                                   /\ value'[s] = value[s]
                                   /\ Wakes(s) => Wakes(s)'
      /\ During[t] = 0 => value'[t] = value[t]
  BY Zenon, <1>4, <1>6, <1>7, QueueKept
<1>9. Types'
  BY Zenon, <1>2, <1>8 DEF Types
<1>10. PulsesEnd'
  BY Zenon, <1>8 DEF PulsesEnd
<1>11. FiringKnown'
  BY Zenon DEF FiringKnown
<1>12. \A s \in live' \ {firing'} : Wakes(s)'
  <2>1. \A s \in live : s \in Tasks
    BY Zenon, <1>2 DEF Types
  <2>2. ASSUME NEW s \in live, s # t PROVE Wakes(s)'
    <3>1. s \in Tasks
      BY Zenon, <2>1
    <3>2. Wakes(s)
      BY Zenon, <1>1, <1>2, <2>2, <3>1
    <3>. QED
      BY Zenon, <1>8, <2>2, <3>1, <3>2
  <2>. QED
    BY Zenon, <1>8, <2>2
<1>. QED
  BY Zenon, <1>8, <1>9, <1>10, <1>11, <1>12 DEF QueueInv, Wakes

\* The task has fired: it is rescheduled, unless that happened meanwhile.
LEMMA FireEndKeeps == ASSUME QueueInv, FireEnd PROVE QueueInv'
<1>1. /\ firing # NoTask /\ ~Pulses(firing)
      /\ firing' = NoTask /\ checked' = 0
      /\ now' = now /\ at' = at /\ live' = live
  BY Zenon DEF FireEnd
<1>2. Types /\ PulsesEnd /\ FiringKnown /\ \A s \in live \ {firing} : Wakes(s)
  BY Zenon DEF QueueInv
<1>3. \A s \in Tasks : During[s] = 0 => ~value[s]
  BY Zenon, <1>1, <1>2 DEF PulsesEnd, Pulses
<1>4. /\ now \in Nat /\ checked \in Nat /\ checked <= now
      /\ checked' \in Nat /\ checked' <= now
  BY <1>1, <1>2 DEF Types
<1>5. taskList \in Seq(Tasks) /\ InOrder(taskList, exec)
  BY Zenon, QueueIs
<1>6. taskList # <<>> => Head(taskList) = taskList[1]
  BY Zenon, <1>5, TailKeepsOrder
<1>7. CASE taskList # <<>> /\ Head(taskList) = firing
  <2>1. Reschedule(taskList[1], Tail(taskList), at[taskList[1]], checked)
    BY Zenon, <1>6, <1>7 DEF FireEnd
  <2>2. \A s \in Tasks : s # taskList[1] /\ s = firing => Wakes(s)
    BY Zenon, <1>6, <1>7
  <2>. QED
    BY Zenon, <1>1, <1>3, <1>4, <1>7, <2>1, <2>2, FrontRescheduled
<1>8. CASE ~(taskList # <<>> /\ Head(taskList) = firing)
  <2>1. taskList' = taskList /\ exec' = exec /\ value' = value
    BY Zenon, <1>8 DEF FireEnd
  <2>2. Wakes(firing)
    BY Zenon, <1>1, <1>2, <1>6, <1>8 DEF FiringKnown
  <2>3. Types'
    BY Zenon, <1>1, <1>2, <1>4, <2>1 DEF Types
  <2>4. Sorted' /\ Members'
    BY Zenon, <1>1, <2>1 DEF QueueInv, Sorted, Members, Queued
  <2>5. PulsesEnd'
    BY Zenon, <1>3, <2>1 DEF PulsesEnd
  <2>6. FiringKnown'
    BY Zenon, <1>1 DEF FiringKnown
  <2>7. \A s \in live' \ {firing'} : Wakes(s)'
    BY Zenon, <1>1, <1>2, <2>1, <2>2 DEF Wakes
  <2>. QED
    BY Zenon, <2>3, <2>4, <2>5, <2>6, <2>7 DEF QueueInv, Wakes
<1>. QED
  BY Zenon, <1>7, <1>8

\* A task that is much too late is rescheduled without having fired.
LEMMA SkipKeeps == ASSUME QueueInv, Skip PROVE QueueInv'
<1>1. /\ firing = NoTask /\ taskList # <<>>
      /\ Reschedule(Head(taskList), Tail(taskList), at[Head(taskList)], now)
      /\ firing' = firing /\ checked' = checked
      /\ now' = now /\ at' = at /\ live' = live
  BY Zenon DEF Skip
<1>2. Types /\ PulsesEnd
  BY Zenon DEF QueueInv
<1>3. NoTask \notin Tasks
  BY Zenon, TimerConstants
<1>4. \A s \in Tasks : During[s] = 0 => ~value[s]
  BY Zenon, <1>1, <1>2, <1>3 DEF PulsesEnd
<1>5. /\ now \in Nat /\ now <= now
      /\ checked' \in Nat /\ checked' <= now
  BY <1>1, <1>2 DEF Types
<1>6. taskList \in Seq(Tasks) /\ InOrder(taskList, exec)
  BY Zenon, QueueIs
<1>7. Head(taskList) = taskList[1]
  BY Zenon, <1>1, <1>6, TailKeepsOrder
<1>8. Reschedule(taskList[1], Tail(taskList), at[taskList[1]], now)
  BY Zenon, <1>1, <1>7
<1>9. firing' = NoTask /\ \A s \in Tasks : s # taskList[1] /\ s = firing => Wakes(s)
  BY Zenon, <1>1, <1>3
<1>. QED
  BY Zenon, <1>1, <1>4, <1>5, <1>8, <1>9, FrontRescheduled

\* Time passes: the next occurrence of an <at> only comes later.
LEMMA TickKeeps == ASSUME QueueInv, Tick PROVE QueueInv'
<1>1. /\ now' = now + 1
      /\ taskList' = taskList /\ exec' = exec /\ value' = value /\ at' = at
      /\ live' = live /\ firing' = firing /\ checked' = checked
  BY DEF Tick
<1>2. Types /\ PulsesEnd /\ FiringKnown /\ \A s \in live \ {firing} : Wakes(s)
  BY Zenon DEF QueueInv
<1>3. Types'
  <2>1. now' \in Nat \ {0} /\ checked' \in Nat /\ checked' <= now'
    BY <1>1, <1>2 DEF Types
  <2>. QED
    BY Zenon, <1>1, <1>2, <2>1 DEF Types
<1>4. Sorted' /\ Members' /\ PulsesEnd'
  BY Zenon, <1>1 DEF QueueInv, Sorted, Members, Queued, PulsesEnd
<1>5. \A s \in Tasks : Wakes(s) => Wakes(s)'
  <2>. SUFFICES ASSUME NEW s \in Tasks, Wakes(s) PROVE Wakes(s)'
    BY Zenon
  <2>. DEFINE next == FindNext(at[s], now)
              later == FindNext(at[s], now + 1)
  <2>1. now \in Int /\ now + 1 \in Int /\ now <= now + 1 /\ at[s] \in SUBSET (Nat \ {0})
    BY <1>2 DEF Types
  <2>2. later # 0 => next # 0 /\ next <= later
    BY Zenon, <2>1, FindNextGrows
  <2>3. next \in Nat /\ later \in Nat
    BY Zenon, <2>1, FindNextIs
  <2>4. exec[s] \in Nat
    BY <1>2 DEF Types
  <2>5. Every[s] = -1 /\ ~value[s] /\ next # 0 => exec[s] # 0 /\ exec[s] <= next
    BY Zenon DEF Wakes
  <2>. HIDE DEF next, later
  <2>6. Every[s] = -1 /\ ~value[s] /\ later # 0 => exec[s] # 0 /\ exec[s] <= later
    <3>1. exec[s] <= next /\ next <= later => exec[s] <= later
      BY <2>3, <2>4
    <3>. QED
      BY Zenon, <2>2, <2>5, <3>1
  <2>. QED
    BY Zenon, <1>1, <2>6 DEF Wakes, later
<1>6. FiringKnown'
  <2>1. firing # NoTask => firing \in Tasks
    BY Zenon, <1>2 DEF Types
  <2>. SUFFICES ASSUME NEW f \in Tasks, firing = f, f # NoTask
                PROVE  \/ taskList' # <<>> /\ taskList'[1] = f /\ exec'[f] <= checked
                       \/ Wakes(f)' /\ (Pulses(f)' => exec'[f] \in 1..now')
    BY Zenon, <1>1, <2>1 DEF FiringKnown, Wakes, Pulses
  <2>2. CASE taskList # <<>> /\ taskList[1] = f /\ exec[f] <= checked
    BY Zenon, <1>1, <2>2
  <2>3. CASE Wakes(f) /\ (Pulses(f) => exec[f] \in 1..now)
    <3>1. exec[f] \in 1..now => exec[f] \in 1..now'
      BY <1>1, <1>2 DEF Types
    <3>2. Pulses(f)' <=> Pulses(f)
      BY Zenon, <1>1 DEF Pulses
    <3>. QED
      BY Zenon, <1>1, <1>5, <2>3, <3>1, <3>2
  <2>. QED
    BY Zenon, <1>2, <2>2, <2>3 DEF FiringKnown
<1>7. \A s \in live' \ {firing'} : Wakes(s)'
  <2>1. live \subseteq Tasks
    BY Zenon, <1>2 DEF Types
  <2>. QED
    BY Zenon, <1>1, <1>2, <1>5, <2>1
<1>. QED
  BY Zenon, <1>3, <1>4, <1>6, <1>7 DEF QueueInv, Wakes

\* The manager, its tasks and the clock keep the invariant.
LEMMA Stepwise == QueueInv /\ [Next]_vars => QueueInv'
<1>. SUFFICES ASSUME QueueInv, [Next]_vars PROVE QueueInv'
  OBVIOUS
<1>1. CASE \E t \in Tasks : Create(t)
  BY Zenon, <1>1, CreateKeeps
<1>2. CASE \E t \in Tasks : Delete(t)
  BY Zenon, <1>2, DeleteKeeps
<1>3. CASE \E t \in Tasks : ObjectChanges(t)
  BY Zenon, <1>3, ObjectChangesKeeps
<1>4. CASE Fire
  BY Zenon, <1>4, FireKeeps
<1>5. CASE Pulse
  BY Zenon, <1>5, PulseKeeps
<1>6. CASE FireEnd
  BY Zenon, <1>6, FireEndKeeps
<1>7. CASE Skip
  BY Zenon, <1>7, SkipKeeps
<1>8. CASE Tick
  BY Zenon, <1>8, TickKeeps
<1>9. CASE UNCHANGED vars
  <2>1. /\ now' = now /\ taskList' = taskList /\ exec' = exec /\ value' = value /\ at' = at
        /\ live' = live /\ firing' = firing /\ checked' = checked
    BY Zenon, <1>9 DEF vars
  <2>2. Types'
    BY Zenon, <2>1 DEF QueueInv, Types
  <2>3. Sorted' /\ Members' /\ PulsesEnd' /\ FiringKnown'
    BY Zenon, <2>1 DEF QueueInv, Sorted, Members, Queued, PulsesEnd, FiringKnown, Wakes, Pulses
  <2>4. \A s \in live' \ {firing'} : Wakes(s)'
    BY Zenon, <2>1 DEF QueueInv, Wakes
  <2>. QED
    BY Zenon, <2>2, <2>3, <2>4 DEF QueueInv, Wakes
<1>. QED
  BY Zenon, <1>1, <1>2, <1>3, <1>4, <1>5, <1>6, <1>7, <1>8, <1>9 DEF Next

\* The queue is sorted, holds exactly the tasks that have a time, each once, and
\* no timer that is off sleeps over the next occurrence of its <at>
\* (TimerManager::checkTaskList, addTask, removeTask, PeriodicTask::reschedule).
THEOREM QueueSoundEver == Spec => []QueueSound
<1>1. QueueInv => QueueSound
  <2>1. QueueInv => Sorted /\ \A t \in Tasks : Queued(t) <=> (t \in live /\ exec[t] # 0)
    BY Zenon DEF QueueInv, Members
  <2>2. QueueInv => WakesForNextOccurrence
    BY Zenon DEF QueueInv, WakesForNextOccurrence, Wakes
  <2>. QED
    BY Zenon, <2>1, <2>2 DEF QueueSound
<1>. QED
  BY Initially, Stepwise, <1>1, PTL DEF Spec

-----------------------------------------------------------------------------
\* What a timer can be asked to follow.  The guess of its first schedule looks
\* at the next start and the next end only, and takes "never" for time 0: both
\* have to come again within the life of the program.  It is then right if
\* periods do not touch, and if starts and ends come in turn.
Recurs(S) == \A n \in 0..Horizon + 1 : \E x \in S : x > n

Apart(S, d) == \A a, b \in S : a < b => a + d < b

InTurn(S, U) ==
    /\ S \cap U = {}
    /\ \A u \in U : \E a \in S : a < u /\ ~\E v \in U : a < v /\ v < u
    /\ \A a, b \in S : a < b => \E u \in U : a < u /\ u < b

Regular ==
    \A t \in Tasks : Every[t] = -1 => \A S \in AtChoices[t] :
        /\ During[t] # 0 => Recurs(S)
        /\ During[t] > 0 => Apart(S, During[t])
        /\ During[t] = -1 => Recurs(Until[t]) /\ InTurn(S, Until[t])

\* A timer with <at> and <until>, which no object moves, and whose starts and
\* ends are whole minutes.
Shift(t) == Every[t] = -1 /\ During[t] = -1

WholeMinutes(S) == \A x, y \in S : x < y => x + Late <= y

ShiftsStand ==
    \A t \in Tasks : Shift(t) => \A S \in AtChoices[t] :
        AtChoices[t] = {S} /\ WholeMinutes(S \cup Until[t])

\* Time m is in a period that begins in S and ends at the next of U.
Span(S, U, m) == \E a \in S : a <= m /\ ~\E u \in U : a < u /\ u <= m

\* The next change of a shift between two firings is an end, if it is on, or a
\* start; until then it is on as it should be.
Waiting(t) ==
    /\ exec[t] \in (IF value[t] THEN Until[t] ELSE at[t])
    /\ \A m \in now..exec[t] - 1 : Span(at[t], Until[t], m) <=> value[t]

\* While it fires it is in front, and has changed at the time it was due.
Turning(t) ==
    /\ taskList # <<>> /\ taskList[1] = t
    /\ exec[t] \in (IF value[t] THEN at[t] ELSE Until[t])
    /\ exec[t] <= checked /\ checked < exec[t] + Late

OnSchedule(t) == IF t = firing THEN Turning(t) ELSE Waiting(t)

\* The clock stops in time, and a timer that does not exist has no time.
AtRest == now <= Horizon + 1 /\ \A t \in Tasks : t \notin live => exec[t] = 0

ScheduleInv ==
    \A t \in Tasks : t \in live /\ t \notin skipped /\ Shift(t) => OnSchedule(t)

-----------------------------------------------------------------------------
\* On the first schedule of a shift: if the next end comes before the next
\* start, it is in a period up to that end, else in none up to that start.
LEMMA GuessFits ==
    ASSUME NEW S \in SUBSET (Nat \ {0}), NEW U \in SUBSET (Nat \ {0}), NEW n \in Nat,
           InTurn(S, U), FindNext(S, n) # 0, FindNext(U, n) # 0
    PROVE  /\ FindNext(U, n) < FindNext(S, n) =>
                 \A m \in n..FindNext(U, n) - 1 : Span(S, U, m)
           /\ ~(FindNext(U, n) < FindNext(S, n)) =>
                 \A m \in n..FindNext(S, n) - 1 : ~Span(S, U, m)
<1>. DEFINE start == FindNext(S, n)
            stop  == FindNext(U, n)
<1>1. /\ start \in S /\ start > n /\ \A x \in S : x > n => start <= x
      /\ stop \in U /\ stop > n /\ \A x \in U : x > n => stop <= x
      /\ start \in Nat /\ stop \in Nat
  BY FindNextIs
<1>. HIDE DEF start, stop
<1>2. ASSUME stop < start, NEW m \in n..stop - 1 PROVE Span(S, U, m)
  <2>1. PICK a \in S : a < stop /\ ~\E v \in U : a < v /\ v < stop
    BY <1>1 DEF InTurn
  <2>2. a \in Nat /\ m \in Nat
    BY <1>1
  <2>3. a <= n
    BY <1>1, <1>2, <2>1, <2>2
  <2>4. a <= m /\ ~\E u \in U : a < u /\ u <= m
    BY <1>1, <2>1, <2>2, <2>3
  <2>. QED
    BY <2>4 DEF Span
<1>3. ASSUME ~(stop < start), NEW m \in n..start - 1, Span(S, U, m) PROVE FALSE
  <2>1. PICK a \in S : a <= m /\ ~\E u \in U : a < u /\ u <= m
    BY <1>3 DEF Span
  <2>2. a \in Nat /\ m \in Nat
    BY <1>1
  <2>3. a < start
    BY <1>1, <2>1, <2>2
  <2>4. PICK u \in U : a < u /\ u < start
    BY <1>1, <2>3 DEF InTurn
  <2>5. u \in Nat
    OBVIOUS
  <2>6. u > n
    BY <2>1, <2>2, <2>4, <2>5
  <2>. QED
    BY <1>1, <1>3, <2>4, <2>5, <2>6
<1>. QED
  BY <1>2, <1>3 DEF start, stop

\* Less than a minute after a start the period lasts until the next end.
LEMMA OnUntilEnd ==
    ASSUME NEW S \in SUBSET (Nat \ {0}), NEW U \in SUBSET (Nat \ {0}), NEW n \in Nat,
           WholeMinutes(S \cup U), NEW a \in S, a <= n, n < a + Late, FindNext(U, n) # 0
    PROVE  \A m \in n..FindNext(U, n) - 1 : Span(S, U, m)
<1>. DEFINE stop == FindNext(U, n)
<1>1. stop \in Nat /\ \A x \in U : x > n => stop <= x
  BY FindNextIs
<1>2. a \in Nat /\ Late \in Nat
  BY TimerConstants
<1>. HIDE DEF stop
<1>3. ASSUME NEW m \in n..stop - 1 PROVE Span(S, U, m)
  <2>1. m \in Nat /\ a <= m
    BY <1>1, <1>2
  <2>2. ASSUME NEW u \in U, a < u, u <= m PROVE FALSE
    <3>1. u \in Nat /\ a + Late <= u
      BY <2>2 DEF WholeMinutes
    <3>. QED
      BY <1>1, <1>2, <2>2, <3>1
  <2>. QED
    BY <2>1, <2>2 DEF Span
<1>. QED
  BY <1>3 DEF stop

\* Less than a minute after an end there is no period until the next start.
LEMMA OffUntilStart ==
    ASSUME NEW S \in SUBSET (Nat \ {0}), NEW U \in SUBSET (Nat \ {0}), NEW n \in Nat,
           WholeMinutes(S \cup U), S \cap U = {}, NEW u \in U, u <= n, n < u + Late,
           FindNext(S, n) # 0
    PROVE  \A m \in n..FindNext(S, n) - 1 : ~Span(S, U, m)
<1>. DEFINE start == FindNext(S, n)
<1>1. start \in Nat /\ \A x \in S : x > n => start <= x
  BY FindNextIs
<1>2. u \in Nat /\ Late \in Nat
  BY TimerConstants
<1>. HIDE DEF start
<1>3. ASSUME NEW m \in n..start - 1, Span(S, U, m) PROVE FALSE
  <2>1. PICK a \in S : a <= m /\ ~\E v \in U : a < v /\ v <= m
    BY <1>3 DEF Span
  <2>2. a \in Nat /\ m \in Nat /\ u <= m /\ a # u
    BY <1>1, <1>2
  <2>3. u < a
    BY <1>2, <2>1, <2>2
  <2>4. u + Late <= a
    BY <2>3 DEF WholeMinutes
  <2>. QED
    BY <1>1, <1>2, <2>1, <2>2, <2>4
<1>. QED
  BY <1>3 DEF start

\* On the first schedule of a timer with a duration: it ends before the next
\* start if and only if it has begun.
LEMMA DurationFits ==
    ASSUME NEW S \in SUBSET (Nat \ {0}), NEW n \in Nat, NEW d \in Nat, d > 0,
           Apart(S, d), FindNext(S, n) # 0
    PROVE  FindNext(S, n - d) + d < FindNext(S, n) <=> \E a \in S : a <= n /\ n < a + d
<1>. DEFINE start == FindNext(S, n)
            first == FindNext(S, n - d)
<1>1. /\ start \in S /\ start > n /\ \A x \in S : x > n => start <= x
      /\ start \in Nat
  BY FindNextIs
<1>2. n - d \in Int
  OBVIOUS
<1>3. /\ first = 0 => \A x \in S : x <= n - d
      /\ first # 0 => first \in S /\ first > n - d /\ \A x \in S : x > n - d => first <= x
      /\ first \in Nat
  BY <1>2, FindNextIs
<1>. HIDE DEF start, first
<1>4. first # 0
  BY <1>1, <1>3
<1>5. ASSUME first + d < start PROVE \E a \in S : a <= n /\ n < a + d
  <2>1. first \in S /\ first <= n /\ n < first + d
    BY <1>1, <1>3, <1>4, <1>5
  <2>. QED
    BY <2>1
<1>6. ASSUME NEW a \in S, a <= n, n < a + d PROVE first + d < start
  <2>1. a \in Nat /\ first <= a
    BY <1>3, <1>4, <1>6
  <2>2. first < start
    BY <1>1, <1>3, <1>6, <2>1
  <2>. QED
    BY <1>1, <1>3, <1>4, <2>2 DEF Apart
<1>. QED
  BY <1>5, <1>6 DEF start, first

-----------------------------------------------------------------------------
\* Rescheduling changes one timer, and switches it only if it has no time yet.
LEMMA OthersKept ==
    ASSUME NEW t \in Tasks, NEW list, NEW occ, NEW n,
           exec \in [Tasks -> Nat], value \in [Tasks -> BOOLEAN],
           Reschedule(t, list, occ, n)
    PROVE  /\ \A s \in Tasks : s # t => exec'[s] = exec[s]
           /\ \A s \in Tasks : s # t \/ exec[s] # 0 => value'[s] = value[s]
<1>1. \A s \in Tasks : s # t => exec'[s] = exec[s] /\ value'[s] = value[s]
  BY Zenon DEF Reschedule
<1>2. exec[t] # 0 => value'[t] = value[t]
  BY Zenon DEF Reschedule
<1>. QED
  BY Zenon, <1>1, <1>2

\* A timer that has no time yet guesses.
LEMMA Guesses ==
    ASSUME NEW t \in Tasks, NEW list, NEW occ, NEW n,
           exec \in [Tasks -> Nat], value \in [Tasks -> BOOLEAN],
           Reschedule(t, list, occ, n), exec[t] = 0, During[t] # 0
    PROVE  /\ value'[t] <=> (FirstStop(t, occ, n) < NextChange(t, FALSE, occ, n))
           /\ exec'[t] = IF FirstStop(t, occ, n) < NextChange(t, FALSE, occ, n)
                         THEN FirstStop(t, occ, n) ELSE NextChange(t, FALSE, occ, n)
BY Zenon DEF Reschedule

\* A timer that has a time changes next at its end, if it is on, or its start.
LEMMA ChangesNext ==
    ASSUME NEW t \in Tasks, NEW list, NEW occ, NEW n,
           exec \in [Tasks -> Nat], value \in [Tasks -> BOOLEAN],
           Reschedule(t, list, occ, n), exec[t] # 0
    PROVE  exec'[t] = IF value[t] THEN NextChange(t, TRUE, occ, n)
                                  ELSE NextChange(t, FALSE, occ, n)
<1>1. value[t] \in BOOLEAN
  OBVIOUS
<1>2. exec'[t] = NextChange(t, value[t], occ, n)
  BY Zenon DEF Reschedule
<1>. QED
  BY Zenon, <1>1, <1>2

\* The changes of a shift.
LEMMA ShiftChanges ==
    ASSUME NEW t \in Tasks, Shift(t), NEW S, NEW n
    PROVE  /\ During[t] # 0
           /\ NextChange(t, TRUE, S, n) = FindNext(Until[t], n)
           /\ NextChange(t, FALSE, S, n) = FindNext(S, n)
           /\ FirstStop(t, S, n) = FindNext(Until[t], n)
<1>1. During[t] = -1 /\ Every[t] = -1 /\ During[t] # 0
  BY DEF Shift
<1>2. NextChange(t, TRUE, S, n) = FindNext(Until[t], n)
      /\ NextChange(t, FALSE, S, n) = FindNext(S, n)
  BY Zenon, <1>1 DEF NextChange
<1>3. FirstStop(t, S, n) = FindNext(Until[t], n)
  BY Zenon, <1>1 DEF FirstStop
<1>. QED
  BY Zenon, <1>1, <1>2, <1>3

\* What recurs is found within the life of the program.
LEMMA RecursFound ==
    ASSUME NEW S \in SUBSET (Nat \ {0}), Recurs(S), NEW n \in Nat, n <= Horizon + 1
    PROVE  FindNext(S, n) # 0 /\ FindNext(S, n) \in S
<1>1. Horizon \in Nat
  BY TimerConstants
<1>2. PICK x \in S : x > n
  BY <1>1 DEF Recurs
<1>. QED
  BY <1>2, FindNextIs

\* Only Reschedule and Delete give a time, and only what exists is rescheduled.
LEMMA RestKept == QueueInv /\ AtRest /\ [Next]_vars => AtRest'
<1>. SUFFICES ASSUME QueueInv, AtRest, [Next]_vars PROVE AtRest'
  OBVIOUS
<1>1. exec \in [Tasks -> Nat] /\ value \in [Tasks -> BOOLEAN] /\ now \in Nat /\ live \subseteq Tasks
      /\ firing \in live \cup {NoTask}
  BY DEF QueueInv, Types
<1>2. taskList # <<>> => Head(taskList) \in live
  <2>. SUFFICES ASSUME taskList # <<>> PROVE Head(taskList) \in live
    OBVIOUS
  <2>1. /\ taskList \in Seq(Tasks)
        /\ \A s \in Tasks : In(s, taskList) <=> (s \in live /\ exec[s] # 0)
    BY Zenon, QueueIs
  <2>2. Head(taskList) = taskList[1] /\ taskList[1] \in Tasks
    BY Zenon, <2>1, QueueIs, TailKeepsOrder
  <2>3. Len(taskList) \in Nat \ {0}
    BY Zenon, <2>1, EmptySeq
  <2>4. 1 \in 1..Len(taskList)
    BY <2>3
  <2>5. In(taskList[1], taskList)
    BY Zenon, <2>4 DEF In
  <2>. QED
    BY Zenon, <2>1, <2>2, <2>5
<1>3. ASSUME NEW t \in Tasks, NEW list, NEW occ, NEW n, Reschedule(t, list, occ, n),
             t \in live', live' = live \cup {t}, now' = now
      PROVE  AtRest'
  <2>1. \A s \in Tasks : s # t => exec'[s] = exec[s]
    BY Zenon, <1>1, <1>3, OthersKept
  <2>. QED
    BY Zenon, <1>3, <2>1 DEF AtRest
<1>4. ASSUME exec' = exec, live' = live, now' = now PROVE AtRest'
  BY <1>4 DEF AtRest
<1>5. ASSUME NEW t \in Tasks, Create(t) PROVE AtRest'
  <2>1. live' = live \cup {t} /\ now' = now /\ Reschedule(t, taskList, at[t], now)
    BY Zenon, <1>5 DEF Create
  <2>. QED
    BY Zenon, <1>3, <2>1
<1>6. ASSUME NEW t \in Tasks, Delete(t) PROVE AtRest'
  <2>1. live' = live \ {t} /\ exec' = [exec EXCEPT ![t] = 0] /\ now' = now
    BY Zenon, <1>6 DEF Delete
  <2>. QED
    BY <1>1, <2>1 DEF AtRest
<1>7. ASSUME NEW t \in Tasks, ObjectChanges(t) PROVE AtRest'
  <2>1. PICK occ : Reschedule(t, Without(taskList, t), occ, now)
    BY Zenon, <1>7 DEF ObjectChanges
  <2>2. t \in live /\ live' = live /\ now' = now
    BY Zenon, <1>7 DEF ObjectChanges
  <2>. QED
    BY Zenon, <1>3, <2>1, <2>2
<1>8. ASSUME FireEnd PROVE AtRest'
  <2>1. firing # NoTask /\ live' = live /\ now' = now
    BY Zenon, <1>8 DEF FireEnd
  <2>2. firing \in live /\ firing \in Tasks
    BY Zenon, <1>1, <2>1
  <2>3. CASE taskList # <<>> /\ Head(taskList) = firing
    <3>1. Reschedule(firing, Tail(taskList), at[firing], checked)
      BY Zenon, <1>8, <2>3 DEF FireEnd
    <3>. QED
      BY Zenon, <1>3, <2>1, <2>2, <3>1
  <2>4. CASE ~(taskList # <<>> /\ Head(taskList) = firing)
    <3>1. exec' = exec
      BY Zenon, <1>8, <2>4 DEF FireEnd
    <3>. QED
      BY Zenon, <1>4, <2>1, <3>1
  <2>. QED
    BY Zenon, <2>3, <2>4
<1>9. ASSUME Skip PROVE AtRest'
  <2>1. taskList # <<>> /\ live' = live /\ now' = now
        /\ Reschedule(Head(taskList), Tail(taskList), at[Head(taskList)], now)
    BY Zenon, <1>9 DEF Skip
  <2>2. Head(taskList) \in live /\ Head(taskList) \in Tasks
    BY Zenon, <1>1, <1>2, <2>1
  <2>. QED
    BY Zenon, <1>3, <2>1, <2>2
<1>10. ASSUME Tick PROVE AtRest'
  <2>1. now < Horizon /\ now' = now + 1 /\ exec' = exec /\ live' = live
    BY <1>10 DEF Tick
  <2>. QED
    BY <1>1, <2>1, TimerConstants DEF AtRest
<1>11. ASSUME Fire \/ Pulse PROVE AtRest'
  <2>1. exec' = exec /\ live' = live /\ now' = now
    BY Zenon, <1>11 DEF Fire, Pulse
  <2>. QED
    BY Zenon, <1>4, <2>1
<1>12. ASSUME UNCHANGED vars PROVE AtRest'
  BY <1>4, <1>12 DEF vars
<1>. QED
  BY Zenon, <1>5, <1>6, <1>7, <1>8, <1>9, <1>10, <1>11, <1>12 DEF Next

LEMMA AtRestAtFirst == Init => AtRest
BY TimerConstants DEF Init, AtRest

\* A timer that begins is on if and only if it begins in one of its periods, if
\* its schedule is regular ("first schedule. check if value must be on or off",
\* PeriodicTask::reschedule).
THEOREM FirstScheduleRightEver ==
    ASSUME Regular
    PROVE  Spec => FirstScheduleRight
<1>1. QueueInv /\ AtRest /\ [Next]_vars
         => [\A t \in Tasks :
                (Create(t) /\ Every[t] = -1 /\ During[t] # 0) => (value'[t] = InPeriod(t, now))]_vars
  <2>. SUFFICES ASSUME QueueInv, AtRest, NEW t \in Tasks, Create(t), Every[t] = -1, During[t] # 0
                PROVE  value'[t] = InPeriod(t, now)
    BY Zenon
  <2>. DEFINE S == at[t]
              U == Until[t]
              d == During[t]
  <2>1. /\ exec \in [Tasks -> Nat] /\ value \in [Tasks -> BOOLEAN] /\ now \in Nat
        /\ at[t] \in AtChoices[t] /\ S \in SUBSET (Nat \ {0})
    BY DEF QueueInv, Types
  <2>2. d \in Int /\ d >= -1 /\ d # 0 /\ U \in SUBSET (Nat \ {0})
    BY TimerConstants
  <2>3. exec[t] = 0 /\ now <= Horizon + 1
    BY DEF Create, AtRest
  <2>4. Reschedule(t, taskList, S, now)
    BY Zenon DEF Create
  <2>5. NextChange(t, FALSE, S, now) = FindNext(S, now)
    BY Zenon, <2>1, StartIs
  <2>6. value'[t] <=> (FirstStop(t, S, now) < FindNext(S, now))
    <3>. HIDE DEF S
    <3>1. value'[t] <=> (FirstStop(t, S, now) < NextChange(t, FALSE, S, now))
      BY Zenon, <2>1, <2>3, <2>4, Guesses
    <3>. QED
      BY Zenon, <2>5, <3>1
  <2>7. Recurs(S) /\ FindNext(S, now) # 0
    <3>1. Recurs(S)
      BY Zenon, <2>1 DEF Regular
    <3>. QED
      BY Zenon, <2>1, <2>3, <3>1, RecursFound
  <2>. HIDE DEF S, U, d
  <2>. SUFFICES value'[t] <=> InPeriod(t, now)
    <3>1. value'[t] \in BOOLEAN
      BY Zenon, CreateKeeps DEF QueueInv, Types
    <3>2. InPeriod(t, now) \in BOOLEAN
      BY Zenon DEF InPeriod
    <3>. QED
      BY Zenon, <3>1, <3>2
  <2>8. CASE d = -1
    <3>1. Shift(t) /\ FirstStop(t, S, now) = FindNext(U, now)
      BY Zenon, <2>8, ShiftChanges DEF Shift, d, U
    <3>2. Recurs(U) /\ InTurn(S, U)
      BY Zenon, <2>1, <2>8 DEF Regular, S, U, d
    <3>3. FindNext(U, now) # 0
      BY Zenon, <2>1, <2>2, <2>3, <3>2, RecursFound
    <3>4. /\ FindNext(S, now) > now /\ FindNext(S, now) \in Nat
          /\ FindNext(U, now) > now /\ FindNext(U, now) \in Nat
      <4>1. now \in Int
        BY <2>1
      <4>. QED
        BY Zenon, <2>1, <2>2, <2>7, <3>3, <4>1, FindNextIs
    <3>5. FindNext(U, now) < FindNext(S, now) => Span(S, U, now)
      <4>1. now \in now..FindNext(U, now) - 1
        BY <2>1, <3>4
      <4>. QED
        BY Zenon, <2>1, <2>2, <2>7, <3>2, <3>3, <4>1, GuessFits
    <3>6. ~(FindNext(U, now) < FindNext(S, now)) => ~Span(S, U, now)
      <4>1. now \in now..FindNext(S, now) - 1
        BY <2>1, <3>4
      <4>. QED
        BY Zenon, <2>1, <2>2, <2>7, <3>2, <3>3, <4>1, GuessFits
    <3>7. InPeriod(t, now) <=> Span(S, U, now)
      BY Zenon, <2>8 DEF InPeriod, Span, S, U, d
    <3>8. value'[t] <=> (FindNext(U, now) < FindNext(S, now))
      BY Zenon, <2>6, <3>1
    <3>. QED
      BY Zenon, <3>5, <3>6, <3>7, <3>8
  <2>9. CASE d # -1
    <3>1. d > 0 /\ d \in Nat
      BY <2>2, <2>9
    <3>2. FirstStop(t, S, now) = FindNext(S, now - d) + d
      BY Zenon, <2>9 DEF FirstStop, d
    <3>3. Apart(S, d)
      BY Zenon, <2>1, <3>1 DEF Regular, S, d
    <3>4. FindNext(S, now - d) + d < FindNext(S, now) <=> \E a \in S : a <= now /\ now < a + d
      BY Zenon, <2>1, <2>7, <3>1, <3>3, DurationFits
    <3>5. InPeriod(t, now) <=> \E a \in S : a <= now /\ now < a + d
      BY Zenon, <2>9 DEF InPeriod, S, d
    <3>6. value'[t] <=> (FindNext(S, now - d) + d < FindNext(S, now))
      BY Zenon, <2>6, <3>2
    <3>. QED
      BY Zenon, <3>4, <3>5, <3>6
  <2>. QED
    BY <2>8, <2>9
<1>. QED
  BY Initially, Stepwise, AtRestAtFirst, RestKept, <1>1, PTL DEF Spec, FirstScheduleRight

-----------------------------------------------------------------------------
\* A shift has one regular schedule.
LEMMA ScheduleIs ==
    ASSUME Regular, ShiftsStand, QueueInv, NEW t \in Tasks, Shift(t)
    PROVE  /\ at[t] \in SUBSET (Nat \ {0}) /\ Until[t] \in SUBSET (Nat \ {0})
           /\ Recurs(at[t]) /\ Recurs(Until[t]) /\ InTurn(at[t], Until[t])
           /\ WholeMinutes(at[t] \cup Until[t])
           /\ AtChoices[t] = {at[t]}
<1>1. at[t] \in SUBSET (Nat \ {0}) /\ at[t] \in AtChoices[t]
  BY DEF QueueInv, Types
<1>2. Until[t] \in SUBSET (Nat \ {0})
  BY TimerConstants
<1>3. Every[t] = -1 /\ During[t] = -1 /\ During[t] # 0
  BY DEF Shift
<1>4. Recurs(at[t]) /\ Recurs(Until[t]) /\ InTurn(at[t], Until[t])
  BY Zenon, <1>1, <1>3 DEF Regular
<1>5. WholeMinutes(at[t] \cup Until[t]) /\ AtChoices[t] = {at[t]}
  BY Zenon, <1>1 DEF ShiftsStand
<1>. QED
  BY Zenon, <1>1, <1>2, <1>4, <1>5

\* A shift that begins.
LEMMA Begins ==
    ASSUME Regular, ShiftsStand, QueueInv, AtRest,
           NEW t \in Tasks, Shift(t), Create(t), at'[t] = at[t]
    PROVE  Waiting(t)'
<1>. DEFINE S     == at[t]
            U     == Until[t]
            start == FindNext(S, now)
            stop  == FindNext(U, now)
<1>1. /\ exec \in [Tasks -> Nat] /\ value \in [Tasks -> BOOLEAN] /\ now \in Nat
  BY DEF QueueInv, Types
<1>2. exec[t] = 0 /\ now <= Horizon + 1 /\ now' = now
  BY DEF Create, AtRest
<1>3. /\ S \in SUBSET (Nat \ {0}) /\ U \in SUBSET (Nat \ {0})
      /\ Recurs(S) /\ Recurs(U) /\ InTurn(S, U)
  BY Zenon, ScheduleIs
<1>4. start # 0 /\ start \in S /\ stop # 0 /\ stop \in U
  BY Zenon, <1>1, <1>2, <1>3, RecursFound
<1>5. /\ value'[t] <=> stop < start
      /\ exec'[t] = IF stop < start THEN stop ELSE start
  <2>1. Reschedule(t, taskList, S, now)
    BY Zenon DEF Create
  <2>. HIDE DEF S
  <2>2. /\ During[t] # 0
        /\ NextChange(t, FALSE, S, now) = start
        /\ FirstStop(t, S, now) = stop
    BY Zenon, ShiftChanges
  <2>3. /\ value'[t] <=> (FirstStop(t, S, now) < NextChange(t, FALSE, S, now))
        /\ exec'[t] = IF FirstStop(t, S, now) < NextChange(t, FALSE, S, now)
                      THEN FirstStop(t, S, now) ELSE NextChange(t, FALSE, S, now)
    BY Zenon, <1>1, <1>2, <2>1, <2>2, Guesses
  <2>. QED
    BY Zenon, <2>2, <2>3
<1>6. /\ stop < start => \A m \in now..stop - 1 : Span(S, U, m)
      /\ ~(stop < start) => \A m \in now..start - 1 : ~Span(S, U, m)
  BY Zenon, <1>1, <1>3, <1>4, GuessFits
<1>. HIDE DEF S, U, start, stop
<1>7. CASE stop < start
  <2>1. value'[t] /\ exec'[t] = stop
    BY Zenon, <1>5, <1>7
  <2>. QED
    BY Zenon, <1>2, <1>4, <1>6, <1>7, <2>1 DEF Waiting, S, U
<1>8. CASE ~(stop < start)
  <2>1. ~value'[t] /\ exec'[t] = start
    BY Zenon, <1>5, <1>8
  <2>. QED
    BY Zenon, <1>2, <1>4, <1>6, <1>8, <2>1 DEF Waiting, S, U
<1>. QED
  BY Zenon, <1>7, <1>8

\* A shift that has fired less than a minute after its time.
LEMMA GoesOn ==
    ASSUME Regular, ShiftsStand, QueueInv, AtRest, NEW t \in Tasks, Shift(t),
           Turning(t), NEW list, Reschedule(t, list, at[t], checked),
           at'[t] = at[t], now' = now
    PROVE  Waiting(t)'
<1>. DEFINE S     == at[t]
            U     == Until[t]
            start == FindNext(S, checked)
            stop  == FindNext(U, checked)
<1>1. /\ exec \in [Tasks -> Nat] /\ value \in [Tasks -> BOOLEAN] /\ now \in Nat
      /\ checked \in Nat /\ checked <= now
  BY DEF QueueInv, Types
<1>2. checked <= Horizon + 1
  BY <1>1, TimerConstants DEF AtRest
<1>3. /\ S \in SUBSET (Nat \ {0}) /\ U \in SUBSET (Nat \ {0})
      /\ Recurs(S) /\ Recurs(U) /\ InTurn(S, U) /\ S \cap U = {} /\ WholeMinutes(S \cup U)
  BY Zenon, ScheduleIs DEF InTurn
<1>4. /\ start # 0 /\ start \in S /\ stop # 0 /\ stop \in U
  BY Zenon, <1>1, <1>2, <1>3, RecursFound
<1>5. start \in Nat /\ stop \in Nat
  BY <1>3, <1>4
<1>6. /\ exec[t] \in (IF value[t] THEN S ELSE U)
      /\ exec[t] <= checked /\ checked < exec[t] + Late
  BY Zenon DEF Turning
<1>7. /\ NextChange(t, TRUE, S, checked) = stop
      /\ NextChange(t, FALSE, S, checked) = start
  BY Zenon, ShiftChanges
<1>8. /\ value'[t] = value[t]
      /\ exec'[t] = IF value[t] THEN stop ELSE start
  <2>1. exec[t] # 0
    BY <1>3, <1>6
  <2>. HIDE DEF S, U, start, stop
  <2>2. value'[t] = value[t]
    BY Zenon, <1>1, <2>1, OthersKept
  <2>3. exec'[t] = IF value[t] THEN NextChange(t, TRUE, at[t], checked)
                              ELSE NextChange(t, FALSE, at[t], checked)
    BY Zenon, <1>1, <2>1, ChangesNext
  <2>. QED
    BY Zenon, <1>7, <2>2, <2>3 DEF S
<1>9. value[t] => \A m \in checked..stop - 1 : Span(S, U, m)
  BY Zenon, <1>1, <1>3, <1>4, <1>6, OnUntilEnd
<1>10. ~value[t] => \A m \in checked..start - 1 : ~Span(S, U, m)
  BY Zenon, <1>1, <1>3, <1>4, <1>6, OffUntilStart
<1>11. now..stop - 1 \subseteq checked..stop - 1 /\ now..start - 1 \subseteq checked..start - 1
  <2>. HIDE DEF stop, start
  <2>. QED
    BY <1>1, <1>5
<1>. HIDE DEF S, U, start, stop
<1>12. CASE value[t] = TRUE
  <2>1. value'[t] /\ exec'[t] = stop
    BY Zenon, <1>8, <1>12
  <2>. QED
    BY Zenon, <1>4, <1>9, <1>11, <1>12, <2>1 DEF Waiting, S, U
<1>13. CASE value[t] = FALSE
  <2>1. ~value'[t] /\ exec'[t] = start
    BY Zenon, <1>8, <1>13
  <2>. QED
    BY Zenon, <1>4, <1>10, <1>11, <1>13, <2>1 DEF Waiting, S, U
<1>. QED
  BY Zenon, <1>1, <1>12, <1>13

\* Whatever else happens, a timer stays on schedule.
LEMMA ScheduleKept ==
    ASSUME Regular, ShiftsStand
    PROVE  QueueInv /\ AtRest /\ ScheduleInv /\ [Next]_vars => ScheduleInv'
<1>. SUFFICES ASSUME QueueInv, AtRest, ScheduleInv, [Next]_vars,
                     NEW t \in Tasks, t \in live', t \notin skipped', Shift(t)
              PROVE  OnSchedule(t)'
  BY Zenon DEF ScheduleInv
<1>1. /\ exec \in [Tasks -> Nat] /\ value \in [Tasks -> BOOLEAN]
      /\ now \in Nat /\ checked \in Nat /\ checked <= now /\ now <= now
      /\ firing \in live \cup {NoTask} /\ live \subseteq Tasks /\ NoTask \notin Tasks
  BY TimerConstants DEF QueueInv, Types
<1>2. QueueInv'
  BY Zenon, Stepwise
<1>3. at'[t] = at[t]
  <2>1. at'[t] \in AtChoices[t]
    BY Zenon, <1>2 DEF QueueInv, Types
  <2>2. AtChoices[t] = {at[t]}
    BY Zenon, ScheduleIs
  <2>. QED
    BY Zenon, <2>1, <2>2
<1>4. /\ taskList \in Seq(Tasks) /\ InOrder(taskList, exec)
      /\ \A s \in Tasks : In(s, taskList) <=> (s \in live /\ exec[s] # 0)
  BY Zenon, QueueIs
<1>5. t \in live /\ t \notin skipped => OnSchedule(t)
  BY Zenon DEF ScheduleInv
<1>6. During[t] # 0
  BY DEF Shift
\* A step that is not about it.
<1>7. ASSUME OnSchedule(t), exec'[t] = exec[t], value'[t] = value[t],
             now' \in Nat, now <= now', firing' = t <=> firing = t,
             firing = t => checked' = checked /\ taskList' # <<>> /\ taskList'[1] = t
      PROVE  OnSchedule(t)'
  <2>1. CASE firing = t
    <3>1. Turning(t)
      BY Zenon, <1>7, <2>1 DEF OnSchedule
    <3>2. Turning(t)'
      BY Zenon, <1>3, <1>7, <2>1, <3>1 DEF Turning
    <3>. QED
      BY Zenon, <1>7, <2>1, <3>2 DEF OnSchedule, Turning
  <2>2. CASE firing # t
    <3>1. Waiting(t)
      BY Zenon, <1>7, <2>2 DEF OnSchedule
    <3>2. now'..exec[t] - 1 \subseteq now..exec[t] - 1
      <4>1. exec[t] \in Nat
        BY Zenon, <1>1
      <4>. QED
        BY <1>1, <1>7, <4>1
    <3>3. Waiting(t)'
      BY Zenon, <1>3, <1>7, <3>1, <3>2 DEF Waiting
    <3>. QED
      BY Zenon, <1>7, <2>2, <3>3 DEF OnSchedule, Waiting
  <2>. QED
    BY Zenon, <2>1, <2>2
\* While it fires, the queue changes behind it only.
<1>8. ASSUME NEW s \in Tasks, s # t, NEW list \in Seq(Tasks), InOrder(list, exec), ~In(s, list),
             taskList # <<>> /\ taskList[1] # s => list # <<>> /\ list[1] = taskList[1],
             NEW occ \in SUBSET (Nat \ {0}), Reschedule(s, list, occ, now),
             t \in live, t \notin skipped,
             now' = now, firing' = firing, checked' = checked
      PROVE  OnSchedule(t)'
  <2>1. exec'[t] = exec[t] /\ value'[t] = value[t]
    BY Zenon, <1>1, <1>8, OthersKept
  <2>2. ASSUME firing = t PROVE taskList' # <<>> /\ taskList'[1] = t
    <3>1. taskList # <<>> /\ taskList[1] = t /\ exec[t] <= checked
      BY Zenon, <1>5, <1>8, <2>2 DEF OnSchedule, Turning
    <3>2. exec[t] <= now
      BY <1>1, <3>1
    <3>3. list # <<>> /\ list[1] = t
      BY Zenon, <1>8, <3>1
    <3>. QED
      BY Zenon, <1>1, <1>8, <3>2, <3>3, RescheduleSound
  <2>. QED
    BY Zenon, <1>1, <1>5, <1>7, <1>8, <2>1, <2>2
<1>9. ASSUME NEW s \in Tasks, Create(s) PROVE OnSchedule(t)'
  <2>1. /\ s \notin live /\ live' = live \cup {s} /\ skipped' = skipped
        /\ Reschedule(s, taskList, at[s], now)
        /\ now' = now /\ firing' = firing /\ checked' = checked
    BY Zenon, <1>9 DEF Create
  <2>2. CASE s = t
    <3>1. Waiting(t)'
      BY Zenon, <1>3, <1>9, <2>2, Begins
    <3>2. firing' # t
      BY Zenon, <1>1, <2>1, <2>2
    <3>. QED
      BY Zenon, <3>1, <3>2 DEF OnSchedule, Waiting
  <2>3. CASE s # t
    <3>1. ~In(s, taskList)
      BY Zenon, <1>4, <2>1
    <3>2. at[s] \in SUBSET (Nat \ {0})
      BY Zenon DEF QueueInv, Types
    <3>3. t \in live /\ t \notin skipped
      BY Zenon, <2>1, <2>3
    <3>. QED
      BY Zenon, <1>4, <1>8, <2>1, <2>3, <3>1, <3>2, <3>3
  <2>. QED
    BY Zenon, <2>2, <2>3
<1>10. ASSUME NEW s \in Tasks, Delete(s) PROVE OnSchedule(t)'
  <2>1. /\ live' = live \ {s} /\ skipped' = skipped \ {s}
        /\ firing # s /\ taskList' = Without(taskList, s)
        /\ exec' = [exec EXCEPT ![s] = 0] /\ value' = [value EXCEPT ![s] = FALSE]
        /\ now' = now /\ firing' = firing /\ checked' = checked
    BY Zenon, <1>10 DEF Delete
  <2>2. s # t /\ t \in live /\ t \notin skipped
    BY Zenon, <2>1
  <2>3. exec'[t] = exec[t] /\ value'[t] = value[t]
    BY Zenon, <1>1, <2>1, <2>2
  <2>4. ASSUME firing = t PROVE taskList' # <<>> /\ taskList'[1] = t
    <3>1. taskList # <<>> /\ taskList[1] = t
      BY Zenon, <1>5, <2>2, <2>4 DEF OnSchedule, Turning
    <3>. QED
      BY Zenon, <1>4, <2>1, <2>2, <3>1, WithoutKeepsOrder
  <2>. QED
    BY Zenon, <1>1, <1>5, <1>7, <2>1, <2>2, <2>3, <2>4
<1>11. ASSUME NEW s \in Tasks, ObjectChanges(s) PROVE OnSchedule(t)'
  <2>1. PICK occ \in AtChoices[s] \ {at[s]} : Reschedule(s, Without(taskList, s), occ, now)
    BY Zenon, <1>11 DEF ObjectChanges
  <2>2. /\ live' = live /\ skipped' = skipped
        /\ now' = now /\ firing' = firing /\ checked' = checked
    BY Zenon, <1>11 DEF ObjectChanges
  <2>3. s # t
    BY Zenon, <2>1, ScheduleIs
  <2>4. occ \in SUBSET (Nat \ {0})
    BY <2>1, TimerConstants
  <2>5. /\ Without(taskList, s) \in Seq(Tasks)
        /\ InOrder(Without(taskList, s), exec)
        /\ ~In(s, Without(taskList, s))
        /\ taskList # <<>> /\ taskList[1] # s =>
              Without(taskList, s) # <<>> /\ Without(taskList, s)[1] = taskList[1]
    BY Zenon, <1>4, WithoutKeepsOrder
  <2>. QED
    BY Zenon, <1>8, <2>1, <2>2, <2>3, <2>4, <2>5
<1>12. ASSUME Fire PROVE OnSchedule(t)'
  <2>1. /\ firing = NoTask /\ taskList # <<>> /\ firing' = Head(taskList)
        /\ exec[Head(taskList)] <= now /\ exec[Head(taskList)] > now - Late
        /\ value' = [value EXCEPT ![Head(taskList)] = ~@]
        /\ checked' = now /\ now' = now /\ taskList' = taskList /\ exec' = exec
        /\ live' = live /\ skipped' = skipped
    BY Zenon, <1>12 DEF Fire
  <2>2. Head(taskList) = taskList[1] /\ taskList[1] \in Tasks
    BY Zenon, <1>4, <2>1, TailKeepsOrder
  <2>3. OnSchedule(t) /\ firing # t
    BY Zenon, <1>1, <1>5, <2>1
  <2>4. CASE taskList[1] = t
    <3>1. exec[t] \in (IF value[t] THEN Until[t] ELSE at[t])
      BY Zenon, <2>3 DEF OnSchedule, Waiting
    <3>2. value'[t] <=> ~value[t]
      BY Zenon, <1>1, <2>1, <2>2, <2>4
    <3>3. exec'[t] \in (IF value'[t] THEN at[t] ELSE Until[t])
      BY Zenon, <2>1, <3>1, <3>2
    <3>4. exec[t] <= now /\ now < exec[t] + Late
      <4>1. exec[t] \in Nat /\ Late \in Nat
        BY <1>1, TimerConstants
      <4>. QED
        BY <1>1, <2>1, <2>2, <2>4, <4>1
    <3>5. Turning(t)'
      BY Zenon, <1>3, <2>1, <2>4, <3>3, <3>4 DEF Turning
    <3>. QED
      BY Zenon, <2>1, <2>2, <2>4, <3>5 DEF OnSchedule, Turning
  <2>5. CASE taskList[1] # t
    <3>1. value'[t] = value[t] /\ exec'[t] = exec[t] /\ firing' # t
      BY Zenon, <1>1, <2>1, <2>2, <2>5
    <3>. QED
      BY Zenon, <1>1, <1>7, <2>1, <2>3, <3>1
  <2>. QED
    BY Zenon, <2>4, <2>5
<1>13. ASSUME Pulse PROVE OnSchedule(t)'
  <2>1. /\ firing # NoTask /\ During[firing] = 0
        /\ value' = [value EXCEPT ![firing] = FALSE]
        /\ firing' = firing /\ now' = now /\ exec' = exec /\ live' = live /\ skipped' = skipped
    BY Zenon, <1>13 DEF Pulse, Pulses
  <2>2. firing # t /\ firing \in Tasks
    BY Zenon, <1>1, <1>6, <2>1
  <2>3. value'[t] = value[t]
    BY Zenon, <1>1, <2>1, <2>2
  <2>. QED
    BY Zenon, <1>1, <1>5, <1>7, <2>1, <2>2, <2>3
<1>14. ASSUME FireEnd PROVE OnSchedule(t)'
  <2>1. /\ firing # NoTask /\ firing' = NoTask /\ now' = now
        /\ live' = live /\ skipped' = skipped
    BY Zenon, <1>14 DEF FireEnd
  <2>2. OnSchedule(t) /\ firing' # t /\ firing \in Tasks
    BY Zenon, <1>1, <1>5, <2>1
  <2>3. taskList # <<>> => Head(taskList) = taskList[1]
    BY Zenon, <1>4, TailKeepsOrder
  <2>4. CASE firing = t
    <3>1. Turning(t)
      BY Zenon, <2>2, <2>4 DEF OnSchedule
    <3>2. Reschedule(t, Tail(taskList), at[t], checked)
      BY Zenon, <1>14, <2>3, <2>4, <3>1 DEF FireEnd, Turning
    <3>3. Waiting(t)'
      BY Zenon, <1>3, <2>1, <3>1, <3>2, GoesOn
    <3>. QED
      BY Zenon, <2>2, <3>3 DEF OnSchedule, Waiting
  <2>5. CASE firing # t
    <3>1. exec'[t] = exec[t] /\ value'[t] = value[t]
      <4>1. CASE taskList # <<>> /\ Head(taskList) = firing
        <5>1. Reschedule(firing, Tail(taskList), at[firing], checked)
          BY Zenon, <1>14, <4>1 DEF FireEnd
        <5>. QED
          BY Zenon, <1>1, <2>2, <2>5, <5>1, OthersKept
      <4>2. CASE ~(taskList # <<>> /\ Head(taskList) = firing)
        BY Zenon, <1>14, <4>2 DEF FireEnd
      <4>. QED
        BY Zenon, <4>1, <4>2
    <3>. QED
      BY Zenon, <1>1, <1>7, <2>1, <2>2, <2>5, <3>1
  <2>. QED
    BY Zenon, <2>4, <2>5
<1>15. ASSUME Skip PROVE OnSchedule(t)'
  <2>1. /\ firing = NoTask /\ taskList # <<>> /\ firing' = firing /\ now' = now
        /\ live' = live /\ skipped' = skipped \cup {Head(taskList)}
        /\ Reschedule(Head(taskList), Tail(taskList), at[Head(taskList)], now)
    BY Zenon, <1>15 DEF Skip
  <2>2. Head(taskList) \in Tasks /\ Head(taskList) # t /\ t \notin skipped /\ firing # t
    <3>1. Head(taskList) = taskList[1] /\ taskList[1] \in Tasks
      BY Zenon, <1>4, <2>1, TailKeepsOrder
    <3>. QED
      BY Zenon, <1>1, <2>1, <3>1
  <2>3. exec'[t] = exec[t] /\ value'[t] = value[t]
    BY Zenon, <1>1, <2>1, <2>2, OthersKept
  <2>. QED
    BY Zenon, <1>1, <1>5, <1>7, <2>1, <2>2, <2>3
<1>16. ASSUME Tick PROVE OnSchedule(t)'
  <2>1. /\ now' = now + 1 /\ taskList' = taskList /\ exec' = exec /\ value' = value
        /\ live' = live /\ firing' = firing /\ checked' = checked /\ skipped' = skipped
    BY <1>16 DEF Tick
  <2>2. now' \in Nat /\ now <= now'
    BY <1>1, <2>1
  <2>3. OnSchedule(t)
    BY Zenon, <1>5, <2>1
  <2>. QED
    BY Zenon, <1>7, <2>1, <2>2, <2>3 DEF OnSchedule, Turning
<1>17. ASSUME UNCHANGED vars PROVE OnSchedule(t)'
  <2>1. /\ now' = now /\ taskList' = taskList /\ exec' = exec /\ value' = value
        /\ live' = live /\ firing' = firing /\ checked' = checked /\ skipped' = skipped
    BY Zenon, <1>17 DEF vars
  <2>2. OnSchedule(t)
    BY Zenon, <1>5, <2>1
  <2>. QED
    BY Zenon, <1>1, <1>7, <2>1, <2>2 DEF OnSchedule, Turning
<1>. QED
  BY Zenon, <1>9, <1>10, <1>11, <1>12, <1>13, <1>14, <1>15, <1>16, <1>17 DEF Next

\* A timer from <at> until <until> is on exactly in its periods whenever no task
\* is due, however late within a minute the manager was, however long listeners
\* blocked, and whatever was configured, deleted or changed meanwhile
\* (TimerManager::checkTaskList, PeriodicTask::onTimer, reschedule).
THEOREM FollowsScheduleEver ==
    ASSUME Regular, ShiftsStand
    PROVE  Spec => []FollowsSchedule
<1>1. Init => ScheduleInv
  BY Zenon DEF Init, ScheduleInv
<1>2. QueueInv /\ AtRest /\ ScheduleInv => FollowsSchedule
  <2>. SUFFICES ASSUME QueueInv, ScheduleInv, Settled,
                       NEW t \in live \ skipped, Every[t] = -1, During[t] = -1
                PROVE  value[t] = InPeriod(t, now)
    BY Zenon DEF FollowsSchedule
  <2>1. /\ exec \in [Tasks -> Nat] /\ value \in [Tasks -> BOOLEAN] /\ now \in Nat
        /\ t \in Tasks /\ NoTask \notin Tasks
    BY TimerConstants DEF QueueInv, Types
  <2>2. Shift(t)
    BY Zenon DEF Shift
  <2>3. Waiting(t)
    BY Zenon, <2>1, <2>2 DEF ScheduleInv, OnSchedule, Settled
  <2>4. exec[t] # 0
    <3>1. at[t] \in SUBSET (Nat \ {0}) /\ Until[t] \in SUBSET (Nat \ {0})
      BY Zenon, <2>1, <2>2, ScheduleIs
    <3>. QED
      BY <2>3, <3>1 DEF Waiting
  <2>5. exec[t] > now
    <3>1. \E i \in 1..Len(taskList) : taskList[i] = t
      BY Zenon, <2>1, <2>4, QueueIs DEF In
    <3>. QED
      BY Zenon, <3>1 DEF Settled
  <2>6. now \in now..exec[t] - 1
    BY <2>1, <2>5
  <2>7. value[t] <=> Span(at[t], Until[t], now)
    BY Zenon, <2>3, <2>6 DEF Waiting
  <2>8. InPeriod(t, now) <=> Span(at[t], Until[t], now)
    BY Zenon DEF InPeriod, Span
  <2>9. value[t] \in BOOLEAN /\ InPeriod(t, now) \in BOOLEAN
    BY Zenon, <2>1 DEF InPeriod
  <2>. QED
    BY Zenon, <2>7, <2>8, <2>9
<1>. QED
  BY Initially, Stepwise, AtRestAtFirst, RestKept, ScheduleKept, <1>1, <1>2, PTL DEF Spec
=============================================================================
