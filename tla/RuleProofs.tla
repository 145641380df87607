---------------------------- MODULE RuleProofs ----------------------------
(***************************************************************************)
(* Proofs about a rule and the actions it runs.                            *)
(*                                                                         *)
(* Module Rule, for any number of overlapping callers: type correctness,   *)
(* and that a rule implements the edge detector of module EdgeTrigger      *)
(* (which needs no invariant besides the types, since prevValue_m is read  *)
(* and written without a switch of threads).                               *)
(*                                                                         *)
(* Module RuleLists, for any lists, runs and threads that cancel: that     *)
(* Rule::cancel stops what it found running, as far as the runs of an      *)
(* action have not come into each other's way.                             *)
(*                                                                         *)
(* Module Actions, for any list of sub-actions of any classes, one run of  *)
(* each at a time: that a group outlives its sub-actions, and that loops   *)
(* run their course.                                                       *)
(***************************************************************************)
EXTENDS Rule, RuleLists, Actions, WellFoundedInduction, TLAPS

\* The type of the history variable, which most actions touch.
HistoryOK ==
    ran \in [by : {"nobody", "evaluate", "initialize", "command"}, lists : SUBSET Lists]

PCs == {"idle", "evaluate", "initialize", "import"}

\* The lists chosen by a truth value are lists of a rule.
LEMMA ListsChosen ==
    ASSUME NEW b \in BOOLEAN
    PROVE  Stateless(b) \in Lists /\ Stateful(b) \in Lists
BY DEF Stateless, Stateful, Lists

\* Starting lists, and starting nothing, keep the history variable typed.
LEMMA ExecuteTypes ==
    ASSUME TypeOK, NEW ls \in SUBSET Lists,
           NEW cause \in {"evaluate", "initialize", "command"}, Execute(cause, ls)
    PROVE  HistoryOK'
BY DEF TypeOK, Execute, HistoryOK

\* That nobody ran anything is a record of its kind.
LEMMA NothingTyped ==
    Nothing \in [by : {"nobody", "evaluate", "initialize", "command"}, lists : SUBSET Lists]
BY DEF Nothing

\* Starting nothing keeps the history variable typed.
LEMMA ExecuteNothingTypes ==
    ASSUME TypeOK, ExecuteNothing
    PROVE  HistoryOK'
BY NothingTyped DEF TypeOK, ExecuteNothing, HistoryOK

\* Both ways into Rule::initialize keep the types, for every init mode.
LEMMA InitializeTypes ==
    ASSUME TypeOK, NEW a \in Activations, NEW act \in BOOLEAN, NEW mode \in {"false", "true", "eval"},
           NEW waiting \in {"initialize", "import"},
           InitializeOrPreset(a, act, mode, waiting) \/ Initialize(a, act, mode, waiting)
    PROVE  prevValue' \in BOOLEAN /\ pc' \in [Activations -> PCs] /\ HistoryOK'
<1>1. CASE Initialize(a, act, mode, waiting)
  <2>1. CASE ~act /\ ExecuteNothing /\ UNCHANGED <<prevValue, pc>>
    BY <2>1, ExecuteNothingTypes DEF TypeOK, PCs
  <2>2. CASE act /\ mode = "eval" /\ Goto(a, waiting) /\ ExecuteNothing /\ UNCHANGED prevValue
    BY <2>2, ExecuteNothingTypes DEF TypeOK, Goto, PCs
  <2>3. CASE /\ act /\ mode # "eval"
             /\ prevValue' = (mode = "true")
             /\ Execute("initialize", {Stateless(prevValue')})
             /\ UNCHANGED pc
    <3>1. prevValue' \in BOOLEAN
      BY <2>3
    <3>2. {Stateless(prevValue')} \in SUBSET Lists
      BY <3>1, ListsChosen
    <3> QED BY <2>3, <3>1, <3>2, ExecuteTypes DEF TypeOK, PCs
  <2> QED BY <1>1, <2>1, <2>2, <2>3 DEF Initialize
<1>2. CASE ~ready /\ prevValue' = (mode = "true") /\ ExecuteNothing /\ UNCHANGED pc
  BY <1>2, ExecuteNothingTypes DEF TypeOK, PCs
<1> QED BY <1>1, <1>2 DEF InitializeOrPreset

\* Every variable of module Rule keeps its type: Rule::importXml, updateXml,
\* evaluate, initialize, setActive, executeActions and cancel in any overlap.
THEOREM RuleTypeOK == Spec => []TypeOK
<1>1. Init => TypeOK
  <2> SUFFICES ASSUME Init PROVE TypeOK
    OBVIOUS
  <2> QED BY NothingTyped DEF Init, TypeOK
<1>2. TypeOK /\ [Next]_vars => TypeOK'
  <2> SUFFICES ASSUME TypeOK, [Next]_vars PROVE TypeOK'
    OBVIOUS
  <2>1. ASSUME NEW a \in Callers, NEW act \in BOOLEAN, NEW mode \in InitModes,
               Import(a, act, mode)
        PROVE  TypeOK'
    <3>1. prevValue' \in BOOLEAN /\ pc' \in [Activations -> PCs] /\ HistoryOK'
      <4>1. a \in Activations /\ act \in BOOLEAN /\ mode \in {"false", "true", "eval"}
        BY RuleConstants DEF Activations
      <4>2. InitializeOrPreset(a, act, mode, "import")
        BY <2>1 DEF Import
      <4> QED BY <4>1, <4>2, InitializeTypes
    <3> QED BY <2>1, <3>1, RuleConstants DEF Import, TypeOK, HistoryOK, PCs
  <2>2. ASSUME NEW a \in Callers, NEW act \in BOOLEAN, NEW mode \in InitModes \cup {""},
               Update(a, act, mode)
        PROVE  TypeOK'
    <3>1. mode \in {"", "false", "true", "eval"}
      BY RuleConstants
    <3>2. CASE mode = ""
      <4>1. HistoryOK' /\ UNCHANGED <<initMode, prevValue, pc>>
        BY <2>2, <3>2, ExecuteNothingTypes DEF Update
      <4> QED BY <2>2, <3>2, <4>1 DEF Update, TypeOK, HistoryOK, life
    <3>3. CASE mode # ""
      <4>1. prevValue' \in BOOLEAN /\ pc' \in [Activations -> PCs] /\ HistoryOK'
        <5>1. a \in Activations /\ act \in BOOLEAN /\ mode \in {"false", "true", "eval"}
          BY <3>1, <3>3 DEF Activations
        <5>2. InitializeOrPreset(a, act, mode, "initialize")
          BY <2>2, <3>3 DEF Update
        <5> QED BY <5>1, <5>2, InitializeTypes
      <4> QED BY <2>2, <3>1, <3>3, <4>1 DEF Update, TypeOK, HistoryOK, life, PCs
    <3> QED BY <3>2, <3>3
  <2>3. ASSUME NEW a \in Activations, NEW cur \in BOOLEAN, InitializeEnd(a, cur)
        PROVE  TypeOK'
    <3>1. HistoryOK'
      BY <2>3, ListsChosen, ExecuteTypes DEF InitializeEnd
    <3> QED BY <2>3, <3>1 DEF InitializeEnd, Goto, TypeOK, HistoryOK, flags
  <2>4. ASSUME NEW a \in Callers, EvaluateBegin(a)
        PROVE  TypeOK'
    BY <2>4, ExecuteNothingTypes
    DEF EvaluateBegin, Goto, TypeOK, HistoryOK, life, flags, Activations
  <2>5. ASSUME NEW a \in Activations, NEW cur \in BOOLEAN, EvaluateEnd(a, cur)
        PROVE  TypeOK'
    <3>1. {Stateless(cur)} \cup (IF cur = prevValue THEN {} ELSE {Stateful(cur)}) \in SUBSET Lists
      BY ListsChosen
    <3>2. HistoryOK'
      BY <2>5, <3>1, ExecuteTypes DEF EvaluateEnd, Conclude
    <3> QED BY <2>5, <3>2 DEF EvaluateEnd, Conclude, Goto, TypeOK, HistoryOK, life, flags
  <2>6. ASSUME ConnectionReady
        PROVE  TypeOK'
    BY <2>6, ExecuteNothingTypes DEF ConnectionReady, TypeOK, HistoryOK, flags
  <2>7. ASSUME RunInitializer
        PROVE  TypeOK'
    <3>1. CASE registered /\ Initialize(Initializer, active, initMode, "initialize")
      <4>1. prevValue' \in BOOLEAN /\ pc' \in [Activations -> PCs] /\ HistoryOK'
        <5>1. Initializer \in Activations /\ active \in BOOLEAN /\ initMode \in {"false", "true", "eval"}
          BY DEF TypeOK, Activations
        <5> QED BY <3>1, <5>1, InitializeTypes
      <4> QED BY <2>7, <4>1 DEF RunInitializer, TypeOK, HistoryOK, flags, PCs
    <3>2. CASE ExecuteNothing /\ UNCHANGED <<prevValue, pc>>
      BY <2>7, <3>2, ExecuteNothingTypes DEF RunInitializer, TypeOK, HistoryOK, flags
    <3> QED BY <2>7, <3>1, <3>2 DEF RunInitializer
  <2>8. ASSUME NEW act \in BOOLEAN, SetActive(act)
        PROVE  TypeOK'
    BY <2>8, ExecuteNothingTypes DEF SetActive, TypeOK, HistoryOK, life
  <2>9. ASSUME NEW b \in BOOLEAN, StartActionlist(b)
        PROVE  TypeOK'
    <3>1. HistoryOK'
      BY <2>9, ListsChosen, ExecuteTypes DEF StartActionlist
    <3> QED BY <2>9, <3>1 DEF StartActionlist, TypeOK, HistoryOK, life, flags
  <2>10. CASE UNCHANGED vars
    BY <2>10 DEF TypeOK, vars
  <2> QED BY <2>1, <2>2, <2>3, <2>4, <2>5, <2>6, <2>7, <2>8, <2>9, <2>10
          DEF Next, Configure, Finish
<1> QED BY <1>1, <1>2, PTL DEF Spec

-----------------------------------------------------------------------------
\* A call that starts nothing and keeps prevValue_m is a quiet step of the
\* edge detector.
LEMMA QuietStep ==
    ASSUME ran' = Nothing, UNCHANGED prevValue
    PROVE  Trigger!Next
BY DEF Trigger!Next, Trigger!Quiet, Trigger!Nothing, Nothing

\* Every way through Rule::initialize resets the detector or is quiet.
LEMMA InitializeResets ==
    ASSUME NEW a, NEW act, NEW mode, NEW waiting,
           InitializeOrPreset(a, act, mode, waiting) \/ Initialize(a, act, mode, waiting)
    PROVE  Trigger!Next
<1>1. CASE ran' = Nothing /\ UNCHANGED prevValue
  BY <1>1, QuietStep
<1>2. CASE prevValue' \in BOOLEAN /\ ran' = Nothing
  BY <1>2 DEF Trigger!Next, Trigger!Reset, Trigger!Nothing, Nothing
<1>3. CASE /\ prevValue' \in BOOLEAN
           /\ ran' = [by |-> "initialize", lists |-> {Stateless(prevValue')}]
  BY <1>3 DEF Trigger!Next, Trigger!Reset, Trigger!Stateless, Stateless
<1> QED BY <1>1, <1>2, <1>3 DEF InitializeOrPreset, Initialize, Execute, ExecuteNothing

\* However the calls into a rule overlap, its lists run as those of an edge
\* detector on the order in which the evaluations conclude (Rule::evaluate).
THEOREM RuleImplementsEdgeTrigger == Spec => ImplementsEdgeTrigger
<1>1. Init => Trigger!Init
  BY DEF Init, Trigger!Init, Trigger!Nothing, Nothing
<1>2. TypeOK /\ [Next]_vars => [Trigger!Next]_<<prevValue, ran>>
  <2> SUFFICES ASSUME TypeOK, Next
               PROVE  Trigger!Next
    BY DEF vars
  <2>1. ASSUME NEW a \in Callers, NEW act \in BOOLEAN, NEW mode \in InitModes,
               Import(a, act, mode)
        PROVE  Trigger!Next
    BY <2>1, InitializeResets DEF Import
  <2>2. ASSUME NEW a \in Callers, NEW act \in BOOLEAN, NEW mode \in InitModes \cup {""},
               Update(a, act, mode)
        PROVE  Trigger!Next
    BY <2>2, InitializeResets, QuietStep DEF Update, ExecuteNothing
  <2>3. ASSUME NEW a \in Activations, NEW cur \in BOOLEAN, InitializeEnd(a, cur)
        PROVE  Trigger!Next
    <3>1. Trigger!Reset(cur)
      BY <2>3 DEF InitializeEnd, Execute, Trigger!Reset, Trigger!Stateless, Stateless
    <3> QED BY <3>1 DEF Trigger!Next
  <2>4. ASSUME NEW a \in Activations, NEW cur \in BOOLEAN, EvaluateEnd(a, cur)
        PROVE  Trigger!Next
    <3>1. {Trigger!Stateful(c) : c \in {cur} \ {prevValue}}
             = IF cur = prevValue THEN {} ELSE {Stateful(cur)}
      BY DEF Trigger!Stateful, Stateful
    <3>2. Trigger!Sample(cur)
      BY <2>4, <3>1 DEF EvaluateEnd, Conclude, Execute, Trigger!Sample, Trigger!Stateless, Stateless
    <3> QED BY <3>2 DEF Trigger!Next
  <2>5. ASSUME RunInitializer
        PROVE  Trigger!Next
    BY <2>5, InitializeResets, QuietStep DEF RunInitializer, ExecuteNothing
  <2>6. ASSUME NEW b \in BOOLEAN, StartActionlist(b)
        PROVE  Trigger!Next
    <3>1. Trigger!Force(b)
      BY <2>6 DEF StartActionlist, Execute, Trigger!Force, Trigger!Stateful, Trigger!Stateless,
                  Stateful, Stateless
    <3> QED BY <3>1 DEF Trigger!Next
  <2>7. ASSUME NEW a \in Callers, EvaluateBegin(a)
        PROVE  Trigger!Next
    BY <2>7, QuietStep DEF EvaluateBegin, ExecuteNothing
  <2>8. ASSUME ConnectionReady \/ \E act \in BOOLEAN : SetActive(act)
        PROVE  Trigger!Next
    BY <2>8, QuietStep DEF ConnectionReady, SetActive, ExecuteNothing
  <2> QED BY <2>1, <2>2, <2>3, <2>4, <2>5, <2>6, <2>7, <2>8 DEF Next, Configure, Finish
<1> QED BY <1>1, <1>2, RuleTypeOK, PTL DEF Spec, Trigger!Spec, ImplementsEdgeTrigger

-----------------------------------------------------------------------------
\* A set of numbers with a member has a smallest one.
LEMMA Least ==
    ASSUME NEW S \in SUBSET Nat, S # {}
    PROVE  \E x \in S : \A y \in S : x <= y
<1>1. PICK x \in S : \A y \in S : ~(<<y, x>> \in OpToRel(<, Nat))
  BY NatLessThanWellFounded, WFMin
<1>2. \A y \in S : y < x => <<y, x>> \in OpToRel(<, Nat)
  BY Zenon, <1>1 DEF OpToRel
<1>3. \A y \in S : ~(y < x)
  BY Zenon, <1>1, <1>2
<1>. QED
  BY <1>3

\* What the proofs about the lists need of the types.
ListTypes ==
    /\ raised \in [Actions -> BOOLEAN] /\ intact \in [Actions -> BOOLEAN]
    /\ tid \in [Actions -> {0} \cup Runs]
    /\ at \in [Actions -> [Runs -> Places]]
    /\ visiting \in [Cancellers -> 0..Len(CancelOrder)]
    /\ stopping \in [Cancellers -> SUBSET Actions]
    /\ found \in [Cancellers -> SUBSET (Listed \X Runs)]

\* Whoever cancels is inside the Stop of the action it has got to.
Inside == \A c \in Cancellers :
    visiting[c] # 0 => stopping[c] = {CancelOrder[visiting[c]]}

\* An intact action that somebody is stopping has its semaphore raised.
StopsRaised == \A c \in Cancellers, a \in Actions :
    intact[a] /\ a \in stopping[c] => raised[a]

\* Thread::Stop, which does nothing without a thread id, misses no run of an
\* intact action that nobody has told to stop.
Cancellable == \A a \in Actions, k \in Runs :
    intact[a] /\ Alive(a, k) => tid[a] # 0 \/ Told(a, k)

\* The runs a cancel has found are alive.
FoundAlive == \A c \in Cancellers : \A r \in found[c] : Alive(r[1], r[2])

\* A cancel has been at the action: it has got as far, or is over.
Visited(c, a) == visiting[c] = 0 \/ \E i \in 1..visiting[c] : CancelOrder[i] = a

\* What a cancel has found of the actions it has been at is told to stop.
VisitedTold == \A c \in Cancellers : \A r \in found[c] :
    intact[r[1]] /\ Visited(c, r[1]) => Told(r[1], r[2])

ListInv == ListTypes /\ Inside /\ StopsRaised /\ Cancellable /\ FoundAlive /\ VisitedTold

\* The order of cancellation goes over actions, and over all of the lists.
LEMMA OrderCovers ==
    /\ Len(CancelOrder) \in Nat
    /\ \A i \in 1..Len(CancelOrder) : CancelOrder[i] \in Actions
    /\ \A a \in Listed : \E i \in 1..Len(CancelOrder) : CancelOrder[i] = a
    /\ Listed \subseteq Actions
<1>. DEFINE A == ListOf["OnTrue"]
            B == ListOf["IfTrue"]
            C == ListOf["OnFalse"]
            D == ListOf["IfFalse"]
            Has(S, a) == \E i \in 1..Len(S) : S[i] = a
<1>1. A \in Seq(Actions) /\ B \in Seq(Actions) /\ C \in Seq(Actions) /\ D \in Seq(Actions)
  BY RuleListsConstants DEF TriggerTypes
<1>. HIDE DEF A, B, C, D
<1>2. \A S, T \in Seq(Actions) :
         /\ S \o T \in Seq(Actions)
         /\ \A a \in Actions : Has(S, a) \/ Has(T, a) => Has(S \o T, a)
  <2>. TAKE S, T \in Seq(Actions)
  <2>1. /\ S \o T \in Seq(Actions)
        /\ Len(S) \in Nat /\ Len(T) \in Nat /\ Len(S \o T) = Len(S) + Len(T)
        /\ \A i \in 1..Len(S) : (S \o T)[i] = S[i]
    OBVIOUS
  <2>2. ASSUME NEW i \in 1..Len(T)
        PROVE  i + Len(S) \in 1..Len(S \o T) /\ (S \o T)[i + Len(S)] = T[i]
    <3>1. i + Len(S) \in 1..Len(S \o T) /\ ~(i + Len(S) <= Len(S)) /\ (i + Len(S)) - Len(S) = i
      BY <2>1
    <3>. QED
      BY <3>1
  <2>3. ASSUME NEW i \in 1..Len(S)
        PROVE  i \in 1..Len(S \o T)
    BY <2>1
  <2>. QED
    BY <2>1, <2>2, <2>3
<1>3. CancelOrder = ((A \o B) \o C) \o D
  BY <1>1 DEF CancelOrder, A, B, C, D
<1>4. CancelOrder \in Seq(Actions)
  BY <1>1, <1>2, <1>3
<1>5. ASSUME NEW a \in Listed
      PROVE  a \in Actions /\ Has(CancelOrder, a)
  <2>1. PICK t \in TriggerTypes : a \in Range(ListOf[t])
    BY DEF Listed
  <2>2. PICK i \in DOMAIN ListOf[t] : a = ListOf[t][i]
    BY <2>1 DEF Range
  <2>3. ListOf[t] \in Seq(Actions)
    BY RuleListsConstants
  <2>4. i \in 1..Len(ListOf[t]) /\ a \in Actions
    BY <2>2, <2>3
  <2>5. \/ ListOf[t] = A \/ ListOf[t] = B \/ ListOf[t] = C \/ ListOf[t] = D
    BY DEF TriggerTypes, A, B, C, D
  <2>6. Has(A, a) \/ Has(B, a) \/ Has(C, a) \/ Has(D, a)
    BY <2>2, <2>4, <2>5
  <2>. HIDE DEF Has
  <2>7. /\ A \o B \in Seq(Actions) /\ (A \o B) \o C \in Seq(Actions)
        /\ ((A \o B) \o C) \o D \in Seq(Actions)
    BY <1>1, <1>2
  <2>8. Has(A, a) \/ Has(B, a) => Has(A \o B, a)
    BY <1>1, <1>2, <2>4
  <2>9. Has(A \o B, a) \/ Has(C, a) => Has((A \o B) \o C, a)
    BY <1>1, <1>2, <2>4, <2>7
  <2>10. Has((A \o B) \o C, a) \/ Has(D, a) => Has(CancelOrder, a)
    BY <1>1, <1>2, <1>3, <2>4, <2>7
  <2>. QED
    BY <2>4, <2>6, <2>8, <2>9, <2>10
<1>. QED
  BY <1>4, <1>5

\* A thread that can be started has a number.
LEMMA FreeRun ==
    ASSUME NEW a, HasFree(a)
    PROVE  Free(a) \in Runs /\ ~Alive(a, Free(a))
<1>. DEFINE S == {k \in Runs : ~Alive(a, k)}
<1>1. S \in SUBSET Nat /\ S # {}
  BY ActionThreadConstants DEF HasFree, Runs
<1>2. PICK k \in S : \A j \in S : k <= j
  BY <1>1, Least
<1>3. k \in Runs /\ ~Alive(a, k) /\ \A j \in 1..k - 1 : Alive(a, j)
  <2>1. ASSUME NEW j \in 1..k - 1 PROVE j \in Runs /\ ~(k <= j)
    BY <1>2, ActionThreadConstants DEF Runs
  <2>. QED
    BY <1>2, <2>1
<1>. QED
  BY <1>3 DEF Free

\* The first action behind the i-th whose thread is known; those before it
\* have none.
LEMMA NextKnownIs ==
    ASSUME NEW i \in 0..Len(CancelOrder), NEW ids
    PROVE  LET j == NextKnown(i, ids) IN
           /\ j \in 0..Len(CancelOrder)
           /\ j # 0 => j > i /\ ids[CancelOrder[j]] # 0
           /\ \A h \in i + 1..Len(CancelOrder) : j = 0 \/ h < j => ids[CancelOrder[h]] = 0
<1>. DEFINE known == {j \in i + 1..Len(CancelOrder) : ids[CancelOrder[j]] # 0}
            j == NextKnown(i, ids)
<1>0. Len(CancelOrder) \in Nat
  BY OrderCovers
<1>1. CASE known = {}
  <2>1. j = 0
    BY <1>1 DEF NextKnown
  <2>. QED
    BY <1>0, <1>1, <2>1
<1>2. CASE known # {}
  <2>1. known \in SUBSET Nat
    BY <1>0
  <2>2. \E x \in known : \A h \in known : x <= h
    BY <1>2, <2>1, Least
  <2>3. j = CHOOSE x \in known : \A h \in known : x <= h
    BY <1>2 DEF NextKnown
  <2>4. j \in known /\ \A h \in known : j <= h
    BY <2>2, <2>3
  <2>5. \A h \in i + 1..Len(CancelOrder) : h < j => h \notin known
    BY <1>0, <2>4
  <2>. QED
    BY <1>0, <2>4, <2>5
<1>. QED
  BY <1>1, <1>2

-----------------------------------------------------------------------------
\* At first nothing runs and nobody cancels.
LEMMA ListsInitially == ListsInit => ListInv
<1>. SUFFICES ASSUME ListsInit PROVE ListInv
  OBVIOUS
<1>1. ListTypes
  BY OrderCovers DEF ListsInit, ThreadInit, ListTypes, Places
<1>2. Inside /\ StopsRaised
  BY DEF ListsInit, ThreadInit, Inside, StopsRaised
<1>3. Cancellable /\ FoundAlive /\ VisitedTold
  BY DEF ListsInit, ThreadInit, Cancellable, Alive, FoundAlive, VisitedTold
<1>. QED
  BY <1>1, <1>2, <1>3 DEF ListInv

\* Executing a list, at whatever time, keeps the invariant: its actions get a
\* thread, and are no longer what a cancel has found.
LEMMA ExecuteListKeeps ==
    ASSUME ListInv, NEW t \in TriggerTypes, ExecuteList(t)
    PROVE  ListInv'
<1>. DEFINE new == Range(ListOf[t])
<1>0. /\ ListTypes /\ Inside /\ StopsRaised /\ Cancellable /\ FoundAlive /\ VisitedTold
      /\ UNCHANGED <<stopping, visiting>>
  BY DEF ListInv, ExecuteList
<1>1. Start(new, at)
  BY DEF ExecuteList
<1>2. \A a \in new : Free(a) \in Runs
  BY <1>1, FreeRun DEF Start
<1>3. /\ raised' = [a \in Actions |-> raised[a] /\ a \notin new]
      /\ tid' = [a \in Actions |-> IF a \in new THEN Free(a) ELSE tid[a]]
      /\ at' = [a \in Actions |-> IF a \in new THEN [at[a] EXCEPT ![Free(a)] = "new"] ELSE at[a]]
  BY <1>1 DEF Start
<1>4. /\ found' = [c \in Cancellers |-> {r \in found[c] : r[1] \notin new}]
      /\ intact' = [a \in Actions |-> IF a \in new THEN IntactOnStart(a) ELSE intact[a]]
  BY DEF ExecuteList
<1>. HIDE DEF new
<1>5. ListTypes'
  <2>1. raised' \in [Actions -> BOOLEAN]
    BY <1>0, <1>3 DEF ListTypes
  <2>2. intact' \in [Actions -> BOOLEAN]
    <3>1. \A a \in Actions : IntactOnStart(a) \in BOOLEAN
      BY <1>0 DEF IntactOnStart, Resting, ListTypes
    <3>. QED
      BY <1>0, <1>4, <3>1 DEF ListTypes
  <2>3. tid' \in [Actions -> {0} \cup Runs]
    BY <1>0, <1>2, <1>3 DEF ListTypes
  <2>4. at' \in [Actions -> [Runs -> Places]]
    BY <1>0, <1>2, <1>3 DEF ListTypes, Places
  <2>5. found' \in [Cancellers -> SUBSET (Listed \X Runs)]
    BY <1>0, <1>4 DEF ListTypes
  <2>. QED
    BY <1>0, <2>1, <2>2, <2>3, <2>4, <2>5 DEF ListTypes
<1>6. Inside'
  BY <1>0 DEF Inside
<1>7. StopsRaised'
  <2>1. SUFFICES ASSUME NEW c \in Cancellers, NEW a \in Actions, intact'[a], a \in stopping[c]
                 PROVE  raised'[a]
    BY <1>0 DEF StopsRaised
  <2>2. a \notin new
    BY <1>4, <2>1 DEF IntactOnStart, Resting
  <2>. QED
    BY <1>0, <1>3, <1>4, <2>1, <2>2 DEF StopsRaised
<1>8. Cancellable'
  <2>1. SUFFICES ASSUME NEW a \in Actions, NEW k \in Runs, intact'[a], Alive(a, k)'
                 PROVE  tid'[a] # 0 \/ Told(a, k)'
    BY DEF Cancellable
  <2>2. CASE a \in new
    BY <1>2, <1>3, <2>2, ActionThreadConstants DEF Runs
  <2>3. CASE a \notin new
    BY <1>0, <1>3, <1>4, <2>1, <2>3 DEF Cancellable, Alive, Told
  <2>. QED
    BY <2>2, <2>3
<1>9. FoundAlive' /\ VisitedTold'
  <2>1. SUFFICES ASSUME NEW c \in Cancellers, NEW r \in found'[c]
                 PROVE  /\ Alive(r[1], r[2])'
                        /\ intact'[r[1]] /\ Visited(c, r[1])' => Told(r[1], r[2])'
    BY DEF FoundAlive, VisitedTold
  <2>2. r \in found[c] /\ r[1] \notin new /\ r[1] \in Actions
    BY <1>0, <1>4, <2>1, OrderCovers DEF ListTypes
  <2>3. at'[r[1]] = at[r[1]] /\ raised'[r[1]] = raised[r[1]] /\ intact'[r[1]] = intact[r[1]]
    BY <1>0, <1>3, <1>4, <2>2 DEF ListTypes
  <2>4. Visited(c, r[1])' = Visited(c, r[1])
    BY <1>0 DEF Visited
  <2>. QED
    BY <1>0, <2>2, <2>3, <2>4 DEF FoundAlive, VisitedTold, Alive, Told
<1>. QED
  BY <1>5, <1>6, <1>7, <1>8, <1>9 DEF ListInv

\* Steps of a run on its way keep it alive, and told if it was.
LEMMA GoesOnKeeps ==
    ASSUME ListInv, NEW a \in Actions, NEW k \in Runs, ActionGoesOn(a, k)
    PROVE  ListInv'
<1>0. /\ ListTypes /\ Inside /\ StopsRaised /\ Cancellable /\ FoundAlive /\ VisitedTold
      /\ UNCHANGED <<raised, tid, stopping, visiting, found, intact>>
  BY DEF ListInv, ActionGoesOn, RunSleeps, TimeOut, RunWorks
<1>1. \E p \in Places \ {"gone"} :
         /\ at' = [at EXCEPT ![a][k] = p]
         /\ Alive(a, k)
         /\ Told(a, k) => raised[a] \/ p = "stopped"
  BY <1>0 DEF ActionGoesOn, RunSleeps, TimeOut, RunWorks, Move, Sleep, Alive, Told, Places
<1>2. PICK p \in Places \ {"gone"} :
         /\ at' = [at EXCEPT ![a][k] = p]
         /\ Alive(a, k)
         /\ Told(a, k) => raised[a] \/ p = "stopped"
  BY <1>1
<1>3. \A b \in Actions, j \in Runs :
         /\ Alive(b, j)' <=> Alive(b, j)
         /\ Told(b, j) => Told(b, j)'
  BY <1>0, <1>2 DEF ListTypes, Alive, Told
<1>4. ListTypes'
  BY <1>0, <1>2 DEF ListTypes
<1>5. Inside' /\ StopsRaised'
  BY <1>0 DEF Inside, StopsRaised
<1>6. Cancellable'
  BY <1>0, <1>3 DEF Cancellable
<1>7. FoundAlive' /\ VisitedTold'
  <2>1. SUFFICES ASSUME NEW c \in Cancellers, NEW r \in found[c]
                 PROVE  /\ Alive(r[1], r[2])'
                        /\ intact[r[1]] /\ Visited(c, r[1])' => Told(r[1], r[2])'
    BY <1>0 DEF FoundAlive, VisitedTold
  <2>2. r[1] \in Actions /\ r[2] \in Runs
    BY <1>0, OrderCovers DEF ListTypes
  <2>3. Visited(c, r[1])' = Visited(c, r[1])
    BY <1>0 DEF Visited
  <2>. QED
    BY <1>0, <1>3, <2>2, <2>3 DEF FoundAlive, VisitedTold
<1>. QED
  BY <1>4, <1>5, <1>6, <1>7 DEF ListInv

\* A run that ends leaves its action intact only if no other run is left that
\* the cleared thread id would hide.
LEMMA EndsKeeps ==
    ASSUME ListInv, NEW a \in Actions, NEW k \in Runs, ActionEnds(a, k)
    PROVE  ListInv'
<1>0. /\ ListTypes /\ Inside /\ StopsRaised /\ Cancellable /\ FoundAlive /\ VisitedTold
      /\ UNCHANGED <<raised, stopping, visiting>>
      /\ at' = [at EXCEPT ![a][k] = "gone"] /\ tid' = [tid EXCEPT ![a] = 0]
      /\ found' = [c \in Cancellers |-> found[c] \ {<<a, k>>}]
      /\ intact' = [intact EXCEPT ![a] = @ /\ \A j \in Runs \ {k} : ~Alive(a, j)]
  BY DEF ListInv, ActionEnds, RunExits, Move
<1>1. \A b \in Actions, j \in Runs :
         /\ Alive(b, j)' <=> Alive(b, j) /\ <<b, j>> # <<a, k>>
         /\ Told(b, j) /\ <<b, j>> # <<a, k>> => Told(b, j)'
  BY <1>0 DEF ListTypes, Alive, Told
<1>2. \A b \in Actions : /\ intact'[b] => intact[b]
                         /\ intact'[a] => \A j \in Runs \ {k} : ~Alive(a, j)
  BY <1>0 DEF ListTypes
<1>3. ListTypes'
  BY <1>0 DEF ListTypes, Places
<1>4. Inside' /\ StopsRaised'
  BY <1>0, <1>2 DEF Inside, StopsRaised
<1>5. Cancellable'
  <2>1. SUFFICES ASSUME NEW b \in Actions, NEW j \in Runs, intact'[b], Alive(b, j)'
                 PROVE  tid'[b] # 0 \/ Told(b, j)'
    BY DEF Cancellable
  <2>2. b # a
    BY <1>1, <1>2, <2>1
  <2>. QED
    BY <1>0, <1>1, <1>2, <2>1, <2>2 DEF Cancellable, ListTypes
<1>6. FoundAlive' /\ VisitedTold'
  <2>1. SUFFICES ASSUME NEW c \in Cancellers, NEW r \in found'[c]
                 PROVE  /\ Alive(r[1], r[2])'
                        /\ intact'[r[1]] /\ Visited(c, r[1])' => Told(r[1], r[2])'
    BY DEF FoundAlive, VisitedTold
  <2>2. r \in found[c] /\ r # <<a, k>> /\ r[1] \in Actions /\ r[2] \in Runs /\ r = <<r[1], r[2]>>
    BY <1>0, <2>1, OrderCovers DEF ListTypes
  <2>3. Visited(c, r[1])' = Visited(c, r[1])
    BY <1>0 DEF Visited
  <2>. QED
    BY <1>0, <1>1, <1>2, <2>2, <2>3 DEF FoundAlive, VisitedTold
<1>. QED
  BY <1>3, <1>4, <1>5, <1>6 DEF ListInv

\* The walk goes on behind the i-th action, with the thread ids as it has left
\* them: whatever it passes without a thread id was told to stop already.
LEMMA CancelBehindKeeps ==
    ASSUME ListTypes, Inside, StopsRaised, Cancellable,
           NEW c \in Cancellers, NEW i \in 0..Len(CancelOrder), NEW ids \in [Actions -> {0} \cup Runs],
           CancelBehind(c, i, ids), UNCHANGED intact,
           \A a \in Actions : ids[a] = tid[a]
                                 \/ (intact[a] => \A k \in Runs : Alive(a, k) => Told(a, k)),
           found' \in [Cancellers -> SUBSET (Listed \X Runs)],
           \A b \in Cancellers : \A r \in found'[b] : Alive(r[1], r[2]),
           \A b \in Cancellers \ {c} : \A r \in found'[b] :
               intact[r[1]] /\ Visited(b, r[1]) => Told(r[1], r[2]),
           \A r \in found'[c] : \A h \in 1..i :
               intact[r[1]] /\ CancelOrder[h] = r[1] => Told(r[1], r[2])
    PROVE  ListInv'
<1>. DEFINE j == NextKnown(i, ids)
<1>0. Len(CancelOrder) \in Nat /\ Listed \subseteq Actions
  BY OrderCovers
<1>1. /\ j \in 0..Len(CancelOrder)
      /\ j # 0 => j > i /\ ids[CancelOrder[j]] # 0
      /\ \A h \in i + 1..Len(CancelOrder) : j = 0 \/ h < j => ids[CancelOrder[h]] = 0
  BY NextKnownIs
<1>2. /\ tid' = ids /\ visiting' = [visiting EXCEPT ![c] = j]
      /\ \/ j = 0 /\ stopping' = [stopping EXCEPT ![c] = {}] /\ raised' = raised /\ at' = at
         \/ /\ j # 0
            /\ stopping' = [stopping EXCEPT ![c] = {CancelOrder[j]}]
            /\ raised' = [raised EXCEPT ![CancelOrder[j]] = TRUE]
            /\ at' = [at EXCEPT ![CancelOrder[j]] = Wake(CancelOrder[j])]
  BY DEF CancelBehind
<1>. HIDE DEF j
<1>3. j # 0 => CancelOrder[j] \in Actions
  BY <1>0, <1>1, OrderCovers
<1>w. j # 0 => /\ Wake(CancelOrder[j]) \in [Runs -> Places]
               /\ \A k \in Runs : /\ (Wake(CancelOrder[j])[k] = "gone") <=> (at[CancelOrder[j]][k] = "gone")
                                  /\ at[CancelOrder[j]][k] = "stopped" => Wake(CancelOrder[j])[k] = "stopped"
  BY <1>3 DEF ListTypes, Wake, Places
<1>4. \A a \in Actions, k \in Runs :
         /\ Alive(a, k)' <=> Alive(a, k)
         /\ Told(a, k) => Told(a, k)'
         /\ raised[a] => raised'[a]
  <2>. TAKE a \in Actions, k \in Runs
  <2>1. CASE raised' = raised /\ at' = at
    BY <2>1 DEF Alive, Told
  <2>2. CASE j # 0 /\ a = CancelOrder[j]
    <3>1. raised'[a] /\ at'[a] = Wake(a)
      BY <1>2, <1>3, <2>2 DEF ListTypes
    <3>. QED
      BY <1>w, <2>2, <3>1 DEF Alive, Told
  <2>3. CASE j # 0 /\ a # CancelOrder[j]
    <3>1. raised'[a] = raised[a] /\ at'[a] = at[a]
      BY <1>2, <1>3, <2>3 DEF ListTypes
    <3>. QED
      BY <3>1 DEF Alive, Told
  <2>. QED
    BY <1>2, <2>1, <2>2, <2>3
<1>5. j # 0 => raised'[CancelOrder[j]]
  BY <1>2, <1>3 DEF ListTypes
<1>6. ListTypes'
  <2>1. at' \in [Actions -> [Runs -> Places]]
    BY <1>2, <1>3, <1>w DEF ListTypes
  <2>2. raised' \in [Actions -> BOOLEAN]
    BY <1>2, <1>3 DEF ListTypes
  <2>3. visiting' \in [Cancellers -> 0..Len(CancelOrder)]
    BY <1>1, <1>2 DEF ListTypes
  <2>4. stopping' \in [Cancellers -> SUBSET Actions]
    <3>1. stopping \in [Cancellers -> SUBSET Actions]
      BY DEF ListTypes
    <3>2. \E S \in SUBSET Actions : stopping' = [stopping EXCEPT ![c] = S]
      BY <1>2, <1>3
    <3>. QED
      BY <3>1, <3>2
  <2>. QED
    BY <1>2, <2>1, <2>2, <2>3, <2>4 DEF ListTypes
<1>7. Inside'
  BY <1>2 DEF Inside, ListTypes
<1>8. StopsRaised'
  <2>1. SUFFICES ASSUME NEW b \in Cancellers, NEW a \in Actions, intact[a], a \in stopping'[b]
                 PROVE  raised'[a]
    BY DEF StopsRaised
  <2>2. CASE b = c
    BY <1>2, <1>5, <2>1, <2>2 DEF ListTypes
  <2>3. CASE b # c
    BY <1>2, <1>4, <2>1, <2>3, ActionThreadConstants DEF ListTypes, StopsRaised, Runs
  <2>. QED
    BY <2>2, <2>3
<1>9. Cancellable'
  BY <1>2, <1>4 DEF Cancellable
<1>10. FoundAlive'
  <2>1. \A b \in Cancellers : \A r \in found'[b] : r[1] \in Actions /\ r[2] \in Runs
    BY <1>0
  <2>. QED
    BY <1>4, <2>1 DEF FoundAlive
<1>11. VisitedTold'
  <2>1. SUFFICES ASSUME NEW b \in Cancellers, NEW r \in found'[b], intact[r[1]], Visited(b, r[1])'
                 PROVE  Told(r[1], r[2])'
    BY DEF VisitedTold
  <2>2. r[1] \in Actions /\ r[2] \in Runs /\ r[1] \in Listed
    BY <1>0
  <2>3. CASE b # c
    <3>1. Visited(b, r[1])
      BY <1>2, <2>1, <2>3 DEF Visited, ListTypes
    <3>. QED
      BY <1>4, <2>1, <2>2, <2>3, <3>1
  <2>4. CASE b = c
    <3>1. PICK h \in 1..Len(CancelOrder) : CancelOrder[h] = r[1] /\ (j = 0 \/ h <= j)
      <4>1. visiting'[c] = j
        BY <1>2 DEF ListTypes
      <4>2. CASE j = 0
        BY <2>2, <4>2, OrderCovers
      <4>3. CASE j # 0
        BY <1>0, <1>1, <2>1, <2>4, <4>1, <4>3 DEF Visited
      <4>. QED
        BY <4>2, <4>3
    <3>2. CASE h \in 1..i
      BY <1>4, <2>1, <2>2, <2>4, <3>1, <3>2
    <3>3. CASE h = j
      BY <1>5, <3>1, <3>3, <1>0 DEF Told
    <3>4. CASE h \in i + 1..Len(CancelOrder) /\ h # j
      <4>1. j = 0 \/ h < j
        BY <1>0, <1>1, <3>1, <3>4
      <4>2. ids[r[1]] = 0
        BY <1>1, <3>1, <3>4, <4>1
      <4>3. Alive(r[1], r[2])
        BY <2>1
      <4>4. Told(r[1], r[2])
        BY <2>1, <2>2, <4>2, <4>3 DEF Cancellable
      <4>. QED
        BY <1>4, <2>2, <4>4
    <3>. QED
      BY <1>0, <3>1, <3>2, <3>3, <3>4
  <2>. QED
    BY <2>3, <2>4
<1>. QED
  BY <1>6, <1>7, <1>8, <1>9, <1>10, <1>11 DEF ListInv

\* Every step keeps the invariant.
LEMMA ListsInductive == ListInv /\ [ListsNext]_listVars => ListInv'
<1>. SUFFICES ASSUME ListInv, [ListsNext]_listVars PROVE ListInv'
  OBVIOUS
<1>0. ListTypes /\ Inside /\ StopsRaised /\ Cancellable /\ FoundAlive /\ VisitedTold
  BY DEF ListInv
<1>1. ASSUME NEW t \in TriggerTypes, ExecuteList(t) PROVE ListInv'
  BY <1>1, ExecuteListKeeps
<1>2. ASSUME NEW a \in Actions, NEW k \in Runs, ActionGoesOn(a, k) \/ ActionEnds(a, k)
      PROVE  ListInv'
  BY <1>2, GoesOnKeeps, EndsKeeps
<1>3. ASSUME \/ \E on \in BOOLEAN : SetEnabled(on)
             \/ UNCHANGED listVars
      PROVE  ListInv'
  <2>1. UNCHANGED <<threadVars, visiting, found, intact>>
    BY <1>3 DEF SetEnabled, listVars
  <2>2. ListTypes' /\ Inside' /\ StopsRaised'
    BY <1>0, <2>1 DEF threadVars, ListTypes, Inside, StopsRaised
  <2>3. Cancellable' /\ FoundAlive' /\ VisitedTold'
    BY <1>0, <2>1 DEF threadVars, Cancellable, FoundAlive, VisitedTold, Visited, Alive, Told
  <2>. QED
    BY <2>2, <2>3 DEF ListInv
<1>4. ASSUME NEW c \in Cancellers, CancelInactive(c) PROVE ListInv'
  <2>1. UNCHANGED <<threadVars, visiting, intact>> /\ found' = [found EXCEPT ![c] = {}]
    BY <1>4 DEF CancelInactive
  <2>2. found' \in [Cancellers -> SUBSET (Listed \X Runs)]
    BY <1>0, <2>1 DEF ListTypes
  <2>3. \A b \in Cancellers : found'[b] \subseteq found[b]
    BY <1>0, <2>1 DEF ListTypes
  <2>4. ListTypes' /\ Inside' /\ StopsRaised' /\ Cancellable'
    BY <1>0, <2>1, <2>2
    DEF threadVars, ListTypes, Inside, StopsRaised, Cancellable, Alive, Told
  <2>5. FoundAlive' /\ VisitedTold'
    BY <1>0, <2>1, <2>3 DEF threadVars, FoundAlive, VisitedTold, Visited, Alive, Told
  <2>. QED
    BY <2>4, <2>5 DEF ListInv
<1>5. ASSUME NEW c \in Cancellers, BeginCancel(c) PROVE ListInv'
  <2>1. /\ CancelBehind(c, 0, tid) /\ UNCHANGED intact
        /\ found' = [found EXCEPT ![c] = {r \in Listed \X Runs : Alive(r[1], r[2])}]
    BY <1>5 DEF BeginCancel
  <2>2. 0 \in 0..Len(CancelOrder) /\ tid \in [Actions -> {0} \cup Runs]
    BY <1>0, OrderCovers DEF ListTypes
  <2>3. found' \in [Cancellers -> SUBSET (Listed \X Runs)]
    BY <1>0, <2>1 DEF ListTypes
  <2>4. \A b \in Cancellers : \A r \in found'[b] : Alive(r[1], r[2])
    BY <1>0, <2>1 DEF FoundAlive, ListTypes
  <2>5. \A b \in Cancellers \ {c} : \A r \in found'[b] :
           intact[r[1]] /\ Visited(b, r[1]) => Told(r[1], r[2])
    BY <1>0, <2>1 DEF VisitedTold, ListTypes
  <2>. QED
    BY <1>0, <2>1, <2>2, <2>3, <2>4, <2>5, CancelBehindKeeps
<1>6. ASSUME NEW c \in Cancellers, GoOnCancelling(c) PROVE ListInv'
  <2>. DEFINE i == visiting[c]
              ids == [tid EXCEPT ![CancelOrder[i]] = 0]
  <2>1. /\ CancelBehind(c, i, ids) /\ UNCHANGED <<intact, found>> /\ i # 0
    BY <1>6 DEF GoOnCancelling
  <2>2. i \in 0..Len(CancelOrder) /\ ids \in [Actions -> {0} \cup Runs]
    BY <1>0 DEF ListTypes
  <2>3. stopping[c] = {CancelOrder[i]}
    BY <1>0, <2>1 DEF Inside
  <2>4. ASSUME NEW a \in Actions
        PROVE  ids[a] = tid[a] \/ (intact[a] => \A k \in Runs : Alive(a, k) => Told(a, k))
    <3>1. CASE a = CancelOrder[i]
      BY <1>0, <2>3, <3>1 DEF StopsRaised, Told
    <3>2. CASE a # CancelOrder[i]
      BY <1>0, <3>2 DEF ListTypes
    <3>. QED
      BY <3>1, <3>2
  <2>5. found' \in [Cancellers -> SUBSET (Listed \X Runs)]
    BY <1>0, <2>1 DEF ListTypes
  <2>6. \A b \in Cancellers : \A r \in found'[b] : Alive(r[1], r[2])
    BY <1>0, <2>1 DEF FoundAlive
  <2>7. \A b \in Cancellers : \A r \in found'[b] :
           intact[r[1]] /\ Visited(b, r[1]) => Told(r[1], r[2])
    BY <1>0, <2>1 DEF VisitedTold
  <2>8. \A r \in found'[c] : \A h \in 1..i :
           intact[r[1]] /\ CancelOrder[h] = r[1] => Told(r[1], r[2])
    BY <2>7 DEF Visited
  <2>. HIDE DEF i, ids
  <2>. QED
    BY <1>0, <2>1, <2>2, <2>4, <2>5, <2>6, <2>7, <2>8, CancelBehindKeeps
<1>. QED
  BY <1>1, <1>2, <1>3, <1>4, <1>5, <1>6 DEF ListsNext

\* When the cancellation of an active rule has returned (Rule::cancel,
\* Thread::Stop), every run it found is over, told to stop or executed again,
\* unless runs of its action have come into each other's way: for any number
\* of runs and of threads that cancel and execute.
THEOREM CancelStopsEver == ListsSpec => []CancelStops
<1>1. ListInv => CancelStops
  BY DEF ListInv, VisitedTold, Visited, CancelStops
<1>. QED
  BY ListsInitially, ListsInductive, <1>1, PTL DEF ListsSpec

-----------------------------------------------------------------------------
\* What the action proofs need of the types; one run of each action at a time.
ActionTypes ==
    /\ raised \in [Actions -> BOOLEAN]
    /\ tid \in [Actions -> {0, 1}]
    /\ at \in [Actions -> [Runs -> Places]]
    /\ stopping \in [Cancellers -> SUBSET {Group}]
    /\ round \in [Runs -> Nat]
    /\ current \in [Runs -> 0..Len(SubActions)]

\* Where the only run of an action is.
Place(a) == at[a][1]

Gone(a) == Place(a) = "gone"

\* Thread::Stop finds the thread of a run, unless someone has told it to stop.
Reached == \A a \in Actions : ~Gone(a) => tid[a] # 0 \/ raised[a]

\* Whoever is going to forget the thread of the group has told it to stop.
StopsKnown ==
    /\ \A c \in Cancellers : stopping[c] # {} => raised[Group]
    /\ \A s \in Subs : Is(s, "cancel") /\ Place(s) = "busy" => raised[Group] \/ tid[Group] = 0

\* A sub-action runs only between the first round of the group and its end,
\* and was told to stop when the group has gone or has come past it.
Parented ==
    /\ ~Gone(Group) /\ round[1] = 0 => \A s \in Subs : Gone(s)
    /\ Place(Group) = "cancelling" =>
          /\ current[1] # 0
          /\ \A i \in 1..current[1] : Gone(SubActions[i]) \/ raised[SubActions[i]]
    /\ Gone(Group) => \A s \in Subs : Gone(s) \/ raised[s]

ActionInv == ActionTypes /\ Reached /\ StopsKnown /\ Parented

\* The sub-actions are actions other than the group, and there is one run.
LEMMA OneRun ==
    /\ MaxRuns = 1 => Runs = {1}
    /\ Group \in Actions /\ Subs \subseteq Actions /\ Group \notin Subs
    /\ \A i \in 1..Len(SubActions) : SubActions[i] \in Subs
    /\ Len(SubActions) \in Nat
    /\ Rounds \in Nat \ {0}
BY GroupConstants, ActionsConstants DEF Runs, Subs, Rounds

\* The initial state, in which nothing runs.
LEMMA ActionInit ==
    ASSUME MaxRuns = 1
    PROVE  ActionsInit => ActionInv
BY OneRun
DEF ActionsInit, GroupInit, ThreadInit, ActionInv, ActionTypes, Reached, StopsKnown, Parented,
    Place, Gone, Places, Runs

\* A run goes from one place to another.
LEMMA Moved ==
    ASSUME MaxRuns = 1, ActionTypes, NEW a \in Actions, NEW p \in Places, at' = [at EXCEPT ![a][1] = p]
    PROVE  /\ at' \in [Actions -> [Runs -> Places]]
           /\ Place(a)' = p
           /\ \A b \in Actions \ {a} : Place(b)' = Place(b)
BY OneRun DEF ActionTypes, Place

\* As long as neither the group nor a sub-action starts or ends, and nobody
\* is forgiven, the sub-actions stay in the hands of the group.
LEMMA ParentedKept ==
    ASSUME MaxRuns = 1, ActionInv, UNCHANGED <<round, current>>,
           \A t \in Subs : (Gone(t) => Gone(t)') /\ (raised[t] => raised'[t]),
           Gone(Group)' <=> Gone(Group),
           Place(Group)' = "cancelling" => Place(Group) = "cancelling"
    PROVE  Parented'
<1>1. ~Gone(Group)' /\ round'[1] = 0 => \A t \in Subs : Gone(t)'
  BY DEF ActionInv, Parented
<1>2. ASSUME Place(Group)' = "cancelling"
      PROVE  /\ current'[1] # 0
             /\ \A i \in 1..current'[1] : Gone(SubActions[i])' \/ raised'[SubActions[i]]
  <2>1. current[1] \in 0..Len(SubActions) /\ Place(Group) = "cancelling"
    BY <1>2, OneRun DEF ActionInv, ActionTypes
  <2>2. \A i \in 1..current[1] : SubActions[i] \in Subs /\ (Gone(SubActions[i]) \/ raised[SubActions[i]])
    BY <2>1, OneRun DEF ActionInv, Parented
  <2> QED BY <2>1, <2>2 DEF ActionInv, Parented
<1>3. Gone(Group)' => \A t \in Subs : Gone(t)' \/ raised'[t]
  BY DEF ActionInv, Parented
<1> QED BY <1>1, <1>2, <1>3 DEF Parented

\* A step of a sub-action that is none of a cancel action's: its run moves on,
\* and at its end its thread is forgotten.
SubMoves(s, p) ==
    /\ ~Gone(s)
    /\ at' = [at EXCEPT ![s][1] = p]
    /\ tid' = tid \/ (p = "gone" /\ tid' = [tid EXCEPT ![s] = 0])
    /\ p = "busy" => ~Is(s, "cancel")
    /\ UNCHANGED <<raised, stopping, class, round, current>>

\* Such a step keeps the invariant.
LEMMA SubMovesKeeps ==
    ASSUME MaxRuns = 1, ActionInv, NEW s \in Subs, NEW p \in Places, SubMoves(s, p)
    PROVE  ActionInv'
<1>1. /\ s \in Actions /\ s # Group /\ Group \in Actions /\ Subs \subseteq Actions
      /\ at' \in [Actions -> [Runs -> Places]]
      /\ Place(s)' = p /\ \A b \in Actions \ {s} : Place(b)' = Place(b)
  BY OneRun, Moved DEF ActionInv, SubMoves
<1>2. /\ UNCHANGED <<raised, stopping, class, round, current>>
      /\ tid' \in [Actions -> {0, 1}]
      /\ \A b \in Actions \ {s} : tid'[b] = tid[b]
      /\ tid'[s] = tid[s] \/ p = "gone"
  BY <1>1 DEF SubMoves, ActionInv, ActionTypes
<1>3. ActionTypes'
  BY <1>1, <1>2 DEF ActionInv, ActionTypes
<1>4. \A b \in Actions : Gone(b) => Gone(b)'
  BY <1>1 DEF SubMoves, Gone
<1>5. Reached'
  BY <1>1, <1>2, <1>4 DEF ActionInv, Reached, Gone
<1>6. StopsKnown'
  <2>1. ASSUME NEW t \in Subs, Is(t, "cancel")', Place(t)' = "busy"
        PROVE  raised'[Group] \/ tid'[Group] = 0
    <3>1. t # s
      BY <1>1, <1>2, <2>1 DEF SubMoves, Is
    <3>2. Is(t, "cancel") /\ Place(t) = "busy"
      BY <1>1, <1>2, <2>1, <3>1 DEF Is
    <3> QED BY <1>1, <1>2, <3>2 DEF ActionInv, StopsKnown
  <2> QED BY <1>2, <2>1 DEF ActionInv, StopsKnown
<1>7. Parented'
  <2>1. Gone(Group)' <=> Gone(Group)
    BY <1>1 DEF Gone
  <2> QED BY <1>1, <1>2, <1>4, <2>1, ParentedKept
<1> QED BY <1>3, <1>5, <1>6, <1>7 DEF ActionInv

\* The runs of an action when its semaphore is raised: a sleeping one is stopped.
LEMMA Woken ==
    ASSUME MaxRuns = 1, ActionTypes, NEW a \in Actions
    PROVE  /\ Wake(a) \in [Runs -> Places]
           /\ Wake(a)[1] = IF Place(a) = "asleep" THEN "stopped" ELSE Place(a)
BY OneRun DEF ActionTypes, Wake, Place, Places

\* A step that raises the semaphore of the group, or leaves the group alone.
Raises ==
    /\ raised' = [raised EXCEPT ![Group] = TRUE]
    /\ Place(Group)' = IF Place(Group) = "asleep" THEN "stopped" ELSE Place(Group)

\* CancelAction::Run up to the switch of threads in Thread::Stop.
LEMMA CancelsRuleKeeps ==
    ASSUME MaxRuns = 1, ActionInv, NEW s \in Subs, CancelsRule(s)
    PROVE  ActionInv'
<1>1. /\ s \in Actions /\ s # Group /\ Group \in Actions /\ Subs \subseteq Actions
      /\ UNCHANGED <<tid, stopping, class, round, current>>
      /\ ~Gone(s)
  BY OneRun DEF CancelsRule, DoesOnce, KeepConfig, Idle, Working, Gone, Place
<1>2. /\ at' \in [Actions -> [Runs -> Places]]
      /\ Place(s)' = "busy" /\ \A b \in Actions \ {s, Group} : Place(b)' = Place(b)
      /\ \/ raised' = raised /\ tid[Group] = 0 /\ Place(Group)' = Place(Group)
         \/ Raises
  <2>1. CASE tid[Group] = 0
    <3>1. "busy" \in Places /\ at' = [at EXCEPT ![s][1] = "busy"] /\ raised' = raised
      BY <2>1 DEF CancelsRule, Move, Places
    <3> QED BY <1>1, <2>1, <3>1, Moved DEF ActionInv
  <2>2. CASE tid[Group] # 0
    <3>1. /\ at' = [at EXCEPT ![s][1] = "busy", ![Group] = Wake(Group)]
          /\ raised' = [raised EXCEPT ![Group] = TRUE]
      BY <2>2 DEF CancelsRule
    <3>2. /\ Wake(Group) \in [Runs -> Places]
          /\ Wake(Group)[1] = IF Place(Group) = "asleep" THEN "stopped" ELSE Place(Group)
      BY <1>1, Woken DEF ActionInv
    <3>3. /\ at' \in [Actions -> [Runs -> Places]]
          /\ Place(s)' = "busy" /\ \A b \in Actions \ {s, Group} : Place(b)' = Place(b)
      BY <1>1, <3>1, <3>2, OneRun DEF ActionInv, ActionTypes, Place, Places
    <3>4. Place(Group)' = Wake(Group)[1]
      BY <1>1, <3>1 DEF ActionInv, ActionTypes, Place
    <3> QED BY <3>1, <3>2, <3>3, <3>4 DEF Raises
  <2> QED BY <2>1, <2>2
<1>3. raised' \in [Actions -> BOOLEAN] /\ \A b \in Actions : raised[b] => raised'[b]
  BY <1>1, <1>2 DEF Raises, ActionInv, ActionTypes
<1>4. \A b \in Actions : Gone(b)' <=> Gone(b)
  BY <1>1, <1>2 DEF Raises, Gone
<1>5. ActionTypes'
  BY <1>1, <1>2, <1>3 DEF ActionInv, ActionTypes
<1>6. Reached'
  BY <1>1, <1>3, <1>4 DEF ActionInv, Reached
<1>7. StopsKnown'
  <2>1. raised'[Group] \/ tid[Group] = 0
    BY <1>1, <1>2 DEF Raises, ActionInv, ActionTypes
  <2> QED BY <1>1, <1>3, <2>1 DEF ActionInv, StopsKnown
<1>8. Parented'
  <2>1. Place(Group)' = "cancelling" => Place(Group) = "cancelling"
    BY <1>2 DEF Raises
  <2> QED BY <1>1, <1>3, <1>4, <2>1, ParentedKept
<1> QED BY <1>5, <1>6, <1>7, <1>8 DEF ActionInv

\* The rest of Thread::Stop in CancelAction::Run, and the end of its thread.
LEMMA CancelReturnsKeeps ==
    ASSUME MaxRuns = 1, ActionInv, NEW s \in Subs, CancelReturns(s)
    PROVE  ActionInv'
<1>1. /\ s \in Actions /\ s # Group /\ Group \in Actions /\ Subs \subseteq Actions
      /\ UNCHANGED <<raised, stopping, class, round, current>>
      /\ tid' = [tid EXCEPT ![Group] = 0, ![s] = 0]
      /\ at' = [at EXCEPT ![s][1] = "gone"] /\ "gone" \in Places
      /\ Is(s, "cancel") /\ Place(s) = "busy"
  BY OneRun DEF CancelReturns, KeepConfig, Idle, Place, Places, Move
<1>2. /\ at' \in [Actions -> [Runs -> Places]]
      /\ Place(s)' = "gone" /\ \A b \in Actions \ {s} : Place(b)' = Place(b)
  BY <1>1, Moved DEF ActionInv
<1>3. /\ tid' \in [Actions -> {0, 1}] /\ tid'[Group] = 0
      /\ \A b \in Actions \ {s, Group} : tid'[b] = tid[b]
  BY <1>1 DEF ActionInv, ActionTypes
<1>4. ActionTypes'
  BY <1>1, <1>2, <1>3 DEF ActionInv, ActionTypes
<1>5. \A b \in Actions : Gone(b) => Gone(b)'
  BY <1>1, <1>2 DEF Gone
<1>6. Reached'
  <2>1. ~Gone(Group) => raised[Group]
    BY <1>1 DEF ActionInv, StopsKnown, Reached
  <2> QED BY <1>1, <1>2, <1>3, <1>5, <2>1 DEF ActionInv, Reached, Gone
<1>7. StopsKnown'
  BY <1>1, <1>3 DEF ActionInv, StopsKnown
<1>8. Parented'
  <2>1. Gone(Group)' <=> Gone(Group)
    BY <1>1, <1>2 DEF Gone
  <2> QED BY <1>1, <1>2, <1>5, <2>1, ParentedKept
<1> QED BY <1>4, <1>6, <1>7, <1>8 DEF ActionInv

\* A step of the group, or of a call that stops it, after which the group runs
\* on where it was or elsewhere, and no thread of a sub-action is concerned.
GroupMoves ==
    /\ at' \in [Actions -> [Runs -> Places]]
    /\ Gone(Group)' <=> Gone(Group)
    /\ Place(Group)' = "cancelling" => Place(Group) = "cancelling"
    /\ \A b \in Actions \ {Group} : Place(b)' = Place(b)
    /\ UNCHANGED <<class, round, current>>

\* Such a step keeps the invariant when Thread::Stop keeps its order.
LEMMA GroupMovesKeeps ==
    ASSUME MaxRuns = 1, ActionInv, GroupMoves,
           \/ UNCHANGED <<raised, tid, stopping>>
           \/ /\ raised' = [raised EXCEPT ![Group] = TRUE] /\ tid' = tid
              /\ stopping' \in [Cancellers -> SUBSET {Group}]
           \/ /\ raised' = raised /\ raised[Group] /\ tid' = [tid EXCEPT ![Group] = 0]
              /\ stopping' \in [Cancellers -> SUBSET {Group}]
    PROVE  ActionInv'
<1>1. Group \in Actions /\ Subs \subseteq Actions
  BY OneRun
<1>2. /\ raised' \in [Actions -> BOOLEAN] /\ \A b \in Actions : raised[b] => raised'[b]
      /\ tid' \in [Actions -> {0, 1}] /\ \A b \in Actions \ {Group} : tid'[b] = tid[b]
      /\ stopping' \in [Cancellers -> SUBSET {Group}]
      /\ tid'[Group] = tid[Group] \/ (tid'[Group] = 0 /\ raised'[Group])
      /\ stopping' = stopping \/ raised'[Group]
  BY <1>1 DEF ActionInv, ActionTypes
<1>3. ActionTypes'
  BY <1>2 DEF GroupMoves, ActionInv, ActionTypes
<1>4. \A b \in Actions : Gone(b) => Gone(b)'
  BY DEF GroupMoves, Gone
<1>5. Reached'
  BY <1>1, <1>2, <1>4 DEF ActionInv, Reached
<1>6. StopsKnown'
  <2>1. ASSUME NEW s \in Subs, Is(s, "cancel")', Place(s)' = "busy"
        PROVE  raised'[Group] \/ tid'[Group] = 0
    <3>1. Is(s, "cancel") /\ Place(s) = "busy"
      BY <1>1, <2>1, OneRun DEF GroupMoves, Is
    <3> QED BY <1>1, <1>2, <3>1 DEF ActionInv, StopsKnown
  <2>2. \A c \in Cancellers : stopping'[c] # {} => raised'[Group]
    BY <1>1, <1>2 DEF ActionInv, StopsKnown
  <2> QED BY <2>1, <2>2 DEF StopsKnown
<1>7. Parented'
  <2>1. UNCHANGED <<round, current>>
    BY DEF GroupMoves
  <2>2. Gone(Group)' <=> Gone(Group)
    BY DEF GroupMoves
  <2>3. Place(Group)' = "cancelling" => Place(Group) = "cancelling"
    BY DEF GroupMoves
  <2>4. \A s \in Subs : (Gone(s) => Gone(s)') /\ (raised[s] => raised'[s])
    BY <1>1, <1>2, <1>4
  <2> QED BY <2>1, <2>2, <2>3, <2>4, ParentedKept
<1> QED BY <1>3, <1>5, <1>6, <1>7 DEF ActionInv

\* A call of Thread::Stop on the group, from its beginning to its end.
LEMMA StopGroupKeeps ==
    ASSUME MaxRuns = 1, ActionInv, NEW c \in Cancellers, StopGroup(c), class' = class
    PROVE  ActionInv'
<1>1. Group \in Actions /\ UNCHANGED <<class, round, current>>
  BY OneRun DEF StopGroup, Idle
<1>2. CASE StopBegin(c, Group)
  <2>1. /\ raised' = [raised EXCEPT ![Group] = TRUE] /\ tid' = tid
        /\ stopping' \in [Cancellers -> SUBSET {Group}]
    BY <1>2 DEF StopBegin, ActionInv, ActionTypes
  <2>2. at' = [at EXCEPT ![Group] = Wake(Group)]
    BY <1>2 DEF StopBegin
  <2>3. Wake(Group) \in [Runs -> Places] /\ Wake(Group)[1] \in {Place(Group), "stopped"}
        /\ (Wake(Group)[1] = Place(Group) \/ Place(Group) = "asleep")
    BY <1>1, Woken DEF ActionInv
  <2>4. /\ at' \in [Actions -> [Runs -> Places]] /\ Place(Group)' = Wake(Group)[1]
        /\ \A b \in Actions \ {Group} : Place(b)' = Place(b)
    BY <1>1, <2>2, <2>3 DEF ActionInv, ActionTypes, Place
  <2>5. GroupMoves
    BY <1>1, <2>3, <2>4 DEF GroupMoves, Gone
  <2> QED BY <2>1, <2>5, GroupMovesKeeps
<1>3. CASE StopEnd(c)
  <2>1. stopping[c] = {Group} /\ raised[Group]
    BY <1>3 DEF StopEnd, ActionInv, ActionTypes, StopsKnown
  <2>2. /\ raised' = raised /\ raised[Group] /\ tid' = [tid EXCEPT ![Group] = 0]
        /\ stopping' \in [Cancellers -> SUBSET {Group}]
    BY <1>1, <1>3, <2>1 DEF StopEnd, ActionInv, ActionTypes
  <2>3. at' = at
    BY <1>3 DEF StopEnd
  <2>4. GroupMoves
    BY <1>1, <2>3 DEF GroupMoves, ActionInv, ActionTypes, Gone, Place
  <2> QED BY <2>2, <2>4, GroupMovesKeeps
<1> QED BY <1>2, <1>3 DEF StopGroup

\* The group sleeps, wakes up or evaluates its condition.
LEMMA GroupRestsKeeps ==
    ASSUME MaxRuns = 1, ActionInv, GroupDelays(1) \/ GroupTimeOut(1) \/ EvaluateCondition(1), class' = class
    PROVE  ActionInv'
<1>1. PICK p \in Places \ {"gone", "cancelling"} : at' = [at EXCEPT ![Group][1] = p]
  BY DEF GroupDelays, GroupTimeOut, TimeOut, EvaluateCondition, Move, Sleep, Places
<1>2. ~Gone(Group) /\ UNCHANGED <<raised, tid, stopping, class, round, current>>
  BY DEF GroupDelays, GroupTimeOut, TimeOut, EvaluateCondition, Idle, Gone, Place
<1>3. /\ at' \in [Actions -> [Runs -> Places]] /\ Place(Group)' = p
      /\ \A b \in Actions \ {Group} : Place(b)' = Place(b)
  BY <1>1, OneRun, Moved DEF ActionInv
<1>4. GroupMoves
  BY <1>2, <1>3 DEF GroupMoves, Gone
<1> QED BY <1>2, <1>4, GroupMovesKeeps

\* A rule executes the group when all actions are over.
LEMMA ExecuteGroupKeeps ==
    ASSUME MaxRuns = 1, ~Overlap, ActionInv, ExecuteGroup, class' = class
    PROVE  ActionInv'
<1>1. /\ Group \in Actions /\ Subs \subseteq Actions /\ Group \notin Subs /\ Runs = {1}
      /\ UNCHANGED <<stopping, class, current>>
  BY OneRun DEF ExecuteGroup
<1>2. /\ \A a \in Actions : Gone(a)
      /\ \A c \in Cancellers : stopping[c] = {}
  BY <1>1 DEF ExecuteGroup, Resting, Live, Alive, Gone, Place, ActionInv, ActionTypes
<1>3. Free(Group) = 1
  BY <1>1, <1>2 DEF Free, Alive, Gone, Place
<1>4. /\ raised' = [a \in Actions |-> raised[a] /\ a # Group]
      /\ tid' = [a \in Actions |-> IF a = Group THEN 1 ELSE tid[a]]
      /\ at' = [a \in Actions |-> IF a = Group THEN [at[a] EXCEPT ![1] = "new"] ELSE at[a]]
      /\ round' = [round EXCEPT ![1] = 0]
  <2>1. Start({Group}, at)
    BY DEF ExecuteGroup
  <2>2. at' = [a \in Actions |-> IF a \in {Group} THEN [at[a] EXCEPT ![Free(Group)] = "new"] ELSE at[a]]
    BY <2>1 DEF Start
  <2>3. tid' = [a \in Actions |-> IF a \in {Group} THEN Free(Group) ELSE tid[a]]
    BY <2>1 DEF Start
  <2>4. raised' = [a \in Actions |-> raised[a] /\ a \notin {Group}]
    BY <2>1 DEF Start
  <2> QED BY <1>3, <2>2, <2>3, <2>4 DEF ExecuteGroup
<1>5. /\ at' \in [Actions -> [Runs -> Places]] /\ Place(Group)' = "new"
      /\ \A a \in Actions \ {Group} : Gone(a)'
  BY <1>1, <1>2, <1>4 DEF ActionInv, ActionTypes, Gone, Place, Places
<1>6. ActionTypes'
  BY <1>1, <1>4, <1>5 DEF ActionInv, ActionTypes
<1>7. Reached'
  BY <1>1, <1>4, <1>5 DEF Reached
<1>8. StopsKnown'
  BY <1>1, <1>2, <1>5 DEF StopsKnown, Gone
<1>9. Parented'
  BY <1>1, <1>5 DEF Parented, Gone
<1> QED BY <1>6, <1>7, <1>8, <1>9 DEF ActionInv
\* The group starts its sub-actions, none of which runs.
LEMMA StartRoundKeeps ==
    ASSUME MaxRuns = 1, ActionInv, ~Gone(Group), StartRound(1), class' = class
    PROVE  ActionInv'
<1>1. /\ Group \in Actions /\ Subs \subseteq Actions /\ Group \notin Subs /\ Runs = {1}
      /\ UNCHANGED <<stopping, class, current>>
  BY OneRun DEF StartRound
<1>. DEFINE places == [at EXCEPT ![Group][1] = Sleep(Group)]
<1>2. Start(Subs, places)
  BY DEF StartRound
<1>3. /\ places \in [Actions -> [Runs -> Places]] /\ places[Group][1] \in {"asleep", "stopped"}
      /\ \A b \in Actions \ {Group} : places[b] = at[b]
  BY <1>1 DEF ActionInv, ActionTypes, Sleep, Places
<1>. HIDE DEF places
<1>4. \A s \in Subs : Gone(s) /\ Free(s) = 1
  BY <1>1, <1>2 DEF Start, HasFree, Free, Alive, Gone, Place
<1>5. /\ raised' = [a \in Actions |-> raised[a] /\ a \notin Subs]
      /\ tid' = [a \in Actions |-> IF a \in Subs THEN 1 ELSE tid[a]]
      /\ at' = [a \in Actions |-> IF a \in Subs THEN [places[a] EXCEPT ![1] = "new"] ELSE places[a]]
  BY <1>2, <1>4 DEF Start
<1>6. /\ at' \in [Actions -> [Runs -> Places]] /\ Place(Group)' \in {"asleep", "stopped"}
      /\ \A s \in Subs : Place(s)' = "new"
      /\ \A b \in Actions \ (Subs \cup {Group}) : Place(b)' = Place(b)
  BY <1>1, <1>3, <1>5 DEF Place, Places
<1>7. round' = [round EXCEPT ![1] = round[1] + 1] /\ round[1] \in Nat
  BY <1>1 DEF StartRound, ActionInv, ActionTypes
<1>8. ActionTypes'
  <2>1. raised' \in [Actions -> BOOLEAN] /\ tid' \in [Actions -> {0, 1}]
    BY <1>5 DEF ActionInv, ActionTypes
  <2>2. round' \in [Runs -> Nat]
    BY <1>1, <1>7 DEF ActionInv, ActionTypes
  <2> QED BY <1>1, <1>6, <2>1, <2>2 DEF ActionInv, ActionTypes
<1>9. Reached'
  <2>1. ASSUME NEW b \in Actions, ~Gone(b)' PROVE tid'[b] # 0 \/ raised'[b]
    <3>1. CASE b \in Subs
      BY <1>5, <3>1
    <3>2. CASE b \notin Subs
      <4>1. ~Gone(b)
        BY <1>6, <2>1, <3>2 DEF Gone
      <4> QED BY <1>5, <3>2, <4>1 DEF ActionInv, Reached
    <3> QED BY <3>1, <3>2
  <2> QED BY <2>1 DEF Reached
<1>10. StopsKnown'
  BY <1>1, <1>5, <1>6 DEF ActionInv, StopsKnown
<1>11. Parented'
  <2>1. round'[1] # 0
    BY <1>1, <1>7 DEF ActionInv, ActionTypes
  <2> QED BY <1>6, <2>1 DEF Parented, Gone
<1> QED BY <1>8, <1>9, <1>10, <1>11 DEF ActionInv

\* The group ends when every sub-action is over or was told to stop.
LEMMA GroupEndsKeeps ==
    ASSUME MaxRuns = 1, ActionInv, NEW ids \in [Actions -> {0, 1}],
           \A b \in Actions \ Subs : ids[b] = tid[b],
           \A s \in Subs : Gone(s) \/ raised[s],
           Exit(1, ids, at),
           UNCHANGED <<raised, stopping, class>>, round' \in [Runs -> Nat]
    PROVE  ActionInv'
<1>1. /\ Group \in Actions /\ Subs \subseteq Actions /\ Group \notin Subs /\ Runs = {1}
      /\ Len(SubActions) \in Nat
  BY OneRun
<1>2. /\ at' \in [Actions -> [Runs -> Places]] /\ Place(Group)' = "gone"
      /\ \A b \in Actions \ {Group} : Place(b)' = Place(b)
  BY <1>1, Moved DEF ActionInv, Exit, Places
<1>3. tid' = [ids EXCEPT ![Group] = 0] /\ current' = [current EXCEPT ![1] = 0]
  BY DEF Exit
<1>4. ActionTypes'
  BY <1>1, <1>2, <1>3 DEF ActionInv, ActionTypes
<1>5. Reached'
  <2>1. ASSUME NEW b \in Actions, ~Gone(b)' PROVE tid'[b] # 0 \/ raised'[b]
    <3>1. b # Group /\ ~Gone(b)
      BY <1>2, <2>1 DEF Gone
    <3> QED BY <1>3, <3>1 DEF ActionInv, Reached
  <2> QED BY <2>1 DEF Reached
<1>6. StopsKnown'
  BY <1>1, <1>3 DEF ActionInv, StopsKnown
<1>7. Parented'
  BY <1>1, <1>2 DEF Parented, Gone
<1> QED BY <1>4, <1>5, <1>6, <1>7 DEF ActionInv

\* The group goes on with Thread::Stop behind the i-th sub-action.
LEMMA CancelFromKeeps ==
    ASSUME MaxRuns = 1, ActionInv, NEW i \in 0..Len(SubActions), NEW ids \in [Actions -> {0, 1}],
           \A b \in Actions \ Subs : ids[b] = tid[b],
           \A s \in Subs : ids[s] # 0 \/ Gone(s) \/ raised[s],
           \A h \in 1..i : Gone(SubActions[h]) \/ raised[SubActions[h]],
           ~Gone(Group), CancelFrom(1, i, ids),
           UNCHANGED <<stopping, class, round>>
    PROVE  ActionInv'
<1>1. /\ Group \in Actions /\ Subs \subseteq Actions /\ Group \notin Subs /\ Runs = {1}
      /\ Len(SubActions) \in Nat /\ \A h \in 1..Len(SubActions) : SubActions[h] \in Subs
  BY OneRun
<1>. DEFINE j == NextToStop(i, ids)
            todo == {h \in i + 1..Len(SubActions) : ids[SubActions[h]] # 0}
<1>2. \/ todo = {} /\ j = 0
      \/ j \in todo /\ \A h \in todo : j <= h
  <2>1. CASE todo = {}
    BY <2>1 DEF NextToStop
  <2>2. CASE todo # {}
    <3>1. todo \subseteq Nat
      BY <1>1
    <3>2. \E h \in todo : \A g \in todo : h <= g
      BY <2>2, <3>1, Least
    <3> QED BY <2>2, <3>2 DEF NextToStop
  <2> QED BY <2>1, <2>2
<1>3. CASE j = 0
  <2>1. Exit(1, ids, at) /\ raised' = raised
    BY <1>3 DEF CancelFrom
  <2>2. todo = {}
    BY <1>1, <1>2, <1>3
  <2>3. ASSUME NEW s \in Subs PROVE Gone(s) \/ raised[s]
    <3>1. PICK h \in 1..Len(SubActions) : s = SubActions[h]
      BY DEF Subs
    <3>2. CASE h <= i
      BY <3>1, <3>2
    <3>3. CASE ~(h <= i)
      <4>1. h \in i + 1..Len(SubActions)
        BY <1>1, <3>3
      <4>2. ids[s] = 0
        BY <2>2, <3>1, <4>1
      <4> QED BY <4>2
    <3> QED BY <3>2, <3>3
  <2>4. round' \in [Runs -> Nat] /\ UNCHANGED <<raised, stopping, class>>
    BY <2>1 DEF ActionInv, ActionTypes
  <2> QED BY <2>1, <2>3, <2>4, GroupEndsKeeps
<1>4. CASE j # 0
  <2>1. /\ raised' = [raised EXCEPT ![SubActions[j]] = TRUE]
        /\ at' = [at EXCEPT ![Group][1] = "cancelling", ![SubActions[j]] = Wake(SubActions[j])]
        /\ current' = [current EXCEPT ![1] = j]
        /\ tid' = ids
    BY <1>4 DEF CancelFrom
  <2>2. j \in i + 1..Len(SubActions) /\ \A h \in i + 1..Len(SubActions) : h < j => ids[SubActions[h]] = 0
    <3>1. j \in todo /\ \A h \in todo : j <= h
      BY <1>2, <1>4
    <3>2. ASSUME NEW h \in i + 1..Len(SubActions), h < j, ids[SubActions[h]] # 0 PROVE FALSE
      BY <1>1, <3>1, <3>2
    <3> QED BY <3>1, <3>2
  <2>. HIDE DEF j, todo
  <2>3. PICK t \in Subs : t = SubActions[j]
    BY <1>1, <2>2
  <2>4. /\ Wake(t) \in [Runs -> Places]
        /\ Wake(t)[1] = IF Place(t) = "asleep" THEN "stopped" ELSE Place(t)
    BY <1>1, <2>3, Woken DEF ActionInv
  <2>5. /\ at' \in [Actions -> [Runs -> Places]]
        /\ Place(Group)' = "cancelling" /\ Place(t)' = Wake(t)[1]
        /\ \A b \in Actions \ {Group, t} : Place(b)' = Place(b)
    BY <1>1, <2>1, <2>3, <2>4 DEF ActionInv, ActionTypes, Place, Places
  <2>6. \A b \in Actions : Gone(b)' <=> Gone(b)
    BY <1>1, <2>4, <2>5 DEF Gone
  <2>7. /\ raised' \in [Actions -> BOOLEAN] /\ \A b \in Actions : raised[b] => raised'[b]
        /\ raised'[t]
    BY <1>1, <2>1, <2>3 DEF ActionInv, ActionTypes
  <2>8. ActionTypes'
    <3>1. j \in 0..Len(SubActions)
      BY <1>1, <2>2
    <3>2. current' \in [Runs -> 0..Len(SubActions)]
      BY <1>1, <2>1, <3>1 DEF ActionInv, ActionTypes
    <3> QED BY <2>1, <2>5, <2>7, <3>2 DEF ActionInv, ActionTypes
  <2>9. Reached'
    <3>1. ASSUME NEW b \in Actions, ~Gone(b)' PROVE tid'[b] # 0 \/ raised'[b]
      <4>1. ~Gone(b)
        BY <2>6, <3>1
      <4>2. ids[b] # 0 \/ raised[b]
        BY <4>1 DEF ActionInv, Reached
      <4> QED BY <2>1, <2>7, <4>2
    <3> QED BY <3>1 DEF Reached
  <2>10. StopsKnown'
    <3>1. ASSUME NEW s \in Subs, Is(s, "cancel")', Place(s)' = "busy"
          PROVE  raised'[Group] \/ tid'[Group] = 0
      <4>1. Is(s, "cancel") /\ Place(s) = "busy"
        BY <1>1, <2>4, <2>5, <3>1 DEF Is
      <4>2. raised[Group] \/ tid[Group] = 0
        BY <4>1 DEF ActionInv, StopsKnown
      <4> QED BY <1>1, <2>1, <2>7, <4>2
    <3>2. \A c \in Cancellers : stopping'[c] # {} => raised'[Group]
      BY <1>1, <2>7 DEF ActionInv, StopsKnown
    <3> QED BY <3>1, <3>2 DEF StopsKnown
  <2>11. Parented'
    <3>1. ~Gone(Group)' /\ round'[1] = 0 => \A s \in Subs : Gone(s)'
      BY <1>1, <2>6 DEF ActionInv, Parented
    <3>2. current'[1] = j /\ j # 0
      BY <1>1, <1>4, <2>1 DEF ActionInv, ActionTypes
    <3>3. ASSUME NEW h \in 1..j PROVE Gone(SubActions[h])' \/ raised'[SubActions[h]]
      <4>1. h \in 1..Len(SubActions) /\ SubActions[h] \in Subs
        BY <1>1, <2>2
      <4>2. CASE h <= i
        <5>1. Gone(SubActions[h]) \/ raised[SubActions[h]]
          BY <4>2
        <5> QED BY <1>1, <2>6, <2>7, <4>1, <5>1
      <4>3. CASE h = j
        BY <2>3, <2>7, <4>3
      <4>4. CASE i < h /\ h < j
        <5>1. ids[SubActions[h]] = 0
          BY <1>1, <2>2, <4>4
        <5>2. Gone(SubActions[h]) \/ raised[SubActions[h]]
          BY <4>1, <5>1
        <5> QED BY <1>1, <2>6, <2>7, <4>1, <5>2
      <4> QED BY <1>1, <2>2, <4>2, <4>3, <4>4
    <3>4. ~Gone(Group)'
      BY <2>5 DEF Gone
    <3> QED BY <3>1, <3>2, <3>3, <3>4 DEF Parented
  <2> QED BY <2>8, <2>9, <2>10, <2>11 DEF ActionInv
<1> QED BY <1>3, <1>4

\* The group polls its sub-actions, and ends when it finds none with a thread.
LEMMA WaitKeeps ==
    ASSUME MaxRuns = 1, ActionInv, WaitForSubActions(1), class' = class
    PROVE  ActionInv'
<1>1. /\ Group \in Actions /\ Subs \subseteq Actions /\ Runs = {1} /\ Rounds \in Nat \ {0}
      /\ ~Gone(Group) /\ UNCHANGED <<raised, stopping, class>>
      /\ round' = [round EXCEPT ![1] = Rounds]
  BY OneRun DEF WaitForSubActions, Gone, Place
<1>2. round' \in [Runs -> Nat] /\ round'[1] # 0
  BY <1>1 DEF ActionInv, ActionTypes
<1>3. CASE AllFinished /\ Exit(1, tid, at)
  <2>1. \A s \in Subs : Gone(s) \/ raised[s]
    BY <1>1, <1>3 DEF AllFinished, ActionInv, Reached
  <2>2. tid \in [Actions -> {0, 1}]
    BY DEF ActionInv, ActionTypes
  <2> QED BY <1>1, <1>2, <1>3, <2>1, <2>2, GroupEndsKeeps
<1>4. CASE Move(Group, 1, Sleep(Group)) /\ UNCHANGED <<tid, current>>
  <2>1. Sleep(Group) \in {"asleep", "stopped"} /\ Sleep(Group) \in Places
    BY DEF Sleep, Places
  <2>2. /\ at' \in [Actions -> [Runs -> Places]] /\ Place(Group)' = Sleep(Group)
        /\ \A b \in Actions \ {Group} : Place(b)' = Place(b)
    BY <1>1, <1>4, <2>1, Moved DEF Move, ActionInv
  <2>3. \A b \in Actions : Gone(b)' <=> Gone(b)
    BY <1>1, <2>1, <2>2 DEF Gone
  <2>4. ActionTypes'
    BY <1>1, <1>2, <1>4, <2>2 DEF ActionInv, ActionTypes
  <2>5. Reached'
    BY <1>1, <1>4, <2>3 DEF ActionInv, Reached
  <2>6. StopsKnown'
    <3>1. \A s \in Subs : s \in Actions \ {Group}
      BY OneRun
    <3> QED BY <1>1, <1>4, <2>2, <3>1 DEF ActionInv, StopsKnown, Is
  <2>7. Parented'
    BY <1>1, <1>2, <2>1, <2>2, <2>3 DEF Parented
  <2> QED BY <2>4, <2>5, <2>6, <2>7 DEF ActionInv
<1> QED BY <1>3, <1>4 DEF WaitForSubActions

\* A group that is stopped turns to its sub-actions, or ends before the first
\* round.
LEMMA GroupStoppedKeeps ==
    ASSUME MaxRuns = 1, ActionInv, GroupStopped(1), class' = class
    PROVE  ActionInv'
<1>1. /\ ~Gone(Group) /\ UNCHANGED <<stopping, class, round>>
      /\ tid \in [Actions -> {0, 1}] /\ round' \in [Runs -> Nat]
      /\ Subs \subseteq Actions /\ Len(SubActions) \in Nat
  BY OneRun DEF GroupStopped, Gone, Place, ActionInv, ActionTypes
<1>2. CASE round[1] = 0
  <2>1. Exit(1, tid, at) /\ raised' = raised
    BY <1>2 DEF GroupStopped
  <2>2. \A s \in Subs : Gone(s) \/ raised[s]
    BY <1>1, <1>2 DEF ActionInv, Parented
  <2> QED BY <1>1, <2>1, <2>2, GroupEndsKeeps
<1>3. CASE round[1] # 0
  <2>1. CancelFrom(1, 0, tid)
    BY <1>3 DEF GroupStopped
  <2>2. \A s \in Subs : tid[s] # 0 \/ Gone(s) \/ raised[s]
    BY <1>1 DEF ActionInv, Reached
  <2>3. 0 \in 0..Len(SubActions) /\ \A h \in 1..0 : Gone(SubActions[h]) \/ raised[SubActions[h]]
    BY <1>1
  <2> QED BY <1>1, <2>1, <2>2, <2>3, CancelFromKeeps
<1> QED BY <1>2, <1>3

\* Thread::Stop on a sub-action returns, and forgets its thread.
LEMMA CancelNextKeeps ==
    ASSUME MaxRuns = 1, ActionInv, CancelNext(1), class' = class
    PROVE  ActionInv'
<1>1. /\ ~Gone(Group) /\ Place(Group) = "cancelling" /\ UNCHANGED <<stopping, class, round>>
      /\ tid \in [Actions -> {0, 1}] /\ current[1] \in 0..Len(SubActions) /\ current[1] # 0
      /\ Subs \subseteq Actions /\ Len(SubActions) \in Nat
      /\ \A i \in 1..Len(SubActions) : SubActions[i] \in Subs
  BY OneRun DEF CancelNext, Gone, Place, ActionInv, ActionTypes, Parented
<1>2. PICK t \in Subs : t = SubActions[current[1]]
  BY <1>1
<1>3. PICK ids : ids = [tid EXCEPT ![t] = 0]
  OBVIOUS
<1>4. CancelFrom(1, current[1], ids)
  BY <1>2, <1>3 DEF CancelNext
<1>5. ids \in [Actions -> {0, 1}] /\ \A b \in Actions : b # t => ids[b] = tid[b]
  BY <1>1, <1>3
<1>6. \A h \in 1..current[1] : Gone(SubActions[h]) \/ raised[SubActions[h]]
  BY <1>1 DEF ActionInv, Parented
<1>7. Gone(t) \/ raised[t]
  BY <1>1, <1>2, <1>6
<1>8. \A s \in Subs : ids[s] # 0 \/ Gone(s) \/ raised[s]
  BY <1>1, <1>5, <1>7 DEF ActionInv, Reached
<1>9. \A b \in Actions \ Subs : ids[b] = tid[b]
  BY <1>5
<1> QED BY <1>1, <1>4, <1>5, <1>6, <1>8, <1>9, CancelFromKeeps

\* Every step of the group keeps the invariant.
LEMMA GroupStepKeeps ==
    ASSUME MaxRuns = 1, ~Overlap, ActionInv, GroupStep
    PROVE  ActionInv'
<1>1. class' = class
  BY DEF GroupStep, OwnStep, KeepConfig
<1>2. CASE ExecuteGroup
  BY <1>1, <1>2, ExecuteGroupKeeps
<1>3. ASSUME NEW c \in Cancellers, StopGroup(c) PROVE ActionInv'
  BY <1>1, <1>3, StopGroupKeeps
<1>4. CASE GroupRun(1)
  <2>1. CASE Repeat(1) \/ ConditionTrue(1)
    <3>1. ~Gone(Group) /\ StartRound(1)
      BY <2>1 DEF Repeat, ConditionTrue, Gone, Place
    <3> QED BY <1>1, <3>1, StartRoundKeeps
  <2> QED BY <1>1, <1>4, <2>1, GroupRestsKeeps, WaitKeeps, GroupStoppedKeeps, CancelNextKeeps
          DEF GroupRun
<1>5. \A k \in Runs : k = 1
  BY OneRun
<1> QED BY <1>2, <1>3, <1>4, <1>5 DEF GroupStep, OwnStep

\* Steps that concern neither threads nor the group.
LEMMA ActionInvStutters ==
    ASSUME MaxRuns = 1, ActionInv, UNCHANGED <<groupVars, class>>
    PROVE  ActionInv'
BY DEF groupVars, ActionInv, ActionTypes, Reached, StopsKnown, Parented, Gone, Place, Is

\* Every step of a sub-action keeps the invariant.
LEMMA SubStepKeeps ==
    ASSUME MaxRuns = 1, ActionInv, NEW s \in Subs, SubStep(s)
    PROVE  ActionInv'
<1>1. CASE CancelsRule(s) \/ CancelReturns(s)
  BY <1>1, CancelsRuleKeeps, CancelReturnsKeeps
<1>2. CASE Delays(s) \/ Stopped(s) \/ Sleeping(s) \/ Proceeds(s) \/ DimAborts(s) \/ CycleEnds(s)
  <2>1. \E p \in Places : SubMoves(s, p)
    BY <1>2
    DEF Delays, Stopped, Sleeping, Proceeds, DimAborts, CycleEnds, SubMoves, RunSleeps, RunExits,
        TimeOut, Move, Sleep, Idle, KeepConfig, Gone, Place, Places
  <2> QED BY <2>1, SubMovesKeeps
<1>3. CASE \/ DimWrites(s) \/ CycleSwitches(s) \/ SetsValue(s) \/ CopiesValue(s)
           \/ TogglesValue(s) \/ Calculates(s) \/ SetsString(s) \/ SendsSms(s)
           \/ SendsEmail(s) \/ RunsShellCommand(s)
  <2>1. RunWorks(s, 1) /\ Idle /\ KeepConfig
    BY <1>3
    DEF DimWrites, CycleSwitches, SetsValue, CopiesValue, TogglesValue, Calculates, SetsString,
        SendsSms, SendsEmail, RunsShellCommand, DoesOnce
  <2>2. ~Is(s, "cancel")
    BY <1>3
    DEF DimWrites, CycleSwitches, SetsValue, CopiesValue, TogglesValue, Calculates, SetsString,
        SendsSms, SendsEmail, RunsShellCommand, DoesOnce, Is
  <2>3. SubMoves(s, "busy") /\ "busy" \in Places
    BY <2>1, <2>2 DEF RunWorks, Move, Idle, KeepConfig, SubMoves, Gone, Place, Places
  <2> QED BY <2>3, SubMovesKeeps
<1>4. CASE Crashes(s)
  <2>1. UNCHANGED <<groupVars, class>>
    BY <1>4 DEF Crashes, KeepConfig
  <2> QED BY <2>1, ActionInvStutters
<1> QED BY <1>1, <1>2, <1>3, <1>4 DEF SubStep

\* The invariant holds throughout, when the runs of an action do not overlap.
LEMMA ActionInvEver ==
    ASSUME MaxRuns = 1, ~Overlap
    PROVE  ActionsSpec => []ActionInv
<1>1. ActionInv /\ [ActionsNext]_actionVars => ActionInv'
  <2> SUFFICES ASSUME ActionInv, [ActionsNext]_actionVars PROVE ActionInv'
    OBVIOUS
  <2>1. CASE GroupStep
    BY <2>1, GroupStepKeeps
  <2>2. ASSUME NEW s \in Subs, SubStep(s) PROVE ActionInv'
    BY <2>2, SubStepKeeps
  <2>3. CASE Outside \/ \E w \in Subs \cup {Someone} : Listening(w)
    <3>1. UNCHANGED <<groupVars, class>>
      BY <2>3 DEF Outside, ChangeLevel, Listening, CycleOnChange, KeepConfig
    <3> QED BY <3>1, ActionInvStutters
  <2>4. CASE UNCHANGED actionVars
    BY <2>4, ActionInvStutters DEF actionVars, ownVars
  <2> QED BY <2>1, <2>2, <2>3, <2>4 DEF ActionsNext
<1> QED BY <1>1, ActionInit, PTL DEF ActionsSpec

\* As long as a sub-action runs that was not told to stop, the group runs and
\* can pass a cancellation on to it (RepeatListAction, ConditionalAction).
THEOREM GroupOutlivesSubActionsEver ==
    ASSUME MaxRuns = 1, ~Overlap
    PROVE  ActionsSpec => []GroupOutlivesSubActions
<1>1. ActionInv => GroupOutlivesSubActions
  BY OneRun DEF ActionInv, Parented, GroupOutlivesSubActions, Live, Alive, Gone, Place
<1> QED BY <1>1, ActionInvEver, PTL
-----------------------------------------------------------------------------
\* The last value and a step fit an unsigned int: DimUpAction::Run tests for
\* it on the way down only.
StepsFit ==
    \A d \in Dims :
        d.stop > d.start /\ d.duration # 0
            => d.stop + ((d.stop - d.start) * 500) \div d.duration + 1 <= UIntSize

\* A dim-up action on its way is between its start and its stop value, and its
\* last value is the level as long as nobody else has set it.
DimInv(s) ==
    /\ pos[s] = Done => Place(s) = "busy"
    /\ pos[s] \notin {0, Done} =>
          /\ pos[s] - 1 \in 0..UIntSize - 1
          /\ InLoop(pos[s] - 1)
          /\ IF Up THEN pos[s] - 1 >= dim.start ELSE pos[s] - 1 <= dim.start
    /\ OthersKeepLevel(s) /\ changes = 0 /\ pos[s] # 0
          => level = IF pos[s] = Done THEN dim.stop ELSE pos[s] - 1

\* Only a live run has a position; a cycle that was halted is not running.
LoopInv ==
    /\ dim \in Dims /\ level \in Nat /\ changes \in Nat /\ pos \in [Subs -> Nat]
    /\ halted => ~running
    /\ \A s \in Subs : Gone(s) => pos[s] = 0
    /\ \A s \in Subs : Is(s, "dim-up") => DimInv(s)

\* The group ends no run of a sub-action, and leaves a busy one alone.
LEMMA GroupStepSubs ==
    ASSUME MaxRuns = 1, ActionInv, GroupStep, NEW s \in Subs
    PROVE  /\ Gone(s)' => Gone(s)
           /\ Place(s) = "busy" => Place(s)' = "busy"
<1>1. s \in Actions /\ s # Group /\ Group \in Actions /\ Runs = {1}
  BY OneRun
<1>2. ASSUME NEW p, at' = [at EXCEPT ![Group] = p] \/ at' = [at EXCEPT ![Group][1] = p]
      PROVE  Place(s)' = Place(s)
  BY <1>1, <1>2 DEF ActionInv, ActionTypes, Place
<1>3. CASE ExecuteGroup
  <2>1. Start({Group}, at)
    BY <1>3 DEF ExecuteGroup
  <2>2. Place(s)' = Place(s)
    BY <1>1, <2>1 DEF Start, Place
  <2> QED BY <2>2 DEF Gone
<1>4. ASSUME NEW c \in Cancellers, StopGroup(c)
      PROVE  Place(s)' = Place(s)
  BY <1>2, <1>4 DEF StopGroup, StopBegin, StopEnd, Place
<1>5. CASE GroupDelays(1) \/ GroupTimeOut(1) \/ EvaluateCondition(1)
  BY <1>2, <1>5 DEF GroupDelays, GroupTimeOut, TimeOut, EvaluateCondition, Move, Gone
<1>6. CASE StartRound(1)
  <2>. DEFINE places == [at EXCEPT ![Group][1] = Sleep(Group)]
  <2>1. Start(Subs, places)
    BY <1>6 DEF StartRound
  <2>2. Gone(s) /\ Free(s) = 1
    BY <1>1, <2>1 DEF Start, HasFree, Free, Alive, Gone, Place
  <2> QED BY <2>2 DEF Gone
<1>7. ASSUME NEW ids, Exit(1, ids, at)
      PROVE  Place(s)' = Place(s)
  BY <1>2, <1>7 DEF Exit
<1>8. CASE WaitForSubActions(1)
  BY <1>2, <1>7, <1>8 DEF WaitForSubActions, Move, Gone
<1>9. ASSUME NEW i, NEW ids, CancelFrom(1, i, ids)
      PROVE  /\ Gone(s)' => Gone(s)
             /\ Place(s) = "busy" => Place(s)' = "busy"
  <2>. DEFINE j == NextToStop(i, ids)
  <2>1. CASE j = 0
    BY <1>7, <1>9, <2>1 DEF CancelFrom, Gone
  <2>2. CASE j # 0
    <3>1. at' = [at EXCEPT ![Group][1] = "cancelling", ![SubActions[j]] = Wake(SubActions[j])]
      BY <1>9, <2>2 DEF CancelFrom
    <3>2. Place(s)' = IF s = SubActions[j] THEN Wake(s)[1] ELSE Place(s)
      BY <1>1, <3>1 DEF ActionInv, ActionTypes, Place
    <3>3. Wake(s)[1] = IF Place(s) = "asleep" THEN "stopped" ELSE Place(s)
      BY <1>1, Woken DEF ActionInv
    <3> QED BY <3>2, <3>3 DEF Gone
  <2> QED BY <2>1, <2>2
<1>10. CASE GroupStopped(1)
  BY <1>7, <1>9, <1>10 DEF GroupStopped, Gone
<1>11. CASE CancelNext(1)
  BY <1>9, <1>11 DEF CancelNext
<1>12. \A k \in Runs : k = 1
  BY <1>1
<1> QED
  BY <1>3, <1>4, <1>5, <1>6, <1>8, <1>10, <1>11, <1>12
  DEF GroupStep, OwnStep, GroupRun, Repeat, ConditionTrue, Gone
\* What a dim-up action has is untouched by steps of others that leave the
\* level alone, and by steps of its own that neither end it nor write.
LEMMA DimKept ==
    ASSUME NEW t \in Subs, DimInv(t), UNCHANGED <<class, dim>>,
           pos'[t] = pos[t],
           Place(t) = "busy" /\ pos[t] = Done => Place(t)' = "busy",
           OthersKeepLevel(t) /\ changes' = 0 => level' = level /\ changes = 0
    PROVE  DimInv(t)'
<1>1. /\ OthersKeepLevel(t)' <=> OthersKeepLevel(t)
      /\ Done' = Done /\ dim' = dim /\ pos'[t] = pos[t]
  BY DEF OthersKeepLevel, Done
<1>2. pos'[t] = Done => Place(t)' = "busy"
  BY DEF DimInv
<1>3. InLoop(pos[t] - 1)' <=> InLoop(pos[t] - 1)
  BY DEF InLoop, Up
<1>4. Up' <=> Up
  BY DEF Up
<1>5. OthersKeepLevel(t)' /\ changes' = 0 /\ pos'[t] # 0
          => level' = IF pos'[t] = Done THEN dim'.stop ELSE pos'[t] - 1
  BY <1>1 DEF DimInv
<1> QED BY <1>1, <1>2, <1>3, <1>4, <1>5 DEF DimInv

\* The classes of actions that write the level.
Writers == {"dim-up", "set-value", "copy-value", "formula", "set-string"}

\* A step of one sub-action touches the record of no other.
LEMMA SubStepFrame ==
    ASSUME MaxRuns = 1, ActionInv, LoopInv, NEW s \in Subs, SubStep(s)
    PROVE  /\ UNCHANGED <<class, dim, changes>>
           /\ \A t \in Subs \ {s} : Place(t)' = Place(t)
           /\ \A t \in Subs \ {s} : pos'[t] = pos[t]
           /\ level' # level => class[s] \in Writers
<1>1. UNCHANGED <<class, dim, changes>>
  BY DEF SubStep, Delays, Stopped, Sleeping, Proceeds, DimWrites, DimAborts, CycleSwitches,
         CycleEnds, SetsValue, CopiesValue, TogglesValue, Calculates, SetsString, SendsSms,
         SendsEmail, RunsShellCommand, CancelsRule, CancelReturns, Crashes, DoesOnce, KeepConfig
<1>2. \A t \in Subs \ {s} : pos'[t] = pos[t]
  <2>1. \/ pos' = pos
        \/ \E v : pos' = [pos EXCEPT ![s] = v]
    BY DEF SubStep, Delays, Stopped, Sleeping, Proceeds, DimWrites, DimAborts, CycleSwitches,
           CycleEnds, SetsValue, CopiesValue, TogglesValue, Calculates, SetsString, SendsSms,
           SendsEmail, RunsShellCommand, CancelsRule, CancelReturns, Crashes, DoesOnce, Over
  <2> QED BY <2>1 DEF LoopInv
<1>3. level' # level => class[s] \in Writers
  BY DEF SubStep, Delays, Stopped, Sleeping, Proceeds, DimWrites, DimAborts, CycleSwitches,
         CycleEnds, SetsValue, CopiesValue, TogglesValue, Calculates, SetsString, SendsSms,
         SendsEmail, RunsShellCommand, CancelsRule, CancelReturns, Crashes, DoesOnce, KeepLevel,
         Is, Writers
<1>4. \A t \in Subs \ {s} : Place(t)' = Place(t)
  <2>1. \/ at' = at
        \/ \E p : at' = [at EXCEPT ![s][1] = p]
        \/ \E p, q : at' = [at EXCEPT ![s][1] = p, ![Group] = q]
    BY DEF SubStep, Delays, Stopped, Sleeping, Proceeds, DimWrites, DimAborts, CycleSwitches,
           CycleEnds, SetsValue, CopiesValue, TogglesValue, Calculates, SetsString, SendsSms,
           SendsEmail, RunsShellCommand, CancelsRule, CancelReturns, Crashes, DoesOnce, groupVars,
           RunSleeps, RunExits, RunWorks, TimeOut, Move
  <2> QED BY <2>1, OneRun DEF ActionInv, ActionTypes, Place
<1> QED BY <1>1, <1>2, <1>3, <1>4

\* It is enough to look at the one that took the step.
LEMMA LoopOne ==
    ASSUME MaxRuns = 1, ActionInv, LoopInv, NEW s \in Subs, SubStep(s),
           pos' \in [Subs -> Nat], level' \in Nat, halted' => ~running',
           Gone(s)' => pos'[s] = 0, Is(s, "dim-up") => DimInv(s)'
    PROVE  LoopInv'
<1>1. /\ UNCHANGED <<class, dim, changes>>
      /\ \A t \in Subs \ {s} : Place(t)' = Place(t)
      /\ \A t \in Subs \ {s} : pos'[t] = pos[t]
      /\ level' # level => class[s] \in Writers
  BY SubStepFrame
<1>2. \A t \in Subs : Gone(t)' => pos'[t] = 0
  BY <1>1 DEF LoopInv, Gone
<1>3. ASSUME NEW t \in Subs, Is(t, "dim-up")' PROVE DimInv(t)'
  <2>1. Is(t, "dim-up")
    BY <1>1, <1>3 DEF Is
  <2>2. CASE t = s
    BY <2>1, <2>2
  <2>3. CASE t # s
    <3>1. OthersKeepLevel(t) => level' = level
      BY <1>1, <2>3 DEF OthersKeepLevel, Writers
    <3>2. DimInv(t)
      BY <2>1 DEF LoopInv
    <3> QED BY <1>1, <2>3, <3>1, <3>2, DimKept
  <2> QED BY <2>2, <2>3
<1>4. dim' \in Dims /\ changes' \in Nat
  BY <1>1 DEF LoopInv
<1> QED BY <1>2, <1>3, <1>4 DEF LoopInv
\* The numbers of the model.
LEMMA Numbers ==
    /\ UIntSize \in Nat /\ Done \in Nat \ {0} /\ \A v \in Levels : v \in 0..UIntSize - 1
    /\ \A v \in Foreign : v \in Nat
    /\ \A d \in Dims : d.start \in 0..UIntSize - 1 /\ d.stop \in 0..UIntSize - 1 /\ d.duration \in Nat
<1>1. UIntSize \in Nat /\ Done \in Nat \ {0} /\ \A v \in Levels : v \in 0..UIntSize - 1
  BY ActionsConstants DEF Done
<1>2. \A d \in Dims : d.start \in Levels /\ d.stop \in Levels /\ d.duration \in Nat
  BY ActionsConstants
<1>3. \A v \in Foreign : v \in Levels
  BY ActionsConstants
<1> QED BY <1>1, <1>2, <1>3

\* A run that ends leaves no record.
LEMMA LoopEnds ==
    ASSUME MaxRuns = 1, ActionInv, LoopInv, NEW s \in Subs, SubStep(s),
           Over(s), level' = level, running' => running
    PROVE  LoopInv'
<1>1. pos' \in [Subs -> Nat] /\ pos'[s] = 0 /\ (halted' => halted)
  BY DEF Over, LoopInv
<1>2. DimInv(s)'
  BY <1>1, Numbers DEF DimInv, Done
<1> QED BY <1>1, <1>2, LoopOne DEF LoopInv

\* A run that goes to sleep or wakes up keeps its record.
LEMMA LoopRests ==
    ASSUME MaxRuns = 1, ActionInv, LoopInv, NEW s \in Subs, SubStep(s),
           UNCHANGED <<pos, level>>, halted' => ~running',
           ~Gone(s)' /\ (Place(s) # "busy" \/ pos[s] # Done \/ at' = at)
    PROVE  LoopInv'
<1>1. UNCHANGED <<class, dim, changes>>
  BY SubStepFrame
<1>2. Place(s) = "busy" /\ pos[s] = Done => Place(s)' = "busy"
  BY DEF Place
<1>3. Is(s, "dim-up") => DimInv(s)'
  BY <1>1, <1>2, DimKept DEF LoopInv
<1> QED BY <1>3, LoopOne DEF LoopInv

\* The values of a dim-up action stay between start and stop.
LEMMA NextBetween ==
    ASSUME StepsFit, dim \in Dims, ~Indivisible, NEW i \in 0..UIntSize - 1, InLoop(i),
           IF Up THEN i >= dim.start ELSE i <= dim.start
    PROVE  /\ NextIndex(i) \in 0..UIntSize - 1
           /\ IF Up THEN NextIndex(i) >= dim.start ELSE NextIndex(i) <= dim.start
<1>1. /\ dim.start \in 0..UIntSize - 1 /\ dim.stop \in 0..UIntSize - 1
      /\ dim.duration \in Nat \ {0} /\ UIntSize \in Nat
  BY Numbers DEF Indivisible
<1>2. \A a, b \in Nat : b # 0 => (a * 500) \div b \in Nat
  OBVIOUS
<1>3. CASE Up
  <2>1. dim.stop > dim.start /\ i < dim.stop /\ i >= dim.start
    BY <1>3 DEF Up, InLoop
  <2>2. PICK q : q = ((dim.stop - dim.start) * 500) \div dim.duration
    OBVIOUS
  <2>3. q \in Nat
    <3>1. dim.stop - dim.start \in Nat
      BY <1>1, <2>1
    <3> QED BY <1>1, <1>2, <2>2, <3>1
  <2>4. Increment = q + 1
    BY <1>3, <2>2 DEF Increment, Way
  <2>5. dim.stop + q + 1 <= UIntSize
    BY <1>1, <2>1, <2>2 DEF StepsFit
  <2>6. i + (q + 1) \in 0..UIntSize - 1
    BY <1>1, <2>1, <2>3, <2>5
  <2>7. NextIndex(i) = i + (q + 1)
    <3>1. \A n \in 0..UIntSize - 1 : n % UIntSize = n
      BY <1>1
    <3> QED BY <1>3, <2>4, <2>6, <3>1 DEF NextIndex
  <2> QED BY <1>1, <1>3, <2>1, <2>3, <2>6, <2>7
<1>4. CASE ~Up
  <2>1. dim.stop <= dim.start /\ i > dim.stop /\ i <= dim.start
    BY <1>1, <1>4 DEF Up, InLoop
  <2>2. PICK q : q = ((dim.start - dim.stop) * 500) \div dim.duration
    OBVIOUS
  <2>3. q \in Nat
    <3>1. dim.start - dim.stop \in Nat
      BY <1>1, <2>1
    <3> QED BY <1>1, <1>2, <2>2, <3>1
  <2>4. Increment = q + 1
    BY <1>4, <2>2 DEF Increment, Way
  <2>5. NextIndex(i) = IF i < q + 1 THEN dim.stop ELSE i - (q + 1)
    BY <1>4, <2>4 DEF NextIndex
  <2>6. NextIndex(i) \in 0..UIntSize - 1 /\ NextIndex(i) <= dim.start
    <3>1. CASE i < q + 1
      BY <1>1, <2>1, <2>5, <3>1
    <3>2. CASE ~(i < q + 1)
      <4>1. i - (q + 1) \in 0..UIntSize - 1 /\ i - (q + 1) <= dim.start
        BY <1>1, <2>1, <2>3, <3>2
      <4> QED BY <2>5, <3>2, <4>1
    <3> QED BY <3>1, <3>2
  <2> QED BY <1>4, <2>6
<1> QED BY <1>3, <1>4

\* A dim-up action sends its next value, or the stop value.
LEMMA LoopDims ==
    ASSUME MaxRuns = 1, StepsFit, ActionInv, LoopInv, NEW s \in Subs, SubStep(s), DimWrites(s)
    PROVE  LoopInv'
<1>1. /\ Is(s, "dim-up") /\ Working(s) /\ ~Indivisible /\ DimInv(s) /\ dim \in Dims
      /\ pos[s] \in Nat /\ UIntSize \in Nat
      /\ dim.start \in 0..UIntSize - 1 /\ dim.stop \in 0..UIntSize - 1
  BY Numbers DEF DimWrites, LoopInv
<1>2. pos[s] # Done
  BY <1>1 DEF DimInv, Working, Place
<1>. DEFINE i == DimIndex(s)
<1>3. i \in 0..UIntSize - 1 /\ IF Up THEN i >= dim.start ELSE i <= dim.start
  <2>1. CASE pos[s] = 0
    <3>1. i = dim.start
      BY <2>1 DEF DimIndex
    <3> QED BY <1>1, <3>1
  <2>2. CASE pos[s] # 0
    <3>1. i = NextIndex(pos[s] - 1)
      BY <2>2 DEF DimIndex
    <3>2. /\ pos[s] - 1 \in 0..UIntSize - 1 /\ InLoop(pos[s] - 1)
          /\ IF Up THEN pos[s] - 1 >= dim.start ELSE pos[s] - 1 <= dim.start
      BY <1>1, <1>2, <2>2 DEF DimInv
    <3>3. PICK n \in 0..UIntSize - 1 : n = pos[s] - 1
      BY <3>2
    <3> QED BY <1>1, <3>1, <3>2, <3>3, NextBetween
  <2> QED BY <2>1, <2>2
<1>4. /\ Place(s)' = "busy" /\ ~Gone(s)'
      /\ halted' = halted /\ running' = running /\ UNCHANGED <<class, dim, changes>>
  BY <1>1, OneRun
  DEF DimWrites, RunWorks, Move, KeepCycle, KeepConfig, Place, Gone, ActionInv, ActionTypes
<1>5. \/ InLoop(i) /\ level' = i /\ pos' = [pos EXCEPT ![s] = i + 1]
      \/ level' = dim.stop /\ pos' = [pos EXCEPT ![s] = Done]
  BY DEF DimWrites, SetLevel
<1>. HIDE DEF i
<1>6. pos' \in [Subs -> Nat] /\ level' \in Nat
  BY <1>1, <1>3, <1>5, Numbers DEF LoopInv
<1>7. DimInv(s)'
  <2>1. CASE InLoop(i) /\ level' = i /\ pos' = [pos EXCEPT ![s] = i + 1]
    <3>1. pos'[s] = i + 1 /\ pos'[s] - 1 = i /\ pos'[s] # Done /\ pos'[s] # 0 /\ level' = i
      BY <1>1, <1>3, <2>1 DEF LoopInv, Done
    <3>2. (InLoop(pos[s] - 1))'
      BY <1>4, <2>1, <3>1 DEF InLoop, Up
    <3>3. (IF Up THEN pos[s] - 1 >= dim.start ELSE pos[s] - 1 <= dim.start)'
      BY <1>3, <1>4, <3>1 DEF Up
    <3>4. Done' = Done
      BY DEF Done
    <3> QED BY <1>3, <3>1, <3>2, <3>3, <3>4 DEF DimInv
  <2>2. CASE level' = dim.stop /\ pos' = [pos EXCEPT ![s] = Done]
    <3>1. pos'[s] = Done /\ level' = dim'.stop /\ Done' = Done
      BY <1>4, <2>2 DEF LoopInv, Done
    <3> QED BY <1>4, <3>1 DEF DimInv
  <2> QED BY <1>5, <2>1, <2>2
<1> QED BY <1>4, <1>6, <1>7, LoopOne DEF LoopInv

\* Every step of a sub-action keeps the records.
LEMMA LoopSubStep ==
    ASSUME MaxRuns = 1, StepsFit, ActionInv, LoopInv, NEW s \in Subs, SubStep(s)
    PROVE  LoopInv'
<1>1. s \in Actions /\ s # Group /\ 1 \in Runs /\ at \in [Actions -> [Runs -> Places]]
  BY OneRun DEF ActionInv, ActionTypes
<1>2. CASE Stopped(s) \/ DimAborts(s) \/ CycleEnds(s) \/ CancelReturns(s)
  <2>1. Over(s) /\ level' = level /\ (running' => running)
    BY <1>2 DEF Stopped, DimAborts, CycleEnds, CancelReturns, KeepLevel
  <2> QED BY <2>1, LoopEnds
<1>3. CASE Proceeds(s)
  <2>1. CASE Over(s)
    BY <1>3, <2>1, LoopEnds DEF Proceeds, KeepLevel
  <2>2. CASE pos[s] # Done /\ RunSleeps(s, 1) /\ UNCHANGED <<pos, halted>>
    <3>1. UNCHANGED <<pos, level>> /\ (halted' => ~running')
      BY <1>3, <2>2 DEF Proceeds, KeepLevel, LoopInv
    <3>2. ~Gone(s)'
      BY <1>1, <2>2 DEF RunSleeps, Move, Sleep, Gone, Place
    <3> QED BY <2>2, <3>1, <3>2, LoopRests
  <2> QED BY <1>3, <2>1, <2>2 DEF Proceeds
<1>4. CASE Delays(s)
  <2>1. UNCHANGED <<pos, level>> /\ (halted' => ~running') /\ Place(s) = "new"
    BY <1>4 DEF Delays, KeepLevel, KeepCycle, LoopInv, Place
  <2>2. ~Gone(s)'
    BY <1>1, <1>4 DEF Delays, RunSleeps, Move, Sleep, Gone, Place
  <2> QED BY <2>1, <2>2, LoopRests
<1>5. CASE Sleeping(s)
  <2>1. UNCHANGED <<pos, level>> /\ (halted' => ~running') /\ Place(s) = "asleep"
    BY <1>5 DEF Sleeping, TimeOut, KeepLevel, KeepCycle, LoopInv, Place
  <2>2. ~Gone(s)'
    BY <1>1, <1>5 DEF Sleeping, TimeOut, Move, Gone, Place
  <2> QED BY <2>1, <2>2, LoopRests
<1>6. CASE Crashes(s)
  <2>1. UNCHANGED <<pos, level, at>> /\ (halted' => ~running') /\ ~Gone(s)'
    BY <1>6 DEF Crashes, KeepLevel, KeepCycle, LoopInv, groupVars, Working, Gone, Place
  <2> QED BY <2>1, LoopRests
<1>7. CASE CycleSwitches(s)
  <2>1. ~Is(s, "dim-up") /\ level' = level
    BY <1>7 DEF CycleSwitches, Is, KeepLevel
  <2>2. pos' \in [Subs -> Nat]
    BY <1>7 DEF CycleSwitches, LoopInv
  <2>3. halted' => ~running'
    BY <1>7 DEF CycleSwitches, LoopInv
  <2>4. ~Gone(s)'
    BY <1>1, <1>7 DEF CycleSwitches, RunWorks, Move, Gone, Place
  <2> QED BY <2>1, <2>2, <2>3, <2>4, LoopOne DEF LoopInv
<1>8. ASSUME NEW c, DoesOnce(s, c), c # "dim-up", level' \in Nat, ~Gone(s)'
      PROVE  LoopInv'
  <2>1. ~Is(s, "dim-up") /\ (halted' => ~running')
    BY <1>8 DEF DoesOnce, Is, KeepCycle, LoopInv
  <2>2. pos' \in [Subs -> Nat]
    BY <1>8, Numbers DEF DoesOnce, LoopInv
  <2> QED BY <1>8, <2>1, <2>2, LoopOne
<1>9. CASE \/ SetsValue(s) \/ CopiesValue(s) \/ TogglesValue(s) \/ Calculates(s)
           \/ SetsString(s) \/ SendsSms(s) \/ SendsEmail(s) \/ RunsShellCommand(s)
  <2>1. PICK c \in Once : DoesOnce(s, c) /\ RunWorks(s, 1)
    BY <1>9 DEF SetsValue, CopiesValue, TogglesValue, Calculates, SetsString, SendsSms,
                SendsEmail, RunsShellCommand, Once
  <2>2. level' \in Nat
    BY <1>9, Numbers DEF SetsValue, CopiesValue, TogglesValue, Calculates, SetsString, SendsSms,
                SendsEmail, RunsShellCommand, SetLevel, KeepLevel, LoopInv
  <2>3. ~Gone(s)'
    BY <1>1, <2>1 DEF RunWorks, Move, Gone, Place
  <2>4. c # "dim-up"
    BY DEF Once
  <2> QED BY <1>8, <2>1, <2>2, <2>3, <2>4
<1>10. CASE CancelsRule(s)
  <2>1. DoesOnce(s, "cancel") /\ level' \in Nat
    BY <1>10 DEF CancelsRule, KeepLevel, LoopInv
  <2>2. ~Gone(s)'
    BY <1>1, <1>10 DEF CancelsRule, Move, Gone, Place
  <2> QED BY <1>8, <2>1, <2>2
<1> QED
  BY <1>2, <1>3, <1>4, <1>5, <1>6, <1>7, <1>9, <1>10, LoopDims DEF SubStep
\* Steps that leave the records of the sub-actions alone.
LEMMA LoopAround ==
    ASSUME LoopInv, UNCHANGED <<class, dim, pos>>, level' \in Nat, changes' \in Nat,
           (level' = level /\ changes' = changes) \/ changes' # 0,
           halted' => ~running',
           \A s \in Subs : (Gone(s)' => Gone(s)) /\ (Place(s) = "busy" => Place(s)' = "busy")
    PROVE  LoopInv'
<1>1. ASSUME NEW s \in Subs, Is(s, "dim-up")' PROVE DimInv(s)'
  <2>1. DimInv(s)
    BY <1>1 DEF LoopInv, Is
  <2> QED BY <2>1, DimKept
<1> QED BY <1>1 DEF LoopInv

\* The records hold throughout.
LEMMA LoopInvEver ==
    ASSUME MaxRuns = 1, ~Overlap, StepsFit
    PROVE  ActionsSpec => []LoopInv
<1>1. ActionsInit => LoopInv
  <2> SUFFICES ASSUME ActionsInit PROVE LoopInv
    OBVIOUS
  <2>1. dim \in Dims /\ changes = 0 /\ pos = [s \in Subs |-> 0] /\ ~halted
    BY DEF ActionsInit
  <2>2. level \in Nat
    <3>1. Levels \in SUBSET Nat /\ dim.start \in Levels
      BY <2>1, ActionsConstants
    <3>2. \E v \in Levels : \A w \in Levels : v <= w
      BY <3>1, Least
    <3>3. level = CHOOSE v \in Levels : \A w \in Levels : v <= w
      BY DEF ActionsInit
    <3>4. level \in Levels
      BY <3>2, <3>3
    <3> QED BY <3>1, <3>4
  <2>3. \A s \in Subs : DimInv(s)
    BY <2>1, Numbers DEF DimInv
  <2> QED BY <2>1, <2>2, <2>3 DEF LoopInv
<1>2. ActionInv /\ LoopInv /\ [ActionsNext]_actionVars => LoopInv'
  <2> SUFFICES ASSUME ActionInv, LoopInv, [ActionsNext]_actionVars PROVE LoopInv'
    OBVIOUS
  <2>1. CASE GroupStep
    <3>1. /\ UNCHANGED <<class, dim, pos, level, changes>> /\ (halted' => ~running')
          /\ level' \in Nat /\ changes' \in Nat
      BY <2>1 DEF GroupStep, OwnStep, KeepLevel, KeepCycle, KeepConfig, LoopInv
    <3> QED BY <2>1, <3>1, GroupStepSubs, LoopAround
  <2>2. ASSUME NEW s \in Subs, SubStep(s) PROVE LoopInv'
    BY <2>2, LoopSubStep
  <2>3. ASSUME NEW v \in Foreign, ChangeLevel(v) PROVE LoopInv'
    <3>1. /\ UNCHANGED <<class, dim, pos, at>> /\ (halted' => ~running')
          /\ level' \in Nat /\ changes' \in Nat \ {0}
      BY <2>3, Numbers DEF ChangeLevel, SetLevel, KeepCycle, LoopInv, groupVars
    <3>2. \A s \in Subs : (Gone(s)' => Gone(s)) /\ (Place(s) = "busy" => Place(s)' = "busy")
      BY <3>1 DEF Gone, Place
    <3> QED BY <3>1, <3>2, LoopAround
  <2>4. ASSUME NEW w, CycleOnChange(w) PROVE LoopInv'
    <3>1. /\ UNCHANGED <<class, dim, pos, at, level, changes>>
          /\ level' \in Nat /\ changes' \in Nat
      BY <2>4 DEF CycleOnChange, KeepConfig, LoopInv, groupVars
    <3>2. halted' => ~running'
      BY <2>4 DEF CycleOnChange, LoopInv
    <3>3. \A s \in Subs : (Gone(s)' => Gone(s)) /\ (Place(s) = "busy" => Place(s)' = "busy")
      BY <3>1 DEF Gone, Place
    <3> QED BY <3>1, <3>2, <3>3, LoopAround
  <2>5. CASE UNCHANGED actionVars
    <3>1. /\ UNCHANGED <<class, dim, pos, at, level, changes, halted, running>>
          /\ level' \in Nat /\ changes' \in Nat
      BY <2>5 DEF actionVars, ownVars, groupVars, LoopInv
    <3>2. \A s \in Subs : (Gone(s)' => Gone(s)) /\ (Place(s) = "busy" => Place(s)' = "busy")
      BY <3>1 DEF Gone, Place
    <3>3. halted' => ~running'
      BY <3>1 DEF LoopInv
    <3> QED BY <3>1, <3>2, <3>3, LoopAround
  <2> QED BY <2>1, <2>2, <2>3, <2>4, <2>5 DEF ActionsNext, Outside, Listening
<1> QED BY <1>1, <1>2, ActionInvEver, PTL DEF ActionsSpec

\* A step that changes neither the records nor the level, and ends no run of a
\* sub-action, disturbs no loop; nor does a change of the level from outside.
LEMMA CourseAround ==
    ASSUME LoopInv, NEW t \in Subs, pos' = pos, Gone(t)' => Gone(t),
           level' = level \/ changes' # changes
    PROVE  StaysHalted(t) /\ Completes(t) /\ Yields(t)
BY DEF StaysHalted, Completes, Yields, Gone, Place

\* A loop is not disturbed by the step of another sub-action.
LEMMA CourseOfOther ==
    ASSUME MaxRuns = 1, ActionInv, LoopInv, NEW s \in Subs, SubStep(s), NEW t \in Subs \ {s}
    PROVE  StaysHalted(t) /\ Completes(t) /\ Yields(t)
<1>1. /\ Place(t)' = Place(t) /\ pos'[t] = pos[t]
      /\ level' # level => class[s] \in Writers
  BY SubStepFrame
<1>2. OthersKeepLevel(t) => level' = level
  BY <1>1 DEF OthersKeepLevel, Writers
<1>3. StaysHalted(t)
  BY <1>1 DEF StaysHalted
<1>4. Completes(t)
  BY <1>1 DEF Completes, Place
<1>5. Yields(t)
  BY <1>2 DEF Yields
<1> QED BY <1>3, <1>4, <1>5

\* A loop runs its own course.
LEMMA CourseOfOwn ==
    ASSUME MaxRuns = 1, ActionInv, LoopInv, NEW s \in Subs, SubStep(s)
    PROVE  StaysHalted(s) /\ Completes(s) /\ Yields(s)
<1>1. s \in Actions /\ s # Group /\ 1 \in Runs /\ at \in [Actions -> [Runs -> Places]]
  BY OneRun DEF ActionInv, ActionTypes
<1>2. StaysHalted(s)
  <2> SUFFICES ASSUME Is(s, "cycle-on-off"), halted, halted' PROVE pos'[s] \in {pos[s], 0}
    BY DEF StaysHalted
  <2>1. ~CycleSwitches(s)
    BY DEF CycleSwitches, LoopInv
  <2>2. pos' = pos \/ pos' = [pos EXCEPT ![s] = 0]
    BY <2>1 DEF SubStep, Delays, Stopped, Sleeping, Proceeds, DimWrites, DimAborts,
           CycleEnds, SetsValue, CopiesValue, TogglesValue, Calculates, SetsString, SendsSms,
           SendsEmail, RunsShellCommand, CancelsRule, CancelReturns, Crashes, DoesOnce, Over, Is
  <2> QED BY <2>2 DEF LoopInv
<1>3. Completes(s)
  <2> SUFFICES ASSUME Is(s, "dim-up"), OthersKeepLevel(s), changes = 0,
                      Place(s) \in {"busy", "timedOut"}, Gone(s)'
               PROVE  level = dim.stop
    BY DEF Completes, Place, Gone
  <2>1. DimInv(s)
    BY DEF LoopInv
  <2>2. Proceeds(s) \/ DimAborts(s)
    <3>1. ~(\/ Stopped(s) \/ CycleEnds(s) \/ SetsValue(s) \/ CopiesValue(s) \/ TogglesValue(s)
            \/ Calculates(s) \/ SetsString(s) \/ SendsSms(s) \/ SendsEmail(s)
            \/ RunsShellCommand(s) \/ CancelsRule(s) \/ CancelReturns(s) \/ CycleSwitches(s)
            \/ Delays(s))
      BY DEF Stopped, CycleEnds, SetsValue, CopiesValue, TogglesValue, Calculates, SetsString,
             SendsSms, SendsEmail, RunsShellCommand, CancelsRule, CancelReturns, CycleSwitches,
             Delays, RunSleeps, DoesOnce, Is, Place
    <3>2. ~DimWrites(s)
      BY <1>1 DEF DimWrites, RunWorks, Move, Gone, Place
    <3>3. ~Sleeping(s) /\ ~Crashes(s)
      BY <1>1 DEF Sleeping, TimeOut, Move, Crashes, groupVars, Gone, Place
    <3> QED BY <3>1, <3>2, <3>3 DEF SubStep
  <2>3. CASE Proceeds(s)
    <3>1. pos[s] = Done
      BY <1>1, <2>3 DEF Proceeds, RunSleeps, Move, Sleep, Gone, Place
    <3> QED BY <2>1, <3>1, Numbers DEF DimInv
  <2>4. CASE DimAborts(s)
    <3>1. pos[s] # 0 /\ Place(s) = "timedOut"
      BY <2>4 DEF DimAborts, Overridden, Place
    <3>2. pos[s] # Done
      BY <2>1, <3>1 DEF DimInv
    <3>3. level = pos[s] - 1 /\ level \in Nat
      BY <2>1, <3>1, <3>2 DEF DimInv, LoopInv
    <3>4. level < pos[s] - 1 \/ level > pos[s] - 1
      BY <2>4 DEF DimAborts, Overridden
    <3> QED BY <3>3, <3>4
  <2> QED BY <2>2, <2>3, <2>4
<1>4. Yields(s)
  <2> SUFFICES ASSUME Is(s, "dim-up"), pos[s] \notin {0, Done}, level' # level,
                      IF Up THEN level < dim.start ELSE level > dim.start
               PROVE  FALSE
    BY DEF Yields
  <2>1. DimWrites(s)
    BY DEF SubStep, Delays, Stopped, Sleeping, Proceeds, DimAborts, CycleSwitches,
         CycleEnds, SetsValue, CopiesValue, TogglesValue, Calculates, SetsString, SendsSms,
         SendsEmail, RunsShellCommand, CancelsRule, CancelReturns, Crashes, DoesOnce, KeepLevel,
         Is
  <2>2. ~Overridden(s)
    BY <2>1 DEF DimWrites
  <2>3. /\ pos[s] - 1 \in Nat /\ level \in Nat /\ dim.start \in Nat
        /\ IF Up THEN pos[s] - 1 >= dim.start ELSE pos[s] - 1 <= dim.start
    BY Numbers DEF LoopInv, DimInv
  <2> QED BY <2>2, <2>3 DEF Overridden
<1> QED BY <1>2, <1>3, <1>4

\* A cycle whose stop condition was found true switches no more, a dim-up
\* action reaches its second value, and yields to whoever sets the object back
\* (DimUpAction::Run, CycleOnOffAction::onChange), for any two values whose
\* steps fit an unsigned int.
THEOREM LoopsRunTheirCourseEver ==
    ASSUME MaxRuns = 1, ~Overlap, StepsFit
    PROVE  ActionsSpec => LoopsRunTheirCourse
<1>1. ActionInv /\ LoopInv /\ [ActionsNext]_actionVars
         => [\A s \in Subs : StaysHalted(s) /\ Completes(s) /\ Yields(s)]_actionVars
  <2> SUFFICES ASSUME ActionInv, LoopInv, ActionsNext, NEW t \in Subs
               PROVE  StaysHalted(t) /\ Completes(t) /\ Yields(t)
    OBVIOUS
  <2>1. CASE GroupStep
    <3>1. pos' = pos /\ level' = level
      BY <2>1 DEF GroupStep, OwnStep, KeepLevel
    <3> QED BY <2>1, <3>1, GroupStepSubs, CourseAround
  <2>2. ASSUME NEW s \in Subs, SubStep(s)
        PROVE  StaysHalted(t) /\ Completes(t) /\ Yields(t)
    BY <2>2, CourseOfOwn, CourseOfOther
  <2>3. CASE Outside \/ \E w \in Subs \cup {Someone} : Listening(w)
    <3>1. pos' = pos /\ at' = at
      BY <2>3 DEF Outside, ChangeLevel, Listening, CycleOnChange, groupVars
    <3>2. level' = level \/ changes' # changes
      BY <2>3 DEF Outside, ChangeLevel, Listening, CycleOnChange, LoopInv
    <3> QED BY <3>1, <3>2, CourseAround DEF Gone, Place
  <2> QED BY <2>1, <2>2, <2>3 DEF ActionsNext
<1> QED BY <1>1, ActionInvEver, LoopInvEver, PTL DEF ActionsSpec, LoopsRunTheirCourse
=============================================================================
