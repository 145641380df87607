-------------------------- MODULE DispatchProofs --------------------------
(***************************************************************************)
(* Proofs about module Dispatch for any objects, rules, listener lists and *)
(* threads: type correctness, that the storage and the rules have caught   *)
(* up with the objects whenever no call is open.  What is still to be done *)
(* is told by the open calls; so the invariants speak about the set of the *)
(* calls a thread has open, and about which of them is on top.             *)
(***************************************************************************)
EXTENDS Dispatch, SequenceTheorems, TLAPS

\* The calls thread t has open.
OpenIn(t) == ToSet(calls[t])

\* Pushing on a stack and taking the top away.
LEMMA Pushing ==
    ASSUME NEW S, NEW s \in Seq(S), NEW c \in S
    PROVE  /\ Append(s, c) \in Seq(S)
           /\ Append(s, c) # <<>>
           /\ Len(Append(s, c)) = Len(s) + 1
           /\ Last(Append(s, c)) = c
           /\ Front(Append(s, c)) = s
           /\ ToSet(Append(s, c)) = ToSet(s) \cup {c}
<1>1. /\ Append(s, c) \in Seq(S)
      /\ Append(s, c) # <<>>
      /\ Len(Append(s, c)) = Len(s) + 1
      /\ \A k \in 1..Len(s) : Append(s, c)[k] = s[k]
      /\ Append(s, c)[Len(s) + 1] = c
  BY AppendProperties
<1>2. Len(s) \in Nat /\ DOMAIN s = 1..Len(s) /\ DOMAIN Append(s, c) = 1..Len(s) + 1
  BY <1>1, LenProperties
<1>3. Last(Append(s, c)) = c
  BY <1>1, <1>2 DEF Last
<1>4. Front(Append(s, c)) = s
  <2>1. Front(Append(s, c)) = SubSeq(Append(s, c), 1, Len(s))
    BY <1>1, <1>2 DEF Front
  <2>2. /\ SubSeq(Append(s, c), 1, Len(s)) \in Seq(S)
        /\ Len(SubSeq(Append(s, c), 1, Len(s))) = Len(s)
        /\ \A k \in 1..Len(s) : SubSeq(Append(s, c), 1, Len(s))[k] = Append(s, c)[k]
    BY <1>1, <1>2
  <2> QED BY <1>1, <2>1, <2>2, SeqEqual
<1>5. ToSet(Append(s, c)) = ToSet(s) \cup {c}
  BY <1>1, <1>2 DEF ToSet
<1> QED BY <1>1, <1>3, <1>4, <1>5

\* A stack is what is below its last element, and that element.
LEMMA Popping ==
    ASSUME NEW S, NEW s \in Seq(S), s # <<>>
    PROVE  /\ Front(s) \in Seq(S)
           /\ Len(Front(s)) = Len(s) - 1
           /\ Last(s) \in S
           /\ s = Append(Front(s), Last(s))
           /\ ToSet(s) = ToSet(Front(s)) \cup {Last(s)}
<1>1. Len(s) \in Nat /\ Len(s) > 0 /\ DOMAIN s = 1..Len(s) /\ \A k \in 1..Len(s) : s[k] \in S
  BY LenProperties, ElementOfSeq
<1>2. /\ Front(s) \in Seq(S)
      /\ Len(Front(s)) = Len(s) - 1
      /\ \A k \in 1..Len(s) - 1 : Front(s)[k] = s[k]
  BY <1>1 DEF Front
<1>3. Last(s) \in S
  BY <1>1 DEF Last
<1>4. s = Append(Front(s), Last(s))
  <2> DEFINE f == Front(s)
             e == Last(s)
  <2>a. f \in Seq(S) /\ e \in S /\ Len(f) = Len(s) - 1
    BY <1>2, <1>3
  <2> HIDE DEF f, e
  <2>b. /\ Append(f, e) \in Seq(S)
        /\ Len(Append(f, e)) = Len(f) + 1
        /\ \A k \in 1..Len(f) : Append(f, e)[k] = f[k]
        /\ Append(f, e)[Len(f) + 1] = e
    BY <2>a, AppendProperties
  <2>1. /\ Append(Front(s), Last(s)) \in Seq(S)
        /\ Len(Append(Front(s), Last(s))) = Len(s)
        /\ \A k \in 1..Len(s) - 1 : Append(Front(s), Last(s))[k] = s[k]
        /\ Append(Front(s), Last(s))[Len(s)] = Last(s)
    BY <1>1, <1>2, <2>a, <2>b DEF f, e
  <2>2. \A k \in 1..Len(s) : Append(Front(s), Last(s))[k] = s[k]
    BY <1>1, <2>1 DEF Last
  <2> QED BY <2>1, <2>2, SeqEqual
<1> QED BY <1>2, <1>3, <1>4, Pushing

\* Nothing is on an empty stack.
LEMMA EmptyStack == ToSet(<<>>) = {}
BY DEF ToSet

\* What a call of each kind carries.
LEMMA CallKinds ==
    ASSUME NEW c \in OpenCalls
    PROVE  /\ c.call \in {"update", "evaluate", "read", "send"}
           /\ c.call = "update" => c.of \in Objects /\ c.next \in 0..Len(Listeners[c.of]) + 1
           /\ c.call = "evaluate" =>
                 c.of \in Rules /\ c.next \in 1..Len(Operands[c.of]) /\ c.found \in BOOLEAN
           /\ c.call = "read" => c.of \in Objects /\ c.next \in 0..1
<1>1. CASE \E o \in Objects : \E i \in 0..Len(Listeners[o]) + 1 : c = Update(o, i)
  BY <1>1 DEF Update
<1>2. CASE \E r \in Rules : \E i \in 1..Len(Operands[r]) : \E found \in BOOLEAN : c = Evaluate(r, i, found)
  BY <1>2 DEF Evaluate
<1>3. CASE \E o \in Objects : \E i \in 0..1 : c = Read(o, i)
  BY <1>3 DEF Read
<1>4. CASE c = SendMessage
  BY <1>4 DEF SendMessage
<1>5. \/ c \in UNION {{Update(o, i) : i \in 0..Len(Listeners[o]) + 1} : o \in Objects}
      \/ c \in UNION {{Evaluate(r, i, found) : i \in 1..Len(Operands[r]), found \in BOOLEAN} : r \in Rules}
      \/ c \in {Read(o, i) : o \in Objects, i \in 0..1}
      \/ c = SendMessage
  BY DEF OpenCalls
<1> HIDE DEF Update, Evaluate, Read
<1> QED BY <1>1, <1>2, <1>3, <1>4, <1>5

\* The calls an action may open are calls.
LEMMA CallTypes ==
    /\ \A o \in Objects : \A i \in 0..Len(Listeners[o]) + 1 : Update(o, i) \in OpenCalls
    /\ \A r \in Rules : \A i \in 1..Len(Operands[r]) :
          \A found \in BOOLEAN : Evaluate(r, i, found) \in OpenCalls
    /\ \A o \in Objects : \A i \in 0..1 : Read(o, i) \in OpenCalls
    /\ SendMessage \in OpenCalls
<1>1. ASSUME NEW o \in Objects, NEW i \in 0..Len(Listeners[o]) + 1
      PROVE  Update(o, i) \in OpenCalls
  <2>1. Update(o, i) \in UNION {{Update(p, j) : j \in 0..Len(Listeners[p]) + 1} : p \in Objects}
    OBVIOUS
  <2> QED BY <2>1 DEF OpenCalls
<1>2. ASSUME NEW r \in Rules, NEW i \in 1..Len(Operands[r]), NEW found \in BOOLEAN
      PROVE  Evaluate(r, i, found) \in OpenCalls
  <2>1. Evaluate(r, i, found)
           \in UNION {{Evaluate(q, j, f) : j \in 1..Len(Operands[q]), f \in BOOLEAN} : q \in Rules}
    OBVIOUS
  <2> QED BY <2>1 DEF OpenCalls
<1>3. \A o \in Objects : \A i \in 0..1 : Read(o, i) \in OpenCalls
  BY DEF OpenCalls
<1>4. SendMessage \in OpenCalls
  BY DEF OpenCalls
<1> QED BY <1>1, <1>2, <1>3, <1>4

\* What the configuration says of listeners and operands, at each place.
LEMMA ListenersTyped ==
    /\ \A o \in Objects : /\ Len(Listeners[o]) \in Nat
                         /\ \A i \in 1..Len(Listeners[o]) : Listeners[o][i] \in Rules \cup {Client}
    /\ \A r \in Rules : /\ Len(Operands[r]) \in Nat
                       /\ 1 \in 1..Len(Operands[r])
                       /\ \A i \in 1..Len(Operands[r]) : Operands[r][i] \in Objects
<1>1. ASSUME NEW o \in Objects
      PROVE  /\ Len(Listeners[o]) \in Nat
             /\ \A i \in 1..Len(Listeners[o]) : Listeners[o][i] \in Rules \cup {Client}
  <2>1. Listeners[o] \in Seq(Rules \cup {Client})
    BY DispatchConstants
  <2> QED BY <2>1, LenProperties, ElementOfSeq
<1>2. ASSUME NEW r \in Rules
      PROVE  /\ Len(Operands[r]) \in Nat
             /\ 1 \in 1..Len(Operands[r])
             /\ \A i \in 1..Len(Operands[r]) : Operands[r][i] \in Objects
  <2>1. Operands[r] \in Seq(Objects) /\ Operands[r] # <<>>
    BY DispatchConstants
  <2>2. Len(Operands[r]) \in Nat /\ Len(Operands[r]) # 0
    BY <2>1, EmptySeq, LenProperties
  <2> QED BY <2>1, <2>2, ElementOfSeq
<1> QED BY <1>1, <1>2

\* The stack of one thread becomes s.
LEMMA StackTypes ==
    ASSUME TypeOK, NEW t \in Threads, NEW s \in Seq(OpenCalls), calls' = [calls EXCEPT ![t] = s]
    PROVE  /\ calls' \in [Threads -> Seq(OpenCalls)]
           /\ calls'[t] = s
           /\ \A u \in Threads \ {t} : calls'[u] = calls[u]
BY DEF TypeOK

\* The open call of a thread that is inside one.
LEMMA Innermost ==
    ASSUME TypeOK, NEW t \in Threads, ~Idle(t)
    PROVE  /\ calls[t] \in Seq(OpenCalls)
           /\ Front(calls[t]) \in Seq(OpenCalls)
           /\ Last(calls[t]) \in OpenCalls
           /\ OpenIn(t) = ToSet(Front(calls[t])) \cup {Last(calls[t])}
BY Popping DEF TypeOK, Idle, OpenIn

\* The variables of module Dispatch keep their types in every interleaving of
\* the calls: no stack holds anything but calls that are half-way.
THEOREM DispatchTypeOK == Spec => []TypeOK
<1>1. Init => TypeOK
  <2> SUFFICES ASSUME Init PROVE TypeOK
    OBVIOUS
  <2>1. value \in [Objects -> BOOLEAN] /\ init \in [Objects -> BOOLEAN]
    <3>1. PICK known \in KnownChoices : init = [o \in Objects |-> o \in known]
      BY DEF Init
    <3>2. \A o \in Objects : (o \in known) \in BOOLEAN
      OBVIOUS
    <3>3. init \in [Objects -> BOOLEAN]
      BY <3>1, <3>2, Zenon
    <3> QED BY <3>3 DEF Init
  <2>2. \A r \in Rules : Truth(r) \in BOOLEAN
    <3> SUFFICES ASSUME NEW r \in Rules PROVE Truth(r) \in BOOLEAN
      OBVIOUS
    <3>1. Operator[r] \in {"and", "or", "threshold"}
      BY DispatchConstants
    <3> QED BY <3>1 DEF Truth, Exceeded
  <2>3. prevValue \in [Rules -> BOOLEAN]
    BY <2>2 DEF Init
  <2>4. calls \in [Threads -> Seq(OpenCalls)]
    BY DEF Init
  <2> QED BY <2>1, <2>3, <2>4 DEF Init, TypeOK
<1>2. TypeOK /\ [Next]_vars => TypeOK'
  <2> SUFFICES ASSUME TypeOK, [Next]_vars PROVE TypeOK'
    OBVIOUS
  <2> USE CallTypes, ListenersTyped
  <2>0. Knx \in Threads /\ Others \subseteq Threads
    BY DEF Threads
  <2>1. ASSUME NEW o \in Objects, NEW v \in BOOLEAN, OnWrite(o, v) \/ OnResponse(o, v)
        PROVE  TypeOK'
    <3>1. DoWrite(o, v)
      BY <2>1 DEF OnWrite, OnResponse
    <3>2. CASE Changes(o, v)
      <4>1. Append(calls[Knx], Update(o, 1)) \in Seq(OpenCalls)
        BY <2>0, Pushing DEF TypeOK
      <4>2. calls' = [calls EXCEPT ![Knx] = Append(calls[Knx], Update(o, 1))]
        BY <3>1, <3>2 DEF DoWrite, Push
      <4>3. calls' \in [Threads -> Seq(OpenCalls)]
        BY <2>0, <4>1, <4>2, StackTypes
      <4> QED BY <2>0, <2>1, <3>1, <3>2, <4>3 DEF DoWrite, OnWrite, OnResponse, TypeOK, rule
    <3>3. CASE ~Changes(o, v)
      BY <2>1, <3>1, <3>3 DEF DoWrite, OnWrite, OnResponse, TypeOK, rule
    <3> QED BY <3>2, <3>3
  <2>2. ASSUME NEW t \in Threads, NEW c \in OpenCalls, Push(t, c)
        PROVE  calls' \in [Threads -> Seq(OpenCalls)]
    <3>1. Append(calls[t], c) \in Seq(OpenCalls)
      BY Pushing DEF TypeOK
    <3>2. calls' = [calls EXCEPT ![t] = Append(calls[t], c)]
      BY <2>2 DEF Push
    <3> QED BY <3>1, <3>2, StackTypes
  <2>3. ASSUME NEW t \in Threads, ~Idle(t), NEW c \in OpenCalls, Replace(t, c)
        PROVE  calls' \in [Threads -> Seq(OpenCalls)]
    <3>1. Append(Front(calls[t]), c) \in Seq(OpenCalls)
      BY <2>3, Innermost, Pushing
    <3>2. calls' = [calls EXCEPT ![t] = Append(Front(calls[t]), c)]
      BY <2>3 DEF Replace
    <3> QED BY <3>1, <3>2, StackTypes
  <2>4. ASSUME NEW t \in Threads, ~Idle(t), calls' = [calls EXCEPT ![t] = Front(calls[t])]
        PROVE  calls' \in [Threads -> Seq(OpenCalls)]
    BY <2>4, Innermost, StackTypes
  <2>5. ASSUME NEW t \in Others, NEW o \in Objects, NEW v \in BOOLEAN, SetValue(t, o, v)
        PROVE  TypeOK'
    <3>1. calls' \in [Threads -> Seq(OpenCalls)]
      BY <2>0, <2>2, <2>5 DEF SetValue
    <3> QED BY <2>5, <3>1 DEF SetValue, TypeOK, rule
  <2>6. ASSUME NEW t \in Others, NEW r \in Rules, Initialize(t, r)
        PROVE  TypeOK'
    <3>1. calls' \in [Threads -> Seq(OpenCalls)]
      BY <2>0, <2>2, <2>6 DEF Initialize
    <3> QED BY <2>0, <2>6, <3>1 DEF Initialize, TypeOK, object, rule
  <2>7. ASSUME NEW t \in Others, NEW o \in Objects, SendReadRequest(t, o)
        PROVE  TypeOK'
    <3>1. Read(o, IF readPending[o] THEN 1 ELSE 0) \in OpenCalls
      OBVIOUS
    <3>2. calls' \in [Threads -> Seq(OpenCalls)]
      BY <2>0, <2>2, <2>7, <3>1 DEF SendReadRequest
    <3> QED BY <2>7, <3>2 DEF SendReadRequest, TypeOK, object, rule
  <2>8. ASSUME NEW t \in Threads, StartUpdate(t)
        PROVE  TypeOK'
    <3>1. ~Idle(t) /\ Last(calls[t]) \in OpenCalls /\ Last(calls[t]).of \in Objects
      BY <2>8, Innermost, CallKinds DEF StartUpdate, In
    <3>2. calls' \in [Threads -> Seq(OpenCalls)]
      BY <2>3, <2>8, <3>1 DEF StartUpdate
    <3> QED BY <2>8, <3>1, <3>2 DEF StartUpdate, TypeOK, rule
  <2>9. ASSUME NEW t \in Threads, Notify(t)
        PROVE  TypeOK'
    <3> DEFINE o == Last(calls[t]).of
               i == Last(calls[t]).next
    <3>1. ~Idle(t) /\ o \in Objects /\ i \in 1..Len(Listeners[o])
      BY <2>9, Innermost, CallKinds DEF Notify, In
    <3>2. PICK c \in OpenCalls : calls' = [calls EXCEPT ![t] = Append(Append(Front(calls[t]), Update(o, i + 1)), c)]
      <4>1. CASE Listeners[o][i] = Client
        BY <2>9, <4>1 DEF Notify
      <4>2. CASE Listeners[o][i] # Client
        <5>1. Listeners[o][i] \in Rules
          BY <3>1, <4>2
        <5> QED BY <2>9, <4>2, <5>1 DEF Notify
      <4> QED BY <4>1, <4>2
    <3>3. Append(Front(calls[t]), Update(o, i + 1)) \in Seq(OpenCalls)
      BY <3>1, Innermost, Pushing
    <3>4. Append(Append(Front(calls[t]), Update(o, i + 1)), c) \in Seq(OpenCalls)
      BY <3>3, Pushing
    <3>5. calls' \in [Threads -> Seq(OpenCalls)]
      BY <3>2, <3>4, StackTypes
    <3> QED BY <2>9, <3>5 DEF Notify, TypeOK, object, rule
  <2>10. ASSUME NEW t \in Threads, SendMessageEnd(t)
         PROVE  TypeOK'
    <3>1. calls' \in [Threads -> Seq(OpenCalls)]
      BY <2>4, <2>10 DEF SendMessageEnd, In
    <3> QED BY <2>10, <3>1 DEF SendMessageEnd, TypeOK, object, rule
  <2>11. ASSUME NEW t \in Threads, Persist(t)
         PROVE  TypeOK'
    <3>1. ~Idle(t) /\ Last(calls[t]).of \in Objects
      BY <2>11, Innermost, CallKinds DEF Persist, In
    <3>2. calls' \in [Threads -> Seq(OpenCalls)]
      BY <2>4, <2>11, <3>1 DEF Persist, Return
    <3>3. stored' \in [Objects -> BOOLEAN]
      BY <2>11, <3>1 DEF Persist, TypeOK
    <3> QED BY <2>11, <3>2, <3>3 DEF Persist, Return, TypeOK, rule
  <2>12. ASSUME NEW t \in Threads, TestOperand(t)
         PROVE  TypeOK'
    <3> DEFINE c == Last(calls[t])
               v == value[Operands[c.of][c.next]]
    <3>1. /\ ~Idle(t) /\ c.of \in Rules /\ c.next \in 1..Len(Operands[c.of]) 
      BY <2>12, Innermost, CallKinds DEF TestOperand, Testing, In
    <3>2. v \in BOOLEAN
      BY <3>1 DEF TypeOK
    <3>3. CASE Conclude(t, c.of, v)
      <4>1. calls' \in [Threads -> Seq(OpenCalls)]
        BY <2>4, <3>1, <3>3 DEF Conclude, Return
      <4>2. prevValue' \in [Rules -> BOOLEAN]
        BY <3>1, <3>2, <3>3 DEF Conclude, TypeOK
      <4> QED BY <2>12, <3>3, <4>1, <4>2 DEF Conclude, Return, TestOperand, TypeOK, object
    <3>4. CASE c.next # Len(Operands[c.of]) /\ Replace(t, Evaluate(c.of, c.next + 1, v)) /\ UNCHANGED <<prevValue, cpu>>
      <4>1. Evaluate(c.of, c.next + 1, v) \in OpenCalls
        BY <3>1, <3>2, <3>4
      <4>2. calls' \in [Threads -> Seq(OpenCalls)]
        BY <2>3, <3>1, <3>4, <4>1
      <4> QED BY <2>12, <3>4, <4>2 DEF TestOperand, TypeOK, object
    <3> QED BY <2>12, <3>3, <3>4 DEF TestOperand
  <2>13. ASSUME NEW t \in Threads, TestThreshold(t)
         PROVE  TypeOK'
    <3> DEFINE r == Last(calls[t]).of
               found == Last(calls[t]).found
               level == value[Operands[r][2]]
    <3>1. ~Idle(t) /\ r \in Rules /\ 2 \in 1..Len(Operands[r]) /\ found \in BOOLEAN
      BY <2>13, Innermost, CallKinds DEF TestThreshold, Testing, In
    <3>2. level \in BOOLEAN
      BY <3>1 DEF TypeOK
    <3>3. calls' \in [Threads -> Seq(OpenCalls)]
      BY <2>4, <2>13, <3>1 DEF TestThreshold, Conclude, Return
    <3>4. prevValue' \in [Rules -> BOOLEAN]
      <4>1. prevValue' = [prevValue EXCEPT ![r] = ~found /\ Exceeded(r, level)]
        BY <2>13 DEF TestThreshold, Conclude
      <4>2. (~found /\ Exceeded(r, level)) \in BOOLEAN
        BY DEF Exceeded
      <4> QED BY <4>1, <4>2 DEF TypeOK
    <3>5. refValue' \in [Rules -> BOOLEAN]
      BY <2>13, <3>2 DEF TestThreshold, TypeOK
    <3> QED BY <2>13, <3>3, <3>4, <3>5 DEF TestThreshold, Conclude, Return, TypeOK, object
  <2>14. ASSUME NEW t \in Threads, EnterRead(t)
         PROVE  TypeOK'
    <3> DEFINE c == Last(calls[t])
               o == Operands[c.of][c.next]
    <3>1. c.of \in Rules /\ c.next \in 1..Len(Operands[c.of])
      BY <2>14, Innermost, CallKinds DEF EnterRead, In
    <3>2. Read(o, IF readPending[o] THEN 1 ELSE 0) \in OpenCalls
      BY <3>1
    <3>3. calls' \in [Threads -> Seq(OpenCalls)]
      BY <2>2, <2>14, <3>2 DEF EnterRead
    <3> QED BY <2>14, <3>3 DEF EnterRead, TypeOK, object, rule
  <2>15. ASSUME NEW t \in Threads, ReadSent(t)
         PROVE  TypeOK'
    <3>1. ~Idle(t) /\ Last(calls[t]).of \in Objects
      BY <2>15, Innermost, CallKinds DEF ReadSent, In
    <3>2. calls' \in [Threads -> Seq(OpenCalls)]
      BY <2>3, <2>15, <3>1 DEF ReadSent
    <3> QED BY <2>15, <3>1, <3>2 DEF ReadSent, TypeOK, rule
  <2>16. ASSUME NEW t \in Threads, LeaveRead(t)
         PROVE  TypeOK'
    <3>1. ~Idle(t) /\ Last(calls[t]).of \in Objects
      BY <2>16, Innermost, CallKinds DEF LeaveRead, Waiting, In
    <3>2. calls' \in [Threads -> Seq(OpenCalls)]
      BY <2>4, <2>16, <3>1 DEF LeaveRead
    <3> QED BY <2>16, <3>1, <3>2 DEF LeaveRead, TypeOK, rule
  <2>17. ASSUME NEW t \in Threads, StayInRead(t)
         PROVE  TypeOK'
    BY <2>17 DEF StayInRead, TypeOK, object, rule
  <2>18. CASE UNCHANGED vars
    BY <2>18 DEF vars, object, rule, TypeOK
  <2> QED
    BY <2>1, <2>5, <2>6, <2>7, <2>8, <2>9, <2>10, <2>11, <2>12, <2>13, <2>14, <2>15, <2>16, <2>17, <2>18
    DEF Next, Run
<1> QED BY <1>1, <1>2, PTL DEF Spec

-----------------------------------------------------------------------------
\* Some thread has one of the calls of P open.
SomeOpen(P) == \E t \in Threads : \E c \in OpenIn(t) : c \in P

\* The calls that end with writing object o to the storage.
Storing(o) == {c \in OpenCalls : c.call = "update" /\ c.of = o}

\* What is not stored yet will be.
StorageInv == \A o \in Persisted : stored[o] = value[o] \/ SomeOpen(Storing(o))

\* The call c evaluates rule r, or is going to notify it.
Operand(r, o) == \E i \in 1..Len(Operands[r]) : Operands[r][i] = o
Reaches(c, r) ==
    \/ c.call = "evaluate" /\ c.of = r
    \/ /\ c.call = "update"
       /\ Operand(r, c.of)
       /\ \E k \in 1..Len(Listeners[c.of]) : k >= c.next /\ Listeners[c.of][k] = r
Reaching(r) == {c \in OpenCalls : Reaches(c, r)}

\* Rule r remembers the truth value of its condition, and its reference.
Settled(r) ==
    /\ prevValue[r] = Truth(r)
    /\ Operator[r] = "threshold" /\ value[Operands[r][1]] => refValue[r] = value[Operands[r][2]]

\* What an evaluation has found of the operands in front of the next one.
Tested(c) ==
    IF Operator[c.of] = "threshold"
    THEN c.found = value[Operands[c.of][1]]
    ELSE \A j \in 1..c.next - 1 : ~Decides(c.of, value[Operands[c.of][j]])

\* None of the calls is an evaluation behind its first operand.
Calm(open) == \A c \in open : c.call = "evaluate" => c.next = 1

\* Behind its first operand an evaluation never gives up the processor.
EvaluationsInv ==
    \A t \in Threads :
       \/ Calm(OpenIn(t))
       \/ /\ cpu = t
          /\ In(t, "evaluate")
          /\ Tested(Last(calls[t]))
          /\ Calm(ToSet(Front(calls[t])))

\* Operands but the first are objects that have values.
LaterKnown == \A r \in Rules : \A i \in 2..Len(Operands[r]) : init[Operands[r][i]]

RulesInv == \A r \in Rules : Settled(r) \/ SomeOpen(Reaching(r))

\* The configurations in which only the first operand of a rule may wait for
\* the bus.
FirstOperandsWait ==
    \A known \in KnownChoices : \A r \in Rules : \A i \in 2..Len(Operands[r]) : Operands[r][i] \in known

-----------------------------------------------------------------------------
\* A call of P stays open while another call is opened, goes on, ends, or
\* goes on and opens a further one.
LEMMA KeptByPush ==
    ASSUME TypeOK, NEW t \in Threads, NEW c \in OpenCalls, Push(t, c), NEW P, SomeOpen(P) \/ c \in P
    PROVE  SomeOpen(P)'
<1>1. Append(calls[t], c) \in Seq(OpenCalls) /\ ToSet(Append(calls[t], c)) = OpenIn(t) \cup {c}
  BY Pushing DEF TypeOK, OpenIn
<1>2. calls' = [calls EXCEPT ![t] = Append(calls[t], c)]
  BY DEF Push
<1>3. OpenIn(t)' = OpenIn(t) \cup {c} /\ \A u \in Threads \ {t} : OpenIn(u)' = OpenIn(u)
  BY <1>1, <1>2, StackTypes DEF OpenIn
<1> QED BY <1>3 DEF SomeOpen

\* Some open call has P after the innermost one goes on, if it kept P.
LEMMA KeptByReplace ==
    ASSUME TypeOK, NEW t \in Threads, ~Idle(t), NEW c \in OpenCalls, Replace(t, c),
           NEW P, SomeOpen(P), Last(calls[t]) \in P => c \in P
    PROVE  SomeOpen(P)'
<1>1. Append(Front(calls[t]), c) \in Seq(OpenCalls) /\ ToSet(Append(Front(calls[t]), c)) = ToSet(Front(calls[t])) \cup {c}
  BY Innermost, Pushing
<1>2. calls' = [calls EXCEPT ![t] = Append(Front(calls[t]), c)]
  BY DEF Replace
<1>3. OpenIn(t)' = ToSet(Front(calls[t])) \cup {c} /\ \A u \in Threads \ {t} : OpenIn(u)' = OpenIn(u)
  BY <1>1, <1>2, StackTypes DEF OpenIn
<1> QED BY <1>3, Innermost DEF SomeOpen

\* Some open call has P after the innermost one, which did not, returned.
LEMMA KeptByReturn ==
    ASSUME TypeOK, NEW t \in Threads, ~Idle(t), calls' = [calls EXCEPT ![t] = Front(calls[t])],
           NEW P, SomeOpen(P), Last(calls[t]) \notin P
    PROVE  SomeOpen(P)'
<1>1. Front(calls[t]) \in Seq(OpenCalls)
  BY Innermost
<1>2. OpenIn(t)' = ToSet(Front(calls[t])) /\ \A u \in Threads \ {t} : OpenIn(u)' = OpenIn(u)
  BY <1>1, StackTypes DEF OpenIn
<1> QED BY <1>2, Innermost DEF SomeOpen

\* Some open call has P after the innermost one goes on and makes a call.
LEMMA KeptByNested ==
    ASSUME TypeOK, NEW t \in Threads, ~Idle(t), NEW c \in OpenCalls, NEW d \in OpenCalls,
           calls' = [calls EXCEPT ![t] = Append(Append(Front(calls[t]), c), d)],
           NEW P, SomeOpen(P), Last(calls[t]) \in P => c \in P \/ d \in P
    PROVE  SomeOpen(P)'
<1>1. /\ Append(Append(Front(calls[t]), c), d) \in Seq(OpenCalls)
      /\ ToSet(Append(Append(Front(calls[t]), c), d)) = ToSet(Front(calls[t])) \cup {c, d}
  <2>1. Append(Front(calls[t]), c) \in Seq(OpenCalls) /\ ToSet(Append(Front(calls[t]), c)) = ToSet(Front(calls[t])) \cup {c}
    BY Innermost, Pushing
  <2> DEFINE s == Append(Front(calls[t]), c)
  <2>2. s \in Seq(OpenCalls) /\ ToSet(s) = ToSet(Front(calls[t])) \cup {c}
    BY <2>1
  <2> HIDE DEF s
  <2>3. Append(s, d) \in Seq(OpenCalls) /\ ToSet(Append(s, d)) = ToSet(s) \cup {d}
    BY <2>2, Pushing
  <2>4. Append(s, d) \in Seq(OpenCalls) /\ ToSet(Append(s, d)) = ToSet(Front(calls[t])) \cup {c, d}
    BY <2>2, <2>3
  <2> QED BY <2>4 DEF s
<1>2. OpenIn(t)' = ToSet(Front(calls[t])) \cup {c, d} /\ \A u \in Threads \ {t} : OpenIn(u)' = OpenIn(u)
  BY <1>1, StackTypes DEF OpenIn
<1> QED BY <1>2, Innermost DEF SomeOpen

\* Only the listener loop writes its calls twice: what Notify does to them.
LEMMA NotifyOpens ==
    ASSUME TypeOK, NEW t \in Threads, Notify(t)
    PROVE  LET o == Last(calls[t]).of
               i == Last(calls[t]).next
           IN /\ ~Idle(t)
              /\ Last(calls[t]).call = "update"
              /\ o \in Objects /\ i \in 1..Len(Listeners[o])
              /\ Update(o, i + 1) \in OpenCalls
              /\ \E d \in OpenCalls :
                    /\ calls' = [calls EXCEPT ![t] = Append(Append(Front(calls[t]), Update(o, i + 1)), d)]
                    /\ \/ Listeners[o][i] = Client /\ d = SendMessage
                       \/ Listeners[o][i] \in Rules /\ d = Evaluate(Listeners[o][i], 1, FALSE)
<1> DEFINE o == Last(calls[t]).of
           i == Last(calls[t]).next
<1>1. ~Idle(t) /\ Last(calls[t]).call = "update" /\ o \in Objects /\ i \in 1..Len(Listeners[o])
  BY Innermost, CallKinds DEF Notify, In
<1>2. Update(o, i + 1) \in OpenCalls
  BY <1>1, CallTypes, ListenersTyped
<1>3. CASE Listeners[o][i] = Client
  BY <1>1, <1>2, <1>3, CallTypes DEF Notify
<1>4. CASE Listeners[o][i] # Client
  <2>1. Listeners[o][i] \in Rules
    BY <1>1, <1>4, ListenersTyped
  <2>2. Evaluate(Listeners[o][i], 1, FALSE) \in OpenCalls
    BY <2>1, CallTypes, ListenersTyped
  <2> QED BY <1>1, <1>2, <1>4, <2>1, <2>2 DEF Notify
<1> QED BY <1>3, <1>4

-----------------------------------------------------------------------------
\* Object::onUpdate writes the value to the storage at its end, and every
\* change of the value has its own onUpdate: as long as the storage is behind,
\* one is open.
LEMMA StorageStep ==
    ASSUME TypeOK, StorageInv, [Next]_vars
    PROVE  StorageInv'
<1> SUFFICES ASSUME NEW p \in Persisted, NEW P, P = Storing(p)
             PROVE  stored'[p] = value'[p] \/ SomeOpen(P)'
  BY DEF StorageInv
<1>0. p \in Objects /\ Knx \in Threads /\ Others \subseteq Threads
  BY DispatchConstants DEF Threads
<1>a. stored[p] = value[p] \/ SomeOpen(P)
  BY DEF StorageInv
<1>u. \A o \in Objects : \A i \in 0..Len(Listeners[o]) + 1 : Update(o, i) \in OpenCalls /\ (o = p => Update(o, i) \in P)
  BY CallTypes DEF Storing, Update
<1>n. \A c \in P : c.call = "update" /\ c.of = p
  BY DEF Storing
<1> USE CallTypes, ListenersTyped
<1>1. ASSUME NEW o \in Objects, NEW v \in BOOLEAN, OnWrite(o, v) \/ OnResponse(o, v)
      PROVE  stored'[p] = value'[p] \/ SomeOpen(P)'
  <2>1. DoWrite(o, v) /\ stored' = stored
    BY <1>1 DEF OnWrite, OnResponse
  <2>2. CASE Changes(o, v)
    <3>1. Push(Knx, Update(o, 1)) /\ value' = [value EXCEPT ![o] = v]
      BY <2>1, <2>2 DEF DoWrite
    <3>2. CASE o = p
      BY <1>0, <1>u, <3>1, <3>2, KeptByPush
    <3>3. CASE o # p
      <4>1. value'[p] = value[p]
        BY <3>1, <3>3
      <4> QED BY <1>0, <1>a, <1>u, <2>1, <3>1, <4>1, KeptByPush
    <3> QED BY <3>2, <3>3
  <2>3. CASE ~Changes(o, v)
    BY <1>a, <2>1, <2>3 DEF DoWrite, SomeOpen, OpenIn
  <2> QED BY <2>2, <2>3
<1>2. ASSUME NEW t \in Others, NEW o \in Objects, NEW v \in BOOLEAN, SetValue(t, o, v)
      PROVE  stored'[p] = value'[p] \/ SomeOpen(P)'
  <2>1. Push(t, Update(o, 0)) /\ value' = [value EXCEPT ![o] = v] /\ stored' = stored
    BY <1>2 DEF SetValue
  <2>2. CASE o = p
    BY <1>0, <1>u, <2>1, <2>2, KeptByPush
  <2>3. CASE o # p
    <3>1. value'[p] = value[p]
      BY <2>1, <2>3
    <3> QED BY <1>0, <1>a, <1>u, <2>1, <3>1, KeptByPush
  <2> QED BY <2>2, <2>3
<1>3. ASSUME NEW t \in Threads, Persist(t)
      PROVE  stored'[p] = value'[p] \/ SomeOpen(P)'
  <2> DEFINE o == Last(calls[t]).of
  <2>1. ~Idle(t) /\ o \in Objects /\ value' = value
        /\ calls' = [calls EXCEPT ![t] = Front(calls[t])]
    BY <1>3, Innermost, CallKinds DEF Persist, In, Return
  <2>2. CASE o = p
    BY <1>3, <1>0, <2>1, <2>2 DEF Persist, TypeOK
  <2>3. CASE o # p
    <3>1. stored'[p] = stored[p]
      BY <1>3, <1>0, <2>3 DEF Persist, TypeOK
    <3>2. Last(calls[t]) \notin P
      BY <1>n, <2>3
    <3> QED BY <1>a, <2>1, <3>1, <3>2, KeptByReturn
  <2> QED BY <2>2, <2>3
<1>4. ASSUME UNCHANGED <<value, stored>>, SomeOpen(P) => SomeOpen(P)'
      PROVE  stored'[p] = value'[p] \/ SomeOpen(P)'
  BY <1>4, <1>a
<1>5. ASSUME SomeOpen(P), NEW t \in Others, NEW r \in Rules, Initialize(t, r)
      PROVE  SomeOpen(P)'
  BY <1>0, <1>5, KeptByPush DEF Initialize
<1>6. ASSUME SomeOpen(P), NEW t \in Others, NEW o \in Objects, SendReadRequest(t, o)
      PROVE  SomeOpen(P)'
  <2>1. Read(o, IF readPending[o] THEN 1 ELSE 0) \in OpenCalls
    OBVIOUS
  <2> QED BY <1>0, <1>6, <2>1, KeptByPush DEF SendReadRequest
<1>7. ASSUME SomeOpen(P), NEW t \in Threads, StartUpdate(t)
      PROVE  SomeOpen(P)'
  <2>1. /\ ~Idle(t) /\ Last(calls[t]).of \in Objects
        /\ Replace(t, Update(Last(calls[t]).of, 1))
    BY <1>7, Innermost, CallKinds DEF StartUpdate, In
  <2>2. /\ Update(Last(calls[t]).of, 1) \in OpenCalls
        /\ Last(calls[t]) \in P => Update(Last(calls[t]).of, 1) \in P
    BY <1>u, <1>n, <2>1
  <2> QED BY <1>7, <2>1, <2>2, KeptByReplace
<1>8. ASSUME SomeOpen(P), NEW t \in Threads, Notify(t)
      PROVE  SomeOpen(P)'
  <2> DEFINE o == Last(calls[t]).of
             i == Last(calls[t]).next
  <2>1. /\ ~Idle(t) /\ o \in Objects /\ i \in 1..Len(Listeners[o])
        /\ Update(o, i + 1) \in OpenCalls
        /\ \E d \in OpenCalls :
              calls' = [calls EXCEPT ![t] = Append(Append(Front(calls[t]), Update(o, i + 1)), d)]
    BY <1>8, NotifyOpens
  <2>2. Last(calls[t]) \in P => Update(o, i + 1) \in P
    BY <1>u, <1>n, <2>1
  <2> QED BY <1>8, <2>1, <2>2, KeptByNested
<1>9. ASSUME SomeOpen(P), NEW t \in Threads, In(t, "send") \/ In(t, "evaluate") \/ In(t, "read"),
             calls' = [calls EXCEPT ![t] = Front(calls[t])]
      PROVE  SomeOpen(P)'
  <2>1. ~Idle(t) /\ Last(calls[t]) \notin P
    BY <1>9, <1>n DEF In
  <2> QED BY <1>9, <2>1, KeptByReturn
<1>10. ASSUME SomeOpen(P), NEW t \in Threads, TestOperand(t)
       PROVE  SomeOpen(P)'
  <2> DEFINE c == Last(calls[t])
             v == value[Operands[c.of][c.next]]
  <2>1. /\ ~Idle(t) /\ In(t, "evaluate") /\ c.call = "evaluate"
        /\ c.of \in Rules /\ c.next \in 1..Len(Operands[c.of])
    BY <1>10, Innermost, CallKinds DEF TestOperand, Testing, In
  <2>2. CASE Conclude(t, c.of, v)
    BY <1>9, <1>10, <2>1, <2>2 DEF Conclude, Return
  <2>3. CASE c.next # Len(Operands[c.of]) /\ Replace(t, Evaluate(c.of, c.next + 1, v))
    <3>1. v \in BOOLEAN /\ c.next + 1 \in 1..Len(Operands[c.of])
      BY <2>1, <2>3 DEF TypeOK
    <3>2. Evaluate(c.of, c.next + 1, v) \in OpenCalls /\ c \notin P
      BY <1>n, <2>1, <3>1
    <3> QED BY <1>10, <2>1, <2>3, <3>2, KeptByReplace
  <2> QED BY <1>10, <2>2, <2>3 DEF TestOperand
<1>11. ASSUME SomeOpen(P), NEW t \in Threads, EnterRead(t)
       PROVE  SomeOpen(P)'
  <2> DEFINE c == Last(calls[t])
             o == Operands[c.of][c.next]
  <2>1. c.of \in Rules /\ c.next \in 1..Len(Operands[c.of])
    BY <1>11, Innermost, CallKinds DEF EnterRead, In
  <2>2. Read(o, IF readPending[o] THEN 1 ELSE 0) \in OpenCalls
    BY <2>1
  <2> QED BY <1>11, <2>2, KeptByPush DEF EnterRead
<1>12. ASSUME SomeOpen(P), NEW t \in Threads, ReadSent(t)
       PROVE  SomeOpen(P)'
  <2>1. ~Idle(t) /\ Last(calls[t]).of \in Objects /\ Last(calls[t]).call = "read"
    BY <1>12, Innermost, CallKinds DEF ReadSent, In
  <2> QED BY <1>n, <1>12, <2>1, KeptByReplace DEF ReadSent
<1>13. ASSUME SomeOpen(P), NEW t \in Threads,
              SendMessageEnd(t) \/ TestThreshold(t) \/ LeaveRead(t)
       PROVE  SomeOpen(P)'
  BY <1>9, <1>13 DEF SendMessageEnd, TestThreshold, Testing, Conclude, Return, LeaveRead, Waiting
<1>14. ASSUME SomeOpen(P), UNCHANGED calls
       PROVE  SomeOpen(P)'
  BY <1>14 DEF SomeOpen, OpenIn
<1>15. ASSUME NEW t \in Threads, Run(t)
       PROVE  stored'[p] = value'[p] \/ SomeOpen(P)'
  <2>1. CASE StartUpdate(t)
    BY <2>1, <1>4, <1>7 DEF StartUpdate
  <2>2. CASE Notify(t)
    BY <2>2, <1>4, <1>8 DEF Notify, object
  <2>3. CASE SendMessageEnd(t)
    BY <2>3, <1>4, <1>13 DEF SendMessageEnd, object
  <2>4. CASE TestOperand(t)
    BY <2>4, <1>4, <1>10 DEF TestOperand, object
  <2>5. CASE TestThreshold(t)
    BY <2>5, <1>4, <1>13 DEF TestThreshold, object
  <2>6. CASE EnterRead(t)
    BY <2>6, <1>4, <1>11 DEF EnterRead, object
  <2>7. CASE ReadSent(t)
    BY <2>7, <1>4, <1>12 DEF ReadSent
  <2>8. CASE LeaveRead(t)
    BY <2>8, <1>4, <1>13 DEF LeaveRead
  <2>9. CASE StayInRead(t)
    BY <2>9, <1>4, <1>14 DEF StayInRead, object
  <2> QED BY <1>3, <1>15, <2>1, <2>2, <2>3, <2>4, <2>5, <2>6, <2>7, <2>8, <2>9 DEF Run
<1>16. ASSUME NEW t \in Others, NEW r \in Rules, Initialize(t, r)
       PROVE  stored'[p] = value'[p] \/ SomeOpen(P)'
  BY <1>4, <1>5, <1>16 DEF Initialize, object
<1>17. ASSUME NEW t \in Others, NEW o \in Objects, SendReadRequest(t, o)
       PROVE  stored'[p] = value'[p] \/ SomeOpen(P)'
  BY <1>4, <1>6, <1>17 DEF SendReadRequest, object
<1>18. CASE UNCHANGED vars
  BY <1>4, <1>14, <1>18 DEF vars, object
<1>19. CASE Next
  BY <1>1, <1>2, <1>15, <1>16, <1>17, <1>19, Zenon DEF Next
<1> QED BY <1>18, <1>19

\* When no call is open every persistent value is in the storage, whatever
\* threads set objects while others still notify (Object::onUpdate).
THEOREM StorageSettledEver == Spec => []StorageSettled
<1>1. Init => StorageInv
  BY DispatchConstants DEF Init, StorageInv
<1>2. TypeOK /\ StorageInv /\ [Next]_vars => StorageInv'
  BY StorageStep
<1>3. StorageInv => StorageSettled
  BY EmptyStack DEF StorageInv, StorageSettled, Quiet, Idle, SomeOpen, OpenIn
<1> QED BY <1>1, <1>2, <1>3, DispatchTypeOK, PTL DEF Spec

-----------------------------------------------------------------------------
\* Every change keeps the later operands known: init_m is never taken back.
LEMMA LaterKnownStep ==
    ASSUME TypeOK, LaterKnown, [Next]_vars
    PROVE  LaterKnown'
<1> USE ListenersTyped
<1>0. Knx \in Threads /\ Others \subseteq Threads
  BY DEF Threads
<1>1. ASSUME NEW o \in Objects, init' = init \/ init' = [init EXCEPT ![o] = TRUE]
      PROVE  LaterKnown'
  <2> SUFFICES ASSUME NEW r \in Rules, NEW i \in 2..Len(Operands[r])
               PROVE  init'[Operands[r][i]]
    BY DEF LaterKnown
  <2>1. init[Operands[r][i]] /\ Operands[r][i] \in Objects
    BY DEF LaterKnown
  <2> QED BY <1>1, <2>1 DEF TypeOK
<1>2. CASE init' = init
  BY <1>2 DEF LaterKnown
<1>3. ASSUME NEW o \in Objects, NEW v \in BOOLEAN, OnWrite(o, v) \/ OnResponse(o, v)
      PROVE  LaterKnown'
  BY <1>1, <1>3 DEF OnWrite, OnResponse, DoWrite
<1>4. ASSUME NEW t \in Threads, StartUpdate(t) \/ LeaveRead(t)
      PROVE  LaterKnown'
  <2>1. Last(calls[t]).of \in Objects
    BY <1>4, Innermost, CallKinds DEF StartUpdate, LeaveRead, Waiting, In
  <2> QED BY <1>1, <1>4, <2>1 DEF StartUpdate, LeaveRead
<1>5. ASSUME NEW t \in Threads, Run(t)
      PROVE  LaterKnown'
  BY <1>2, <1>4, <1>5
  DEF Run, Notify, SendMessageEnd, Persist, TestOperand, TestThreshold, EnterRead, ReadSent, StayInRead, object
<1>6. CASE Next
  <2>1. ASSUME NEW t \in Others, NEW o \in Objects, NEW v \in BOOLEAN, SetValue(t, o, v)
        PROVE  LaterKnown'
    BY <1>2, <2>1 DEF SetValue
  <2>2. ASSUME NEW t \in Others, NEW r \in Rules, Initialize(t, r)
        PROVE  LaterKnown'
    BY <1>2, <2>2 DEF Initialize, object
  <2>3. ASSUME NEW t \in Others, NEW o \in Objects, SendReadRequest(t, o)
        PROVE  LaterKnown'
    BY <1>2, <2>3 DEF SendReadRequest, object
  <2> QED BY <1>3, <1>5, <1>6, <2>1, <2>2, <2>3, Zenon DEF Next
<1>7. CASE UNCHANGED vars
  BY <1>2, <1>7 DEF vars, object
<1> QED BY <1>6, <1>7

\* Whoever may act finds all other threads outside of half-done evaluations.
LEMMA OthersCalm ==
    ASSUME TypeOK, EvaluationsInv, NEW t \in Threads, cpu \in {Nobody, t}
    PROVE  /\ \A u \in Threads \ {t} : Calm(OpenIn(u))
           /\ ~Idle(t) => Calm(ToSet(Front(calls[t])))
           /\ cpu = Nobody => Calm(OpenIn(t))
<1>1. Nobody \notin Threads
  BY DispatchConstants
<1>2. ~Idle(t) => OpenIn(t) = ToSet(Front(calls[t])) \cup {Last(calls[t])}
  BY Innermost
<1> QED BY <1>1, <1>2 DEF EvaluationsInv, Calm

\* A step of thread t leaves all evaluations at their first operand.
LEMMA CalmStep ==
    ASSUME TypeOK, EvaluationsInv, NEW t \in Threads, cpu \in {Nobody, t},
           NEW s \in Seq(OpenCalls), calls' = [calls EXCEPT ![t] = s], Calm(ToSet(s))
    PROVE  EvaluationsInv'
<1>1. \A u \in Threads \ {t} : OpenIn(u)' = OpenIn(u) /\ Calm(OpenIn(u))
  BY OthersCalm, StackTypes DEF OpenIn
<1>2. OpenIn(t)' = ToSet(s)
  BY StackTypes DEF OpenIn
<1>3. \A u \in Threads : Calm(OpenIn(u)')
  BY <1>1, <1>2
<1> QED BY <1>3 DEF EvaluationsInv, Calm

\* A call is made from a thread that evaluates nothing.
LEMMA CalmPush ==
    ASSUME TypeOK, EvaluationsInv, NEW t \in Threads, cpu \in {Nobody, t}, Calm(OpenIn(t)),
           NEW c \in OpenCalls, c.call = "evaluate" => c.next = 1, Push(t, c)
    PROVE  EvaluationsInv'
<1>1. Append(calls[t], c) \in Seq(OpenCalls) /\ ToSet(Append(calls[t], c)) = OpenIn(t) \cup {c}
  BY Pushing DEF TypeOK, OpenIn
<1>2. Calm(ToSet(Append(calls[t], c)))
  BY <1>1 DEF Calm
<1>3. calls' = [calls EXCEPT ![t] = Append(calls[t], c)]
  BY DEF Push
<1> QED BY <1>1, <1>2, <1>3, CalmStep

\* The innermost call goes on, and evaluates from the start if it does.
LEMMA CalmReplace ==
    ASSUME TypeOK, EvaluationsInv, NEW t \in Threads, cpu \in {Nobody, t}, ~Idle(t),
           NEW c \in OpenCalls, c.call = "evaluate" => c.next = 1, Replace(t, c)
    PROVE  EvaluationsInv'
<1>1. /\ Append(Front(calls[t]), c) \in Seq(OpenCalls)
      /\ ToSet(Append(Front(calls[t]), c)) = ToSet(Front(calls[t])) \cup {c}
  BY Innermost, Pushing
<1>2. Calm(ToSet(Append(Front(calls[t]), c)))
  BY <1>1, OthersCalm DEF Calm
<1>3. calls' = [calls EXCEPT ![t] = Append(Front(calls[t]), c)]
  BY DEF Replace
<1> QED BY <1>1, <1>2, <1>3, CalmStep

\* The innermost call returns.
LEMMA CalmReturn ==
    ASSUME TypeOK, EvaluationsInv, NEW t \in Threads, cpu \in {Nobody, t}, ~Idle(t),
           calls' = [calls EXCEPT ![t] = Front(calls[t])]
    PROVE  EvaluationsInv'
<1>1. Front(calls[t]) \in Seq(OpenCalls) /\ Calm(ToSet(Front(calls[t])))
  BY Innermost, OthersCalm
<1> QED BY <1>1, CalmStep

\* An evaluation keeps the processor behind its first operand, because the
\* objects there have values; so what it found stays true until it concludes.
LEMMA EvaluationsStep ==
    ASSUME TypeOK, LaterKnown, EvaluationsInv, [Next]_vars
    PROVE  EvaluationsInv'
<1> USE CallTypes, ListenersTyped
<1>0. Knx \in Threads /\ Others \subseteq Threads
  BY DEF Threads
<1>k. /\ \A o, i : Update(o, i).call = "update" /\ Read(o, i).call = "read"
      /\ SendMessage.call = "send"
      /\ \A r, i, found : /\ Evaluate(r, i, found).call = "evaluate"
                         /\ Evaluate(r, i, found).of = r
                         /\ Evaluate(r, i, found).next = i
                         /\ Evaluate(r, i, found).found = found
  BY DEF Update, Read, SendMessage, Evaluate
<1>1. ASSUME NEW o \in Objects, NEW v \in BOOLEAN, OnWrite(o, v) \/ OnResponse(o, v)
      PROVE  EvaluationsInv'
  <2>1. DoWrite(o, v) /\ cpu = Nobody
    BY <1>1 DEF OnWrite, OnResponse, Receives
  <2>2. CASE Push(Knx, Update(o, 1))
    BY <1>0, <1>k, <2>1, <2>2, OthersCalm, CalmPush
  <2>3. CASE UNCHANGED <<value, calls, cpu>>
    BY <2>3 DEF EvaluationsInv, OpenIn, In, Idle, Tested
  <2> QED BY <2>1, <2>2, <2>3 DEF DoWrite
<1>2. ASSUME NEW t \in Others, NEW o \in Objects, NEW v \in BOOLEAN, SetValue(t, o, v)
      PROVE  EvaluationsInv'
  BY <1>0, <1>2, <1>k, OthersCalm, CalmPush DEF SetValue
<1>3. ASSUME NEW t \in Others, NEW r \in Rules, Initialize(t, r)
      PROVE  EvaluationsInv'
  <2>1. t \in Threads /\ cpu = Nobody /\ Push(t, Evaluate(r, 1, FALSE))
    BY <1>0, <1>3 DEF Initialize
  <2>2. Evaluate(r, 1, FALSE) \in OpenCalls /\ Evaluate(r, 1, FALSE).next = 1
    <3>1. Evaluate(r, 1, FALSE).next = 1
      BY DEF Evaluate
    <3> QED BY <3>1
  <2>3. Calm(OpenIn(t))
    BY <2>1, OthersCalm
  <2> QED BY <2>1, <2>2, <2>3, CalmPush
<1>4. ASSUME NEW t \in Others, NEW o \in Objects, SendReadRequest(t, o)
      PROVE  EvaluationsInv'
  <2>1. Read(o, IF readPending[o] THEN 1 ELSE 0) \in OpenCalls
    OBVIOUS
  <2>2. t \in Threads /\ cpu = Nobody /\ Push(t, Read(o, IF readPending[o] THEN 1 ELSE 0))
    BY <1>0, <1>4 DEF SendReadRequest
  <2>3. Calm(OpenIn(t))
    BY <2>2, OthersCalm
  <2> QED BY <1>k, <2>1, <2>2, <2>3, CalmPush
<1>5. ASSUME NEW t \in Threads, StartUpdate(t)
      PROVE  EvaluationsInv'
  <2>1. ~Idle(t) /\ Update(Last(calls[t]).of, 1) \in OpenCalls
    BY <1>5, Innermost, CallKinds DEF StartUpdate, In
  <2> QED BY <1>5, <1>k, <2>1, CalmReplace DEF StartUpdate
<1>6. ASSUME NEW t \in Threads, Notify(t)
      PROVE  EvaluationsInv'
  <2> DEFINE o == Last(calls[t]).of
             i == Last(calls[t]).next
             c == Update(o, i + 1)
  <2>1. ~Idle(t) /\ cpu = t /\ c \in OpenCalls
    BY <1>6, NotifyOpens DEF Notify
  <2>a. PICK d \in OpenCalls :
              /\ calls' = [calls EXCEPT ![t] = Append(Append(Front(calls[t]), c), d)]
              /\ d = SendMessage \/ d = Evaluate(Listeners[o][i], 1, FALSE)
    BY <1>6, NotifyOpens
  <2>2. /\ calls' = [calls EXCEPT ![t] = Append(Append(Front(calls[t]), c), d)]
        /\ d.call = "evaluate" => d.next = 1
    <3>1. SendMessage.call # "evaluate"
      BY DEF SendMessage
    <3>2. Evaluate(Listeners[o][i], 1, FALSE).next = 1
      BY DEF Evaluate
    <3> QED BY <2>a, <3>1, <3>2
  <2> DEFINE s == Append(Front(calls[t]), c)
  <2>3. s \in Seq(OpenCalls) /\ ToSet(s) = ToSet(Front(calls[t])) \cup {c}
    BY <2>1, Innermost, Pushing
  <2>4. c.call # "evaluate"
    BY <1>k
  <2> HIDE DEF s, c
  <2>5. Append(s, d) \in Seq(OpenCalls) /\ ToSet(Append(s, d)) = ToSet(s) \cup {d}
    BY <2>3, Pushing
  <2>6. Calm(ToSet(Append(s, d)))
    BY <2>1, <2>2, <2>3, <2>4, <2>5, OthersCalm DEF Calm
  <2>7. calls' = [calls EXCEPT ![t] = Append(s, d)]
    BY <2>2 DEF s
  <2> QED BY <2>1, <2>5, <2>6, <2>7, CalmStep
<1>7. ASSUME NEW t \in Threads, SendMessageEnd(t) \/ Persist(t) \/ TestThreshold(t) \/ LeaveRead(t)
      PROVE  EvaluationsInv'
  <2>1. ~Idle(t) /\ cpu \in {Nobody, t} /\ calls' = [calls EXCEPT ![t] = Front(calls[t])]
    BY <1>7 DEF SendMessageEnd, Persist, TestThreshold, Testing, Conclude, Return, LeaveRead, Waiting, In
  <2> QED BY <2>1, CalmReturn
<1>8. ASSUME NEW t \in Threads, TestOperand(t)
      PROVE  EvaluationsInv'
  <2> DEFINE c == Last(calls[t])
             r == c.of
             i == c.next
             v == value[Operands[r][i]]
  <2>1. /\ ~Idle(t) /\ cpu = t /\ c \in OpenCalls /\ c.call = "evaluate"
        /\ r \in Rules /\ i \in 1..Len(Operands[r]) /\ In(t, "evaluate")
        /\ value' = value
    BY <1>8, Innermost, CallKinds DEF TestOperand, Testing, In, object
  <2>2. CASE Conclude(t, r, v)
    BY <2>1, <2>2, CalmReturn DEF Conclude, Return
  <2>3. CASE /\ i # Len(Operands[r]) /\ ~Decides(r, v)
             /\ Replace(t, Evaluate(r, i + 1, v))
             /\ cpu' = cpu
    <3>1. v \in BOOLEAN /\ i + 1 \in 1..Len(Operands[r])
      BY <2>1, <2>3 DEF TypeOK
    <3> DEFINE d == Evaluate(r, i + 1, v)
    <3>2. /\ d \in OpenCalls /\ d.call = "evaluate" /\ d.of = r /\ d.next = i + 1 /\ d.found = v
      BY <1>k, <2>1, <3>1
    <3> HIDE DEF d
    <3>3. /\ Append(Front(calls[t]), d) \in Seq(OpenCalls)
          /\ Append(Front(calls[t]), d) # <<>>
          /\ Last(Append(Front(calls[t]), d)) = d
          /\ Front(Append(Front(calls[t]), d)) = Front(calls[t])
      BY <2>1, <3>2, Innermost, Pushing
    <3>4. /\ calls'[t] = Append(Front(calls[t]), d)
          /\ \A u \in Threads \ {t} : calls'[u] = calls[u]
      BY <2>3, <3>3, StackTypes DEF Replace, d
    <3>5. In(t, "evaluate")' /\ Last(calls[t])' = d
      BY <3>2, <3>3, <3>4 DEF In, Idle
    <3>6. Calm(ToSet(Front(calls[t])))' 
      <4>1. Calm(ToSet(Front(calls[t])))
        BY <2>1, OthersCalm
      <4>2. Front(calls'[t]) = Front(calls[t])
        BY <3>3, <3>4
      <4> QED BY <4>1, <4>2 DEF Calm
    <3>7. Tested(d)
      <4>1. CASE Operator[r] = "threshold"
        <5>1. i = 1
          BY <1>8, <4>1 DEF TestOperand
        <5> QED BY <2>1, <3>2, <4>1, <5>1 DEF Tested
      <4>2. CASE Operator[r] # "threshold"
        <5>1. \A j \in 1..i - 1 : ~Decides(r, value[Operands[r][j]])
          <6>1. CASE i = 1
            BY <6>1
          <6>2. CASE i # 1
            <7>1. c \in OpenIn(t)
              BY <2>1, Innermost
            <7>2. Tested(c)
              BY <2>1, <6>2, <7>1 DEF EvaluationsInv, Calm
            <7> QED BY <4>2, <7>2 DEF Tested
          <6> QED BY <6>1, <6>2
        <5>2. \A j \in 1..i : j \in 1..i - 1 \/ j = i
          BY <2>1
        <5>3. \A j \in 1..d.next - 1 : ~Decides(d.of, value[Operands[d.of][j]])
          BY <2>1, <2>3, <3>2, <5>1, <5>2
        <5> QED BY <3>2, <4>2, <5>3 DEF Tested
      <4> QED BY <4>1, <4>2
    <3>8. \A u \in Threads \ {t} : Calm(OpenIn(u))'
      <4>1. \A u \in Threads \ {t} : Calm(OpenIn(u))
        BY <2>1, OthersCalm
      <4> QED BY <3>4, <4>1 DEF OpenIn, Calm
    <3>9. \/ Calm(OpenIn(t))'
          \/ cpu' = t /\ In(t, "evaluate")' /\ Tested(Last(calls[t]))' /\ Calm(ToSet(Front(calls[t])))'
      <4>1. Tested(Last(calls[t]))'
        BY <2>1, <3>5, <3>7 DEF Tested
      <4> QED BY <2>1, <2>3, <3>5, <3>6, <4>1
    <3> QED BY <3>8, <3>9 DEF EvaluationsInv
  <2> QED BY <1>8, <2>2, <2>3 DEF TestOperand
<1>9. ASSUME NEW t \in Threads, EnterRead(t)
      PROVE  EvaluationsInv'
  <2> DEFINE c == Last(calls[t])
             o == Operands[c.of][c.next]
  <2>1. /\ ~Idle(t) /\ cpu = t /\ c.call = "evaluate" /\ c.of \in Rules
        /\ c.next \in 1..Len(Operands[c.of]) /\ ~init[o]
    BY <1>9, Innermost, CallKinds DEF EnterRead, In
  <2>2. Read(o, IF readPending[o] THEN 1 ELSE 0) \in OpenCalls
    BY <2>1
  <2>3. c.next = 1
    BY <2>1 DEF LaterKnown
  <2>4. Calm(OpenIn(t))
    BY <2>1, <2>3, OthersCalm, Innermost DEF Calm
  <2> QED BY <1>9, <1>k, <2>1, <2>2, <2>4, CalmPush DEF EnterRead
<1>10. ASSUME NEW t \in Threads, ReadSent(t)
       PROVE  EvaluationsInv'
  <2>1. ~Idle(t) /\ Read(Last(calls[t]).of, 1) \in OpenCalls
    BY <1>10, Innermost, CallKinds DEF ReadSent, In
  <2> QED BY <1>10, <1>k, <2>1, CalmReplace DEF ReadSent
<1>11. ASSUME NEW t \in Threads, StayInRead(t)
       PROVE  EvaluationsInv'
  <2>1. ~Idle(t) /\ cpu = t /\ Last(calls[t]).call = "read" /\ calls' = calls
    BY <1>11 DEF StayInRead, Waiting, In
  <2>2. Calm(OpenIn(t))
    BY <2>1, OthersCalm, Innermost DEF Calm
  <2>3. \A u \in Threads : Calm(OpenIn(u))
    BY <2>1, <2>2, OthersCalm
  <2> QED BY <2>1, <2>3 DEF EvaluationsInv, OpenIn
<1>12. CASE UNCHANGED vars
  BY <1>12 DEF vars, object, EvaluationsInv, OpenIn, In, Idle, Tested
<1>13. ASSUME NEW t \in Threads, Run(t)
       PROVE  EvaluationsInv'
  BY <1>5, <1>6, <1>7, <1>8, <1>9, <1>10, <1>11, <1>13, Zenon DEF Run
<1>14. CASE Next
  BY <1>1, <1>2, <1>3, <1>4, <1>13, <1>14, Zenon DEF Next
<1> QED BY <1>12, <1>14

\* A rule none of whose operands changes, and which no evaluation concludes,
\* stays settled.
LEMMA SettledStays ==
    ASSUME TypeOK, NEW r \in Rules, Settled(r),
           prevValue'[r] = prevValue[r], refValue'[r] = refValue[r],
           \A i \in 1..Len(Operands[r]) : value'[Operands[r][i]] = value[Operands[r][i]]
    PROVE  Settled(r)'
<1>1. Operator[r] \in {"and", "or", "threshold"} /\ (Operator[r] = "threshold" => Len(Operands[r]) = 2)
  BY DispatchConstants
<1>2. CASE Operator[r] = "and"
  BY <1>2 DEF Settled, Truth
<1>3. CASE Operator[r] = "or"
  BY <1>3 DEF Settled, Truth
<1>4. CASE Operator[r] = "threshold"
  <2>0. Len(Operands[r]) = 2
    BY <1>1, <1>4
  <2>1. 1 \in 1..Len(Operands[r]) /\ 2 \in 1..Len(Operands[r])
    BY <2>0
  <2> QED BY <1>4, <2>1 DEF Settled, Truth, Exceeded
<1> QED BY <1>1, <1>2, <1>3, <1>4

\* An evaluation that ends at an operand concludes with the present truth value.
LEMMA OperandConcludes ==
    ASSUME TypeOK, NEW r \in Rules, NEW i \in 1..Len(Operands[r]), Operator[r] # "threshold",
           \A j \in 1..i - 1 : ~Decides(r, value[Operands[r][j]]),
           Decides(r, value[Operands[r][i]]) \/ i = Len(Operands[r])
    PROVE  Truth(r) = value[Operands[r][i]]
<1> DEFINE v(j) == value[Operands[r][j]]
<1>1. Operator[r] \in {"and", "or"}
  BY DispatchConstants
<1>2. Len(Operands[r]) \in Nat /\ \A j \in 1..Len(Operands[r]) : v(j) \in BOOLEAN
  BY ListenersTyped DEF TypeOK
<1>3. i = Len(Operands[r]) => \A j \in 1..Len(Operands[r]) : j \in 1..i - 1 \/ j = i
  BY <1>2
<1>4. CASE Operator[r] = "and"
  <2>1. Truth(r) = \A j \in 1..Len(Operands[r]) : v(j)
    BY <1>4 DEF Truth
  <2>2. CASE ~v(i)
    BY <2>1, <2>2, <1>2
  <2>3. CASE v(i)
    <3>0. \A j \in 1..Len(Operands[r]) : Decides(r, v(j)) <=> ~v(j)
      BY <1>2, <1>4 DEF Decides
    <3>1. \A j \in 1..i - 1 : j \in 1..Len(Operands[r])
      BY <1>2
    <3>2. \A j \in 1..i - 1 : v(j)
      BY <3>0, <3>1
    <3>3. i = Len(Operands[r])
      BY <2>3, <3>0
    <3>4. Truth(r) = TRUE
      BY <1>3, <2>1, <2>3, <3>2, <3>3
    <3> QED BY <1>2, <2>3, <3>4
  <2> QED BY <2>2, <2>3
<1>5. CASE Operator[r] = "or"
  <2>1. Truth(r) = \E j \in 1..Len(Operands[r]) : v(j)
    BY <1>5 DEF Truth
  <2>2. CASE v(i)
    BY <2>1, <2>2, <1>2
  <2>3. CASE ~v(i)
    <3>1. i = Len(Operands[r]) /\ \A j \in 1..i - 1 : ~v(j)
      BY <1>2, <1>5, <2>3 DEF Decides
    <3>2. Truth(r) = FALSE
      BY <1>3, <2>1, <2>3, <3>1
    <3> QED BY <1>2, <2>3, <3>2
  <2> QED BY <2>2, <2>3
<1> QED BY <1>1, <1>4, <1>5

\* An object that changes notifies the rules that depend on it.
LEMMA UpdateReaches ==
    ASSUME NEW r \in Rules, NEW o \in Objects, Operand(r, o), NEW i \in {0, 1}
    PROVE  Update(o, i) \in Reaching(r)
<1>1. Contains(Listeners[o], r)
  BY DispatchConstants DEF Operand
<1>2. PICK k \in 1..Len(Listeners[o]) : Listeners[o][k] = r
  BY <1>1 DEF Contains
<1>3. Len(Listeners[o]) \in Nat
  BY ListenersTyped
<1>4. Update(o, i) \in OpenCalls
  BY <1>3, CallTypes
<1>5. k >= i
  BY <1>3
<1> QED BY <1>2, <1>4, <1>5 DEF Reaching, Reaches, Update

\* What a step that changes no value, no remembered truth value and no
\* reference has to keep open.
LEMMA RulesStep ==
    ASSUME TypeOK, EvaluationsInv, RulesInv, [Next]_vars
    PROVE  RulesInv'
<1> SUFFICES ASSUME NEW r \in Rules, NEW P, P = Reaching(r)
             PROVE  Settled(r)' \/ SomeOpen(P)'
  BY DEF RulesInv
<1> USE CallTypes, ListenersTyped
<1>0. Knx \in Threads /\ Others \subseteq Threads /\ Client \notin Rules
  BY DispatchConstants DEF Threads
<1>a. Settled(r) \/ SomeOpen(P)
  BY DEF RulesInv
<1>n. \A c \in P : (c.call = "evaluate" /\ c.of = r) \/ c.call = "update"
  BY DEF Reaching, Reaches
<1>v. ASSUME NEW t \in Threads, NEW o \in Objects, NEW v \in BOOLEAN, NEW i \in {0, 1},
             value' = [value EXCEPT ![o] = v], UNCHANGED rule, Push(t, Update(o, i))
      PROVE  Settled(r)' \/ SomeOpen(P)'
  <2>1. Update(o, i) \in OpenCalls
    OBVIOUS
  <2>2. CASE Operand(r, o)
    <3>1. Update(o, i) \in P
      BY <2>2, UpdateReaches
    <3> QED BY <1>v, <2>1, <3>1, KeptByPush
  <2>3. CASE ~Operand(r, o)
    <3>1. CASE SomeOpen(P)
      BY <1>v, <2>1, <3>1, KeptByPush
    <3>2. CASE Settled(r)
      <4>1. \A j \in 1..Len(Operands[r]) : value'[Operands[r][j]] = value[Operands[r][j]]
        BY <1>v, <2>3 DEF Operand, TypeOK
      <4> QED BY <1>v, <3>2, <4>1, SettledStays DEF rule
    <3> QED BY <1>a, <3>1, <3>2
  <2> QED BY <2>2, <2>3
<1>s. ASSUME value' = value, prevValue'[r] = prevValue[r], refValue'[r] = refValue[r],
             SomeOpen(P) => SomeOpen(P)'
      PROVE  Settled(r)' \/ SomeOpen(P)'
  BY <1>a, <1>s, SettledStays
<1>1. ASSUME NEW o \in Objects, NEW v \in BOOLEAN, OnWrite(o, v) \/ OnResponse(o, v)
      PROVE  Settled(r)' \/ SomeOpen(P)'
  <2>1. DoWrite(o, v) /\ UNCHANGED rule
    BY <1>1 DEF OnWrite, OnResponse
  <2>2. CASE Changes(o, v)
    BY <1>0, <1>v, <2>1, <2>2 DEF DoWrite
  <2>3. CASE ~Changes(o, v)
    <3>1. value' = value /\ calls' = calls
      BY <2>1, <2>3 DEF DoWrite
    <3> QED BY <1>s, <2>1, <3>1 DEF rule, SomeOpen, OpenIn
  <2> QED BY <2>2, <2>3
<1>2. ASSUME NEW t \in Others, NEW o \in Objects, NEW v \in BOOLEAN, SetValue(t, o, v)
      PROVE  Settled(r)' \/ SomeOpen(P)'
  BY <1>0, <1>v, <1>2 DEF SetValue
<1>3. ASSUME NEW t \in Others, NEW q \in Rules, Initialize(t, q)
      PROVE  Settled(r)' \/ SomeOpen(P)'
  <2>1. Push(t, Evaluate(q, 1, FALSE)) /\ Evaluate(q, 1, FALSE) \in OpenCalls
    BY <1>3 DEF Initialize
  <2>2. SomeOpen(P) => SomeOpen(P)'
    BY <1>0, <2>1, KeptByPush
  <2> QED BY <1>3, <1>s, <2>2 DEF Initialize, object, rule
<1>4. ASSUME NEW t \in Others, NEW o \in Objects, SendReadRequest(t, o)
      PROVE  Settled(r)' \/ SomeOpen(P)'
  <2>1. Read(o, IF readPending[o] THEN 1 ELSE 0) \in OpenCalls
    OBVIOUS
  <2>2. SomeOpen(P) => SomeOpen(P)'
    BY <1>0, <1>4, <2>1, KeptByPush DEF SendReadRequest
  <2> QED BY <1>4, <1>s, <2>2 DEF SendReadRequest, object, rule
<1>5. ASSUME NEW t \in Threads, StartUpdate(t)
      PROVE  Settled(r)' \/ SomeOpen(P)'
  <2> DEFINE c == Last(calls[t])
  <2>1. /\ ~Idle(t) /\ c \in OpenCalls /\ c.call = "update" /\ c.of \in Objects /\ c.next = 0
        /\ Replace(t, Update(c.of, 1)) /\ Update(c.of, 1) \in OpenCalls
    BY <1>5, Innermost, CallKinds DEF StartUpdate, In
  <2>2. c \in P => Operand(r, c.of)
    BY <2>1 DEF Reaching, Reaches
  <2>3. c \in P => Update(c.of, 1) \in P
    BY <2>1, <2>2, UpdateReaches
  <2>4. SomeOpen(P) => SomeOpen(P)'
    BY <2>1, <2>3, KeptByReplace
  <2> QED BY <1>5, <1>s, <2>4 DEF StartUpdate, rule
<1>6. ASSUME NEW t \in Threads, Notify(t)
      PROVE  Settled(r)' \/ SomeOpen(P)'
  <2> DEFINE c == Last(calls[t])
             o == c.of
             i == c.next
             d == Update(o, i + 1)
  <2>1. ~Idle(t) /\ c.call = "update" /\ o \in Objects /\ i \in 1..Len(Listeners[o]) /\ d \in OpenCalls
    BY <1>6, NotifyOpens
  <2>2. PICK e \in OpenCalls :
              /\ calls' = [calls EXCEPT ![t] = Append(Append(Front(calls[t]), d), e)]
              /\ \/ Listeners[o][i] = Client /\ e = SendMessage
                 \/ Listeners[o][i] \in Rules /\ e = Evaluate(Listeners[o][i], 1, FALSE)
    BY <1>6, NotifyOpens
  <2>3. ASSUME c \in P
        PROVE  d \in P \/ e \in P
    <3>1. Operand(r, o) /\ \E k \in 1..Len(Listeners[o]) : k >= i /\ Listeners[o][k] = r
      BY <2>1, <2>3 DEF Reaching, Reaches
    <3>2. PICK k \in 1..Len(Listeners[o]) : k >= i /\ Listeners[o][k] = r
      BY <3>1
    <3>3. CASE k = i
      <4>1. e = Evaluate(r, 1, FALSE)
        BY <1>0, <2>2, <3>2, <3>3
      <4> QED BY <4>1 DEF Reaching, Reaches, Evaluate
    <3>4. CASE k # i
      <4>1. k >= i + 1
        BY <2>1, <3>2, <3>4
      <4>2. d.call = "update" /\ d.of = o /\ d.next = i + 1
        BY DEF Update
      <4> HIDE DEF d
      <4> QED BY <2>1, <3>1, <3>2, <4>1, <4>2 DEF Reaching, Reaches
    <3> QED BY <3>3, <3>4
  <2>4. SomeOpen(P) => SomeOpen(P)'
    BY <2>1, <2>2, <2>3, KeptByNested
  <2> QED BY <1>6, <1>s, <2>4 DEF Notify, object, rule
<1>7. ASSUME NEW t \in Threads, ~Idle(t), calls' = [calls EXCEPT ![t] = Front(calls[t])],
             Last(calls[t]) \notin P
      PROVE  SomeOpen(P) => SomeOpen(P)'
  BY <1>7, KeptByReturn
<1>8. ASSUME NEW t \in Threads, SendMessageEnd(t) \/ LeaveRead(t)
      PROVE  Settled(r)' \/ SomeOpen(P)'
  <2>1. /\ ~Idle(t) /\ Last(calls[t]).call \in {"send", "read"}
        /\ calls' = [calls EXCEPT ![t] = Front(calls[t])]
        /\ value' = value /\ UNCHANGED rule
    BY <1>8 DEF SendMessageEnd, LeaveRead, Waiting, In, object
  <2>2. Last(calls[t]) \notin P
    BY <1>n, <2>1
  <2>3. SomeOpen(P) => SomeOpen(P)'
    BY <1>7, <2>1, <2>2
  <2> QED BY <1>s, <2>1, <2>3 DEF rule
<1>9. ASSUME NEW t \in Threads, Persist(t)
      PROVE  Settled(r)' \/ SomeOpen(P)'
  <2> DEFINE c == Last(calls[t])
  <2>1. /\ ~Idle(t) /\ c.call = "update" /\ c.of \in Objects /\ c.next \in Nat /\ c.next > Len(Listeners[c.of])
        /\ calls' = [calls EXCEPT ![t] = Front(calls[t])]
        /\ value' = value /\ UNCHANGED rule
    BY <1>9, Innermost, CallKinds DEF Persist, Return, In
  <2>2. c \notin P
    BY <2>1 DEF Reaching, Reaches
  <2>3. SomeOpen(P) => SomeOpen(P)'
    BY <1>7, <2>1, <2>2
  <2> QED BY <1>s, <2>1, <2>3 DEF rule
<1>10. ASSUME NEW t \in Threads, TestOperand(t)
       PROVE  Settled(r)' \/ SomeOpen(P)'
  <2> DEFINE c == Last(calls[t])
             q == c.of
             i == c.next
             v == value[Operands[q][i]]
  <2>1. /\ ~Idle(t) /\ cpu = t /\ c \in OpenCalls /\ c.call = "evaluate" /\ In(t, "evaluate")
        /\ q \in Rules /\ i \in 1..Len(Operands[q]) /\ v \in BOOLEAN
        /\ value' = value /\ refValue' = refValue
    BY <1>10, Innermost, CallKinds DEF TestOperand, Testing, In, object, TypeOK
  <2>2. CASE /\ Decides(q, v) \/ i = Len(Operands[q])
             /\ Conclude(t, q, v)
    <3>1. prevValue' = [prevValue EXCEPT ![q] = v] /\ calls' = [calls EXCEPT ![t] = Front(calls[t])]
      BY <2>2 DEF Conclude, Return
    <3>2. CASE q # r
      <4>1. c \notin P /\ prevValue'[r] = prevValue[r]
        BY <1>n, <2>1, <3>1, <3>2
      <4> QED BY <1>7, <1>s, <2>1, <3>1, <4>1
    <3>3. CASE q = r
      <4>1. Operator[q] # "threshold"
        <5>1. ASSUME Operator[q] = "threshold" PROVE i # Len(Operands[q])
          <6>1. i = 1
            BY <1>10, <5>1 DEF TestOperand
          <6>2. Len(Operands[q]) = 2
            BY <2>1, <5>1, DispatchConstants
          <6> QED BY <6>1, <6>2
        <5>2. Decides(q, v) => Operator[q] # "threshold"
          BY DEF Decides
        <5>3. Operator[q] # "threshold" \/ i = Len(Operands[q])
          BY <2>2, <5>2
        <5> QED BY <5>1, <5>3
      <4>2. \A j \in 1..i - 1 : ~Decides(q, value[Operands[q][j]])
        <5>1. CASE i = 1
          BY <5>1
        <5>2. CASE i # 1
          <6>1. c \in OpenIn(t)
            BY <2>1, Innermost
          <6>2. Tested(c)
            BY <2>1, <5>2, <6>1 DEF EvaluationsInv, Calm
          <6> QED BY <4>1, <6>2 DEF Tested
        <5> QED BY <5>1, <5>2
      <4>3. Truth(q) = v
        BY <2>1, <2>2, <4>1, <4>2, OperandConcludes
      <4>4. Truth(r)' = Truth(r)
        BY <2>1 DEF Truth, Exceeded
      <4>5. prevValue'[r] = v
        BY <2>1, <3>1, <3>3 DEF TypeOK
      <4> QED BY <3>3, <4>1, <4>3, <4>4, <4>5 DEF Settled
    <3> QED BY <3>2, <3>3
  <2>3. CASE i # Len(Operands[q]) /\ Replace(t, Evaluate(q, i + 1, v)) /\ prevValue' = prevValue
    <3> DEFINE d == Evaluate(q, i + 1, v)
    <3>1. i + 1 \in 1..Len(Operands[q])
      BY <2>1, <2>3
    <3>2. d \in OpenCalls /\ d.call = "evaluate" /\ d.of = q
      BY <2>1, <3>1 DEF Evaluate
    <3> HIDE DEF d
    <3>3. c \in P => d \in P
      <4>1. c \in P => q = r
        BY <1>n, <2>1
      <4> QED BY <3>2, <4>1 DEF Reaching, Reaches
    <3>4. SomeOpen(P) => SomeOpen(P)'
      BY <2>1, <2>3, <3>2, <3>3, KeptByReplace DEF d
    <3> QED BY <1>s, <2>1, <2>3, <3>4
  <2> QED BY <1>10, <2>2, <2>3 DEF TestOperand
<1>11. ASSUME NEW t \in Threads, TestThreshold(t)
       PROVE  Settled(r)' \/ SomeOpen(P)'
  <2> DEFINE c == Last(calls[t])
             q == c.of
             found == c.found
             level == value[Operands[q][2]]
  <2>1. /\ ~Idle(t) /\ cpu = t /\ c \in OpenCalls /\ c.call = "evaluate" /\ In(t, "evaluate")
        /\ q \in Rules /\ c.next = 2 /\ Operator[q] = "threshold" /\ found \in BOOLEAN
        /\ value' = value
        /\ refValue' = (IF found THEN [refValue EXCEPT ![q] = level] ELSE refValue)
        /\ prevValue' = [prevValue EXCEPT ![q] = ~found /\ Exceeded(q, level)]
        /\ calls' = [calls EXCEPT ![t] = Front(calls[t])]
    BY <1>11, Innermost, CallKinds DEF TestThreshold, Testing, Conclude, Return, In, object
  <2>2. CASE q # r
    <3>1. c \notin P /\ prevValue'[r] = prevValue[r] /\ refValue'[r] = refValue[r]
      BY <1>n, <2>1, <2>2
    <3> QED BY <1>7, <1>s, <2>1, <3>1
  <2>3. CASE q = r
    <3>1. c \in OpenIn(t)
      BY <2>1, Innermost
    <3>2. Tested(c)
      BY <2>1, <3>1 DEF EvaluationsInv, Calm
    <3>3. found = value[Operands[r][1]]
      BY <2>1, <2>3, <3>2 DEF Tested
    <3>4. prevValue'[r] = (~found /\ Exceeded(r, level))
      BY <2>1, <2>3 DEF TypeOK
    <3>5. Truth(r) = (~found /\ Exceeded(r, level))
      BY <2>1, <2>3, <3>3 DEF Truth
    <3>6. CASE found
      <4>1. refValue'[r] = level
        BY <2>1, <2>3, <3>6 DEF TypeOK
      <4>2. Truth(r)' = FALSE
        BY <2>1, <2>3, <3>3, <3>6 DEF Truth
      <4>3. prevValue'[r] = FALSE
        BY <3>4, <3>6
      <4> QED BY <2>1, <2>3, <4>1, <4>2, <4>3 DEF Settled
    <3>7. CASE ~found
      <4>1. refValue' = refValue
        BY <2>1, <3>7
      <4>2. Truth(r)' = Truth(r)
        BY <2>1, <4>1 DEF Truth, Exceeded
      <4>3. prevValue'[r] = Truth(r)
        BY <3>4, <3>5
      <4> QED BY <2>1, <3>3, <3>7, <4>2, <4>3 DEF Settled
    <3> QED BY <3>6, <3>7
  <2> QED BY <2>2, <2>3
<1>12. ASSUME NEW t \in Threads, EnterRead(t)
       PROVE  Settled(r)' \/ SomeOpen(P)'
  <2> DEFINE c == Last(calls[t])
             o == Operands[c.of][c.next]
  <2>1. c.of \in Rules /\ c.next \in 1..Len(Operands[c.of])
    BY <1>12, Innermost, CallKinds DEF EnterRead, In
  <2>2. Read(o, IF readPending[o] THEN 1 ELSE 0) \in OpenCalls
    BY <2>1
  <2>3. SomeOpen(P) => SomeOpen(P)'
    BY <1>12, <2>2, KeptByPush DEF EnterRead
  <2> QED BY <1>12, <1>s, <2>3 DEF EnterRead, object, rule
<1>13. ASSUME NEW t \in Threads, ReadSent(t)
       PROVE  Settled(r)' \/ SomeOpen(P)'
  <2>1. ~Idle(t) /\ Last(calls[t]).of \in Objects /\ Last(calls[t]).call = "read"
    BY <1>13, Innermost, CallKinds DEF ReadSent, In
  <2>2. SomeOpen(P) => SomeOpen(P)'
    BY <1>n, <1>13, <2>1, KeptByReplace DEF ReadSent
  <2> QED BY <1>13, <1>s, <2>2 DEF ReadSent, rule
<1>14. ASSUME UNCHANGED <<value, rule, calls>>
       PROVE  Settled(r)' \/ SomeOpen(P)'
  BY <1>14, <1>s DEF rule, SomeOpen, OpenIn
<1>15. ASSUME NEW t \in Threads, StayInRead(t)
       PROVE  Settled(r)' \/ SomeOpen(P)'
  BY <1>14, <1>15 DEF StayInRead, object
<1>16. CASE UNCHANGED vars
  BY <1>14, <1>16 DEF vars, object
<1>17. ASSUME NEW t \in Threads, Run(t)
       PROVE  Settled(r)' \/ SomeOpen(P)'
  BY <1>5, <1>6, <1>8, <1>9, <1>10, <1>11, <1>12, <1>13, <1>15, <1>17, Zenon DEF Run
<1>18. CASE Next
  BY <1>1, <1>2, <1>3, <1>4, <1>17, <1>18, Zenon DEF Next
<1> QED BY <1>16, <1>18

\* When no call is open every rule knows the truth value of its condition and
\* every threshold its reference, however many threads set objects while
\* listener loops and reads wait, if a condition can wait for no operand but
\* its first (Rule::evaluate, ObjectThresholdCondition::evaluate).
THEOREM RulesSettledEver ==
    ASSUME FirstOperandsWait
    PROVE  Spec => []RulesSettled
<1> DEFINE Inv == LaterKnown /\ EvaluationsInv /\ RulesInv
<1>1. Init => Inv
  <2> SUFFICES ASSUME Init PROVE Inv
    OBVIOUS
  <2>1. LaterKnown
    <3>1. PICK known \in KnownChoices : init = [o \in Objects |-> o \in known]
      BY DEF Init
    <3> SUFFICES ASSUME NEW r \in Rules, NEW i \in 2..Len(Operands[r])
                 PROVE  init[Operands[r][i]]
      BY DEF LaterKnown
    <3>2. Operands[r][i] \in Objects
      BY ListenersTyped
    <3>3. Operands[r][i] \in known
      BY DEF FirstOperandsWait
    <3> QED BY <3>1, <3>2, <3>3
  <2>2. EvaluationsInv
    BY EmptyStack DEF Init, EvaluationsInv, Calm, OpenIn
  <2>3. RulesInv
    <3>1. \A r \in Rules : prevValue[r] = Truth(r)
      BY DEF Init
    <3> QED BY <3>1 DEF Init, RulesInv, Settled, ReferenceTaken
  <2> QED BY <2>1, <2>2, <2>3
<1>2. TypeOK /\ Inv /\ [Next]_vars => Inv'
  BY LaterKnownStep, EvaluationsStep, RulesStep
<1>3. Inv => RulesSettled
  <2> SUFFICES ASSUME RulesInv, Quiet PROVE ReferenceTaken /\ \A r \in Rules : prevValue[r] = Truth(r)
    BY DEF RulesSettled
  <2>1. \A r \in Rules : Settled(r)
    BY EmptyStack DEF RulesInv, Quiet, Idle, SomeOpen, OpenIn
  <2> QED BY <2>1 DEF Settled, ReferenceTaken
<1> QED BY <1>1, <1>2, <1>3, DispatchTypeOK, PTL DEF Spec
=============================================================================
