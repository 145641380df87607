----------------------------- MODULE Dispatch -----------------------------
(***************************************************************************)
(* How a change of a group object travels to the rules: Object::setValue   *)
(* and the telegram handlers, the listener loop of Object::onUpdate,       *)
(* Rule::evaluate with the and-, or- and threshold conditions of           *)
(* ruleserver.cpp, and Object::read, on which a condition waits when it    *)
(* meets an object that never had a value.                                 *)
(*                                                                         *)
(* The threads are cooperative: `cpu' holds the running one, and it is     *)
(* released only where the code may block: in the write to the bus, in the *)
(* loop of Object::read and in the sendmessage of an XML client.  The bus  *)
(* thread waits in Object::read by dispatching further telegrams           *)
(* (KnxConnection::checkInput), so the calls it has open form a stack.     *)
(* Objects are switching objects, one per group address, and all rules are *)
(* active.                                                                 *)
(***************************************************************************)
EXTENDS Naturals, Sequences, SequencesExt

CONSTANTS
    Objects, Rules,
    Client,        \* a ClientConnection registered for notifications
    Knx,           \* the thread of KnxConnection
    Others,        \* threads that set objects: actions, XML clients, timers
    Listeners,     \* [Objects -> Seq(Rules \cup {Client})], in listener order
    Operator,      \* [Rules -> {"and", "or", "threshold"}]
    Operands,      \* [Rules -> Seq(Objects)], each tested for "on"; of a
                   \* threshold, that of the reset condition and its own
    Deltas,        \* which of delta-up and delta-low a threshold has; both 0
    Persisted,     \* objects configured with init="persist"
    KnownChoices,  \* which objects may have a value at the start (init_m)
    MaxCalls,      \* bound: calls open when the bus thread accepts a telegram
    Nobody

Threads == Others \cup {Knx}

ASSUME DispatchConstants ==
    /\ Knx \notin Others
    /\ Nobody \notin Threads
    /\ Client \notin Rules
    /\ Persisted \subseteq Objects
    /\ KnownChoices \subseteq SUBSET Objects
    /\ Listeners \in [Objects -> Seq(Rules \cup {Client})]
    /\ Operator \in [Rules -> {"and", "or", "threshold"}]
    /\ Operands \in [Rules -> Seq(Objects) \ {<<>>}]
    /\ Deltas \in [Rules -> SUBSET {"up", "low"}]
    /\ \A r \in Rules : Operator[r] = "threshold" => Len(Operands[r]) = 2
    /\ \A r \in Rules : \A i \in 1..Len(Operands[r]) : Contains(Listeners[Operands[r][i]], r)

VARIABLES
    value,       \* value_m of each object
    init,        \* init_m
    readPending, \* readPending_m
    stored,      \* the value in persistent storage
    prevValue,   \* prevValue_m of each rule
    refValue,    \* refValue_m of its threshold condition
    calls,       \* the calls each thread has open, innermost last
    cpu          \* the running thread, or Nobody

object == <<value, init, readPending, stored>>
rule == <<prevValue, refValue>>
vars == <<object, rule, calls, cpu>>

\* The open calls.  `next' tells how far each has got:
\*   Object::setValue/onUpdate  0 sending on the bus, i about to notify listener i
\*   Rule::initialize/evaluate  about to test operand i, and what the last one was
\*   Object::read               0 sending the request, 1 waiting for the answer
Update(o, i)   == [call |-> "update", of |-> o, next |-> i]
Evaluate(r, i, found) == [call |-> "evaluate", of |-> r, next |-> i, found |-> found]
Read(o, i)     == [call |-> "read", of |-> o, next |-> i]
SendMessage    == [call |-> "send", of |-> Client, next |-> 0]

OpenCalls ==
    (UNION {{Update(o, i) : i \in 0..Len(Listeners[o]) + 1} : o \in Objects})
    \cup (UNION {{Evaluate(r, i, found) : i \in 1..Len(Operands[r]), found \in BOOLEAN} : r \in Rules})
    \cup {Read(o, i) : o \in Objects, i \in 0..1}
    \cup {SendMessage}

Idle(t) == calls[t] = <<>>
In(t, what) == ~Idle(t) /\ Last(calls[t]).call = what
Waiting(t) == In(t, "read") /\ Last(calls[t]).next = 1

\* A threshold is exceeded by the level of the object.
Exceeded(r, level) ==
    \/ "up" \in Deltas[r] /\ level /\ ~refValue[r]
    \/ "low" \in Deltas[r] /\ ~level /\ refValue[r]

\* The truth value of a condition over the current object values.
Truth(r) ==
    LET operands == Operands[r]
    IN CASE Operator[r] = "and" -> \A i \in 1..Len(operands) : value[operands[i]]
         [] Operator[r] = "or" -> \E i \in 1..Len(operands) : value[operands[i]]
         [] Operator[r] = "threshold" ->
                ~value[operands[1]] /\ Exceeded(r, value[operands[2]])

TypeOK ==
    /\ value \in [Objects -> BOOLEAN]
    /\ init \in [Objects -> BOOLEAN]
    /\ readPending \in [Objects -> BOOLEAN]
    /\ stored \in [Objects -> BOOLEAN]
    /\ prevValue \in [Rules -> BOOLEAN]
    /\ refValue \in [Rules -> BOOLEAN]
    /\ cpu \in Threads \cup {Nobody}
    /\ calls \in [Threads -> Seq(OpenCalls)]

\* While the reset condition is true, the reference follows the object.
ReferenceTaken ==
    \A r \in Rules :
        Operator[r] = "threshold" /\ value[Operands[r][1]] => refValue[r] = value[Operands[r][2]]

\* Objects without a value hold the default of their type, off; rules have
\* been initialised (rules over unread objects start false).
Init ==
    /\ init \in {[o \in Objects |-> o \in known] : known \in KnownChoices}
    /\ value \in {v \in [Objects -> BOOLEAN] : \A o \in Objects : v[o] => init[o]}
    /\ readPending = [o \in Objects |-> FALSE]
    /\ stored = value
    /\ refValue \in [Rules -> BOOLEAN]
    /\ \A r \in Rules :
          refValue[r] => Operator[r] = "threshold"
    /\ ReferenceTaken
    /\ prevValue = [r \in Rules |-> Truth(r)]
    /\ calls = [t \in Threads |-> <<>>]
    /\ cpu = Nobody

-----------------------------------------------------------------------------
Push(t, c)    == calls' = [calls EXCEPT ![t] = Append(@, c)]
Replace(t, c) == calls' = [calls EXCEPT ![t] = Append(Front(@), c)]
Return(t) ==
    /\ calls' = [calls EXCEPT ![t] = Front(@)]
    /\ cpu' = IF Len(calls[t]) = 1 THEN Nobody ELSE cpu

\* set(value) || forceUpdate(): the value changes, or there was none before.
Changes(o, v) == v # value[o] \/ ~init[o]

\* Object::setValue by an action, an XML client or a timer.  The write to the
\* bus in onInternalUpdate may block before anyone is notified.
SetValue(t, o, v) ==
    /\ cpu = Nobody
    /\ Idle(t)
    /\ Changes(o, v)
    /\ value' = [value EXCEPT ![o] = v]
    /\ Push(t, Update(o, 0))
    /\ UNCHANGED <<init, readPending, stored, rule, cpu>>

\* The bus has the telegram: onUpdate begins.
StartUpdate(t) ==
    /\ cpu = Nobody
    /\ In(t, "update")
    /\ LET o == Last(calls[t]).of IN
          /\ Last(calls[t]).next = 0
          /\ init' = [init EXCEPT ![o] = TRUE]
          /\ Replace(t, Update(o, 1))
    /\ cpu' = t
    /\ UNCHANGED <<value, readPending, stored, rule>>

\* KnxConnection::checkInput delivers a telegram, from the main loop of the
\* bus thread or from inside Object::read.
Receives(t) ==
    /\ cpu = Nobody
    /\ Idle(t) \/ Waiting(t)
    /\ Len(calls[t]) <= MaxCalls

\* doWrite of a switching object calls onUpdate if the value changes.
DoWrite(o, v) ==
    IF Changes(o, v)
    THEN /\ value' = [value EXCEPT ![o] = v]
         /\ init' = [init EXCEPT ![o] = TRUE]
         /\ Push(Knx, Update(o, 1))
         /\ cpu' = Knx
    ELSE UNCHANGED <<value, init, calls, cpu>>

\* Object::onWrite
OnWrite(o, v) ==
    /\ Receives(Knx)
    /\ DoWrite(o, v)
    /\ UNCHANGED <<readPending, stored, rule>>

\* Object::onResponse
OnResponse(o, v) ==
    /\ Receives(Knx)
    /\ readPending' = [readPending EXCEPT ![o] = FALSE]
    /\ DoWrite(o, v)
    /\ UNCHANGED <<stored, rule>>

\* Object::onUpdate calls the next listener; writing to a client may block.
Notify(t) ==
    /\ cpu = t
    /\ In(t, "update")
    /\ LET o == Last(calls[t]).of
           i == Last(calls[t]).next
           l == Listeners[o][i]
           open(c) == calls' = [calls EXCEPT ![t] = Append(Append(Front(@), Update(o, i + 1)), c)]
       IN /\ i \in 1..Len(Listeners[o])
          /\ \/ l = Client /\ open(SendMessage) /\ cpu' = Nobody
             \/ l # Client /\ open(Evaluate(l, 1, FALSE)) /\ UNCHANGED cpu
    /\ UNCHANGED <<object, rule>>

\* Mistake: a client that went away ends the whole listener loop.
SendMessageEndFails(t) ==
    /\ cpu = Nobody
    /\ In(t, "send")
    /\ calls' = [calls EXCEPT ![t] = SubSeq(@, 1, Len(@) - 2)]
    /\ cpu' = IF Len(calls[t]) = 2 THEN Nobody ELSE t
    /\ UNCHANGED <<object, rule>>

\* sendmessage returns, on success or failure.
SendMessageEnd(t) ==
    /\ cpu = Nobody
    /\ In(t, "send")
    /\ calls' = [calls EXCEPT ![t] = Front(@)]
    /\ cpu' = t
    /\ UNCHANGED <<object, rule>>

\* After the last listener the current value is written to the storage.
Persist(t) ==
    /\ cpu = t
    /\ In(t, "update")
    /\ LET o == Last(calls[t]).of IN
          /\ Last(calls[t]).next > Len(Listeners[o])
          /\ stored' = IF o \in Persisted THEN [stored EXCEPT ![o] = value[o]] ELSE stored
    /\ Return(t)
    /\ UNCHANGED <<value, init, readPending, rule>>

\* Rule::initialize of a rule with init="eval"; its result goes the same way
\* as that of Rule::evaluate.
Initialize(t, r) ==
    /\ cpu = Nobody
    /\ Idle(t)
    /\ Push(t, Evaluate(r, 1, FALSE))
    /\ cpu' = t
    /\ UNCHANGED <<object, rule>>

\* prevValue_m takes the value of the condition.
Conclude(t, r, cur) ==
    /\ prevValue' = [prevValue EXCEPT ![r] = cur]
    /\ Return(t)

\* A value that decides the condition ends it, otherwise the next one counts.
Decides(r, v) == Operator[r] # "threshold" /\ v = (Operator[r] = "or")

\* An operand with a value is about to be tested.
Testing(t) ==
    /\ cpu = t
    /\ In(t, "evaluate")
    /\ init[Operands[Last(calls[t]).of][Last(calls[t]).next]]

\* AndCondition::evaluate and OrCondition::evaluate, and the reset condition of
\* a threshold, on an object with a value.
TestOperand(t) ==
    /\ Testing(t)
    /\ LET r == Last(calls[t]).of
           i == Last(calls[t]).next
           v == value[Operands[r][i]]
       IN /\ Operator[r] = "threshold" => i = 1
          /\ IF Decides(r, v) \/ i = Len(Operands[r])
             THEN Conclude(t, r, v)
             ELSE Replace(t, Evaluate(r, i + 1, v)) /\ UNCHANGED <<prevValue, cpu>>
    /\ UNCHANGED <<object, refValue>>

\* ObjectThresholdCondition::evaluate, after the reset condition.
TestThreshold(t) ==
    /\ Testing(t)
    /\ LET r == Last(calls[t]).of
           found == Last(calls[t]).found
           level == value[Operands[r][2]]
       IN /\ Operator[r] = "threshold" /\ Last(calls[t]).next = 2
          /\ refValue' = IF found THEN [refValue EXCEPT ![r] = level] ELSE refValue
          /\ Conclude(t, r, ~found /\ Exceeded(r, level))
    /\ UNCHANGED object

\* Object::get on an object without a value enters Object::read, which asks
\* the bus unless an earlier request is still unanswered.
EnterRead(t) ==
    /\ cpu = t
    /\ In(t, "evaluate")
    /\ LET r == Last(calls[t]).of
           o == Operands[r][Last(calls[t]).next]
       IN /\ ~init[o]
          /\ Push(t, Read(o, IF readPending[o] THEN 1 ELSE 0))
    /\ cpu' = Nobody
    /\ UNCHANGED <<object, rule>>

\* SendReadRequestAction::Run reads whether or not there is a value.
SendReadRequest(t, o) ==
    /\ cpu = Nobody
    /\ Idle(t)
    /\ Push(t, Read(o, IF readPending[o] THEN 1 ELSE 0))
    /\ UNCHANGED <<object, rule, cpu>>

\* The request is on the bus.
ReadSent(t) ==
    /\ cpu = Nobody
    /\ In(t, "read")
    /\ LET o == Last(calls[t]).of IN
          /\ Last(calls[t]).next = 0
          /\ readPending' = [readPending EXCEPT ![o] = TRUE]
          /\ Replace(t, Read(o, 1))
    /\ UNCHANGED <<value, init, stored, rule, cpu>>

\* Mistake: a read that timed out gives the object its default value back.
LeaveReadResets(t) ==
    /\ cpu \in {Nobody, t}
    /\ Waiting(t)
    /\ LET o == Last(calls[t]).of IN
          /\ init' = [init EXCEPT ![o] = TRUE]
          /\ value' = IF readPending[o] THEN [value EXCEPT ![o] = FALSE] ELSE value
    /\ calls' = [calls EXCEPT ![t] = Front(@)]
    /\ cpu' = IF Len(calls[t]) = 1 THEN Nobody ELSE t
    /\ UNCHANGED <<readPending, stored, rule>>

\* The loop of Object::read ends, on the answer or after a second; a timeout
\* leaves readPending_m set and whatever value the object has.
LeaveRead(t) ==
    /\ cpu \in {Nobody, t}
    /\ Waiting(t)
    /\ init' = [init EXCEPT ![Last(calls[t]).of] = TRUE]
    /\ calls' = [calls EXCEPT ![t] = Front(@)]
    /\ cpu' = IF Len(calls[t]) = 1 THEN Nobody ELSE t
    /\ UNCHANGED <<value, readPending, stored, rule>>

\* A dispatch nested in the loop is over and the answer is still missing.
StayInRead(t) ==
    /\ cpu = t
    /\ Waiting(t)
    /\ readPending[Last(calls[t]).of]
    /\ cpu' = Nobody
    /\ UNCHANGED <<object, rule, calls>>

Run(t) ==
    \/ StartUpdate(t) \/ Notify(t) \/ SendMessageEnd(t) \/ Persist(t)
    \/ TestOperand(t) \/ TestThreshold(t) \/ EnterRead(t) \/ ReadSent(t) \/ LeaveRead(t) \/ StayInRead(t)

Next ==
    \/ \E o \in Objects, v \in BOOLEAN :
          OnWrite(o, v) \/ OnResponse(o, v) \/ \E t \in Others : SetValue(t, o, v)
    \/ \E t \in Others, r \in Rules : Initialize(t, r)
    \/ \E t \in Others, o \in Objects : SendReadRequest(t, o)
    \/ \E t \in Threads : Run(t)

Spec == Init /\ [][Next]_vars

-----------------------------------------------------------------------------
Quiet == \A t \in Threads : Idle(t)

\* When no call is in progress every rule remembers the present truth value
\* of its condition, and a threshold whose reset condition is true has the present
\* level for its reference, from which later changes are measured: no
\* interleaving of listener loops that block half-way, and no evaluation that
\* waited or was overtaken, leaves a rule behind (Object::onUpdate,
\* Rule::evaluate, ObjectThresholdCondition::evaluate).
RulesSettled ==
    Quiet => ReferenceTaken /\ \A r \in Rules : prevValue[r] = Truth(r)

\* When no call is in progress the storage holds the present value of every
\* persistent object: the last onUpdate to finish writes the current value,
\* not the one it was called for.
StorageSettled == Quiet => \A o \in Persisted : stored[o] = value[o]
=============================================================================
