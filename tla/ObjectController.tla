-------------------------- MODULE ObjectController --------------------------
(***************************************************************************)
(* The registry of the group objects (class ObjectController, src/src/     *)
(* objectcontroller.cpp): which objects exist, on which group addresses    *)
(* they are reached, and the usage count that keeps an object alive while  *)
(* a rule, a notification or a request of an XML client holds a pointer.   *)
(* A configuration request is atomic, since nothing in it blocks; a write  *)
(* to an object blocks while the object notifies its listeners.            *)
(***************************************************************************)
EXTENDS Naturals, FiniteSets

CONSTANTS
    Objects, Clients, Rules,
    Addresses,    \* group addresses
    NoAddress,    \* gad_m = 0
    NoObject,
    Unchanged,    \* an attribute that is not in the configuration element
    Polite,       \* TRUE: a client unregisters only what it has registered
                  \* and registers nothing twice
    MaxCount,     \* bound: the usage count of an object
    MaxFailures   \* bound: requests that fail half-way

ASSUME ObjectControllerConstants ==
    /\ NoAddress \notin Addresses
    /\ Unchanged \notin Addresses \cup {NoAddress}
    /\ NoObject \notin Objects
    /\ IsFiniteSet(Clients)
    /\ IsFiniteSet(Rules)
    /\ Polite \in BOOLEAN
    /\ MaxCount \in Nat
    /\ MaxFailures \in Nat

VARIABLES
    exists,        \* the objects in objectIdMap_m
    gad,           \* gad_m
    listenerGads,  \* listenerGadList_m
    readGad,       \* readRequestGad_m
    objectMap,     \* objectMap_m, pairs of an address and an object
    refCount,      \* refCount_m
    notify,        \* occurrences in each client's notifyList_m; the client is
                   \* in the object's listener list as often
    uses,          \* the objects the condition of a configured rule points to
    acts,          \* the objects its actions point to
    writing,       \* the object a client's write request holds, or NoObject
    failures,      \* the requests that failed half-way
    broken,        \* history: objects whose last request failed half-way
    stray          \* history: references that nobody will give back

config   == <<exists, gad, listenerGads, readGad, objectMap, broken>>
pointers == <<notify, uses, acts, writing>>
vars     == <<exists, gad, listenerGads, readGad, objectMap, broken, refCount,
              notify, uses, acts, writing, failures, stray>>

Gads(o) == listenerGads[o] \cup ({gad[o]} \ {NoAddress})

\* Pointers to an object: a client has as many registrations as its list says.
Registrations(o) == {p \in Clients \X (1..MaxCount) : p[2] <= notify[p[1]][o]}
RulesUsing(o) == {r \in Rules : o \in uses[r]}
RulesActing(o) == {r \in Rules : o \in acts[r]}
Writers(o) == {c \in Clients : writing[c] = o}

Holders(o) == Cardinality(Registrations(o)) + Cardinality(RulesUsing(o))
              + Cardinality(RulesActing(o)) + Cardinality(Writers(o))

\* What one list of pointers counts for object o.
In(o, os) == IF o \in os THEN 1 ELSE 0

TypeOK ==
    /\ exists \subseteq Objects
    /\ gad \in [Objects -> Addresses \cup {NoAddress}]
    /\ listenerGads \in [Objects -> SUBSET Addresses]
    /\ readGad \in [Objects -> Addresses \cup {NoAddress}]
    /\ objectMap \subseteq Addresses \X Objects
    /\ refCount \in [Objects -> 0..MaxCount]
    /\ notify \in [Clients -> [Objects -> 0..MaxCount]]
    /\ uses \in [Rules -> SUBSET Objects]
    /\ acts \in [Rules -> SUBSET Objects]
    /\ writing \in [Clients -> Objects \cup {NoObject}]
    /\ failures \in 0..MaxFailures
    /\ broken \subseteq Objects
    /\ stray \in [Objects -> Nat]

Init ==
    /\ exists = {}
    /\ gad = [o \in Objects |-> NoAddress]
    /\ listenerGads = [o \in Objects |-> {}]
    /\ readGad = [o \in Objects |-> NoAddress]
    /\ objectMap = {}
    /\ refCount = [o \in Objects |-> 0]
    /\ notify = [c \in Clients |-> [o \in Objects |-> 0]]
    /\ uses = [r \in Rules |-> {}]
    /\ acts = [r \in Rules |-> {}]
    /\ writing = [c \in Clients |-> NoObject]
    /\ failures = 0
    /\ broken = {}
    /\ stray = [o \in Objects |-> 0]

\* A request fails half-way.
Fails ==
    /\ failures < MaxFailures
    /\ failures' = failures + 1

-----------------------------------------------------------------------------
\* Object::importXml: the new address, the new listeners and the one of them
\* that has read="true"; what is Unchanged is not in the element.
Assign(o, g, ls, rd) ==
    /\ gad' = [gad EXCEPT ![o] = IF g = Unchanged THEN @ ELSE g]
    /\ listenerGads' = [listenerGads EXCEPT ![o] = IF ls = Unchanged THEN @ ELSE ls]
    /\ readGad' = [readGad EXCEPT ![o] = IF rd = Unchanged THEN gad'[o] ELSE rd]

\* Mistake: the old listener addresses stay in the map.
UnmappedGad(o) == objectMap \ {<<gad[o], o>>}

\* Mistake: all objects of the addresses leave the map.
UnmappedShared(o) == {p \in objectMap : p[1] \notin Gads(o)}

\* removeObjectFromAddressMap for the address and for every listener address.
Unmapped(o) == {p \in objectMap : ~(p[2] = o /\ p[1] \in Gads(o))}

\* importXml of an object element; listeners, if there are any, are not empty.
Configure(o, g, ls, rd) ==
    /\ ls # {}
    /\ Assign(o, g, ls, rd)
    /\ objectMap' = Unmapped(o) \cup {<<a, o>> : a \in Gads(o)'}
    /\ exists' = exists \cup {o}
    /\ broken' = broken \ {o}
    /\ UNCHANGED <<refCount, pointers, failures, stray>>

\* Object::importXml throws on a faulty attribute.  A new object is never
\* inserted; an existing one keeps what was assigned before the fault and has
\* left the address map already.
ConfigureFails(o, g, ls, rd) ==
    /\ Fails
    /\ \/ o \in exists /\ Assign(o, g, ls, rd)
       \/ UNCHANGED <<gad, listenerGads, readGad>>
    /\ objectMap' = Unmapped(o)
    /\ broken' = broken \cup {o}
    /\ UNCHANGED <<exists, refCount, pointers, stray>>

\* ~Object; an object configured later under this id starts afresh.
Destroy(o) ==
    /\ exists' = exists \ {o}
    /\ gad' = [gad EXCEPT ![o] = NoAddress]
    /\ listenerGads' = [listenerGads EXCEPT ![o] = {}]
    /\ readGad' = [readGad EXCEPT ![o] = NoAddress]

\* An object element with delete="true".
Delete(o) ==
    /\ o \in exists
    /\ refCount[o] = 0
    /\ objectMap' = Unmapped(o)
    /\ Destroy(o)
    /\ broken' = broken \ {o}
    /\ UNCHANGED <<refCount, pointers, failures, stray>>

\* "Delete failed! Object still in use."
DeleteFails(o) ==
    /\ Fails
    /\ o \in exists
    /\ refCount[o] > 0
    /\ objectMap' = Unmapped(o)
    /\ broken' = broken \cup {o}
    /\ UNCHANGED <<exists, gad, listenerGads, readGad, refCount, pointers, stray>>

-----------------------------------------------------------------------------
\* ObjectController::getObject finds the object and counts one more user.
Get(o) ==
    /\ o \in exists
    /\ refCount[o] < MaxCount
    /\ refCount' = [refCount EXCEPT ![o] = @ + 1]

\* decRefCount by n; a count below zero ends the program.
Counted(o, n) == refCount[o] >= n

\* An XML client's requests are handled one after the other.
Serving(c) == writing[c] = NoObject

Register(c, o) ==
    /\ Serving(c)
    /\ Polite => notify[c][o] = 0
    /\ Get(o)
    /\ notify' = [notify EXCEPT ![c][o] = @ + 1]
    /\ UNCHANGED <<config, uses, acts, writing, failures, stray>>

\* One reference for getObject comes and goes, another one goes for the
\* registration, however many there were.
Unregister(c, o) ==
    /\ Serving(c)
    /\ o \in exists
    /\ Polite => notify[c][o] > 0
    /\ Counted(o, 1)
    /\ refCount' = [refCount EXCEPT ![o] = @ - 1]
    /\ notify' = [notify EXCEPT ![c][o] = 0]
    /\ UNCHANGED <<config, uses, acts, writing, failures, stray>>

\* The references a client's notifyList_m gives back when it is cleared.
Released(c) == [o \in Objects |-> refCount[o] - notify[c][o]]

\* unregisterall, and ~ClientConnection after a disconnection.
UnregisterAll(c) ==
    /\ Serving(c)
    /\ \A o \in Objects : Counted(o, notify[c][o])
    /\ refCount' = Released(c)
    /\ notify' = [notify EXCEPT ![c] = [o \in Objects |-> 0]]
    /\ UNCHANGED <<config, uses, acts, writing, failures, stray>>

\* Mistake: the references of the old list are not given back.
RegisterAllKeeps(c) ==
    /\ Serving(c)
    /\ \A o \in Objects : refCount[o] < MaxCount
    /\ refCount' = [o \in Objects |-> refCount[o] + IF o \in exists THEN 1 ELSE 0]
    /\ notify' = [notify EXCEPT ![c] = [o \in Objects |-> IF o \in exists THEN 1 ELSE 0]]
    /\ UNCHANGED <<config, uses, acts, writing, failures, stray>>

\* registerall clears the list first.
RegisterAll(c) ==
    /\ Serving(c)
    /\ \A o \in Objects : Counted(o, notify[c][o]) /\ Released(c)[o] < MaxCount
    /\ refCount' = [o \in Objects |-> Released(c)[o] + IF o \in exists THEN 1 ELSE 0]
    /\ notify' = [notify EXCEPT ![c] = [o \in Objects |-> IF o \in exists THEN 1 ELSE 0]]
    /\ UNCHANGED <<config, uses, acts, writing, failures, stray>>

\* A write request: Object::setValue may block, in the bus or in a listener.
WriteBegin(c, o) ==
    /\ Serving(c)
    /\ Get(o)
    /\ writing' = [writing EXCEPT ![c] = o]
    /\ UNCHANGED <<config, notify, uses, acts, failures, stray>>

\* A value the object does not accept: setValue throws past decRefCount.
WriteFails(c, o) ==
    /\ Fails
    /\ Serving(c)
    /\ Get(o)
    /\ stray' = [stray EXCEPT ![o] = @ + 1]
    /\ UNCHANGED <<config, pointers>>

WriteEnd(c) ==
    /\ ~Serving(c)
    /\ Counted(writing[c], 1)
    /\ refCount' = [refCount EXCEPT ![writing[c]] = @ - 1]
    /\ writing' = [writing EXCEPT ![c] = NoObject]
    /\ UNCHANGED <<config, notify, uses, acts, failures, stray>>

\* Mistake: the condition of a rule keeps a pointer without counting.
ConditionUncounted(r, os, ts, copies, lost) ==
    /\ os \cup ts \cup lost \subseteq exists
    /\ refCount' = [o \in Objects |-> refCount[o] - In(o, acts[r] \ copies) + In(o, ts) + In(o, lost)]
    /\ \A o \in Objects : refCount'[o] \in 0..MaxCount
    /\ stray' = [o \in Objects |-> stray[o] + In(o, copies) + In(o, lost)]
    /\ uses' = [uses EXCEPT ![r] = os]
    /\ acts' = [acts EXCEPT ![r] = ts]
    /\ UNCHANGED <<config, notify, writing>>

\* Rule r gets a condition on the objects os and actions on the objects ts,
\* which count them; those it had are deleted and give their references back,
\* but copy-value actions, which have the objects copies, do not.  An action
\* or a condition that is given up leaves behind the objects it has got, lost.
Rewire(r, os, ts, copies, lost) ==
    /\ os \cup ts \cup lost \subseteq exists
    /\ refCount' = [o \in Objects |-> refCount[o] - In(o, uses[r]) - In(o, acts[r] \ copies)
                                       + In(o, os) + In(o, ts) + In(o, lost)]
    /\ \A o \in Objects : refCount'[o] \in 0..MaxCount
    /\ stray' = [o \in Objects |-> stray[o] + In(o, copies) + In(o, lost)]
    /\ uses' = [uses EXCEPT ![r] = os]
    /\ acts' = [acts EXCEPT ![r] = ts]
    /\ UNCHANGED <<config, notify, writing>>

\* Rule::importXml and Rule::updateXml; a condition or a list of actions that
\* is not in the element stays, which counts like a new one on the same objects.
ConfigureRule(r, os, ts, copies) ==
    /\ Rewire(r, os, ts, copies, {})
    /\ UNCHANGED failures

\* A fault in the element: a new rule is given up with all it has got, a
\* condition with what it has got; a rule with faulty actions keeps the new
\* condition and the actions in front of the fault.
RuleFails(r, os, ts, copies, lost) ==
    /\ Fails
    /\ Rewire(r, os, ts, copies, lost)

\* ~Rule deletes the condition; its actions are left behind with their objects.
DeleteRule(r) ==
    /\ \A o \in uses[r] : Counted(o, 1)
    /\ refCount' = [o \in Objects |-> refCount[o] - In(o, uses[r])]
    /\ stray' = [o \in Objects |-> stray[o] + In(o, acts[r])]
    /\ uses' = [uses EXCEPT ![r] = {}]
    /\ acts' = [acts EXCEPT ![r] = {}]
    /\ UNCHANGED <<config, notify, writing, failures>>

-----------------------------------------------------------------------------
Import(o) ==
    \E g \in Addresses \cup {NoAddress, Unchanged},
       ls \in (SUBSET Addresses) \cup {Unchanged} :
          \E rd \in {Unchanged} \cup (IF ls = Unchanged THEN {} ELSE ls) :
             Configure(o, g, ls, rd) \/ ConfigureFails(o, g, ls, rd)

Request(c) ==
    \/ \E o \in Objects : Register(c, o) \/ Unregister(c, o)
    \/ RegisterAll(c) \/ UnregisterAll(c)
    \/ \E o \in Objects : WriteBegin(c, o) \/ WriteFails(c, o)
    \/ WriteEnd(c)

RuleRequest(r) ==
    \/ DeleteRule(r)
    \/ \E os, ts \in SUBSET Objects, copies \in SUBSET acts[r] :
          \/ ConfigureRule(r, os, ts, copies)
          \/ \E lost \in SUBSET Objects : RuleFails(r, os, ts, copies, lost)

Next ==
    \/ \E o \in Objects : Import(o) \/ Delete(o) \/ DeleteFails(o)
    \/ \E c \in Clients : Request(c)
    \/ \E r \in Rules : RuleRequest(r)

Spec == Init /\ [][Next]_vars

-----------------------------------------------------------------------------
\* ObjectController::onWrite, onRead and onResponse hand a telegram to these.
Reached(a) == {o \in Objects : <<a, o>> \in objectMap}

\* A telegram never reaches an object that is deleted or that was moved to
\* other addresses, whichever configuration requests failed half-way
\* (ObjectController::importXml).
NoStaleAddress == \A a \in Addresses : Reached(a) \subseteq {o \in exists : a \in Gads(o)}

\* A telegram reaches every object on its address, whichever requests failed
\* half-way before; only an object whose own last request was refused, for a
\* faulty attribute or because it is in use, is out of the map, until it is
\* configured again.
EveryAddressReached ==
    \A a \in Addresses : {o \in exists \ broken : a \in Gads(o)} \subseteq Reached(a)

\* Nobody holds a pointer to a deleted object, although requests fail half-way
\* and clients write while others reconfigure (inUse()); neither do the actions
\* a deleted rule leaves behind, which may still run.
NothingDangles == \A o \in Objects : Holders(o) + stray[o] > 0 => o \in exists

\* The usage count is the number of pointers of clients and rules, and beyond
\* them of the references that are known to be left behind: by the actions of
\* deleted rules, by replaced copy-value actions, and by rules and writes that
\* were refused.  No other history of requests loses or invents a reference.
CountsPointers == \A o \in exists : refCount[o] = Holders(o) + stray[o]
=============================================================================
