---------------------------- MODULE ObjectProofs ----------------------------
(***************************************************************************)
(* Which objects there are (ObjectController): the address map of the      *)
(* object registry never holds a stale entry, for any number of objects,   *)
(* clients, rules and addresses, and whichever requests fail half-way; it  *)
(* has every other object; the usage counts are the pointers there are     *)
(* and the references that are left behind, and so protect every object    *)
(* somebody points to.                                                     *)
(*                                                                         *)
(* What they know (BusObject): all installations have the value that was   *)
(* set, sent and restored, for any number of them, any texts, numbers and  *)
(* telegrams in the range of the type, all words of switches and steps,    *)
(* all ranges and precisions of floats; what is stored is accepted when it *)
(* is read back, and the log tells the same: but for the storages and      *)
(* classes that Faithful and the properties except.                        *)
(***************************************************************************)
EXTENDS ObjectController, BusObject, FiniteSetTheorems, SequenceTheorems,
        WellFoundedInduction, TLAPS

\* What the entries of the map rest on: the types of the configuration.
ConfigOK ==
    /\ exists \subseteq Objects
    /\ gad \in [Objects -> Addresses \cup {NoAddress}]
    /\ listenerGads \in [Objects -> SUBSET Addresses]
    /\ objectMap \subseteq Addresses \X Objects

\* Every entry belongs to an object on one of its present addresses.
Entries == \A p \in objectMap : p[2] \in exists /\ p[1] \in Gads(p[2])

IInv == ConfigOK /\ Entries

\* An address that is entered for an existing object is not stale.
LEMMA EntriesSuffice == IInv => NoStaleAddress
<1>1. SUFFICES ASSUME IInv,
                      NEW a \in Addresses,
                      NEW o \in Objects,
                      <<a, o>> \in objectMap
               PROVE  o \in exists /\ a \in Gads(o)
      BY DEF NoStaleAddress, Reached
<1> QED BY <1>1 DEF IInv, Entries

\* No object is there at first.
LEMMA InitialEntries == Init => IInv
BY DEF Init, IInv, ConfigOK, Entries

\* An object that leaves the map leaves it completely, the others stay.
LEMMA UnmappedRemoves ==
    ASSUME IInv, NEW o \in Objects
    PROVE  /\ Unmapped(o) \subseteq objectMap
           /\ \A p \in Unmapped(o) : p[2] # o
BY DEF IInv, Entries, Unmapped

\* A reconfiguration, complete or cut short, assigns addresses.
LEMMA AssignTypes ==
    ASSUME ConfigOK, NEW o \in Objects,
           NEW g \in Addresses \cup {NoAddress, Unchanged},
           NEW ls \in (SUBSET Addresses) \cup {Unchanged},
           NEW rd, Assign(o, g, ls, rd)
    PROVE  /\ gad' \in [Objects -> Addresses \cup {NoAddress}]
           /\ listenerGads' \in [Objects -> SUBSET Addresses]
           /\ \A q \in Objects \ {o} : Gads(q)' = Gads(q)
BY DEF ConfigOK, Assign, Gads

\* Creating or changing an object, with success or not, keeps the entries.
LEMMA ImportKeepsEntries ==
    ASSUME IInv, NEW o \in Objects, Import(o)
    PROVE  IInv'
<1>1. PICK g \in Addresses \cup {NoAddress, Unchanged},
           ls \in (SUBSET Addresses) \cup {Unchanged} :
              \E rd \in {Unchanged} \cup (IF ls = Unchanged THEN {} ELSE ls) :
                 Configure(o, g, ls, rd) \/ ConfigureFails(o, g, ls, rd)
      BY DEF Import
<1>2. PICK rd : Configure(o, g, ls, rd) \/ ConfigureFails(o, g, ls, rd)
      BY <1>1
<1>3. ConfigOK
      BY DEF IInv
<1>4. /\ Unmapped(o) \subseteq objectMap
      /\ \A p \in Unmapped(o) : p[2] # o
      BY UnmappedRemoves
<1>5. CASE Configure(o, g, ls, rd)
  <2>1. Assign(o, g, ls, rd)
        BY <1>5 DEF Configure
  <2>2. /\ gad' \in [Objects -> Addresses \cup {NoAddress}]
        /\ listenerGads' \in [Objects -> SUBSET Addresses]
        /\ \A q \in Objects \ {o} : Gads(q)' = Gads(q)
        BY <1>3, <2>1, AssignTypes
  <2>3. /\ objectMap' = Unmapped(o) \cup {<<a, o>> : a \in Gads(o)'}
        /\ exists' = exists \cup {o}
        BY <1>5 DEF Configure
  <2>4. Gads(o)' \subseteq Addresses
        BY <2>2 DEF Gads
  <2>5. ConfigOK'
        BY <1>3, <1>4, <2>2, <2>3, <2>4 DEF ConfigOK
  <2>6. Entries'
    <3>1. SUFFICES ASSUME NEW p \in objectMap'
                   PROVE  p[2] \in exists' /\ p[1] \in Gads(p[2])'
          BY DEF Entries
    <3>2. CASE p \in Unmapped(o)
      <4>1. p[2] \in exists /\ p[1] \in Gads(p[2]) /\ p[2] \in Objects \ {o}
            BY <1>3, <1>4, <3>2 DEF IInv, Entries, ConfigOK
      <4> QED BY <4>1, <2>2, <2>3
    <3>3. CASE p \in {<<a, o>> : a \in Gads(o)'}
          BY <3>3, <2>3
    <3> QED BY <3>2, <3>3, <2>3
  <2> QED BY <2>5, <2>6 DEF IInv
<1>6. CASE ConfigureFails(o, g, ls, rd)
  <2>1. objectMap' = Unmapped(o) /\ exists' = exists
        BY <1>6 DEF ConfigureFails
  <2>2. \/ Assign(o, g, ls, rd)
        \/ UNCHANGED <<gad, listenerGads>>
        BY <1>6 DEF ConfigureFails
  <2>3. /\ gad' \in [Objects -> Addresses \cup {NoAddress}]
        /\ listenerGads' \in [Objects -> SUBSET Addresses]
        /\ \A q \in Objects \ {o} : Gads(q)' = Gads(q)
    <3>1. CASE Assign(o, g, ls, rd)
          BY <1>3, <3>1, AssignTypes
    <3>2. CASE UNCHANGED <<gad, listenerGads>>
          BY <1>3, <3>2 DEF ConfigOK, Gads
    <3> QED BY <2>2, <3>1, <3>2
  <2>4. ConfigOK'
        BY <1>3, <1>4, <2>1, <2>3 DEF ConfigOK
  <2>5. Entries'
    <3>1. SUFFICES ASSUME NEW p \in objectMap'
                   PROVE  p[2] \in exists' /\ p[1] \in Gads(p[2])'
          BY DEF Entries
    <3>2. p[2] \in exists /\ p[1] \in Gads(p[2]) /\ p[2] \in Objects \ {o}
          BY <1>3, <1>4, <2>1, <3>1 DEF IInv, Entries, ConfigOK
    <3> QED BY <3>2, <2>1, <2>3
  <2> QED BY <2>4, <2>5 DEF IInv
<1> QED BY <1>2, <1>5, <1>6

\* A deletion takes all entries of its object.
LEMMA DeleteKeepsEntries ==
    ASSUME IInv, NEW o \in Objects, Delete(o)
    PROVE  IInv'
<1>1. /\ objectMap' = Unmapped(o)
      /\ exists' = exists \ {o}
      /\ gad' = [gad EXCEPT ![o] = NoAddress]
      /\ listenerGads' = [listenerGads EXCEPT ![o] = {}]
      BY DEF Delete, Destroy
<1>2. /\ Unmapped(o) \subseteq objectMap
      /\ \A p \in Unmapped(o) : p[2] # o
      BY UnmappedRemoves
<1>3. ConfigOK'
      BY <1>1, <1>2 DEF IInv, ConfigOK
<1>4. \A q \in Objects \ {o} : Gads(q)' = Gads(q)
      BY <1>1 DEF IInv, ConfigOK, Gads
<1>5. Entries'
  <2>1. SUFFICES ASSUME NEW p \in objectMap'
                 PROVE  p[2] \in exists' /\ p[1] \in Gads(p[2])'
        BY DEF Entries
  <2>2. p[2] \in exists /\ p[1] \in Gads(p[2]) /\ p[2] \in Objects \ {o}
        BY <1>1, <1>2, <2>1 DEF IInv, Entries, ConfigOK
  <2> QED BY <2>2, <1>1, <1>4
<1> QED BY <1>3, <1>5 DEF IInv

\* A refused deletion takes entries at most.
LEMMA DeleteFailsKeepsEntries ==
    ASSUME IInv, NEW o \in Objects, DeleteFails(o)
    PROVE  IInv'
<1>1. objectMap' \subseteq objectMap
      BY UnmappedRemoves DEF DeleteFails
<1>2. UNCHANGED <<exists, gad, listenerGads>>
      BY DEF DeleteFails
<1> QED BY <1>1, <1>2 DEF IInv, ConfigOK, Entries, Gads

\* Clients and rules count pointers and leave the configuration alone.
LEMMA UsersLeaveConfig ==
    ASSUME \/ \E c \in Clients : Request(c)
           \/ \E r \in Rules : RuleRequest(r)
    PROVE  UNCHANGED config
<1>1. ASSUME NEW c \in Clients, Request(c)
      PROVE  UNCHANGED config
      BY <1>1 DEF Request, Register, Unregister, RegisterAll, UnregisterAll,
                  WriteBegin, WriteFails, WriteEnd
<1>2. ASSUME NEW r \in Rules, RuleRequest(r)
      PROVE  UNCHANGED config
      BY <1>2 DEF RuleRequest, ConfigureRule, RuleFails, Rewire, DeleteRule
<1> QED BY <1>1, <1>2

\* Every step keeps the entries.
LEMMA EntriesPreserved == IInv /\ [Next]_vars => IInv'
<1>1. SUFFICES ASSUME IInv, [Next]_vars
               PROVE  IInv'
      OBVIOUS
<1>2. CASE \E o \in Objects : Import(o) \/ Delete(o) \/ DeleteFails(o)
      BY <1>1, <1>2, ImportKeepsEntries, DeleteKeepsEntries, DeleteFailsKeepsEntries
<1>3. CASE UNCHANGED config
      BY <1>1, <1>3 DEF config, IInv, ConfigOK, Entries, Gads
<1>4. CASE UNCHANGED vars
      BY <1>4, <1>3 DEF vars, config
<1> QED BY <1>1, <1>2, <1>3, <1>4, UsersLeaveConfig DEF Next

\* A telegram never reaches an object that is deleted or was moved elsewhere
\* (ObjectController::importXml).
THEOREM NoStaleAddressEver == Spec => []NoStaleAddress
<1>1. Spec => []IInv
      BY InitialEntries, EntriesPreserved, PTL DEF Spec
<1> QED BY <1>1, EntriesSuffice, PTL

-----------------------------------------------------------------------------
\* Every object that exists is in the map under all of its addresses, unless
\* its own last request failed.
Complete == \A o \in exists \ broken : \A a \in Gads(o) : <<a, o>> \in objectMap

\* Configuring an object puts it under all of its addresses, and whatever else
\* leaves the map leaves the objects, too.
LEMMA CompletePreserved ==
    ASSUME IInv, Complete, [Next]_vars
    PROVE  Complete'
<1> SUFFICES ASSUME NEW p \in exists', p \notin broken', NEW a \in Gads(p)'
             PROVE  <<a, p>> \in objectMap'
  BY DEF Complete
<1>1. ConfigOK /\ ConfigOK' /\ p \in Objects
  BY EntriesPreserved DEF IInv, ConfigOK
<1>2. \A o \in exists \ broken : \A b \in Gads(o) : <<b, o>> \in objectMap
  BY DEF Complete
<1>3. ASSUME NEW o \in Objects, NEW q \in exists \ {o}, q \notin broken, NEW b \in Gads(q)
      PROVE  <<b, q>> \in Unmapped(o)
  BY <1>2, <1>3 DEF Unmapped
<1>4. ASSUME NEW o \in Objects, Import(o)
      PROVE  <<a, p>> \in objectMap'
  <2>1. PICK g \in Addresses \cup {NoAddress, Unchanged},
             ls \in (SUBSET Addresses) \cup {Unchanged} :
                \E rd \in {Unchanged} \cup (IF ls = Unchanged THEN {} ELSE ls) :
                   Configure(o, g, ls, rd) \/ ConfigureFails(o, g, ls, rd)
    BY <1>4 DEF Import
  <2>2. PICK rd : Configure(o, g, ls, rd) \/ ConfigureFails(o, g, ls, rd)
    BY <2>1
  <2>3. CASE Configure(o, g, ls, rd)
    <3>1. Assign(o, g, ls, rd) /\ exists' = exists \cup {o} /\ broken' = broken \ {o}
      BY <2>3 DEF Configure
    <3>2. objectMap' = Unmapped(o) \cup {<<b, o>> : b \in Gads(o)'}
      BY <2>3 DEF Configure
    <3>3. \A q \in Objects \ {o} : Gads(q)' = Gads(q)
      BY <1>1, <3>1, AssignTypes
    <3>4. CASE p = o
      BY <3>2, <3>4
    <3>5. CASE p # o
      <4>1. p \in exists \ {o} /\ p \notin broken /\ a \in Gads(p)
        BY <1>1, <3>1, <3>3, <3>5
      <4> QED BY <1>3, <3>2, <4>1
    <3> QED BY <3>4, <3>5
  <2>4. CASE ConfigureFails(o, g, ls, rd)
    <3>1. exists' = exists /\ broken' = broken \cup {o} /\ objectMap' = Unmapped(o)
      BY <2>4 DEF ConfigureFails
    <3>2. \A q \in Objects \ {o} : Gads(q)' = Gads(q)
      <4>1. CASE Assign(o, g, ls, rd)
        BY <1>1, <4>1, AssignTypes
      <4>2. CASE UNCHANGED <<gad, listenerGads>>
        BY <4>2 DEF Gads
      <4> QED BY <2>4, <4>1, <4>2 DEF ConfigureFails
    <3>3. p \in exists \ {o} /\ p \notin broken /\ a \in Gads(p)
      BY <1>1, <3>1, <3>2
    <3> QED BY <1>3, <3>1, <3>3
  <2> QED BY <2>2, <2>3, <2>4
<1>5. ASSUME NEW o \in Objects, Delete(o)
      PROVE  <<a, p>> \in objectMap'
  <2>1. p \in exists \ {o} /\ p \notin broken /\ objectMap' = Unmapped(o)
    BY <1>5 DEF Delete, Destroy
  <2>2. Gads(p)' = Gads(p)
    BY <1>1, <1>5, <2>1 DEF Delete, Destroy, Gads, ConfigOK
  <2> QED BY <1>3, <2>1, <2>2
<1>6. ASSUME NEW o \in Objects, DeleteFails(o)
      PROVE  <<a, p>> \in objectMap'
  <2>1. p \in exists \ {o} /\ p \notin broken /\ objectMap' = Unmapped(o)
    BY <1>6 DEF DeleteFails
  <2>2. Gads(p)' = Gads(p)
    BY <1>6 DEF DeleteFails, Gads
  <2> QED BY <1>3, <2>1, <2>2
<1>7. CASE UNCHANGED config
  BY <1>2, <1>7 DEF config, Gads
<1> QED BY <1>4, <1>5, <1>6, <1>7, UsersLeaveConfig DEF Next, vars, config

\* A telegram reaches every object on its address, whichever requests for other
\* objects, rules and clients failed half-way; a refused request for the object
\* itself takes it out of the map until it is configured again
\* (ObjectController::importXml).
THEOREM EveryAddressReachedEver == Spec => []EveryAddressReached
<1>1. Init => IInv /\ Complete
  BY InitialEntries DEF Init, Complete
<1>2. IInv /\ Complete /\ [Next]_vars => (IInv /\ Complete)'
  BY EntriesPreserved, CompletePreserved
<1>3. IInv /\ Complete => EveryAddressReached
  BY DEF IInv, ConfigOK, Complete, EveryAddressReached, Reached
<1> QED BY <1>1, <1>2, <1>3, PTL DEF Spec

-----------------------------------------------------------------------------
\* What the count of an object rests on.  A client that keeps to the protocol
\* is in the list of an object once at most.
CountTypes ==
    /\ exists \subseteq Objects
    /\ refCount \in [Objects -> 0..MaxCount]
    /\ notify \in [Clients -> [Objects -> 0..MaxCount]]
    /\ \A c \in Clients : \A o \in Objects : notify[c][o] \in {0, 1}
    /\ uses \in [Rules -> SUBSET Objects]
    /\ acts \in [Rules -> SUBSET Objects]
    /\ writing \in [Clients -> Objects \cup {NoObject}]
    /\ stray \in [Objects -> Nat]

\* The count is exact, and zero for an object that does not exist.
Protected(o) ==
    /\ refCount[o] = Holders(o) + stray[o]
    /\ o \notin exists => refCount[o] = 0

Counts == \A o \in Objects : Protected(o)

CountInv == CountTypes /\ Counts

\* There are finitely many pointers to an object.
LEMMA FinitePointers ==
    ASSUME NEW o
    PROVE  /\ IsFiniteSet(RulesUsing(o)) /\ Cardinality(RulesUsing(o)) \in Nat
           /\ IsFiniteSet(RulesActing(o)) /\ Cardinality(RulesActing(o)) \in Nat
           /\ IsFiniteSet(Writers(o)) /\ Cardinality(Writers(o)) \in Nat
           /\ IsFiniteSet(Registrations(o)) /\ Cardinality(Registrations(o)) \in Nat
<1>1. IsFiniteSet(Clients) /\ IsFiniteSet(Rules) /\ MaxCount \in Nat
  BY ObjectControllerConstants
<1>2. RulesUsing(o) \in SUBSET Rules /\ RulesActing(o) \in SUBSET Rules /\ Writers(o) \in SUBSET Clients
  BY DEF RulesUsing, RulesActing, Writers
<1>3. Registrations(o) \in SUBSET (Clients \X (1..MaxCount))
  BY DEF Registrations
<1>4. IsFiniteSet(Clients \X (1..MaxCount))
  <2>1. IsFiniteSet(1..MaxCount)
    BY <1>1, FS_Interval
  <2> QED BY <1>1, <2>1, FS_Product, Zenon
<1>5. /\ IsFiniteSet(RulesUsing(o)) /\ IsFiniteSet(RulesActing(o))
      /\ IsFiniteSet(Writers(o)) /\ IsFiniteSet(Registrations(o))
  BY <1>1, <1>2, <1>3, <1>4, FS_Subset
<1> QED BY <1>5, FS_CardinalityType

\* A set of pointers that is written again with one more or one less.
LEMMA OneMore ==
    ASSUME NEW S, IsFiniteSet(S), NEW x, x \notin S, NEW T, T = S \cup {x}
    PROVE  Cardinality(T) = Cardinality(S) + 1
BY FS_AddElement

\* A member less counts one less.
LEMMA OneLess ==
    ASSUME NEW S, IsFiniteSet(S), NEW x, x \in S, NEW T, T = S \ {x}
    PROVE  Cardinality(T) = Cardinality(S) - 1
BY FS_RemoveElement

\* The registrations of an object when the list of client c says n for it.
LEMMA RegistrationsCounted ==
    ASSUME CountTypes, NEW c \in Clients, NEW o \in Objects, NEW n \in {0, 1}, n <= MaxCount,
           notify'[c][o] = n, \A d \in Clients \ {c} : notify'[d][o] = notify[d][o]
    PROVE  Cardinality(Registrations(o)') = Cardinality(Registrations(o)) - notify[c][o] + n
<1> DEFINE p == <<c, 1>>
<1>0. MaxCount \in Nat /\ notify[c][o] \in {0, 1} /\ notify[c][o] \in 0..MaxCount
  BY ObjectControllerConstants DEF CountTypes
<1>1. IsFiniteSet(Registrations(o)) /\ Cardinality(Registrations(o)) \in Nat
  BY FinitePointers
<1>2. \A q \in Clients \X (1..MaxCount) : q[1] \in Clients /\ q[2] \in 1..MaxCount /\ q = <<q[1], q[2]>>
  OBVIOUS
<1>3. p \in Registrations(o) <=> notify[c][o] = 1
  BY <1>0 DEF Registrations
<1>4. \A q \in Clients \X (1..MaxCount) : q # p => (q \in Registrations(o)' <=> q \in Registrations(o))
  <2> SUFFICES ASSUME NEW q \in Clients \X (1..MaxCount), q # p
               PROVE  q[2] <= notify'[q[1]][o] <=> q[2] <= notify[q[1]][o]
    BY DEF Registrations
  <2>1. CASE q[1] # c
    BY <1>2, <2>1
  <2>2. CASE q[1] = c
    <3>1. q[2] \in 1..MaxCount /\ q[2] # 1
      BY <1>2, <2>2
    <3> QED BY <1>0, <2>2, <3>1
  <2> QED BY <2>1, <2>2
<1>5. p \in Registrations(o)' <=> n = 1
  BY <1>0 DEF Registrations
<1>6. Registrations(o) \subseteq Clients \X (1..MaxCount) /\ Registrations(o)' \subseteq Clients \X (1..MaxCount)
  BY DEF Registrations
<1> HIDE DEF p
<1>7. CASE notify[c][o] = 1 /\ n = 1
  <2>1. \A q \in Clients \X (1..MaxCount) : q \in Registrations(o)' <=> q \in Registrations(o)
    BY <1>3, <1>4, <1>5, <1>7
  <2>2. Registrations(o)' = Registrations(o)
    BY <1>6, <2>1, Zenon
  <2> QED BY <1>1, <1>7, <2>2
<1>8. CASE notify[c][o] = 0 /\ n = 0
  <2>1. \A q \in Clients \X (1..MaxCount) : q \in Registrations(o)' <=> q \in Registrations(o)
    BY <1>3, <1>4, <1>5, <1>8
  <2>2. Registrations(o)' = Registrations(o)
    BY <1>6, <2>1, Zenon
  <2> QED BY <1>1, <1>8, <2>2
<1>9. CASE notify[c][o] = 0 /\ n = 1
  <2>1. p \notin Registrations(o) /\ Registrations(o)' = Registrations(o) \cup {p}
    BY <1>3, <1>4, <1>5, <1>6, <1>9
  <2> QED BY <1>1, <1>9, <2>1, OneMore
<1>10. CASE notify[c][o] = 1 /\ n = 0
  <2>1. p \in Registrations(o) /\ Registrations(o)' = Registrations(o) \ {p}
    BY <1>3, <1>4, <1>5, <1>6, <1>10
  <2> QED BY <1>1, <1>10, <2>1, OneLess
<1> QED BY <1>0, <1>7, <1>8, <1>9, <1>10

\* The rules that use an object when rule r gets the objects os.
LEMMA RulesCounted ==
    ASSUME CountTypes, NEW r \in Rules, NEW os \in SUBSET Objects, uses' = [uses EXCEPT ![r] = os],
           NEW o \in Objects
    PROVE  Cardinality(RulesUsing(o)')
              = Cardinality(RulesUsing(o)) - In(o, uses[r]) + In(o, os)
<1>1. IsFiniteSet(RulesUsing(o)) /\ Cardinality(RulesUsing(o)) \in Nat
  BY FinitePointers
<1>2. uses'[r] = os /\ \A q \in Rules \ {r} : uses'[q] = uses[q]
  BY DEF CountTypes
<1>3. r \in RulesUsing(o) <=> o \in uses[r]
  BY DEF RulesUsing
<1>4. CASE (o \in uses[r]) <=> (o \in os)
  <2>1. \A q \in Rules : o \in uses'[q] <=> o \in uses[q]
    BY <1>2, <1>4
  <2>2. RulesUsing(o)' = RulesUsing(o)
    BY <2>1 DEF RulesUsing
  <2> QED BY <1>1, <1>4, <2>2 DEF In
<1>5. CASE o \in uses[r] /\ o \notin os
  <2>1. RulesUsing(o)' = RulesUsing(o) \ {r}
    BY <1>2, <1>5 DEF RulesUsing
  <2> QED BY <1>1, <1>3, <1>5, <2>1, OneLess DEF In
<1>6. CASE o \notin uses[r] /\ o \in os
  <2>1. RulesUsing(o)' = RulesUsing(o) \cup {r}
    BY <1>2, <1>6 DEF RulesUsing
  <2> QED BY <1>1, <1>3, <1>6, <2>1, OneMore DEF In
<1> QED BY <1>4, <1>5, <1>6

\* And the rules that act on it.
LEMMA ActorsCounted ==
    ASSUME CountTypes, NEW r \in Rules, NEW os \in SUBSET Objects, acts' = [acts EXCEPT ![r] = os],
           NEW o \in Objects
    PROVE  Cardinality(RulesActing(o)')
              = Cardinality(RulesActing(o)) - In(o, acts[r]) + In(o, os)
<1>1. IsFiniteSet(RulesActing(o)) /\ Cardinality(RulesActing(o)) \in Nat
  BY FinitePointers
<1>2. acts'[r] = os /\ \A q \in Rules \ {r} : acts'[q] = acts[q]
  BY DEF CountTypes
<1>3. r \in RulesActing(o) <=> o \in acts[r]
  BY DEF RulesActing
<1>4. CASE (o \in acts[r]) <=> (o \in os)
  <2>1. \A q \in Rules : o \in acts'[q] <=> o \in acts[q]
    BY <1>2, <1>4
  <2>2. RulesActing(o)' = RulesActing(o)
    BY <2>1 DEF RulesActing
  <2> QED BY <1>1, <1>4, <2>2 DEF In
<1>5. CASE o \in acts[r] /\ o \notin os
  <2>1. RulesActing(o)' = RulesActing(o) \ {r}
    BY <1>2, <1>5 DEF RulesActing
  <2> QED BY <1>1, <1>3, <1>5, <2>1, OneLess DEF In
<1>6. CASE o \notin acts[r] /\ o \in os
  <2>1. RulesActing(o)' = RulesActing(o) \cup {r}
    BY <1>2, <1>6 DEF RulesActing
  <2> QED BY <1>1, <1>3, <1>6, <2>1, OneMore DEF In
<1> QED BY <1>4, <1>5, <1>6

\* Client c turns to w, an object or none.
Turns(c, w) == writing' = [writing EXCEPT ![c] = w]

\* The clients that write an object then.
LEMMA WritersCounted ==
    ASSUME CountTypes, NEW c \in Clients, NEW w, Turns(c, w), NEW o \in Objects
    PROVE  Cardinality(Writers(o)')
              = Cardinality(Writers(o)) - (IF writing[c] = o THEN 1 ELSE 0) + (IF w = o THEN 1 ELSE 0)
<1>1. IsFiniteSet(Writers(o)) /\ Cardinality(Writers(o)) \in Nat
  BY FinitePointers
<1>2. writing'[c] = w /\ \A d \in Clients \ {c} : writing'[d] = writing[d]
  BY DEF CountTypes, Turns
<1>3. c \in Writers(o) <=> writing[c] = o
  BY DEF Writers
<1>4. CASE (writing[c] = o) <=> (w = o)
  <2>1. \A d \in Clients : writing'[d] = o <=> writing[d] = o
    BY <1>2, <1>4
  <2>2. Writers(o)' = Writers(o)
    BY <2>1 DEF Writers
  <2> QED BY <1>1, <1>4, <2>2
<1>5. CASE writing[c] = o /\ w # o
  <2>1. Writers(o)' = Writers(o) \ {c}
    BY <1>2, <1>5 DEF Writers
  <2> QED BY <1>1, <1>3, <1>5, <2>1, OneLess
<1>6. CASE writing[c] # o /\ w = o
  <2>1. Writers(o)' = Writers(o) \cup {c}
    BY <1>2, <1>6 DEF Writers
  <2> QED BY <1>1, <1>3, <1>6, <2>1, OneMore
<1> QED BY <1>4, <1>5, <1>6

\* An object stays protected if its count changes as its pointers and the lost
\* references do, and if only the count of an existing object changes.
LEMMA BalancedWith ==
    ASSUME CountInv, NEW o \in Objects,
           NEW d \in Int, Holders(o)' = Holders(o) + d,
           NEW e \in Int, stray'[o] = stray[o] + e,
           refCount'[o] = refCount[o] + d + e,
           refCount'[o] = refCount[o] \/ o \in exists,
           exists' = exists
    PROVE  Protected(o)'
<1>1. Holders(o) \in Nat
  BY FinitePointers DEF Holders
<1>2. refCount[o] \in Nat /\ stray[o] \in Nat
  BY ObjectControllerConstants DEF CountInv, CountTypes
<1>3. /\ refCount[o] = Holders(o) + stray[o]
      /\ o \notin exists => refCount[o] = 0
  BY DEF CountInv, Counts, Protected
<1>4. refCount'[o] = Holders(o)' + stray'[o]
  BY <1>1, <1>2, <1>3
<1>5. o \notin exists' => refCount'[o] = 0
  BY <1>3
<1> QED BY <1>4, <1>5 DEF Protected

\* No reference is lost.
LEMMA Balanced ==
    ASSUME CountInv, NEW o \in Objects,
           NEW d \in Int, Holders(o)' = Holders(o) + d,
           stray'[o] = stray[o],
           refCount'[o] = refCount[o] + d,
           refCount'[o] = refCount[o] \/ o \in exists,
           exists' = exists
    PROVE  Protected(o)'
<1>1. refCount[o] \in Nat /\ stray[o] \in Nat
  BY ObjectControllerConstants DEF CountInv, CountTypes
<1>2. stray'[o] = stray[o] + 0 /\ refCount'[o] = refCount[o] + d + 0 /\ 0 \in Int
  BY <1>1
<1> QED BY <1>2, BalancedWith

\* Configuration changes no count and deletes only what is not counted.
LEMMA ConfigurationCounts ==
    ASSUME CountInv, NEW o \in Objects, Import(o) \/ Delete(o) \/ DeleteFails(o)
    PROVE  CountInv'
<1>1. UNCHANGED <<refCount, notify, uses, acts, writing, stray>>
  BY DEF Import, Configure, ConfigureFails, Delete, DeleteFails, pointers
<1>2. \/ exists' = exists
      \/ exists' = exists \cup {o}
      \/ exists' = exists \ {o} /\ refCount[o] = 0
  BY DEF Import, Configure, ConfigureFails, Delete, DeleteFails, Destroy
<1>3. CountTypes'
  BY <1>1, <1>2 DEF CountInv, CountTypes
<1>4. ASSUME NEW p \in Objects
      PROVE  Protected(p)'
  <2>1. Holders(p)' = Holders(p)
    BY <1>1 DEF Holders, Registrations, RulesUsing, RulesActing, Writers
  <2>2. Protected(p)
    BY DEF CountInv, Counts
  <2> QED BY <1>1, <1>2, <2>1, <2>2 DEF Protected
<1> QED BY <1>3, <1>4 DEF CountInv, Counts

\* Registering and unregistering one object.
LEMMA RegistrationCounts ==
    ASSUME CountInv, Polite, NEW c \in Clients, NEW o \in Objects, Register(c, o) \/ Unregister(c, o)
    PROVE  CountInv'
<1>0. CountTypes /\ MaxCount \in Nat
  BY ObjectControllerConstants DEF CountInv
<1>1. PICK n \in {0, 1} :
         /\ n <= MaxCount
         /\ notify' = [notify EXCEPT ![c][o] = n]
         /\ refCount' = [refCount EXCEPT ![o] = refCount[o] - notify[c][o] + n]
         /\ refCount[o] - notify[c][o] + n \in 0..MaxCount
  <2>1. CASE Register(c, o)
    <3>1. notify[c][o] = 0 /\ notify[c][o] + 1 = 1
      BY <2>1 DEF Register
    <3>2. notify' = [notify EXCEPT ![c][o] = 1]
      BY <1>0, <2>1, <3>1 DEF Register, CountTypes
    <3>3. refCount[o] \in 0..MaxCount /\ refCount[o] < MaxCount /\ refCount' = [refCount EXCEPT ![o] = refCount[o] + 1]
      BY <1>0, <2>1 DEF Register, Get, CountTypes
    <3>4. refCount[o] - notify[c][o] + 1 = refCount[o] + 1 /\ refCount[o] + 1 \in 0..MaxCount /\ 1 <= MaxCount
      BY <1>0, <3>1, <3>3
    <3> QED BY <3>2, <3>3, <3>4
  <2>2. CASE Unregister(c, o)
    <3>1. notify[c][o] = 1 /\ notify' = [notify EXCEPT ![c][o] = 0]
      BY <1>0, <2>2 DEF Unregister, CountTypes
    <3>2. refCount[o] \in 0..MaxCount /\ refCount[o] >= 1 /\ refCount' = [refCount EXCEPT ![o] = refCount[o] - 1]
      BY <1>0, <2>2 DEF Unregister, Counted, CountTypes
    <3>3. refCount[o] - notify[c][o] + 0 = refCount[o] - 1 /\ refCount[o] - 1 \in 0..MaxCount /\ 0 <= MaxCount
      BY <1>0, <3>1, <3>2
    <3> QED BY <3>1, <3>2, <3>3
  <2> QED BY <2>1, <2>2
<1>2. o \in exists /\ UNCHANGED <<exists, uses, acts, writing, stray>>
  BY DEF Register, Unregister, Get, config
<1>3. CountTypes'
  <2>1. notify' \in [Clients -> [Objects -> 0..MaxCount]]
    BY <1>0, <1>1 DEF CountTypes
  <2>2. \A d \in Clients : \A p \in Objects : notify'[d][p] \in {0, 1}
    BY <1>0, <1>1 DEF CountTypes
  <2>3. refCount' \in [Objects -> 0..MaxCount]
    BY <1>0, <1>1 DEF CountTypes
  <2> QED BY <1>0, <1>2, <2>1, <2>2, <2>3 DEF CountTypes
<1>4. ASSUME NEW p \in Objects
      PROVE  Protected(p)'
  <2>1. /\ Cardinality(RulesUsing(p)') = Cardinality(RulesUsing(p))
        /\ Cardinality(RulesActing(p)') = Cardinality(RulesActing(p))
        /\ Cardinality(Writers(p)') = Cardinality(Writers(p))
    BY <1>2 DEF RulesUsing, RulesActing, Writers
  <2> DEFINE m == IF p = o THEN n ELSE notify[c][p]
  <2>2. notify'[c][p] = m /\ \A d \in Clients \ {c} : notify'[d][p] = notify[d][p]
    BY <1>0, <1>1 DEF CountTypes
  <2>3. m \in {0, 1} /\ m <= MaxCount /\ notify[c][p] \in {0, 1}
    BY <1>0, <1>1 DEF CountTypes
  <2>4. refCount'[p] = refCount[p] + (m - notify[c][p]) /\ (p = o \/ refCount'[p] = refCount[p])
    <3>1. refCount[p] \in Nat
      BY <1>0 DEF CountTypes
    <3> QED BY <1>0, <1>1, <2>3, <3>1 DEF CountTypes
  <2> HIDE DEF m
  <2>5. Cardinality(Registrations(p)') = Cardinality(Registrations(p)) - notify[c][p] + m
    BY <1>0, <2>2, <2>3, RegistrationsCounted
  <2>6. Holders(p)' = Holders(p) + (m - notify[c][p])
    BY <2>1, <2>3, <2>5, FinitePointers DEF Holders
  <2>7. m - notify[c][p] \in Int /\ stray'[p] = stray[p]
    BY <1>0, <1>2, <2>3 DEF CountTypes
  <2> QED BY <1>2, <2>4, <2>6, <2>7, Balanced
<1> QED BY <1>3, <1>4 DEF CountInv, Counts

\* Registering and unregistering all objects at once: the list of client c says
\* keep[o] for object o afterwards.
LEMMA ListCounts ==
    ASSUME CountInv, NEW c \in Clients, RegisterAll(c) \/ UnregisterAll(c)
    PROVE  CountInv'
<1>0. CountTypes /\ MaxCount \in Nat
  BY ObjectControllerConstants DEF CountInv
<1>1. \A o \in Objects : /\ refCount[o] \in 0..MaxCount /\ notify[c][o] \in {0, 1}
                         /\ refCount[o] - notify[c][o] \in Nat
                         /\ Released(c)[o] = refCount[o] - notify[c][o]
  <2>1. \A o \in Objects : refCount[o] \in 0..MaxCount /\ notify[c][o] \in {0, 1} /\ refCount[o] >= notify[c][o]
    BY <1>0 DEF RegisterAll, UnregisterAll, Counted, CountTypes
  <2> QED BY <1>0, <2>1 DEF Released
<1>2. PICK keep \in [Objects -> {0, 1}] :
         /\ notify' = [notify EXCEPT ![c] = keep]
         /\ \A o \in Objects : /\ keep[o] <= MaxCount
                               /\ keep[o] = 0 \/ o \in exists
                               /\ refCount[o] - notify[c][o] + keep[o] \in 0..MaxCount
         /\ refCount' = [o \in Objects |-> refCount[o] - notify[c][o] + keep[o]]
  <2>1. CASE UnregisterAll(c)
    <3> DEFINE keep == [o \in Objects |-> 0]
    <3>1. keep \in [Objects -> {0, 1}] /\ notify' = [notify EXCEPT ![c] = keep]
      BY <2>1 DEF UnregisterAll
    <3>2. \A o \in Objects : /\ keep[o] <= MaxCount
                             /\ keep[o] = 0 \/ o \in exists
                             /\ refCount[o] - notify[c][o] + keep[o] \in 0..MaxCount
      BY <1>0, <1>1
    <3>3. refCount' = [o \in Objects |-> refCount[o] - notify[c][o] + keep[o]]
      <4>1. \A o \in Objects : Released(c)[o] = refCount[o] - notify[c][o] + keep[o]
        BY <1>1
      <4> QED BY <2>1, <4>1 DEF UnregisterAll, Released
    <3> QED BY <3>1, <3>2, <3>3
  <2>2. CASE RegisterAll(c)
    <3> DEFINE keep == [o \in Objects |-> IF o \in exists THEN 1 ELSE 0]
    <3>1. keep \in [Objects -> {0, 1}] /\ notify' = [notify EXCEPT ![c] = keep]
      BY <2>2 DEF RegisterAll
    <3>2. \A o \in Objects : /\ keep[o] <= MaxCount
                             /\ keep[o] = 0 \/ o \in exists
                             /\ refCount[o] - notify[c][o] + keep[o] \in 0..MaxCount
      <4>1. \A o \in Objects : refCount[o] - notify[c][o] < MaxCount
        BY <1>1, <2>2 DEF RegisterAll
      <4> QED BY <1>0, <1>1, <4>1
    <3>3. refCount' = [o \in Objects |-> refCount[o] - notify[c][o] + keep[o]]
      BY <1>1, <2>2 DEF RegisterAll
    <3> QED BY <3>1, <3>2, <3>3
  <2> QED BY <2>1, <2>2
<1>3. UNCHANGED <<exists, uses, acts, writing, stray>>
  BY DEF RegisterAll, UnregisterAll, config
<1>4. CountTypes'
  <2>1. notify' \in [Clients -> [Objects -> 0..MaxCount]]
    <3>1. keep \in [Objects -> 0..MaxCount]
      <4>1. ASSUME NEW p \in Objects
            PROVE  keep[p] \in 0..MaxCount
        <5>1. keep[p] \in {0, 1} /\ keep[p] <= MaxCount
          BY <1>0, <1>2 DEF CountTypes
        <5> QED BY <1>0, <5>1
      <4> QED BY <4>1
    <3> QED BY <1>0, <1>2, <3>1 DEF CountTypes
  <2>2. \A d \in Clients : \A p \in Objects : notify'[d][p] \in {0, 1}
    BY <1>0, <1>2 DEF CountTypes
  <2>3. refCount' \in [Objects -> 0..MaxCount]
    BY <1>2
  <2> QED BY <1>0, <1>3, <2>1, <2>2, <2>3 DEF CountTypes
<1>5. ASSUME NEW p \in Objects
      PROVE  Protected(p)'
  <2>1. /\ Cardinality(RulesUsing(p)') = Cardinality(RulesUsing(p))
        /\ Cardinality(RulesActing(p)') = Cardinality(RulesActing(p))
        /\ Cardinality(Writers(p)') = Cardinality(Writers(p))
    BY <1>3 DEF RulesUsing, RulesActing, Writers
  <2>2. /\ notify'[c][p] = keep[p] /\ \A d \in Clients \ {c} : notify'[d][p] = notify[d][p]
        /\ keep[p] \in {0, 1} /\ keep[p] <= MaxCount
    BY <1>0, <1>2 DEF CountTypes
  <2>3. Cardinality(Registrations(p)') = Cardinality(Registrations(p)) - notify[c][p] + keep[p]
    BY <1>0, <2>2, RegistrationsCounted
  <2>4. refCount'[p] = refCount[p] + (keep[p] - notify[c][p]) /\ notify[c][p] \in {0, 1} /\ refCount[p] \in Nat
    BY <1>0, <1>1, <1>2, <2>2
  <2>5. Holders(p)' = Holders(p) + (keep[p] - notify[c][p])
    BY <2>1, <2>2, <2>3, <2>4, FinitePointers DEF Holders
  <2>6. refCount'[p] = refCount[p] \/ p \in exists
    <3>1. CASE p \in exists
      BY <3>1
    <3>2. CASE p \notin exists
      <4>1. refCount[p] = 0
        BY <3>2 DEF CountInv, Counts, Protected
      <4>2. keep[p] = 0 /\ notify[c][p] = 0
        BY <1>1, <1>2, <2>4, <3>2, <4>1
      <4> QED BY <2>4, <4>2
    <3> QED BY <3>1, <3>2
  <2>7. keep[p] - notify[c][p] \in Int /\ stray'[p] = stray[p]
    BY <1>0, <1>3, <2>2, <2>4 DEF CountTypes
  <2> QED BY <1>3, <2>4, <2>5, <2>6, <2>7, Balanced
<1> QED BY <1>4, <1>5 DEF CountInv, Counts

\* A client holds the object it writes; a failed write leaves its reference
\* behind.
LEMMA WritingCounts ==
    ASSUME CountInv, NEW c \in Clients,
           WriteEnd(c) \/ \E o \in Objects : WriteBegin(c, o) \/ WriteFails(c, o)
    PROVE  CountInv'
<1>0. CountTypes /\ MaxCount \in Nat /\ NoObject \notin Objects
  BY ObjectControllerConstants DEF CountInv
<1>1. CASE WriteEnd(c)
  <2>1. /\ writing[c] \in Objects /\ refCount[writing[c]] >= 1
        /\ refCount' = [refCount EXCEPT ![writing[c]] = refCount[writing[c]] - 1]
        /\ writing' = [writing EXCEPT ![c] = NoObject]
        /\ UNCHANGED <<exists, notify, uses, acts, stray>>
    BY <1>0, <1>1 DEF WriteEnd, Serving, Counted, CountTypes, config
  <2>2. CountTypes'
    BY <1>0, <2>1 DEF CountTypes
  <2>3. ASSUME NEW p \in Objects
        PROVE  Protected(p)'
    <3> DEFINE d == IF p = writing[c] THEN -1 ELSE 0
    <3>1. refCount'[p] = refCount[p] + d /\ refCount[p] \in Nat
      BY <1>0, <2>1 DEF CountTypes
    <3>2. /\ Cardinality(RulesUsing(p)') = Cardinality(RulesUsing(p))
          /\ Cardinality(RulesActing(p)') = Cardinality(RulesActing(p))
          /\ Cardinality(Registrations(p)') = Cardinality(Registrations(p))
      BY <2>1 DEF RulesUsing, RulesActing, Registrations
    <3>3. Cardinality(Writers(p)') = Cardinality(Writers(p)) + d
      <4>1. Cardinality(Writers(p)')
               = Cardinality(Writers(p)) - (IF writing[c] = p THEN 1 ELSE 0) + (IF NoObject = p THEN 1 ELSE 0)
        <5>1. CountTypes /\ Turns(c, NoObject)
          BY <1>0, <2>1, Zenon DEF Turns
        <5> QED BY <5>1, WritersCounted, Zenon
      <4>2. Cardinality(Writers(p)) \in Nat
        BY FinitePointers
      <4> QED BY <1>0, <2>1, <4>1, <4>2
    <3>4. Holders(p)' = Holders(p) + d
      BY <3>2, <3>3, FinitePointers DEF Holders
    <3>5. refCount'[p] = refCount[p] \/ p \in exists
      <4>1. p \notin exists => refCount[p] = 0
        BY DEF CountInv, Counts, Protected
      <4> QED BY <2>1, <3>1, <4>1
    <3>6. d \in Int /\ stray'[p] = stray[p]
      BY <1>0, <2>1 DEF CountTypes
    <3> QED BY <2>1, <3>1, <3>4, <3>5, <3>6, Balanced
  <2> QED BY <2>2, <2>3 DEF CountInv, Counts
<1>2. ASSUME NEW o \in Objects, WriteBegin(c, o)
      PROVE  CountInv'
  <2>1. /\ writing[c] = NoObject /\ o \in exists /\ refCount[o] < MaxCount
        /\ refCount' = [refCount EXCEPT ![o] = refCount[o] + 1]
        /\ writing' = [writing EXCEPT ![c] = o]
        /\ UNCHANGED <<exists, notify, uses, acts, stray>>
    BY <1>0, <1>2 DEF WriteBegin, Serving, Get, CountTypes, config
  <2>2. CountTypes'
    BY <1>0, <2>1 DEF CountTypes
  <2>3. ASSUME NEW p \in Objects
        PROVE  Protected(p)'
    <3> DEFINE d == IF p = o THEN 1 ELSE 0
    <3>1. refCount'[p] = refCount[p] + d /\ refCount[p] \in Nat
      BY <1>0, <2>1 DEF CountTypes
    <3>2. /\ Cardinality(RulesUsing(p)') = Cardinality(RulesUsing(p))
          /\ Cardinality(RulesActing(p)') = Cardinality(RulesActing(p))
          /\ Cardinality(Registrations(p)') = Cardinality(Registrations(p))
      BY <2>1 DEF RulesUsing, RulesActing, Registrations
    <3>3. Cardinality(Writers(p)') = Cardinality(Writers(p)) + d
      <4>1. Cardinality(Writers(p)')
               = Cardinality(Writers(p)) - (IF writing[c] = p THEN 1 ELSE 0) + (IF o = p THEN 1 ELSE 0)
        <5>1. CountTypes /\ Turns(c, o)
          BY <1>0, <2>1, Zenon DEF Turns
        <5> QED BY <5>1, WritersCounted, Zenon
      <4>2. Cardinality(Writers(p)) \in Nat
        BY FinitePointers
      <4> QED BY <1>0, <2>1, <4>1, <4>2
    <3>4. Holders(p)' = Holders(p) + d
      BY <3>2, <3>3, FinitePointers DEF Holders
    <3>5. refCount'[p] = refCount[p] \/ p \in exists
      BY <2>1, <3>1
    <3>6. d \in Int /\ stray'[p] = stray[p]
      BY <1>0, <2>1 DEF CountTypes
    <3> QED BY <2>1, <3>1, <3>4, <3>5, <3>6, Balanced
  <2> QED BY <2>2, <2>3 DEF CountInv, Counts
<1>3. ASSUME NEW o \in Objects, WriteFails(c, o)
      PROVE  CountInv'
  <2>1. /\ o \in exists /\ refCount[o] < MaxCount
        /\ refCount' = [refCount EXCEPT ![o] = refCount[o] + 1]
        /\ stray' = [stray EXCEPT ![o] = stray[o] + 1]
        /\ UNCHANGED <<exists, notify, uses, acts, writing>>
    BY <1>0, <1>3 DEF WriteFails, Fails, Get, CountTypes, config, pointers
  <2>2. CountTypes'
    BY <1>0, <2>1 DEF CountTypes
  <2>3. ASSUME NEW p \in Objects
        PROVE  Protected(p)'
    <3> DEFINE e == IF p = o THEN 1 ELSE 0
    <3>1. /\ e \in Int /\ refCount[p] \in Nat
          /\ refCount'[p] = refCount[p] + 0 + e /\ stray'[p] = stray[p] + e
      BY <1>0, <2>1 DEF CountTypes
    <3>2. Holders(p)' = Holders(p) + 0 /\ 0 \in Int
      <4>1. /\ RulesUsing(p)' = RulesUsing(p)
            /\ RulesActing(p)' = RulesActing(p)
            /\ Registrations(p)' = Registrations(p)
            /\ Writers(p)' = Writers(p)
        BY <2>1 DEF RulesUsing, RulesActing, Registrations, Writers
      <4>2. Holders(p)' = Holders(p)
        BY <4>1 DEF Holders
      <4>3. Holders(p) \in Nat
        BY FinitePointers DEF Holders
      <4> QED BY <4>2, <4>3
    <3>3. refCount'[p] = refCount[p] \/ p \in exists
      BY <2>1, <3>1
    <3> HIDE DEF e
    <3> QED BY <2>1, <3>1, <3>2, <3>3, BalancedWith
  <2> QED BY <2>2, <2>3 DEF CountInv, Counts
<1> QED BY <1>1, <1>2, <1>3

\* A rule that gets other conditions and actions gives back the references of
\* the old ones, but for those of copy-value actions.
LEMMA RewireCounts ==
    ASSUME CountInv, NEW r \in Rules, NEW os \in SUBSET Objects, NEW ts \in SUBSET Objects,
           NEW copies \in SUBSET acts[r], NEW lost \in SUBSET Objects,
           Rewire(r, os, ts, copies, lost)
    PROVE  CountInv'
<1>0. CountTypes /\ MaxCount \in Nat
  BY ObjectControllerConstants DEF CountInv
<1>1. /\ os \subseteq exists /\ ts \subseteq exists /\ lost \subseteq exists
      /\ refCount' = [o \in Objects |-> refCount[o] - In(o, uses[r]) - In(o, acts[r] \ copies)
                                        + In(o, os) + In(o, ts) + In(o, lost)]
      /\ \A o \in Objects : refCount'[o] \in 0..MaxCount
      /\ stray' = [o \in Objects |-> stray[o] + In(o, copies) + In(o, lost)]
      /\ uses' = [uses EXCEPT ![r] = os] /\ acts' = [acts EXCEPT ![r] = ts]
      /\ UNCHANGED <<exists, notify, writing>>
  BY DEF Rewire, config
<1>2. \A o \in Objects : \A S : In(o, S) \in {0, 1}
  BY DEF In
<1>3. CountTypes'
  <2>1. refCount' \in [Objects -> 0..MaxCount]
    BY <1>1
  <2>2. ASSUME NEW o \in Objects
        PROVE  stray[o] + In(o, copies) + In(o, lost) \in Nat
    <3>1. In(o, copies) \in Nat /\ In(o, lost) \in Nat
      BY DEF In
    <3>2. stray[o] \in Nat
      BY <1>0 DEF CountTypes
    <3> QED BY <3>1, <3>2
  <2>3. stray' \in [Objects -> Nat]
    BY <1>1, <2>2
  <2> QED BY <1>0, <1>1, <2>1, <2>3 DEF CountTypes
<1>4. ASSUME NEW p \in Objects
      PROVE  Protected(p)'
  <2> DEFINE d == In(p, os) - In(p, uses[r]) + In(p, ts) - In(p, acts[r])
             e == In(p, copies) + In(p, lost)
  <2>1. In(p, acts[r] \ copies) = In(p, acts[r]) - In(p, copies)
    BY DEF In
  <2>2. /\ In(p, os) \in Nat /\ In(p, ts) \in Nat /\ In(p, lost) \in Nat
        /\ In(p, uses[r]) \in Nat /\ In(p, acts[r]) \in Nat /\ In(p, copies) \in Nat
        /\ refCount[p] \in Nat /\ stray[p] \in Nat
    <3>1. \A S : In(p, S) \in Nat
      BY DEF In
    <3>2. refCount[p] \in Nat /\ stray[p] \in Nat
      BY <1>0 DEF CountTypes
    <3> QED BY <3>1, <3>2
  <2>3. d \in Int /\ e \in Int
    <3>1. d \in Int
      BY <2>2
    <3>2. e \in Int
      BY <2>2
    <3> QED BY <3>1, <3>2
  <2>4. refCount'[p] = refCount[p] + d + e
    <3>1. refCount'[p] = refCount[p] - In(p, uses[r]) - In(p, acts[r] \ copies)
                         + In(p, os) + In(p, ts) + In(p, lost)
      BY <1>1
    <3> QED BY <2>1, <2>2, <3>1
  <2>5. stray'[p] = stray[p] + e
    <3>1. stray'[p] = stray[p] + In(p, copies) + In(p, lost)
      BY <1>1
    <3> QED BY <2>2, <3>1
  <2>6. /\ Cardinality(Writers(p)') = Cardinality(Writers(p))
        /\ Cardinality(Registrations(p)') = Cardinality(Registrations(p))
    BY <1>1 DEF Writers, Registrations
  <2>7. Cardinality(RulesUsing(p)') = Cardinality(RulesUsing(p)) - In(p, uses[r]) + In(p, os)
    BY <1>0, <1>1, RulesCounted
  <2>8. Cardinality(RulesActing(p)') = Cardinality(RulesActing(p)) - In(p, acts[r]) + In(p, ts)
    BY <1>0, <1>1, ActorsCounted
  <2>9. Holders(p)' = Holders(p) + d
    BY <2>2, <2>6, <2>7, <2>8, FinitePointers DEF Holders
  <2>10. refCount'[p] = refCount[p] \/ p \in exists
    <3>1. CASE p \in exists
      BY <3>1
    <3>2. CASE p \notin exists
      <4>1. refCount[p] = 0 /\ Protected(p)
        BY <3>2 DEF CountInv, Counts, Protected
      <4>2. In(p, os) = 0 /\ In(p, ts) = 0 /\ In(p, lost) = 0
        BY <1>1, <3>2 DEF In
      <4>3. refCount'[p] \in Nat /\ In(p, acts[r] \ copies) \in {0, 1}
        <5>1. refCount'[p] \in 0..MaxCount
          BY <1>1
        <5> QED BY <1>0, <5>1 DEF In
      <4>4. refCount'[p] = 0 - In(p, uses[r]) - In(p, acts[r] \ copies) + 0 + 0 + 0
        BY <1>1, <4>1, <4>2
      <4> QED BY <2>2, <4>1, <4>3, <4>4
    <3> QED BY <3>1, <3>2
  <2> HIDE DEF d, e
  <2> QED BY <1>1, <2>3, <2>4, <2>5, <2>9, <2>10, BalancedWith
<1> QED BY <1>3, <1>4 DEF CountInv, Counts

\* A deleted rule gives back the references of its condition; those of its
\* actions are lost.
LEMMA DeleteRuleCounts ==
    ASSUME CountInv, NEW r \in Rules, DeleteRule(r)
    PROVE  CountInv'
<1>0. CountTypes /\ MaxCount \in Nat
  BY ObjectControllerConstants DEF CountInv
<1>1. /\ \A o \in uses[r] : refCount[o] >= 1
      /\ refCount' = [o \in Objects |-> refCount[o] - In(o, uses[r])]
      /\ stray' = [o \in Objects |-> stray[o] + In(o, acts[r])]
      /\ uses' = [uses EXCEPT ![r] = {}] /\ acts' = [acts EXCEPT ![r] = {}]
      /\ UNCHANGED <<exists, notify, writing>>
  BY DEF DeleteRule, Counted, config
<1>2. \A o \in Objects : \A S : In(o, S) \in {0, 1}
  BY DEF In
<1>3. CountTypes'
  <2>1. \A o \in Objects : refCount[o] - In(o, uses[r]) \in 0..MaxCount
    BY <1>0, <1>1 DEF CountTypes, In
  <2>2. \A o \in Objects : stray[o] + In(o, acts[r]) \in Nat
    BY <1>0, <1>2 DEF CountTypes
  <2>3. refCount' \in [Objects -> 0..MaxCount] /\ stray' \in [Objects -> Nat]
    BY <1>1, <2>1, <2>2
  <2> QED BY <1>0, <1>1, <2>3 DEF CountTypes
<1>4. ASSUME NEW p \in Objects
      PROVE  Protected(p)'
  <2> DEFINE d == 0 - In(p, uses[r]) - In(p, acts[r])
             e == In(p, acts[r])
  <2>1. /\ In(p, uses[r]) \in {0, 1} /\ In(p, acts[r]) \in {0, 1} /\ In(p, {}) = 0
        /\ refCount[p] \in Nat /\ stray[p] \in Nat
    BY <1>0, <1>2 DEF CountTypes, In
  <2>2. d \in Int /\ e \in Int
    BY <2>1
  <2>3. refCount'[p] = refCount[p] - In(p, uses[r]) /\ stray'[p] = stray[p] + e
    BY <1>1
  <2>4. refCount'[p] = refCount[p] + d + e
    BY <2>1, <2>3
  <2>5. /\ Cardinality(Writers(p)') = Cardinality(Writers(p))
        /\ Cardinality(Registrations(p)') = Cardinality(Registrations(p))
    BY <1>1 DEF Writers, Registrations
  <2>6. Cardinality(RulesUsing(p)') = Cardinality(RulesUsing(p)) - In(p, uses[r]) + In(p, {})
    BY <1>0, <1>1, RulesCounted
  <2>7. Cardinality(RulesActing(p)') = Cardinality(RulesActing(p)) - In(p, acts[r]) + In(p, {})
    BY <1>0, <1>1, ActorsCounted
  <2>8. Holders(p)' = Holders(p) + d
    BY <2>1, <2>5, <2>6, <2>7, FinitePointers DEF Holders
  <2>9. refCount'[p] = refCount[p] \/ p \in exists
    <3>1. p \in exists \/ refCount[p] = 0
      BY DEF CountInv, Counts, Protected
    <3>2. refCount[p] = 0 => In(p, uses[r]) = 0
      BY <1>1 DEF In
    <3> QED BY <2>1, <2>3, <3>1, <3>2
  <2> HIDE DEF d, e
  <2> QED BY <1>1, <2>2, <2>3, <2>4, <2>8, <2>9, BalancedWith
<1> QED BY <1>3, <1>4 DEF CountInv, Counts

\* A rule holds its objects from its configuration to its deletion.
LEMMA RuleCounts ==
    ASSUME CountInv, NEW r \in Rules, RuleRequest(r)
    PROVE  CountInv'
<1>1. ASSUME NEW os \in SUBSET Objects, NEW ts \in SUBSET Objects, NEW copies \in SUBSET acts[r],
             ConfigureRule(r, os, ts, copies)
      PROVE  CountInv'
  <2>1. Rewire(r, os, ts, copies, {}) /\ {} \in SUBSET Objects
    BY <1>1 DEF ConfigureRule
  <2> QED BY <1>1, <2>1, RewireCounts, Zenon
<1>2. ASSUME NEW os \in SUBSET Objects, NEW ts \in SUBSET Objects, NEW copies \in SUBSET acts[r],
             NEW lost \in SUBSET Objects, RuleFails(r, os, ts, copies, lost)
      PROVE  CountInv'
  <2>1. Rewire(r, os, ts, copies, lost)
    BY <1>2 DEF RuleFails
  <2> QED BY <1>2, <2>1, RewireCounts, Zenon
<1> QED BY <1>1, <1>2, DeleteRuleCounts, Zenon DEF RuleRequest

\* Nobody uses anything at first.
LEMMA InitialCounts == Init => CountInv
<1> SUFFICES ASSUME Init PROVE CountInv
  OBVIOUS
<1>1. CountTypes
  BY ObjectControllerConstants DEF Init, CountTypes
<1>2. ASSUME NEW o \in Objects
      PROVE  Protected(o)
  <2>1. RulesUsing(o) = {} /\ RulesActing(o) = {} /\ Writers(o) = {}
    BY ObjectControllerConstants DEF Init, RulesUsing, RulesActing, Writers
  <2>2. Registrations(o) = {}
    <3>1. \A p \in Clients \X (1..MaxCount) : p[1] \in Clients /\ p[2] \in 1..MaxCount
      OBVIOUS
    <3>2. \A p \in Clients \X (1..MaxCount) : ~(p[2] <= notify[p[1]][o])
      BY <3>1, ObjectControllerConstants DEF Init
    <3> QED BY <3>2, Zenon DEF Registrations
  <2>3. Holders(o) = 0
    BY <2>1, <2>2, FS_EmptySet DEF Holders
  <2> QED BY <2>3 DEF Init, Protected
<1> QED BY <1>1, <1>2 DEF CountInv, Counts

\* Every step of polite clients keeps the counts.
LEMMA CountsPreserved ==
    ASSUME Polite, CountInv, [Next]_vars
    PROVE  CountInv'
<1>1. ASSUME NEW o \in Objects, Import(o) \/ Delete(o) \/ DeleteFails(o)
      PROVE  CountInv'
  BY <1>1, ConfigurationCounts
<1>2. ASSUME NEW c \in Clients, Request(c)
      PROVE  CountInv'
  BY <1>2, RegistrationCounts, ListCounts, WritingCounts DEF Request
<1>3. ASSUME NEW r \in Rules, RuleRequest(r)
      PROVE  CountInv'
  BY <1>3, RuleCounts
<1>4. CASE UNCHANGED vars
  BY <1>4 DEF vars, CountInv, CountTypes, Counts, Protected, Holders, Registrations,
              RulesUsing, RulesActing, Writers
<1> QED BY <1>1, <1>2, <1>3, <1>4, Zenon DEF Next

\* Whichever requests fail, the usage count of every object is the number of
\* pointers to it and of the references that the code is known to leave behind,
\* for clients that keep to the protocol (ObjectController::getObject,
\* Object::decRefCount).
THEOREM CountsPointersEver ==
    ASSUME Polite
    PROVE  Spec => []CountsPointers
<1>1. CountInv => CountsPointers
  BY DEF CountInv, CountTypes, Counts, Protected, CountsPointers
<1>2. CountInv /\ [Next]_vars => CountInv'
  BY CountsPreserved
<1> QED BY <1>1, <1>2, InitialCounts, PTL DEF Spec

\* Nobody holds a pointer to a deleted object, whichever requests fail half-way,
\* not even the actions a deleted rule leaves behind (Object::inUse in
\* ObjectController::importXml).
THEOREM NothingDanglesEver ==
    ASSUME Polite
    PROVE  Spec => []NothingDangles
<1>1. CountInv => NothingDangles
  <2> SUFFICES ASSUME CountInv, NEW o \in Objects, Holders(o) + stray[o] > 0 PROVE o \in exists
    BY DEF NothingDangles
  <2>1. refCount[o] = Holders(o) + stray[o] /\ (o \notin exists => refCount[o] = 0)
    BY DEF CountInv, Counts, Protected
  <2> QED BY <2>1
<1>2. CountInv /\ [Next]_vars => CountInv'
  BY CountsPreserved
<1> QED BY <1>1, <1>2, InitialCounts, PTL DEF Spec

-----------------------------------------------------------------------------
(***************************************************************************)
(* The values of the objects: for every class but floats of four bytes,    *)
(* integers of eight and strings of Latin-1, what becomes of a value that  *)
(* is written as a text and read back, or sent and received.               *)
(***************************************************************************)
\* What comes back of a value that is stored, or sent.
Reread(t, v) == FromText(t, ToText(t, v))

Sent(t, v) == FromTelegram(t, ToTelegram(t, v))

\* Only floats are rounded when they are set, and they are rounded once.
LEMMA KeptAsItIs ==
    ASSUME NEW t, NEW v, t.class = "float" => v \in Values(t)
    PROVE  Kept(t, v) = v
BY DEF Values, Kept

\* A digit more.
LEMMA OneDigitMore ==
    ASSUME NEW p \in Nat, p > 0, NEW s \in 0..(p - 1), NEW r \in 0..(Byte - 1)
    PROVE  r + Byte * s \in 0..(Byte * p - 1)
<1>1. Byte \in Nat /\ Byte > 1
  BY ByteEven
<1>2. Byte * s \in Nat /\ Byte * p \in Nat
  BY <1>1, SMT
<1>3. Byte * s <= Byte * (p - 1)
  BY <1>1, SMT
<1>4. Byte * (p - 1) = Byte * p - Byte
  BY <1>1, SMT
<1> QED BY <1>1, <1>2, <1>3, <1>4, SMT

\* A number and its last digit.
LEMMA LastDigit ==
    ASSUME NEW v \in Int
    PROVE  /\ v \div Byte \in Int /\ v % Byte \in 0..(Byte - 1)
           /\ v = (v % Byte) + Byte * (v \div Byte)
BY ByteEven, SMT

LEMMA PowerTypes ==
    ASSUME NEW n \in {1, 2, 3, 4}
    PROVE  Power(n) \in Nat /\ Power(n) > 0
<1>1. Byte \in Nat /\ Byte > 0
  BY ByteEven
<1>2. Byte * Byte \in Nat /\ Byte * Byte > 0
  BY <1>1, SMT
<1>3. Byte * (Byte * Byte) \in Nat /\ Byte * (Byte * Byte) > 0
  BY <1>1, <1>2, SMT
<1>4. Byte * (Byte * (Byte * Byte)) \in Nat /\ Byte * (Byte * (Byte * Byte)) > 0
  BY <1>1, <1>3, SMT
<1>5. Power(1) = Byte /\ Power(2) = Byte * Byte /\ Power(3) = Byte * (Byte * Byte)
      /\ Power(4) = Byte * (Byte * (Byte * Byte))
  BY DEF Power
<1> QED BY <1>1, <1>2, <1>3, <1>4, <1>5, Zenon

\* What is cut off makes no difference to numbers that have no more bytes.
LEMMA CutOff ==
    ASSUME NEW p \in Nat, p > 0, NEW e \in Int, NEW s \in 0..(p - 1), NEW v \in Int, v = s + p * e
    PROVE  /\ v \in 0..(p - 1) => s = v
           /\ v \in (-p)..(-1) => s = v + p
<1>1. e >= 1 => p * e >= p
  BY SMT
<1>2. e <= -1 => p * e <= -p
  BY SMT
<1>3. e <= -2 => p * e <= -p - p
  BY SMT
<1>4. e = 0 => p * e = 0
  BY SMT
<1>5. e = -1 => p * e = -p
  BY SMT
<1>6. p * e \in Int
  BY SMT
<1>7. e <= -2 \/ e = -1 \/ e = 0 \/ e >= 1
  BY SMT
<1> QED BY <1>1, <1>2, <1>3, <1>4, <1>5, <1>6, <1>7, SMT

\* The digits of a number.
LEMMA DigitsOf ==
    ASSUME NEW v \in Int, NEW n \in {1, 2, 3, 4}
    PROVE  LET b == BytesOf(n, v)
               v1 == v \div Byte
               v2 == v1 \div Byte
               v3 == v2 \div Byte
           IN  /\ Len(b) = n
               /\ b[n] = v % Byte
               /\ n > 1 => b[n - 1] = v1 % Byte
               /\ n > 2 => b[n - 2] = v2 % Byte
               /\ n > 3 => b[n - 3] = v3 % Byte
<1> DEFINE v1 == v \div Byte
           v2 == v1 \div Byte
           v3 == v2 \div Byte
           q == <<v3 % Byte, v2 % Byte, v1 % Byte, v % Byte>>
<1>1. v1 \in Int /\ v2 \in Int /\ v3 \in Int
  <2>1. v1 \in Int
    BY LastDigit
  <2> HIDE DEF v1
  <2>2. v2 \in Int
    BY <2>1, LastDigit
  <2> HIDE DEF v2
  <2> QED BY <2>1, <2>2, LastDigit
<1>2. LowBytes(v) = q
  BY Zenon DEF LowBytes
<1>3. BytesOf(n, v) = SubSeq(q, 5 - n, 4)
  BY <1>2 DEF BytesOf
<1> HIDE DEF v1, v2, v3
<1>4. q \in Seq(Int) /\ Len(q) = 4
  BY <1>1, LastDigit
<1>5. 5 - n \in 1..4
  OBVIOUS
<1>6. /\ q[1] = v3 % Byte /\ q[2] = v2 % Byte /\ q[3] = v1 % Byte /\ q[4] = v % Byte
  OBVIOUS
<1> HIDE DEF q
<1>7. /\ Len(SubSeq(q, 5 - n, 4)) = 4 - (5 - n) + 1
      /\ \A i \in 1..(4 - (5 - n) + 1) : SubSeq(q, 5 - n, 4)[i] = q[(5 - n) + i - 1]
  BY <1>4, <1>5, SubSeqProperties, SMT
<1>8. /\ Len(BytesOf(n, v)) = n
      /\ \A i \in 1..n : BytesOf(n, v)[i] = q[4 - n + i]
  <2>1. 4 - (5 - n) + 1 = n /\ \A i \in 1..n : (5 - n) + i - 1 = 4 - n + i
    OBVIOUS
  <2>2. Len(BytesOf(n, v)) = 4 - (5 - n) + 1
    BY <1>3, <1>7, Zenon
  <2>3. \A i \in 1..(4 - (5 - n) + 1) : BytesOf(n, v)[i] = q[(5 - n) + i - 1]
    BY <1>3, <1>7, Zenon
  <2>4. ASSUME NEW i \in 1..n PROVE BytesOf(n, v)[i] = q[4 - n + i]
    <3>1. BytesOf(n, v)[i] = q[(5 - n) + i - 1]
      BY <2>1, <2>3, Zenon
    <3>2. (5 - n) + i - 1 = 4 - n + i
      BY <2>1, Zenon
    <3> QED BY <3>1, <3>2, Zenon
  <2> QED BY <2>1, <2>2, <2>4, Zenon
<1>9. /\ BytesOf(n, v)[n] = q[4]
      /\ n > 1 => BytesOf(n, v)[n - 1] = q[3]
      /\ n > 2 => BytesOf(n, v)[n - 2] = q[2]
      /\ n > 3 => BytesOf(n, v)[n - 3] = q[1]
  BY <1>8
<1> QED BY <1>6, <1>8, <1>9 DEF v1, v2, v3

\* What FromBytes adds up.
LEMMA SumOfBytes ==
    ASSUME NEW n \in {1, 2, 3, 4}, NEW b, Len(b) = n, \A i \in 1..n : b[i] \in 0..(Byte - 1)
    PROVE  /\ n = 1 => FromBytes(b) = b[1]
           /\ n = 2 => FromBytes(b) = b[2] + Byte * b[1]
           /\ n = 3 => FromBytes(b) = b[3] + Byte * (b[2] + Byte * b[1])
           /\ n = 4 => FromBytes(b) = b[4] + Byte * (b[3] + Byte * (b[2] + Byte * b[1]))
           /\ FromBytes(b) \in 0..(Power(n) - 1)
<1> DEFINE last(i) == IF i < Len(b) THEN b[Len(b) - i] ELSE 0
<1>1. FromBytes(b) = last(0) + Byte * (last(1) + Byte * (last(2) + Byte * last(3)))
  BY Zenon DEF FromBytes
<1>2. Byte \in Nat /\ Byte > 0 /\ Byte * 0 = 0
  BY ByteEven, SMT
<1>3. /\ Power(1) = Byte /\ Power(2) = Byte * Byte /\ Power(3) = Byte * (Byte * Byte)
      /\ Power(4) = Byte * (Byte * (Byte * Byte))
  BY DEF Power
<1>p. /\ Power(1) \in Nat /\ Power(1) > 0 /\ Power(2) \in Nat /\ Power(2) > 0
      /\ Power(3) \in Nat /\ Power(3) > 0
  BY PowerTypes
<1>4. CASE n = 1
  <2>1. last(0) = b[1] /\ last(1) = 0 /\ last(2) = 0 /\ last(3) = 0 /\ b[1] \in 0..(Byte - 1)
    BY <1>4
  <2> HIDE DEF last
  <2>2. FromBytes(b) = b[1]
    BY <1>1, <1>2, <2>1
  <2> QED BY <1>3, <1>4, <2>1, <2>2
<1>5. CASE n = 2
  <2>1. /\ last(0) = b[2] /\ last(1) = b[1] /\ last(2) = 0 /\ last(3) = 0
        /\ b[1] \in 0..(Byte - 1) /\ b[2] \in 0..(Byte - 1)
    BY <1>5
  <2> HIDE DEF last
  <2>2. FromBytes(b) = b[2] + Byte * b[1]
    BY <1>1, <1>2, <2>1
  <2>3. b[2] + Byte * b[1] \in 0..(Byte * Power(1) - 1)
    BY <1>3, <1>p, <2>1, OneDigitMore
  <2> QED BY <1>3, <1>5, <2>2, <2>3
<1>6. CASE n = 3
  <2>1. /\ last(0) = b[3] /\ last(1) = b[2] /\ last(2) = b[1] /\ last(3) = 0
        /\ b[1] \in 0..(Byte - 1) /\ b[2] \in 0..(Byte - 1) /\ b[3] \in 0..(Byte - 1)
    BY <1>6
  <2> HIDE DEF last
  <2>2. FromBytes(b) = b[3] + Byte * (b[2] + Byte * b[1])
    BY <1>1, <1>2, <2>1
  <2>3. b[2] + Byte * b[1] \in 0..(Power(2) - 1)
    BY <1>3, <1>p, <2>1, OneDigitMore
  <2>4. b[3] + Byte * (b[2] + Byte * b[1]) \in 0..(Byte * Power(2) - 1)
    BY <1>p, <2>1, <2>3, OneDigitMore
  <2> QED BY <1>3, <1>6, <2>2, <2>4
<1>7. CASE n = 4
  <2>1. /\ last(0) = b[4] /\ last(1) = b[3] /\ last(2) = b[2] /\ last(3) = b[1]
        /\ b[1] \in 0..(Byte - 1) /\ b[2] \in 0..(Byte - 1) /\ b[3] \in 0..(Byte - 1)
        /\ b[4] \in 0..(Byte - 1)
    BY <1>7
  <2> HIDE DEF last
  <2>2. FromBytes(b) = b[4] + Byte * (b[3] + Byte * (b[2] + Byte * b[1]))
    BY <1>1, <2>1
  <2>3. b[2] + Byte * b[1] \in 0..(Power(2) - 1)
    BY <1>3, <1>p, <2>1, OneDigitMore
  <2>4. b[3] + Byte * (b[2] + Byte * b[1]) \in 0..(Power(3) - 1)
    BY <1>3, <1>p, <2>1, <2>3, OneDigitMore
  <2>5. b[4] + Byte * (b[3] + Byte * (b[2] + Byte * b[1])) \in 0..(Byte * Power(3) - 1)
    BY <1>p, <2>1, <2>4, OneDigitMore
  <2> QED BY <1>3, <1>7, <2>2, <2>5
<1> QED BY <1>4, <1>5, <1>6, <1>7

\* A digit more, of a number.
LEMMA DigitCarried ==
    ASSUME NEW r \in Int, NEW s \in Int, NEW p \in Int, NEW e \in Int, NEW x \in Int, x = s + p * e
    PROVE  r + Byte * x = (r + Byte * s) + (Byte * p) * e
BY ByteEven, SMT

\* The bytes of a number are those of the number but for what is cut off.
LEMMA BytesAddUp ==
    ASSUME NEW v \in Int, NEW n \in {1, 2, 3, 4}
    PROVE  /\ FromBytes(BytesOf(n, v)) \in 0..(Power(n) - 1)
           /\ \E e \in Int : v = FromBytes(BytesOf(n, v)) + Power(n) * e
<1> DEFINE v1 == v \div Byte
           v2 == v1 \div Byte
           v3 == v2 \div Byte
           v4 == v3 \div Byte
           b == BytesOf(n, v)
           r0 == v % Byte
           r1 == v1 % Byte
           r2 == v2 % Byte
           r3 == v3 % Byte
<1>1. v1 \in Int /\ r0 \in 0..(Byte - 1) /\ v = r0 + Byte * v1
  BY LastDigit
<1>2. v2 \in Int /\ r1 \in 0..(Byte - 1) /\ v1 = r1 + Byte * v2
  <2> HIDE DEF v1
  <2> QED BY <1>1, LastDigit
<1>3. v3 \in Int /\ r2 \in 0..(Byte - 1) /\ v2 = r2 + Byte * v3
  <2> HIDE DEF v2
  <2> QED BY <1>2, LastDigit
<1>4. v4 \in Int /\ r3 \in 0..(Byte - 1) /\ v3 = r3 + Byte * v4
  <2> HIDE DEF v3
  <2> QED BY <1>3, LastDigit
<1>5. /\ Len(b) = n /\ b[n] = r0
      /\ n > 1 => b[n - 1] = r1
      /\ n > 2 => b[n - 2] = r2
      /\ n > 3 => b[n - 3] = r3
  BY DigitsOf
<1> HIDE DEF v1, v2, v3, v4, b, r0, r1, r2, r3
<1>6. ASSUME NEW i \in 1..n PROVE b[i] \in 0..(Byte - 1)
  <2>1. i = n \/ (n > 1 /\ i = n - 1) \/ (n > 2 /\ i = n - 2) \/ (n > 3 /\ i = n - 3)
    OBVIOUS
  <2>2. b[i] \in {r0, r1, r2, r3}
    BY <1>5, <2>1, Zenon
  <2> QED BY <1>1, <1>2, <1>3, <1>4, <2>2, Zenon
<1>7. /\ Power(1) = Byte /\ Power(2) = Byte * Byte /\ Power(3) = Byte * (Byte * Byte)
      /\ Power(4) = Byte * (Byte * (Byte * Byte)) /\ Byte \in Int
  BY ByteEven DEF Power
<1>8. CASE n = 1
  <2>1. FromBytes(b) = r0
    BY <1>5, <1>6, <1>8, SumOfBytes
  <2> QED BY <1>1, <1>5, <1>6, <1>7, <1>8, <2>1, SumOfBytes DEF b
<1>9. CASE n = 2
  <2>1. FromBytes(b) = r0 + Byte * r1
    BY <1>5, <1>6, <1>9, SumOfBytes
  <2>2. v = (r0 + Byte * r1) + Power(2) * v2
    BY <1>1, <1>2, <1>7, DigitCarried
  <2> QED BY <1>2, <1>5, <1>6, <1>9, <2>1, <2>2, SumOfBytes DEF b
<1>10. CASE n = 3
  <2>1. FromBytes(b) = r0 + Byte * (r1 + Byte * r2)
    BY <1>5, <1>6, <1>10, SumOfBytes
  <2>2. v1 = (r1 + Byte * r2) + Power(2) * v3
    BY <1>2, <1>3, <1>7, DigitCarried
  <2>3. r1 + Byte * r2 \in Int /\ Power(2) \in Int
    BY <1>2, <1>3, <1>7
  <2>4. v = (r0 + Byte * (r1 + Byte * r2)) + Power(3) * v3
    BY <1>1, <1>3, <1>7, <2>2, <2>3, DigitCarried
  <2> QED BY <1>3, <1>5, <1>6, <1>10, <2>1, <2>4, SumOfBytes DEF b
<1>11. CASE n = 4
  <2>1. FromBytes(b) = r0 + Byte * (r1 + Byte * (r2 + Byte * r3))
    BY <1>5, <1>6, <1>11, SumOfBytes
  <2>2. v2 = (r2 + Byte * r3) + Power(2) * v4
    BY <1>3, <1>4, <1>7, DigitCarried
  <2>3. r2 + Byte * r3 \in Int /\ Power(2) \in Int /\ Power(3) \in Int
    BY <1>3, <1>4, <1>7
  <2>4. v1 = (r1 + Byte * (r2 + Byte * r3)) + Power(3) * v4
    BY <1>2, <1>4, <1>7, <2>2, <2>3, DigitCarried
  <2>5. r1 + Byte * (r2 + Byte * r3) \in Int
    BY <1>2, <1>7, <2>3
  <2>6. v = (r0 + Byte * (r1 + Byte * (r2 + Byte * r3))) + Power(4) * v4
    BY <1>1, <1>4, <1>7, <2>3, <2>4, <2>5, DigitCarried
  <2> QED BY <1>4, <1>5, <1>6, <1>11, <2>1, <2>6, SumOfBytes DEF b
<1> QED BY <1>8, <1>9, <1>10, <1>11

\* Numbers are bounded by those of four bytes, and their bounds are even.
LEMMA PowersGrow ==
    ASSUME NEW n \in {1, 2, 3, 4}
    PROVE  Power(n) <= Power(4) /\ \E h \in Nat : h > 0 /\ Power(n) = 2 * h
<1>1. \A p \in Nat : Byte * p >= p /\ Byte * p \in Nat
  BY ByteEven, SMT
<1>2. /\ Power(1) = Byte /\ Power(2) = Byte * Power(1) /\ Power(3) = Byte * Power(2)
      /\ Power(4) = Byte * Power(3)
  BY DEF Power
<1>3. Power(1) \in Nat /\ Power(2) \in Nat /\ Power(3) \in Nat /\ Power(4) \in Nat
  BY PowerTypes
<1>4. Power(n) <= Power(4)
  <2>1. Power(1) <= Power(2) /\ Power(2) <= Power(3) /\ Power(3) <= Power(4)
    BY <1>1, <1>2, <1>3, Zenon
  <2> QED BY <1>3, <2>1
<1>5. PICK h \in Nat : Byte = 2 * h /\ h > 0
  <2>1. Byte \div 2 \in Nat /\ Byte = 2 * (Byte \div 2) /\ Byte \div 2 > 0
    BY ByteEven, SMT
  <2> QED BY <2>1
<1>6. \A p \in Nat : p > 0 => Byte * p = 2 * (h * p) /\ h * p \in Nat /\ h * p > 0
  BY <1>5, SMT
<1>7. Power(1) > 0 /\ Power(2) > 0 /\ Power(3) > 0
  BY PowerTypes
<1>8. CASE n = 1
  BY <1>2, <1>4, <1>5, <1>8
<1>9. CASE n = 2
  <2>1. Power(2) = 2 * (h * Power(1)) /\ h * Power(1) \in Nat /\ h * Power(1) > 0
    BY <1>2, <1>3, <1>6, <1>7, Zenon
  <2> QED BY <1>4, <1>9, <2>1, Zenon
<1>10. CASE n = 3
  <2>1. Power(3) = 2 * (h * Power(2)) /\ h * Power(2) \in Nat /\ h * Power(2) > 0
    BY <1>2, <1>3, <1>6, <1>7, Zenon
  <2> QED BY <1>4, <1>10, <2>1, Zenon
<1>11. CASE n = 4
  <2>1. Power(4) = 2 * (h * Power(3)) /\ h * Power(3) \in Nat /\ h * Power(3) > 0
    BY <1>2, <1>3, <1>6, <1>7, Zenon
  <2> QED BY <1>4, <1>11, <2>1, Zenon
<1> QED BY <1>8, <1>9, <1>10, <1>11

\* The values of an integer, with the half of their bound.
LEMMA IntegerValues ==
    ASSUME NEW t \in Types, t.class = "int", t.bytes # 8
    PROVE  /\ t.bytes \in {1, 2, 3, 4} /\ t.signed \in BOOLEAN
           /\ Values(t) \subseteq t.lo..t.hi
           /\ \E h \in Nat :
                /\ h > 0 /\ Power(t.bytes) = 2 * h /\ Power(t.bytes) \div 2 = h
                /\ Values(t) = IF t.signed THEN (-h)..(h - 1) ELSE 0..(2 * h - 1)
<1>1. t.bytes \in {1, 2, 3, 4} /\ t.signed \in BOOLEAN /\ Values(t) \subseteq t.lo..t.hi
  BY BusConstants
<1>2. PICK h \in Nat : h > 0 /\ Power(t.bytes) = 2 * h
  BY <1>1, PowersGrow
<1>3. Power(t.bytes) \div 2 = h
  BY <1>2
<1>4. Values(t) = IF t.signed THEN -(Power(t.bytes) \div 2)..(Power(t.bytes) \div 2 - 1)
                  ELSE 0..(Power(t.bytes) - 1)
  BY Zenon DEF Values
<1>5. Values(t) = IF t.signed THEN (-h)..(h - 1) ELSE 0..(2 * h - 1)
  BY <1>2, <1>3, <1>4
<1> QED BY <1>1, <1>2, <1>3, <1>5

\* What bytes are read as is a value.
LEMMA IntegersRead ==
    ASSUME NEW t \in Types, t.class = "int", t.bytes # 8,
           NEW b, FromBytes(b) \in 0..(Power(t.bytes) - 1)
    PROVE  FromTelegram(t, b) \in Values(t)
<1>1. PICK h \in Nat :
        /\ h > 0 /\ Power(t.bytes) = 2 * h /\ Power(t.bytes) \div 2 = h
        /\ Values(t) = IF t.signed THEN (-h)..(h - 1) ELSE 0..(2 * h - 1)
  BY IntegerValues
<1>2. FromTelegram(t, b) = IF t.signed THEN TwosComplement(t.bytes, FromBytes(b)) ELSE FromBytes(b)
  <2>1. FromTelegram(t, b) = IntFromTelegram(t, b)
    BY Zenon DEF FromTelegram
  <2> QED BY <2>1 DEF IntFromTelegram
<1>3. TwosComplement(t.bytes, FromBytes(b))
        = IF FromBytes(b) >= h THEN FromBytes(b) - 2 * h ELSE FromBytes(b)
  BY <1>1 DEF TwosComplement
<1>4. FromBytes(b) \in 0..(2 * h - 1)
  BY <1>1
<1>5. CASE t.signed
  <2>1. FromTelegram(t, b) \in (-h)..(h - 1)
    BY <1>1, <1>2, <1>3, <1>4, <1>5
  <2> QED BY <1>1, <1>5, <2>1
<1>6. CASE ~t.signed
  BY <1>1, <1>2, <1>4, <1>6
<1> QED BY <1>5, <1>6

\* Integers are their own texts, and are sent with all their bytes.
LEMMA IntCodec ==
    ASSUME NEW t \in Types, t.class = "int", t.bytes # 8, NEW v \in Values(t)
    PROVE  /\ Accepts(t, ToText(t, v))
           /\ Reread(t, v) = v
           /\ Sent(t, v) = v
<1>0. t.bytes \in {1, 2, 3, 4} /\ t.signed \in BOOLEAN /\ Values(t) \subseteq t.lo..t.hi
  BY IntegerValues
<1>1. PICK h \in Nat :
        /\ h > 0 /\ Power(t.bytes) = 2 * h /\ Power(t.bytes) \div 2 = h
        /\ Values(t) = IF t.signed THEN (-h)..(h - 1) ELSE 0..(2 * h - 1)
  BY IntegerValues
<1>2. v \in Int
  BY <1>1
<1>3. ToText(t, v) = v
  BY Zenon DEF ToText
<1>4. Accepts(t, ToText(t, v))
  <2>1. v \in t.lo..t.hi
    BY <1>0
  <2> QED BY <1>3, <2>1, Zenon DEF Accepts
<1>5. Reread(t, v) = v
  <2>1. Reread(t, v) = IntFromText(t, v)
    BY <1>3, Zenon DEF Reread, FromText
  <2>2. ASSUME ~t.signed PROVE v % Power(4) = v
    <3>1. Power(4) \in Nat /\ 2 * h <= Power(4)
      BY <1>0, <1>1, PowersGrow, PowerTypes
    <3>2. v \in 0..(2 * h - 1)
      BY <1>1, <2>2
    <3> QED BY <3>1, <3>2
  <2> QED BY <2>1, <2>2 DEF IntFromText
<1>6. Sent(t, v) = v
  <2> DEFINE u == FromBytes(BytesOf(t.bytes, v))
  <2>1. PICK e \in Int : u \in 0..(Power(t.bytes) - 1) /\ v = u + Power(t.bytes) * e
    BY <1>0, <1>2, BytesAddUp
  <2>2. /\ v \in 0..(Power(t.bytes) - 1) => u = v
        /\ v \in (-Power(t.bytes))..(-1) => u = v + Power(t.bytes)
    <3>1. Power(t.bytes) \in Nat /\ Power(t.bytes) > 0
      BY <1>0, PowerTypes
    <3> HIDE DEF u
    <3> QED BY <1>2, <2>1, <3>1, CutOff
  <2>3. Sent(t, v) = IF t.signed THEN TwosComplement(t.bytes, u) ELSE u
    <3>1. Sent(t, v) = IntFromTelegram(t, BytesOf(t.bytes, v))
      BY Zenon DEF Sent, FromTelegram, ToTelegram
    <3> QED BY <3>1 DEF IntFromTelegram
  <2>4. TwosComplement(t.bytes, u) = IF u >= h THEN u - 2 * h ELSE u
    BY <1>1 DEF TwosComplement
  <2> HIDE DEF u
  <2>5. CASE t.signed
    <3>1. v \in (-h)..(h - 1)
      BY <1>1, <2>5
    <3>2. /\ v >= 0 => u = v
          /\ v < 0 => u = v + 2 * h
      BY <1>1, <2>2, <3>1
    <3> QED BY <1>1, <2>3, <2>4, <2>5, <3>1, <3>2
  <2>6. CASE ~t.signed
    BY <1>1, <2>2, <2>3, <2>6
  <2> QED BY <2>5, <2>6
<1> QED BY <1>4, <1>5, <1>6

\* A switch is written with its own words, and sent as one bit.
LEMMA SwitchCodec ==
    ASSUME NEW t \in Types, t.class = "switch", NEW v \in Values(t)
    PROVE  /\ Accepts(t, ToText(t, v))
           /\ Reread(t, v) = v
           /\ Sent(t, v) = v
<1>1. v \in 0..1
  BY DEF Values
<1>2. t.words = <<t.words[1], t.words[2]>> /\ t.words[1] \notin {"1", "on", t.words[2]}
  BY BusConstants DEF Words
<1>3. ToText(t, v) = t.words[v + 1]
  BY DEF ToText, SwitchText
<1>4. t.words[v + 1] \in ToSet(t.words)
  BY <1>1, <1>2 DEF ToSet
<1>5. Accepts(t, ToText(t, v))
  <2>1. SwitchAccepts(t, ToText(t, v))
    BY <1>3, <1>4 DEF SwitchAccepts
  <2> QED BY <2>1, Zenon DEF Accepts
<1>6. Reread(t, v) = SwitchFromText(t, t.words[v + 1])
  BY <1>3 DEF Reread, FromText
<1>7. Reread(t, v) = v
  BY <1>1, <1>2, <1>6 DEF SwitchFromText
<1>8. Sent(t, v) = SwitchFromTelegram(ByteTelegram(v))
  BY DEF Sent, FromTelegram, ToTelegram
<1>9. Sent(t, v) = v
  BY <1>1, <1>8 DEF SwitchFromTelegram, ByteTelegram
<1> QED BY <1>5, <1>7, <1>9

\* Heating modes and characters are their own texts.
LEMMA ByteCodec ==
    ASSUME NEW t \in Types, t.class \in {"heatmode", "char"}, NEW v \in Values(t)
    PROVE  /\ Accepts(t, ToText(t, v))
           /\ Reread(t, v) = v
           /\ Sent(t, v) = v
<1>1. Sent(t, v) = ByteTelegram(v)[1]
  BY DEF Sent, FromTelegram, ToTelegram
<1>2. CASE t.class = "heatmode"
  <2>1. v \in 0..4
    BY <1>2, Zenon DEF Values
  <2>2. Min({v, 4}) = v
    BY <2>1 DEF Min
  <2>3. ToText(t, v) = v
    BY <1>2, <2>2 DEF ToText, HeatingModeText
  <2>4. Accepts(t, v)
    BY <1>2, <2>1, Zenon DEF Accepts
  <2>5. FromText(t, v) = v
    BY <1>2 DEF FromText
  <2>6. Sent(t, v) = v
    BY <1>1, <2>1 DEF ByteTelegram
  <2> QED BY <2>3, <2>4, <2>5, <2>6 DEF Reread
<1>3. CASE t.class = "char"
  <2>1. Values(t) = {c \in 0..255 : CharAccepts(t, c)}
    BY <1>3 DEF Values
  <2>2. v \in 0..255 /\ CharAccepts(t, v)
    BY <2>1
  <2>3. ToText(t, v) = v
    BY <1>3 DEF ToText
  <2>4. Accepts(t, v)
    BY <1>3, <2>2, Zenon DEF Accepts
  <2>5. FromText(t, v) = v
    BY <1>3 DEF FromText
  <2>6. Sent(t, v) = v
    BY <1>1, <2>2 DEF ByteTelegram
  <2> QED BY <2>3, <2>4, <2>5, <2>6 DEF Reread
<1> QED BY <1>2, <1>3

\* A stop has no direction when it comes back, every other step is the same.
LEMMA StepCodec ==
    ASSUME NEW t \in Types, t.class = "step", NEW v \in Values(t)
    PROVE  /\ Accepts(t, ToText(t, v))
           /\ v[1] \in 0..1 /\ v[2] \in 0..7 /\ v = <<v[1], v[2]>>
           /\ Reread(t, v) = IF v[2] = 0 THEN <<0, 0>> ELSE v
           /\ Sent(t, v) = IF v[2] = 0 THEN <<0, 0>> ELSE v
<1>1. Values(t) = (0..1) \X (0..7)
  BY DEF Values
<1>2. v[1] \in 0..1 /\ v[2] \in 0..7 /\ v = <<v[1], v[2]>>
  BY <1>1
<1>3. /\ t.words = <<t.words[1], t.words[2]>> /\ t.words[1] # t.words[2]
      /\ "stop" # t.words[1] /\ "stop" # t.words[2]
  BY BusConstants DEF Words
<1>4. ToText(t, v) = StepText(t, v)
  BY Zenon DEF ToText
<1>5. t.words[1] \in ToSet(t.words) /\ t.words[2] \in ToSet(t.words)
  BY <1>3 DEF ToSet
<1>6. StepAccepts(t, StepText(t, v))
  BY <1>2, <1>5 DEF StepAccepts, StepText
<1>7. Accepts(t, StepText(t, v))
  BY <1>6, Zenon DEF Accepts
<1>8. Reread(t, v) = StepFromText(t, StepText(t, v))
  BY <1>4 DEF Reread, FromText
<1>9. Reread(t, v) = IF v[2] = 0 THEN <<0, 0>> ELSE v
  <2>1. CASE v[2] = 0
    BY <1>8, <2>1 DEF StepFromText, StepText
  <2>2. CASE v[2] # 0
    <3>1. StepText(t, v) = <<t.words[v[1] + 1], v[2]>>
      BY <2>2 DEF StepText
    <3>2. CASE v[1] = 0
      BY <1>8, <1>2, <1>3, <2>2, <3>1, <3>2 DEF StepFromText
    <3>3. CASE v[1] = 1
      BY <1>8, <1>2, <1>3, <2>2, <3>1, <3>3 DEF StepFromText
    <3> QED BY <1>2, <3>2, <3>3
  <2> QED BY <2>1, <2>2
<1>10. Sent(t, v) = StepFromTelegram(StepTelegram(v))
  BY DEF Sent, FromTelegram, ToTelegram
<1>11. Sent(t, v) = IF v[2] = 0 THEN <<0, 0>> ELSE v
  <2>1. /\ StepTelegram(v)[1] % 8 = v[2]
        /\ (StepTelegram(v)[1] \div 8) % 2 = v[1]
    BY <1>2 DEF StepTelegram
  <2> QED BY <1>2, <1>10, <2>1 DEF StepFromTelegram
<1> QED BY <1>2, <1>4, <1>7, <1>9, <1>11

\* A switch with control is received under control; the text tells both.
LEMMA ControlCodec ==
    ASSUME NEW t \in Types, t.class = "control", NEW v \in Values(t)
    PROVE  /\ Accepts(t, ToText(t, v))
           /\ v \in {<<1, 0>>, <<1, 1>>}
           /\ Reread(t, v) = v
           /\ v \in Settable(t) => Sent(t, v) = v
           /\ Sent(t, v) = <<1, 1>>
<1>1. Values(t) = {1} \X (0..1)
  BY DEF Values
<1>2. v \in {<<1, 0>>, <<1, 1>>}
  BY <1>1
<1>3. Reread(t, v) = v
  BY <1>2 DEF Reread, FromText, ToText, ControlText
<1>4. Sent(t, v) = ControlFromTelegram(ControlTelegram(v))
  BY DEF Sent, FromTelegram, ToTelegram
<1>5. Sent(t, v) = <<1, 1>>
  BY <1>2, <1>4 DEF ControlFromTelegram, ControlTelegram
<1>6. v \in Settable(t) => v = <<1, 1>>
  BY DEF Settable
<1>7. Accepts(t, ToText(t, v))
  BY Zenon DEF Accepts
<1> QED BY <1>2, <1>3, <1>5, <1>6, <1>7

\* A time and its text.
LEMMA TailOfFour ==
    ASSUME NEW a \in Nat, NEW b \in Nat, NEW c \in Nat, NEW d \in Nat
    PROVE  Tail(<<a, b, c, d>>) = <<b, c, d>>
<1>1. <<a, b, c, d>> \in Seq(Nat) /\ Len(<<a, b, c, d>>) = 4
  OBVIOUS
<1>2. Tail(<<a, b, c, d>>) \in Seq(Nat) /\ Len(Tail(<<a, b, c, d>>)) = 3
  BY <1>1
<1>3. \A i \in 1..3 : Tail(<<a, b, c, d>>)[i] = <<a, b, c, d>>[i + 1]
  BY <1>1, <1>2
<1> QED BY <1>2, <1>3

\* A weekday put before hour, minute and second.
LEMMA OneAndThree ==
    ASSUME NEW a \in Nat, NEW b \in Nat, NEW c \in Nat, NEW d \in Nat
    PROVE  <<a>> \o <<b, c, d>> = <<a, b, c, d>>
<1> DEFINE s == <<a>> \o <<b, c, d>>
<1>1. /\ <<a>> \in Seq(Nat) /\ Len(<<a>>) = 1
      /\ <<b, c, d>> \in Seq(Nat) /\ Len(<<b, c, d>>) = 3
  OBVIOUS
<1>2. /\ s \in Seq(Nat)
      /\ Len(s) = Len(<<a>>) + Len(<<b, c, d>>)
      /\ \A i \in 1..(Len(<<a>>) + Len(<<b, c, d>>)) :
            s[i] = IF i <= Len(<<a>>) THEN <<a>>[i] ELSE <<b, c, d>>[i - Len(<<a>>)]
  BY <1>1, ConcatProperties, Zenon
<1> HIDE DEF s
<1>3. /\ s \in Seq(Nat) /\ Len(s) = 4
      /\ \A i \in 1..4 : s[i] = IF i <= 1 THEN <<a>>[i] ELSE <<b, c, d>>[i - 1]
  BY <1>1, <1>2
<1>4. s[1] = a /\ s[2] = b /\ s[3] = c /\ s[4] = d
  BY <1>3
<1>5. s = <<a, b, c, d>>
  BY <1>3, <1>4
<1> QED BY <1>5 DEF s

\* A text has no weekday; a telegram has all of a time.
LEMMA TimeCodec ==
    ASSUME NEW t \in Types, t.class = "time", NEW v \in Values(t)
    PROVE  /\ Accepts(t, ToText(t, v))
           /\ v[1] \in 0..7 /\ v[2] \in 0..23 /\ v[3] \in 0..59 /\ v[4] \in 0..59
           /\ v = <<v[1], v[2], v[3], v[4]>>
           /\ Reread(t, v) = <<0, v[2], v[3], v[4]>>
           /\ Sent(t, v) = v
<1>1. Values(t) = (0..7) \X (0..23) \X (0..59) \X (0..59)
  BY DEF Values
<1>2. /\ v[1] \in 0..7 /\ v[2] \in 0..23 /\ v[3] \in 0..59 /\ v[4] \in 0..59
      /\ v = <<v[1], v[2], v[3], v[4]>>
  BY <1>1
<1>p. PICK a \in Nat, b \in Nat, c \in Nat, d \in Nat : v = <<a, b, c, d>>
  BY <1>2
<1>n. v[1] \in Nat /\ v[2] \in Nat /\ v[3] \in Nat /\ v[4] \in Nat
  BY <1>2
<1>3. Tail(v) = <<v[2], v[3], v[4]>>
  <2>1. Tail(v) = <<b, c, d>>
    BY <1>p, TailOfFour
  <2> QED BY <1>p, <2>1
<1>4. ToText(t, v) = <<v[2], v[3], v[4]>>
  BY <1>3 DEF ToText, TimeText
<1>5. TimeAccepts(<<v[2], v[3], v[4]>>)
  BY <1>2 DEF TimeAccepts
<1>6. Accepts(t, ToText(t, v))
  BY <1>4, <1>5, Zenon DEF Accepts
<1>7. Reread(t, v) = <<0>> \o <<v[2], v[3], v[4]>>
  BY <1>4 DEF Reread, FromText, TimeFromText
<1>8. Reread(t, v) = <<0, v[2], v[3], v[4]>>
  <2>1. 0 \in Nat
    OBVIOUS
  <2>2. <<0>> \o <<v[2], v[3], v[4]>> = <<0, v[2], v[3], v[4]>>
    BY <1>n, <2>1, OneAndThree
  <2> QED BY <1>7, <2>2, Zenon
<1>9. Sent(t, v) = TimeFromTelegram(TimeTelegram(v))
  BY DEF Sent, FromTelegram, ToTelegram
<1>10. TimeTelegram(v) = <<v[1] * 32 + v[2], v[3], v[4]>>
  BY <1>2 DEF TimeTelegram
<1>11. (v[1] * 32 + v[2]) \div 32 = v[1] /\ (v[1] * 32 + v[2]) % 32 = v[2]
  BY <1>2
<1>12. Sent(t, v) = v
  BY <1>2, <1>9, <1>10, <1>11 DEF TimeFromTelegram
<1> QED BY <1>2, <1>6, <1>8, <1>12

\* Years from 1990 to 2089 have a telegram of their own.
LEMMA DateCodec ==
    ASSUME NEW t \in Types, t.class = "date", NEW v \in Values(t)
    PROVE  /\ Accepts(t, ToText(t, v))
           /\ v[1] \in 90..189 /\ v[2] \in 1..12 /\ v[3] \in 1..31
           /\ v = <<v[1], v[2], v[3]>>
           /\ Reread(t, v) = v
           /\ Sent(t, v) = v
<1>1. Values(t) = (90..189) \X (1..12) \X (1..31)
  BY DEF Values
<1>2. /\ v[1] \in 90..189 /\ v[2] \in 1..12 /\ v[3] \in 1..31
      /\ v = <<v[1], v[2], v[3]>>
  BY <1>1
<1>3. DateAccepts(v)
  BY <1>2 DEF DateAccepts
<1>4. ToText(t, v) = v
  BY DEF ToText, DateText
<1>5. Accepts(t, ToText(t, v))
  BY <1>3, <1>4, Zenon DEF Accepts
<1>6. Reread(t, v) = v
  BY <1>4 DEF Reread, FromText
<1>7. Sent(t, v) = DateFromTelegram(DateTelegram(v))
  BY DEF Sent, FromTelegram, ToTelegram
<1>8. Sent(t, v) = v
  BY <1>2, <1>7 DEF DateFromTelegram, DateTelegram
<1> QED BY <1>2, <1>5, <1>6, <1>8

\* The digits of a text, once its unit is known.
LEMMA DigitsOfUnit ==
    ASSUME NEW n, NEW d, NEW bound, NEW u, Unit(n, d, bound) = u
    PROVE  Digits(n, d, bound) = HalfEven(n, d * u) * u
BY Zenon DEF Digits

\* The rounded quotient is within one half of the exact one.
LEMMA HalfEvenNear ==
    ASSUME NEW n \in Nat, NEW d \in {255, 2550, 25500, 255000, 256, 2560, 25600, 256000}
    PROVE  /\ HalfEven(n, d) \in Nat
           /\ 2 * d * HalfEven(n, d) <= 2 * n + d
           /\ 2 * d * HalfEven(n, d) >= 2 * n - d
<1> DEFINE q == n \div d
           r == n % d
<1>1. q \in Nat /\ r \in 0..(d - 1) /\ n = d * q + r
  BY SMT
<1>2. HalfEven(n, d) \in {q, q + 1}
  BY SMT DEF HalfEven
<1>3. HalfEven(n, d) = q => 2 * r <= d
  BY <1>1, SMT DEF HalfEven
<1>4. HalfEven(n, d) = q + 1 => 2 * r >= d
  BY <1>1, SMT DEF HalfEven
<1> QED BY <1>1, <1>2, <1>3, <1>4, SMT

\* The units of a percentage and of an angle.
LEMMA ScalingUnit ==
    ASSUME NEW v \in 0..255
    PROVE  /\ v # 255 => Unit(v * 100000, 255, 1000) \in {1, 10, 100}
           /\ v = 255 => Unit(v * 100000, 255, 1000) = 1000
<1>1. CASE v <= 2
  BY <1>1, SMT DEF Unit
<1>2. CASE v \in 3..25
  BY <1>2, SMT DEF Unit
<1>3. CASE v \in 26..254
  BY <1>3, SMT DEF Unit
<1>4. CASE v = 255
  BY <1>4, SMT DEF Unit
<1> QED BY <1>1, <1>2, <1>3, <1>4, SMT

\* The same for an angle, written with four digits.
LEMMA AngleUnit ==
    ASSUME NEW v \in 0..255
    PROVE  Unit(v * 360000, 256, 10000) \in {1, 10, 100}
<1>1. CASE v <= 7
  BY <1>1, SMT DEF Unit
<1>2. CASE v \in 8..71
  BY <1>2, SMT DEF Unit
<1>3. CASE v \in 72..255
  BY <1>3, SMT DEF Unit
<1> QED BY <1>1, <1>2, <1>3, SMT

\* The text x is at most half a unit of hundred away from n/255 or n/256.
ScalingClose(n, x) ==
    x \in Nat /\ 510 * x <= 2 * n + 25500 /\ 510 * x >= 2 * n - 25500

AngleClose(n, x) ==
    x \in Nat /\ 512 * x <= 2 * n + 25600 /\ 512 * x >= 2 * n - 25600

\* The text of n/d, with units of u.
RoundedTo(x, n, d, u) == x = HalfEven(n, d * u) * u

\* A text is within half a unit of what it denotes.
LEMMA ScalingRounded ==
    ASSUME NEW n \in Nat, NEW x, NEW u \in {1, 10, 100}, RoundedTo(x, n, 255, u)
    PROVE  ScalingClose(n, x)
<1>1. CASE u = 1
  <2>1. /\ HalfEven(n, 255) \in Nat
        /\ 510 * HalfEven(n, 255) <= 2 * n + 255
        /\ 510 * HalfEven(n, 255) >= 2 * n - 255
    BY HalfEvenNear, SMT
  <2>2. x = HalfEven(n, 255)
    BY <1>1, <2>1, SMT DEF RoundedTo
  <2> QED BY <2>1, <2>2, SMT DEF ScalingClose
<1>2. CASE u = 10
  <2>1. /\ HalfEven(n, 2550) \in Nat
        /\ 5100 * HalfEven(n, 2550) <= 2 * n + 2550
        /\ 5100 * HalfEven(n, 2550) >= 2 * n - 2550
    BY HalfEvenNear, SMT
  <2>2. x = HalfEven(n, 2550) * 10
    BY <1>2, <2>1, SMT DEF RoundedTo
  <2> QED BY <2>1, <2>2, SMT DEF ScalingClose
<1>3. CASE u = 100
  <2>1. /\ HalfEven(n, 25500) \in Nat
        /\ 51000 * HalfEven(n, 25500) <= 2 * n + 25500
        /\ 51000 * HalfEven(n, 25500) >= 2 * n - 25500
    BY HalfEvenNear, SMT
  <2>2. x = HalfEven(n, 25500) * 100
    BY <1>3, <2>1, SMT DEF RoundedTo
  <2> QED BY <2>1, <2>2, SMT DEF ScalingClose
<1> QED BY <1>1, <1>2, <1>3

\* The same for an angle.
LEMMA AngleRounded ==
    ASSUME NEW n \in Nat, NEW x, NEW u \in {1, 10, 100}, RoundedTo(x, n, 256, u)
    PROVE  AngleClose(n, x)
<1>1. CASE u = 1
  <2>1. /\ HalfEven(n, 256) \in Nat
        /\ 512 * HalfEven(n, 256) <= 2 * n + 256
        /\ 512 * HalfEven(n, 256) >= 2 * n - 256
    BY HalfEvenNear, SMT
  <2>2. x = HalfEven(n, 256)
    BY <1>1, <2>1, SMT DEF RoundedTo
  <2> QED BY <2>1, <2>2, SMT DEF AngleClose
<1>2. CASE u = 10
  <2>1. /\ HalfEven(n, 2560) \in Nat
        /\ 5120 * HalfEven(n, 2560) <= 2 * n + 2560
        /\ 5120 * HalfEven(n, 2560) >= 2 * n - 2560
    BY HalfEvenNear, SMT
  <2>2. x = HalfEven(n, 2560) * 10
    BY <1>2, <2>1, SMT DEF RoundedTo
  <2> QED BY <2>1, <2>2, SMT DEF AngleClose
<1>3. CASE u = 100
  <2>1. /\ HalfEven(n, 25600) \in Nat
        /\ 51200 * HalfEven(n, 25600) <= 2 * n + 25600
        /\ 51200 * HalfEven(n, 25600) >= 2 * n - 25600
    BY HalfEvenNear, SMT
  <2>2. x = HalfEven(n, 25600) * 100
    BY <1>3, <2>1, SMT DEF RoundedTo
  <2> QED BY <2>1, <2>2, SMT DEF AngleClose
<1> QED BY <1>1, <1>2, <1>3

\* The same of a byte.
ScalingNear(v, x) ==
    x \in Nat /\ 510 * x <= 200000 * v + 25500 /\ 510 * x >= 200000 * v - 25500

AngleNear(v, x) ==
    x \in Nat /\ 512 * x <= 720000 * v + 25600 /\ 512 * x >= 720000 * v - 25600

\* Then it is read as that byte, or as the one below.
LEMMA ScalingRead ==
    ASSUME NEW v \in Nat, v <= 254, NEW x \in Nat, ScalingNear(v, x)
    PROVE  /\ ScalingAccepts(x)
           /\ ScalingFromText(x) \in {v, v - 1}
           /\ ScalingFromText(x) >= 0
<1>1. 510 * x <= 200000 * v + 25500 /\ 510 * x >= 200000 * v - 25500
  BY SMT DEF ScalingNear
<1>2. 510 * x <= 51000000
  BY <1>1, SMT
<1>3. x <= 100000
  BY <1>2, SMT
<1>4. x * 255 < v * 100000 + 100000
  BY <1>1, SMT
<1>5. x * 255 >= v * 100000 - 100000
  BY <1>1, SMT
<1> DEFINE q == (x * 255) \div 100000
           r == (x * 255) % 100000
<1>6. q \in Nat /\ r \in Nat /\ r <= 99999 /\ x * 255 = 100000 * q + r
  BY SMT
<1>7. ScalingFromText(x) = q
  BY SMT DEF ScalingFromText
<1> HIDE DEF q, r
<1>8. q < v + 1
  BY <1>4, <1>6, SMT
<1>9. q > v - 2
  BY <1>5, <1>6, SMT
<1>10. q \in {v, v - 1} /\ q >= 0
  BY <1>6, <1>8, <1>9, SMT
<1> QED BY <1>3, <1>7, <1>10, SMT DEF ScalingAccepts

\* The same for an angle.
LEMMA AngleRead ==
    ASSUME NEW v \in Nat, v <= 255, NEW x \in Nat, AngleNear(v, x)
    PROVE  /\ AngleAccepts(x)
           /\ AngleFromText(x) \in {v, v - 1}
           /\ AngleFromText(x) >= 0
<1>1. 512 * x <= 720000 * v + 25600 /\ 512 * x >= 720000 * v - 25600
  BY SMT DEF AngleNear
<1>2. 512 * x < 184320000
  BY <1>1, SMT
<1>3. x < 360000
  BY <1>2, SMT
<1>4. x * 256 < v * 360000 + 360000
  BY <1>1, SMT
<1>5. x * 256 >= v * 360000 - 360000
  BY <1>1, SMT
<1> DEFINE q == (x * 256) \div 360000
           r == (x * 256) % 360000
<1>6. q \in Nat /\ r \in Nat /\ r <= 359999 /\ x * 256 = 360000 * q + r
  BY SMT
<1>7. AngleFromText(x) = q % 256
  BY SMT DEF AngleFromText
<1> HIDE DEF q, r
<1>8. q < v + 1
  BY <1>4, <1>6, SMT
<1>9. q > v - 2
  BY <1>5, <1>6, SMT
<1>10. q \in {v, v - 1} /\ q >= 0
  BY <1>6, <1>8, <1>9, SMT
<1>11. q % 256 = q
  BY <1>6, <1>10, SMT
<1>12. x >= 0 /\ x <= 360000
  BY <1>3, SMT
<1>13. AngleAccepts(x)
  BY <1>12, SMT DEF AngleAccepts
<1> QED BY <1>7, <1>10, <1>11, <1>13, Zenon

\* Every percentage and every angle is read as what it was, or as one less.
LEMMA ScalingTextNear ==
    ASSUME NEW v \in 0..255
    PROVE  /\ ScalingAccepts(ScalingText(v))
           /\ ScalingFromText(ScalingText(v)) \in {v, v - 1}
           /\ ScalingFromText(ScalingText(v)) >= 0
<1>1. CASE v = 255
  <2>1. Unit(v * 100000, 255, 1000) = 1000
    BY <1>1, ScalingUnit, SMT
  <2>2. ScalingText(v) = HalfEven(v * 100000, 255 * 1000) * 1000
    BY <2>1, DigitsOfUnit, SMT DEF ScalingText
  <2>3. HalfEven(v * 100000, 255 * 1000) = 100
    BY <1>1, SMT DEF HalfEven
  <2>4. ScalingText(v) = 100000
    BY <2>2, <2>3, SMT
  <2>5. ScalingFromText(100000) = 255 /\ ScalingAccepts(100000)
    BY SMT DEF ScalingFromText, ScalingAccepts
  <2> QED BY <1>1, <2>4, <2>5, SMT
<1>2. CASE v # 255
  <2>1. PICK u \in {1, 10, 100} : Unit(v * 100000, 255, 1000) = u
    BY <1>2, ScalingUnit, SMT
  <2>2. ScalingText(v) = HalfEven(v * 100000, 255 * u) * u
    BY <2>1, DigitsOfUnit, SMT DEF ScalingText
  <2> DEFINE n == v * 100000
  <2>3. v \in Nat /\ v <= 254 /\ n \in Nat
    BY <1>2, SMT
  <2>4. 2 * n = 200000 * v
    BY <2>3, SMT
  <2> HIDE DEF n
  <2>5. RoundedTo(ScalingText(v), n, 255, u)
    BY <2>2, SMT DEF n, RoundedTo
  <2>6. ScalingClose(n, ScalingText(v))
    BY <2>3, <2>5, ScalingRounded, Zenon
  <2>7. ScalingText(v) \in Nat /\ ScalingNear(v, ScalingText(v))
    BY <2>4, <2>6, SMT DEF ScalingClose, ScalingNear
  <2> QED BY <2>3, <2>7, ScalingRead, Zenon
<1> QED BY <1>1, <1>2, Zenon

\* The same for an angle.
LEMMA AngleTextNear ==
    ASSUME NEW v \in 0..255
    PROVE  /\ AngleAccepts(AngleText(v))
           /\ AngleFromText(AngleText(v)) \in {v, v - 1}
           /\ AngleFromText(AngleText(v)) >= 0
<1>1. PICK u \in {1, 10, 100} : Unit(v * 360000, 256, 10000) = u
  BY AngleUnit, SMT
<1>2. AngleText(v) = HalfEven(v * 360000, 256 * u) * u
  BY <1>1, DigitsOfUnit, SMT DEF AngleText
<1> DEFINE n == v * 360000
<1>3. v \in Nat /\ v <= 255 /\ n \in Nat
  BY SMT
<1>4. 2 * n = 720000 * v
  BY <1>3, SMT
<1> HIDE DEF n
<1>5. RoundedTo(AngleText(v), n, 256, u)
  BY <1>2, SMT DEF n, RoundedTo
<1>6. AngleClose(n, AngleText(v))
  BY <1>3, <1>5, AngleRounded, Zenon
<1>7. AngleText(v) \in Nat /\ AngleNear(v, AngleText(v))
  BY <1>4, <1>6, SMT DEF AngleClose, AngleNear
<1> QED BY <1>3, <1>7, AngleRead, Zenon

\* What is sent is exact; what is read back is one less when the text was
\* rounded down.
LEMMA ScalingCodec ==
    ASSUME NEW t \in Types, t.class \in {"scaling", "angle"}, NEW v \in Values(t)
    PROVE  /\ Accepts(t, ToText(t, v))
           /\ v \in 0..255
           /\ Reread(t, v) \in {v, v - 1} /\ Reread(t, v) >= 0
           /\ Sent(t, v) = v
<1>1. v \in 0..255
  BY Zenon DEF Values
<1>2. Sent(t, v) = ByteTelegram(v)[1]
  BY DEF Sent, FromTelegram, ToTelegram
<1>3. Sent(t, v) = v
  BY <1>1, <1>2 DEF ByteTelegram
<1>4. CASE t.class = "scaling"
  <2>1. ToText(t, v) = ScalingText(v)
    BY <1>4, Zenon DEF ToText
  <2>2. ScalingAccepts(ScalingText(v))
    BY <1>1, ScalingTextNear, Zenon
  <2>3. Accepts(t, ToText(t, v))
    BY <1>4, <2>1, <2>2, Zenon DEF Accepts
  <2>4. Reread(t, v) = ScalingFromText(ScalingText(v))
    BY <1>4, <2>1, Zenon DEF Reread, FromText
  <2> QED BY <1>1, <1>3, <2>3, <2>4, ScalingTextNear, Zenon
<1>5. CASE t.class = "angle"
  <2>1. ToText(t, v) = AngleText(v)
    BY <1>5, Zenon DEF ToText
  <2>2. AngleAccepts(AngleText(v))
    BY <1>1, AngleTextNear, Zenon
  <2>3. Accepts(t, ToText(t, v))
    BY <1>5, <2>1, <2>2, Zenon DEF Accepts
  <2>4. Reread(t, v) = AngleFromText(AngleText(v))
    BY <1>5, <2>1, Zenon DEF Reread, FromText
  <2> QED BY <1>1, <1>3, <2>3, <2>4, AngleTextNear, Zenon
<1> QED BY <1>4, <1>5

\* A set of numbers with a member has a smallest one.
LEMMA LeastNumber ==
    ASSUME NEW S \in SUBSET Nat, S # {}
    PROVE  Min(S) \in S /\ \A y \in S : Min(S) <= y
<1>1. PICK x \in S : \A y \in S : ~(<<y, x>> \in OpToRel(<, Nat))
  BY NatLessThanWellFounded, WFMin
<1>2. \A y \in S : y < x => <<y, x>> \in OpToRel(<, Nat)
  BY Zenon, <1>1 DEF OpToRel
<1>3. \A y \in S : ~(y < x)
  BY Zenon, <1>1, <1>2
<1>4. \A y \in S : x <= y
  BY <1>3
<1> QED BY <1>1, <1>4, Zenon DEF Min

\* Neither of these character sets is transliterated.
LEMMA NotEncoded ==
    ASSUME NEW t, t.charset \in {"bytes", "ascii"}, NEW x
    PROVE  Encoded(t, x) = x
BY DEF Encoded

\* A telegram is read up to its first zero.
LEMMA StringReceived ==
    ASSUME NEW b \in Seq(Nat)
    PROVE  /\ StringFromTelegram(b) \in Seq(Nat \ {0})
           /\ Len(StringFromTelegram(b)) <= Len(b)
           /\ \A i \in 1..Len(StringFromTelegram(b)) : StringFromTelegram(b)[i] = b[i]
<1> DEFINE zeros == {i \in DOMAIN b : b[i] = 0}
<1>1. DOMAIN b = 1..Len(b) /\ Len(b) \in Nat
  OBVIOUS
<1>2. CASE zeros = {}
  <2>1. StringFromTelegram(b) = b
    BY <1>2, Zenon DEF StringFromTelegram, Before
  <2>2. \A i \in 1..Len(b) : b[i] \in Nat \ {0}
    BY <1>1, <1>2
  <2>3. b \in Seq(Nat \ {0})
    BY <2>2
  <2> QED BY <1>1, <2>1, <2>3
<1>3. CASE zeros # {}
  <2> DEFINE m == Min(zeros)
             s == SubSeq(b, 1, m - 1)
  <2>0. zeros \in SUBSET Nat
    BY <1>1
  <2>1. m \in zeros /\ \A i \in zeros : m <= i
    <3> HIDE DEF zeros
    <3> QED BY <2>0, <1>3, LeastNumber, Zenon
  <2>2. m \in 1..Len(b)
    BY <1>1, <2>1
  <2>3. StringFromTelegram(b) = s
    BY <1>3, Zenon DEF StringFromTelegram, Before
  <2>4. \A i \in 1..(m - 1) : b[i] \in Nat \ {0}
    <3> SUFFICES ASSUME NEW i \in 1..(m - 1) PROVE b[i] \in Nat \ {0}
      OBVIOUS
    <3> HIDE DEF m
    <3>1. i \in 1..Len(b) /\ ~(m <= i)
      BY <1>1, <2>2
    <3>2. i \notin zeros
      BY <2>1, <3>1
    <3> QED BY <1>1, <3>1, <3>2
  <2> HIDE DEF m
  <2>5. /\ s \in Seq(Nat \ {0})
        /\ Len(s) = IF 1 <= m - 1 THEN m - 1 - 1 + 1 ELSE 0
        /\ \A i \in 1..(m - 1 - 1 + 1) : s[i] = b[1 + i - 1]
    BY <2>2, <2>4, SubSeqProperties
  <2> HIDE DEF s
  <2>6. Len(s) = m - 1
    BY <2>2, <2>5
  <2>7. \A i \in 1..Len(s) : s[i] = b[i]
    BY <2>2, <2>5, <2>6
  <2>8. Len(s) <= Len(b)
    BY <1>1, <2>2, <2>6
  <2> QED BY <2>3, <2>5, <2>7, <2>8
<1> QED BY <1>2, <1>3

\* What is filled up with zeros, or ended with one, comes back.
LEMMA StringSent ==
    ASSUME NEW v \in Seq(Nat \ {0}), NEW z \in Seq({0})
    PROVE  StringFromTelegram(v \o z) = v
<1> DEFINE b == v \o z
           r == StringFromTelegram(b)
<1>1. v \in Seq(Nat) /\ z \in Seq(Nat) /\ Len(v) \in Nat /\ Len(z) \in Nat
  OBVIOUS
<1>2. /\ b \in Seq(Nat)
      /\ Len(b) = Len(v) + Len(z)
      /\ \A i \in 1..(Len(v) + Len(z)) : b[i] = IF i <= Len(v) THEN v[i] ELSE z[i - Len(v)]
  BY <1>1, ConcatProperties, Zenon
<1>3. \A i \in 1..Len(v) : b[i] = v[i] /\ v[i] # 0
  BY <1>1, <1>2
<1>4. \A i \in 1..Len(b) : i > Len(v) => b[i] = 0
  BY <1>1, <1>2
<1> HIDE DEF b
<1>5. /\ r \in Seq(Nat \ {0}) /\ Len(r) <= Len(b)
      /\ \A i \in 1..Len(r) : r[i] = b[i]
  BY <1>2, StringReceived
<1>6. Len(r) <= Len(v)
  <2> SUFFICES ASSUME Len(r) > Len(v) PROVE FALSE
    BY <1>1, <1>5
  <2>1. PICK k \in 1..Len(r) : k \in 1..Len(b) /\ k > Len(v)
    <3>1. Len(r) \in Nat /\ Len(v) \in Nat /\ Len(b) \in Nat /\ Len(r) <= Len(b)
      BY <1>1, <1>2, <1>5
    <3>2. Len(v) + 1 \in 1..Len(r) /\ Len(v) + 1 \in 1..Len(b) /\ Len(v) + 1 > Len(v)
      BY <3>1, SMT
    <3> QED BY <3>2, Zenon
  <2>2. r[k] = 0
    BY <1>4, <1>5, <2>1, Zenon
  <2> QED BY <1>5, <2>1, <2>2
<1>7. Len(r) >= Len(v)
  <2> DEFINE zeros == {i \in DOMAIN b : b[i] = 0}
  <2>1. DOMAIN b = 1..Len(b)
    BY <1>2
  <2>2. CASE zeros = {}
    <3>1. r = b
      BY <2>2, Zenon DEF StringFromTelegram, Before
    <3> QED BY <1>1, <1>2, <3>1
  <2>3. CASE zeros # {}
    <3> DEFINE m == Min(zeros)
    <3>0. zeros \in SUBSET Nat
      BY <1>2, <2>1
    <3>1. m \in zeros /\ \A i \in zeros : m <= i
      <4> HIDE DEF zeros
      <4> QED BY <3>0, <2>3, LeastNumber, Zenon
    <3>2. m \in 1..Len(b) /\ b[m] = 0
      BY <2>1, <3>1
    <3>3. ~(m <= Len(v))
      BY <1>1, <1>3, <3>2
    <3>4. r = SubSeq(b, 1, m - 1)
      BY <2>3, Zenon DEF StringFromTelegram, Before
    <3> HIDE DEF m
    <3>5. Len(r) = m - 1
      BY <1>1, <1>2, <3>2, <3>4
    <3> QED BY <1>1, <3>2, <3>3, <3>5
  <2> QED BY <2>2, <2>3
<1>8. Len(r) = Len(v)
  BY <1>1, <1>5, <1>6, <1>7
<1> HIDE DEF r
<1>9. r = v
  BY <1>1, <1>2, <1>3, <1>5, <1>8, SeqEqual
<1> QED BY <1>9 DEF r, b

\* Strings that are not transliterated come back as they were.
LEMMA StringCodec ==
    ASSUME NEW t \in Types, t.class = "string", t.charset \in {"bytes", "ascii"},
           NEW v \in Values(t)
    PROVE  /\ Accepts(t, ToText(t, v))
           /\ ToText(t, v) = v
           /\ Reread(t, v) = v
           /\ Sent(t, v) = v
<1>1. Values(t) = {x \in Seq(Nat \ {0}) : StringAccepts(t, x)}
  BY DEF Values
<1>2. v \in Seq(Nat \ {0}) /\ StringAccepts(t, v)
  BY <1>1
<1>3. ToText(t, v) = v
  BY Zenon DEF ToText
<1>4. Accepts(t, ToText(t, v))
  BY <1>2, <1>3, Zenon DEF Accepts
<1>5. Reread(t, v) = v
  BY <1>3 DEF Reread, FromText
<1>6. Sent(t, v) = StringFromTelegram(StringTelegram(t, v))
  BY DEF Sent, FromTelegram, ToTelegram
<1>7. CASE t.charset = "bytes"
  <2>1. StringTelegram(t, v) = v \o <<0>>
    BY <1>7, NotEncoded DEF StringTelegram
  <2>2. <<0>> \in Seq({0})
    OBVIOUS
  <2> QED BY <1>2, <1>3, <1>4, <1>5, <1>6, <2>1, <2>2, StringSent
<1>8. CASE t.charset = "ascii"
  <2> DEFINE z == [i \in 1..(Room - Len(v)) |-> 0]
  <2>0. Encoded(t, v) = v
    BY <1>8, NotEncoded
  <2>1. StringTelegram(t, v) = v \o z
    BY <1>8, <2>0, Zenon DEF StringTelegram
  <2>2. Len(v) <= Room /\ Len(v) \in Nat
    BY <1>2, <1>8, NotEncoded DEF StringAccepts
  <2>3. z \in Seq({0})
    BY <2>2, StringsAndFloats
  <2> HIDE DEF z
  <2> QED BY <1>2, <1>3, <1>4, <1>5, <1>6, <2>1, <2>3, StringSent
<1> QED BY <1>7, <1>8

-----------------------------------------------------------------------------
(***************************************************************************)
(* Floating-point numbers of two bytes.                                    *)
(***************************************************************************)
\* The table of the powers of two.
LEMMA PowersOfTwo ==
    /\ TwoTo(0) = 1 /\ TwoTo(1) = 2 /\ TwoTo(2) = 4 /\ TwoTo(3) = 8
    /\ TwoTo(4) = 16 /\ TwoTo(5) = 32 /\ TwoTo(6) = 64 /\ TwoTo(7) = 128
    /\ TwoTo(8) = 256 /\ TwoTo(9) = 512 /\ TwoTo(10) = 1024 /\ TwoTo(11) = 2048
    /\ TwoTo(12) = 4096 /\ TwoTo(13) = 8192 /\ TwoTo(14) = 16384 /\ TwoTo(15) = 32768
BY SMT DEF TwoTo

\* They are positive, and each is twice the one before.
LEMMA Doubled ==
    ASSUME NEW e \in 0..15
    PROVE  /\ TwoTo(e) \in Nat /\ TwoTo(e) > 0 /\ TwoTo(e) <= TwoTo(15)
           /\ e < 15 => TwoTo(e + 1) = 2 * TwoTo(e)
BY PowersOfTwo, SMT

\* A power of two is a multiple of the smaller ones.
LEMMA PowersDivide ==
    ASSUME NEW e \in 0..15, NEW k \in 0..e
    PROVE  TwoTo(e) = TwoTo(e - k) * TwoTo(k)
BY PowersOfTwo, SMT
\* What a telegram can carry at all.
Sendable == (-2048 * TwoTo(15))..(2047 * TwoTo(15))

\* The mantissas that eleven bits stand for.
Mantissas == (-2048)..2047

\* The exponent is the least that will do.
LEMMA Exponents ==
    ASSUME NEW v \in Sendable
    PROVE  /\ Exponent(v) \in 0..15 /\ Fits(v, Exponent(v))
           /\ \A k \in 0..(Exponent(v) - 1) : ~Fits(v, k)
<1> DEFINE S == {e \in 0..15 : Fits(v, e)}
<1>1. Fits(v, 15)
  <2>1. TwoTo(15) = 32768
    BY PowersOfTwo
  <2>2. v \in Int /\ v >= -67108864 /\ v <= 67076096
    BY <2>1, SMT DEF Sendable
  <2> QED BY <2>1, <2>2, SMT DEF Fits, Abs
<1>2. S \in SUBSET Nat /\ S # {}
  BY <1>1
<1> DEFINE e == Min(S)
<1> HIDE DEF S
<1>3. e \in S /\ \A y \in S : e <= y
  BY <1>2, LeastNumber, Zenon
<1> HIDE DEF e
<1> USE DEF S
<1>4. e \in 0..15 /\ Fits(v, e)
  BY <1>3
<1>5. \A k \in 0..(e - 1) : ~Fits(v, k)
  <2> SUFFICES ASSUME NEW k \in 0..(e - 1), Fits(v, k) PROVE FALSE
    OBVIOUS
  <2>1. k \in 0..15 /\ k < e
    BY <1>4
  <2>2. k \in S
    BY <2>1, Zenon
  <2> QED BY <1>3, <2>1, <2>2
<1>6. \E x \in 0..15 : Fits(v, x) /\ \A k \in 0..(x - 1) : ~Fits(v, k)
  BY <1>4, <1>5, Zenon
<1> QED BY <1>6, Zenon DEF Exponent

\* Multiplication with a positive number keeps the order.
LEMMA Products ==
    ASSUME NEW d \in Nat, d > 0, NEW i \in Int, NEW j \in Int
    PROVE  /\ i * d \in Int /\ (i + 1) * d = i * d + d /\ (i - 1) * d = i * d - d
           /\ (-i) * d = -(i * d)
           /\ i < j <=> i * d < j * d
           /\ i <= j <=> i * d <= j * d
<1>1. i * d \in Int /\ (i + 1) * d = i * d + d /\ (i - 1) * d = i * d - d /\ (-i) * d = -(i * d)
  BY SMT
<1>2. ASSUME NEW x \in Int, NEW k \in Nat, k > 0
      PROVE  x * d < (x + k) * d
  <2>1. (x + k) * d = x * d + k * d
    BY SMT
  <2>2. k * d > 0 /\ x * d \in Int /\ k * d \in Int
    BY <1>2, SMT
  <2> QED BY <2>1, <2>2
<1>3. ASSUME NEW x \in Int, NEW y \in Int, x < y PROVE x * d < y * d
  <2>1. y - x \in Nat /\ y - x > 0 /\ x + (y - x) = y
    BY <1>3
  <2> QED BY <1>2, <2>1
<1>4. i * d \in Int /\ j * d \in Int
  BY SMT
<1>5. i < j \/ i = j \/ j < i
  OBVIOUS
<1>6. i < j => i * d < j * d
  BY <1>3
<1>7. j < i => j * d < i * d
  BY <1>3
<1>8. i = j => i * d = j * d
  OBVIOUS
<1> QED BY <1>1, <1>4, <1>5, <1>6, <1>7, <1>8

\* A quotient and what remains.
LEMMA Quotient ==
    ASSUME NEW n \in Nat, NEW d \in Nat, d > 0
    PROVE  /\ n \div d \in Nat /\ (n \div d) * d \in Nat
           /\ (n \div d) * d <= n /\ n < (n \div d) * d + d
<1>1. n \div d \in Nat /\ n % d \in 0..(d - 1) /\ n = d * (n \div d) + (n % d)
  BY SMT
<1>2. ASSUME NEW q \in Nat, NEW r \in 0..(d - 1), n = d * q + r
      PROVE  q * d \in Nat /\ q * d <= n /\ n < q * d + d
  BY <1>2, SMT
<1> QED BY <1>1, <1>2, Zenon

\* Division towards zero, for a divisor that is positive.
LEMMA TowardsZero ==
    ASSUME NEW v \in Int, NEW d \in Nat, d > 0, NEW q, q = Truncated(v, d)
    PROVE  /\ q \in Int /\ q * d \in Int
           /\ v >= 0 => q >= 0 /\ q * d <= v /\ v < q * d + d /\ q = Abs(v) \div d
           /\ v <= 0 => q <= 0 /\ v <= q * d /\ q * d - d < v /\ -q = Abs(v) \div d
<1>1. PICK n \in Nat : n = Abs(v) /\ (v >= 0 => n = v) /\ (v <= 0 => n = -v)
  BY DEF Abs
<1>2. PICK p \in Nat : p = n \div d /\ p * d \in Nat /\ p * d <= n /\ n < p * d + d
  BY Quotient
<1>3. q = Signum(v) * p
  BY <1>1, <1>2 DEF Truncated
<1>4. 0 * d = 0 /\ (-p) * d = -(p * d)
  BY SMT
<1>5. CASE v > 0
  <2>1. q = p
    BY <1>3, <1>5, SMT DEF Signum
  <2> QED BY <1>1, <1>2, <1>5, <2>1
<1>6. CASE v < 0
  <2>1. q = -p
    BY <1>3, <1>6, SMT DEF Signum
  <2>2. q * d = -(p * d)
    BY <1>4, <2>1
  <2>3. -q = Abs(v) \div d
    BY <1>1, <1>2, <2>1, SMT
  <2> QED BY <1>1, <1>2, <1>6, <2>1, <2>2, <2>3
<1>7. CASE v = 0
  <2>1. q = 0
    BY <1>3, <1>7, SMT DEF Signum
  <2>2. p = 0
    BY <1>1, <1>2, <1>7, SMT
  <2> QED BY <1>1, <1>2, <1>4, <1>7, <2>1, <2>2
<1> QED BY <1>5, <1>6, <1>7

\* Only the quotient has a multiple that is so near.
LEMMA OneQuotient ==
    ASSUME NEW d \in Nat, d > 0, NEW q \in Int, NEW r \in Int,
           \/ q * d <= r * d /\ r * d < q * d + d
           \/ r * d <= q * d /\ q * d - d < r * d
    PROVE  q = r
<1>1. /\ (q + 1) * d = q * d + d /\ (q - 1) * d = q * d - d
      /\ q <= r <=> q * d <= r * d
      /\ r <= q <=> r * d <= q * d
  BY Products, Zenon
<1>2. r < q + 1 <=> r * d < (q + 1) * d
  <2>1. q + 1 \in Int
    OBVIOUS
  <2> QED BY <2>1, Products, Zenon
<1>3. q - 1 < r <=> (q - 1) * d < r * d
  <2>1. q - 1 \in Int
    OBVIOUS
  <2> QED BY <2>1, Products, Zenon
<1>4. (q <= r /\ r < q + 1) \/ (r <= q /\ q - 1 < r)
  BY <1>1, <1>2, <1>3, Zenon
<1> QED BY <1>4

\* A multiple divided.
LEMMA Multiples ==
    ASSUME NEW d \in Nat, d > 0, NEW r \in Int, NEW v, v = r * d
    PROVE  v \in Int /\ Truncated(v, d) = r /\ Abs(v) \div d = Abs(r)
<1>1. v \in Int
  BY Products
<1>2. PICK q : q = Truncated(v, d)
  OBVIOUS
<1>3. /\ q \in Int /\ q * d \in Int
      /\ v >= 0 => q >= 0 /\ q * d <= v /\ v < q * d + d /\ q = Abs(v) \div d
      /\ v <= 0 => q <= 0 /\ v <= q * d /\ q * d - d < v /\ -q = Abs(v) \div d
  BY <1>1, <1>2, TowardsZero, Zenon
<1>4. v >= 0 \/ v <= 0
  BY <1>1
<1>5. q = r
  BY <1>3, <1>4, OneQuotient, Zenon
<1>6. Abs(v) \div d = Abs(r)
  BY <1>1, <1>3, <1>4, <1>5 DEF Abs
<1> QED BY <1>1, <1>2, <1>5, <1>6

\* What can be carried with an exponent is carried as it is.
LEMMA CarriedExactly ==
    ASSUME NEW e \in 0..15, NEW m \in Mantissas, NEW v, v = m * TwoTo(e)
    PROVE  v \in Sendable /\ RoundToKnx(v) = v
<1>1. PICK c \in Nat : c = TwoTo(e) /\ c > 0 /\ c <= TwoTo(15)
  BY Doubled
<1>2. v \in Sendable
  <2>1. PICK l \in Int, h \in Int : l = -2048 /\ h = 2047
    BY SMT
  <2>2. m \in Int /\ l <= m /\ m <= h
    BY <2>1, SMT DEF Mantissas
  <2>3. m * c \in Int /\ l * c <= m * c /\ m * c <= h * c
    BY <1>1, <2>2, Products, Zenon
  <2>4. l * c = -2048 * c /\ h * c = 2047 * c
    BY <2>1, SMT
  <2> QED BY <1>1, <2>3, <2>4, PowersOfTwo, SMT DEF Sendable
<1>3. m \in Int
  BY SMT DEF Mantissas
<1>4. Fits(v, e)
  <2>1. v \in Int /\ Abs(v) \div c = Abs(m)
    BY <1>1, <1>3, Multiples, Zenon
  <2>2. v < 0 <=> m < 0
    <3>1. 0 * c = 0 /\ (m < 0 <=> m * c < 0 * c)
      BY <1>1, <1>3, Products, SMT
    <3> QED BY <1>1, <3>1, Zenon
  <2>3. Abs(m) <= IF v < 0 THEN 2048 ELSE 2047
    BY <2>2, SMT DEF Abs, Mantissas
  <2> QED BY <1>1, <2>1, <2>3, SMT DEF Fits
<1>5. PICK f \in 0..15 : f = Exponent(v) /\ \A k \in 0..(f - 1) : ~Fits(v, k)
  BY <1>2, Exponents
<1>6. f <= e
  <2>1. SUFFICES ASSUME e < f PROVE FALSE
    OBVIOUS
  <2>2. e \in 0..(f - 1)
    BY <2>1
  <2> QED BY <1>4, <1>5, <2>2
<1>7. PICK p \in Nat, d \in Nat : p = TwoTo(e - f) /\ d = TwoTo(f) /\ d > 0
  <2>1. e - f \in 0..15
    BY <1>6
  <2> QED BY <2>1, Doubled
<1>8. c = p * d
  <2>1. f \in 0..e
    BY <1>6
  <2> QED BY <1>1, <1>7, <2>1, PowersDivide, Zenon
<1>9. v = (m * p) * d /\ m * p \in Int
  BY <1>1, <1>3, <1>7, <1>8, SMT
<1>10. Truncated(v, d) = m * p
  BY <1>7, <1>9, Multiples, Zenon
<1> QED BY <1>2, <1>5, <1>7, <1>9, <1>10, Zenon DEF RoundToKnx, Mantissa

\* What a telegram carries of a number.
LEMMA CarriedNear ==
    ASSUME NEW v \in Sendable, NEW e, e = Exponent(v), NEW m, m = Mantissa(v), NEW r, r = RoundToKnx(v)
    PROVE  /\ v \in Int /\ e \in 0..15 /\ m \in Mantissas /\ r \in Int
           /\ r = m * TwoTo(e)
           /\ v >= 0 => 0 <= m /\ 0 <= r /\ r <= v /\ v < r + TwoTo(e)
           /\ v < 0 => m < 0 /\ r < 0 /\ v <= r /\ r - TwoTo(e) < v
<1>1. v \in Int
  BY PowersOfTwo, SMT DEF Sendable
<1>2. e \in 0..15 /\ Fits(v, e) /\ \A k \in 0..(e - 1) : ~Fits(v, k)
  BY Exponents
<1>3. PICK c \in Nat : c = TwoTo(e) /\ c > 0
  BY <1>2, Doubled
<1>4. m = Truncated(v, c) /\ r = m * c
  BY <1>3 DEF Mantissa, RoundToKnx
<1>5. /\ m \in Int /\ m * c \in Int
      /\ v >= 0 => m >= 0 /\ m * c <= v /\ v < m * c + c /\ m = Abs(v) \div c
      /\ v <= 0 => m <= 0 /\ v <= m * c /\ m * c - c < v /\ -m = Abs(v) \div c
  BY <1>1, <1>3, <1>4, TowardsZero, Zenon
<1>6. m \in Int /\ (v >= 0 => m >= 0 /\ m = Abs(v) \div c) /\ (v < 0 => m <= 0 /\ -m = Abs(v) \div c)
  BY <1>1, <1>5
<1>7. m \in Mantissas
  <2>1. Abs(v) \div c <= IF v < 0 THEN 2048 ELSE 2047
    BY <1>2, <1>3, Zenon DEF Fits
  <2>2. CASE v < 0
    <3>1. m <= 0 /\ -m <= 2048
      BY <1>6, <2>1, <2>2, SMT
    <3> QED BY <1>6, <3>1, SMT DEF Mantissas
  <2>3. CASE v >= 0
    <3>1. m >= 0 /\ m <= 2047
      BY <1>6, <2>1, <2>3, SMT
    <3> QED BY <1>6, <3>1, SMT DEF Mantissas
  <2> QED BY <1>1, <2>2, <2>3
<1>8. ASSUME v < 0 PROVE m < 0
  <2> SUFFICES ASSUME m = 0 PROVE FALSE
    BY <1>6, <1>8
  <2>1. -c < v
    <3>1. 0 * c = 0
      BY <1>3, SMT
    <3>2. 0 - c < v
      BY <1>1, <1>5, <1>8, <3>1, SMT
    <3> QED BY <1>3, <3>2
  <2>2. CASE e = 0
    <3>1. c = 1
      BY <1>3, <2>2, PowersOfTwo, SMT
    <3> QED BY <1>1, <1>8, <2>1, <3>1
  <2>3. CASE e > 0
    <3>1. PICK h \in Nat : h = TwoTo(e - 1) /\ h > 0 /\ c = 2 * h
      <4>1. e - 1 \in 0..15 /\ e - 1 < 15 /\ e - 1 + 1 = e
        BY <1>2, <2>3
      <4> QED BY <1>3, <4>1, Doubled
    <3>2. Abs(v) \div h >= 2
      <4>1. ~Fits(v, e - 1)
        BY <1>2, <2>3
      <4>2. Abs(v) \in Nat
        BY <1>1 DEF Abs
      <4>3. Abs(v) \div h \in Nat
        BY <3>1, <4>2, Quotient
      <4> QED BY <1>8, <3>1, <4>1, <4>3, SMT DEF Fits
    <3>3. Abs(v) \in Nat /\ Abs(v) < 2 * h
      BY <1>1, <1>8, <2>1, <3>1 DEF Abs
    <3>4. PICK q \in Nat : q = Abs(v) \div h /\ q * h <= Abs(v)
      BY <3>1, <3>3, Quotient
    <3>5. 2 * h <= q * h
      <4>1. h \in Nat /\ h > 0 /\ 2 \in Int /\ q \in Int /\ 2 <= q
        BY <3>1, <3>2, <3>4
      <4> QED BY <4>1, Products, Zenon
    <3>6. q * h \in Int
      BY <3>1, <3>4, SMT
    <3> QED BY <3>1, <3>3, <3>4, <3>5, <3>6
  <2> QED BY <1>2, <2>2, <2>3
<1>9. (m >= 0 => m * c >= 0) /\ (m < 0 => m * c < 0)
  <2>1. c \in Nat /\ c > 0 /\ 0 \in Int /\ m \in Int
    BY <1>3, <1>5
  <2>2. (0 <= m <=> 0 * c <= m * c) /\ (m < 0 <=> m * c < 0 * c)
    BY <2>1, Products, Zenon
  <2>3. 0 * c = 0
    BY <2>1, SMT
  <2> QED BY <1>5, <2>2, <2>3
<1> QED BY <1>1, <1>2, <1>3, <1>4, <1>5, <1>7, <1>8, <1>9

\* The fields of the first byte.
LEMMA FirstByte ==
    ASSUME NEW x \in 0..7, NEW e \in 0..15, NEW s \in {0, 128}, NEW b, b = x + e * 8 + s
    PROVE  (b \div 8) % 16 = e /\ (b >= 128 <=> s = 128) /\ b % 8 = x
BY SMT

\* The eleven bits of a mantissa, whose sign is apart.
LEMMA ElevenBits ==
    ASSUME NEW m \in Mantissas
    PROVE  /\ (m \div 256) % 8 \in 0..7 /\ m % 256 \in 0..255
           /\ ((m \div 256) % 8) * 256 + (m % 256) - (IF m < 0 THEN 2048 ELSE 0) = m
<1>1. PICK q \in Int, r \in 0..255 : q = m \div 256 /\ r = m % 256 /\ m = 256 * q + r
  BY SMT DEF Mantissas
<1>2. q \in (-8)..7 /\ (m < 0 <=> q < 0)
  BY <1>1, SMT DEF Mantissas
<1>3. q % 8 = IF q < 0 THEN q + 8 ELSE q
  BY <1>2, SMT
<1> QED BY <1>1, <1>2, <1>3, SMT

\* It is received as the number it was rounded to.
LEMMA FloatReceived ==
    ASSUME NEW v \in Sendable
    PROVE  /\ FloatFromTelegram(FloatTelegram(v)) = RoundToKnx(v)
           /\ RoundToKnx(v) \in Sendable /\ RoundToKnx(RoundToKnx(v)) = RoundToKnx(v)
<1> DEFINE e == Exponent(v)
           m == Mantissa(v)
<1>1. /\ v \in Int /\ e \in 0..15 /\ m \in Mantissas
      /\ RoundToKnx(v) = m * TwoTo(e)
      /\ v >= 0 => 0 <= m
      /\ v < 0 => m < 0
  BY CarriedNear
<1> DEFINE s == IF v < 0 THEN 128 ELSE 0
           b1 == ((m \div 256) % 8) + e * 8 + s
           b2 == m % 256
<1>2. FloatTelegram(v) = <<b1, b2>>
  BY DEF FloatTelegram
<1>3. FloatFromTelegram(<<b1, b2>>)
        = ((b1 % 8) * 256 + b2 - (IF b1 >= 128 THEN 2048 ELSE 0)) * TwoTo((b1 \div 8) % 16)
  BY DEF FloatFromTelegram
<1> HIDE DEF e, m
<1>4. /\ (b1 \div 8) % 16 = e
      /\ b1 >= 128 <=> s = 128
      /\ b1 % 8 = (m \div 256) % 8
  <2>1. (m \div 256) % 8 \in 0..7 /\ s \in {0, 128}
    BY <1>1, ElevenBits, SMT
  <2> HIDE DEF s
  <2> QED BY <1>1, <2>1, FirstByte, SMT
<1>5. ((m \div 256) % 8) * 256 + b2 - (IF m < 0 THEN 2048 ELSE 0) = m
  BY <1>1, ElevenBits, SMT
<1>6. (b1 >= 128 <=> v < 0) /\ (m < 0 <=> v < 0)
  BY <1>1, <1>4, SMT DEF Mantissas
<1>7. FloatFromTelegram(FloatTelegram(v)) = m * TwoTo(e)
  <2> HIDE DEF b1, b2
  <2> DEFINE g == (b1 % 8) * 256 + b2 - (IF b1 >= 128 THEN 2048 ELSE 0)
             h == (b1 \div 8) % 16
  <2>1. g = m /\ h = e
    BY <1>4, <1>5, <1>6, SMT
  <2>2. FloatFromTelegram(<<b1, b2>>) = g * TwoTo(h)
    BY <1>3, Zenon
  <2> HIDE DEF g, h
  <2> QED BY <1>2, <2>1, <2>2, Zenon
<1>8. m * TwoTo(e) \in Sendable /\ RoundToKnx(m * TwoTo(e)) = m * TwoTo(e)
  BY <1>1, CarriedExactly
<1> QED BY <1>1, <1>7, <1>8, Zenon

\* Multiple k of the precision p is the nearest one to v.
Nearest(p, v, k) ==
    /\ v > 0 => k >= 0 /\ 2 * (k * p) <= 2 * v + p /\ 2 * v < 2 * (k * p) + p
    /\ v < 0 => k <= 0 /\ 2 * v - p <= 2 * (k * p) /\ 2 * (k * p) - p < 2 * v
    /\ v = 0 => k = 0

\* Rounding to the precision finds it.
LEMMA NearestFound ==
    ASSUME NEW p \in Nat, p > 0, NEW v \in Int,
           NEW k, k = Truncated(2 * v + Signum(v) * p, 2 * p)
    PROVE  k \in Int /\ Nearest(p, v, k)
<1>1. PICK n \in Int : /\ n = 2 * v + Signum(v) * p
                       /\ v > 0 => n = 2 * v + p
                       /\ v < 0 => n = 2 * v - p
                       /\ v = 0 => n = 0
  <2>1. 1 * p = p /\ (-1) * p = -p /\ 0 * p = 0
    BY SMT
  <2>2. CASE v > 0
    BY <2>1, <2>2 DEF Signum
  <2>3. CASE v < 0
    BY <2>1, <2>3 DEF Signum
  <2>4. CASE v = 0
    BY <2>1, <2>4 DEF Signum
  <2> QED BY <2>2, <2>3, <2>4
<1>2. PICK d \in Nat : d = 2 * p /\ d > 0 /\ k = Truncated(n, d)
  BY <1>1
<1>3. /\ k \in Int /\ k * d \in Int
      /\ n >= 0 => k >= 0 /\ k * d <= n /\ n < k * d + d
      /\ n <= 0 => k <= 0 /\ n <= k * d /\ k * d - d < n
  <2>1. d > 0 /\ k = Truncated(n, d)
    BY <1>2
  <2> QED BY <2>1, TowardsZero, Zenon
<1>4. k * d = 2 * (k * p) /\ k * p \in Int
  BY <1>2, <1>3, SMT
<1> QED BY <1>1, <1>2, <1>3, <1>4 DEF Nearest

\* A bigger number has no smaller nearest one.
LEMMA NearestGrows ==
    ASSUME NEW p \in Nat, p > 0, NEW v \in Int, NEW w \in Int, v <= w,
           NEW k \in Int, NEW l \in Int, Nearest(p, v, k), Nearest(p, w, l)
    PROVE  k * p <= l * p
<1>1. k * p \in Int /\ l * p \in Int /\ (l + 1) * p = l * p + p
  BY SMT
<1>2. k < l + 1 <=> k * p < (l + 1) * p
  <2>1. l + 1 \in Int
    OBVIOUS
  <2> QED BY <2>1, Products, Zenon
<1>3. k <= l
  <2>1. CASE v > 0 \/ w < 0
    <3>1. k * p < l * p + p
      BY <1>1, <2>1 DEF Nearest
    <3> QED BY <1>1, <1>2, <3>1
  <2>2. CASE v <= 0 /\ 0 <= w
    BY <2>2 DEF Nearest
  <2> QED BY <2>1, <2>2
<1> QED BY <1>3, Products, Zenon

\* A multiple is the nearest one to itself.
LEMMA NearestExactly ==
    ASSUME NEW p \in Nat, p > 0, NEW j \in Int, NEW k \in Int, Nearest(p, j * p, k)
    PROVE  k = j
<1>1. j * p \in Int /\ k * p \in Int
  BY SMT
<1>2. CASE j * p > 0
  <2>1. \/ k * p <= j * p /\ j * p < k * p + p
        \/ j * p <= k * p /\ k * p - p < j * p
    BY <1>1, <1>2 DEF Nearest
  <2> QED BY <2>1, OneQuotient, Zenon
<1>3. CASE j * p < 0
  <2>1. \/ k * p <= j * p /\ j * p < k * p + p
        \/ j * p <= k * p /\ k * p - p < j * p
    BY <1>1, <1>3 DEF Nearest
  <2> QED BY <2>1, OneQuotient, Zenon
<1>4. CASE j * p = 0
  <2>1. k = 0
    BY <1>4 DEF Nearest
  <2>2. j = 0
    BY <1>4, SMT
  <2> QED BY <2>1, <2>2
<1> QED BY <1>1, <1>2, <1>3, <1>4

\* A number is rounded to one in the range of the type, and only once; with a
\* precision, the difference is not greater.
LEMMA KeptInRange ==
    ASSUME NEW t, t.class = "float", Floats(t), NEW v \in t.lo..t.hi
    PROVE  /\ v \in Sendable
           /\ Kept(t, v) \in t.lo..t.hi
           /\ Kept(t, Kept(t, v)) = Kept(t, v)
           /\ t.precision > 0 => Abs(v - Kept(t, v)) <= t.precision
<1>1. /\ t.precision \in Nat /\ t.lo \in Int /\ t.hi \in Int /\ t.lo <= 0 /\ 0 <= t.hi
      /\ v \in Int /\ v \in Sendable
  BY PowersOfTwo, SMT DEF Floats, Sendable
<1>2. CASE t.precision = 0
  <2>1. \A w : Kept(t, w) = RoundToKnx(w)
    BY <1>2 DEF Kept
  <2>2. /\ RoundToKnx(v) \in Int
        /\ v >= 0 => 0 <= RoundToKnx(v) /\ RoundToKnx(v) <= v
        /\ v < 0 => RoundToKnx(v) < 0 /\ v <= RoundToKnx(v)
    BY <1>1, CarriedNear
  <2>3. RoundToKnx(v) \in t.lo..t.hi
    BY <1>1, <2>2
  <2> QED BY <1>1, <1>2, <2>1, <2>3, FloatReceived
<1>3. CASE t.precision > 0
  <2> DEFINE p == t.precision
             K(w) == Truncated(2 * w + Signum(w) * p, 2 * p)
  <2>0. p \in Nat /\ p > 0
    BY <1>1, <1>3
  <2>1. \A w : Kept(t, w) = K(w) * p
    BY <1>3 DEF Kept
  <2>2. ASSUME NEW w \in Int PROVE K(w) \in Int /\ Nearest(p, w, K(w))
    BY <2>0, NearestFound
  <2> HIDE DEF K
  <2>3. K(t.lo) * p <= K(v) * p /\ K(v) * p <= K(t.hi) * p
    <3>1. t.lo <= v /\ v <= t.hi
      BY <1>1
    <3> QED BY <1>1, <2>0, <2>2, <3>1, NearestGrows, Zenon
  <2>4. K(t.lo) * p \in t.lo..t.hi /\ K(t.hi) * p \in t.lo..t.hi
    BY <2>1 DEF Floats
  <2>5. K(v) * p \in Int
    BY <1>1, <2>0, <2>2, SMT
  <2>6. K(v) * p \in t.lo..t.hi
    BY <1>1, <2>3, <2>4, <2>5
  <2>7. K(K(v) * p) = K(v)
    BY <1>1, <2>0, <2>2, <2>5, NearestExactly, Zenon
  <2>8. Abs(v - K(v) * p) <= p
    BY <1>1, <2>0, <2>2, <2>5 DEF Nearest, Abs
  <2> QED BY <1>1, <2>1, <2>6, <2>7, <2>8
<1> QED BY <1>1, <1>2, <1>3

\* What others receive of a value may differ by what a telegram rounds and by
\* the precision.
LEMMA FloatCodec ==
    ASSUME NEW t \in Types, t.class = "float", NEW v \in Values(t)
    PROVE  /\ v \in Int /\ v \in Sendable /\ t.precision \in Nat
           /\ Accepts(t, ToText(t, v))
           /\ Reread(t, v) = v
           /\ Kept(t, Sent(t, v)) \in Values(t)
           /\ t.precision = 0 => Kept(t, Sent(t, v)) = v
           /\ t.precision > 0 =>
                Abs(v - Kept(t, Sent(t, v))) <= t.precision + TwoTo(Exponent(v))
<1>1. Floats(t)
  BY BusConstants
<1>2. Values(t) = {w \in t.lo..t.hi : Kept(t, w) = w}
  BY DEF Values
<1>3. v \in t.lo..t.hi /\ Kept(t, v) = v /\ v \in Sendable
  BY <1>1, <1>2, KeptInRange
<1>4. /\ t.precision \in Nat /\ t.lo \in Int /\ t.hi \in Int /\ t.lo <= 0 /\ 0 <= t.hi
      /\ v \in Int
  BY <1>1, <1>3, PowersOfTwo, SMT DEF Floats
<1>5. ToText(t, v) = v /\ FromText(t, v) = v
  BY Zenon DEF ToText, FromText
<1>6. Accepts(t, v)
  BY <1>3, Zenon DEF Accepts
<1>7. Reread(t, v) = v
  BY <1>5, Zenon DEF Reread
<1>8. PICK r \in Int, e \in Nat :
         /\ r = RoundToKnx(v) /\ e = TwoTo(Exponent(v))
         /\ v >= 0 => 0 <= r /\ r <= v /\ v < r + e
         /\ v < 0 => r < 0 /\ v <= r /\ r - e < v
  <2>1. Exponent(v) \in 0..15
    BY <1>3, Exponents
  <2> QED BY <1>3, <2>1, CarriedNear, Doubled
<1>9. Sent(t, v) = r
  <2>1. ToTelegram(t, v) = FloatTelegram(v)
    BY Zenon DEF ToTelegram
  <2>2. FromTelegram(t, FloatTelegram(v)) = FloatFromTelegram(FloatTelegram(v))
    BY Zenon DEF FromTelegram
  <2> QED BY <1>3, <1>8, <2>1, <2>2, FloatReceived, Zenon DEF Sent
<1>10. r \in t.lo..t.hi
  BY <1>3, <1>4, <1>8
<1>11. PICK w \in t.lo..t.hi : /\ w = Kept(t, r) /\ Kept(t, w) = w
                               /\ t.precision > 0 => Abs(r - w) <= t.precision
  BY <1>1, <1>10, KeptInRange
<1>12. t.precision = 0 => w = v
  <2> SUFFICES ASSUME t.precision = 0 PROVE w = v
    OBVIOUS
  <2>1. Kept(t, v) = RoundToKnx(v)
    BY DEF Kept
  <2> QED BY <1>3, <1>8, <1>11, <2>1
<1>13. t.precision > 0 => Abs(v - w) <= t.precision + e
  BY <1>4, <1>8, <1>11 DEF Abs
<1> QED BY <1>2, <1>3, <1>4, <1>5, <1>6, <1>7, <1>8, <1>9, <1>11, <1>12, <1>13

-----------------------------------------------------------------------------
(***************************************************************************)
(* What the sites may hold when the value c is known, and d is what it was *)
(* received as: one of them, or one of them read back.                     *)
(***************************************************************************)
Alike(t, c, d) == d = c \/ (c \in Settable(t) /\ d = Kept(t, Sent(t, c)))

Lot(t, c, d) == {c, d, Reread(t, c), Reread(t, d)}

\* The classes in which nothing is lost.
LEMMA Exactly ==
    ASSUME NEW t \in Types, Plain(t), t.class \notin {"float", "scaling", "angle", "step", "time"},
           NEW v \in Values(t)
    PROVE  /\ Accepts(t, ToText(t, v))
           /\ Reread(t, v) = v
           /\ v \in Settable(t) => Sent(t, v) = v
<1>1. CASE t.class = "switch"
  BY <1>1, SwitchCodec
<1>2. CASE t.class \in {"heatmode", "char"}
  BY <1>2, ByteCodec
<1>3. CASE t.class = "control"
  BY <1>3, ControlCodec
<1>4. CASE t.class = "date"
  BY <1>4, DateCodec
<1>5. CASE t.class = "string" /\ t.charset \in {"bytes", "ascii"}
  BY <1>5, StringCodec
<1>6. CASE t.class = "int" /\ t.bytes # 8
  BY <1>6, IntCodec
<1> QED BY <1>1, <1>2, <1>3, <1>4, <1>5, <1>6 DEF Plain

\* What is set is in the range of the type, once it is rounded.
LEMMA SettableValues ==
    ASSUME NEW t \in Types, NEW v \in Settable(t)
    PROVE  Kept(t, v) \in Values(t) /\ Kept(t, v) \in Settable(t)
<1>1. CASE t.class = "control"
  <2>1. Values(t) = {1} \X (0..1)
    BY <1>1 DEF Values
  <2>2. v = <<1, 1>>
    BY <1>1 DEF Settable
  <2>3. Kept(t, v) = v
    BY <1>1, KeptAsItIs
  <2> QED BY <2>1, <2>2, <2>3
<1>2. CASE t.class = "float"
  <2>1. Settable(t) = t.lo..t.hi /\ Values(t) = {w \in t.lo..t.hi : Kept(t, w) = w}
    BY <1>2 DEF Settable, Values
  <2>2. Floats(t)
    BY <1>2, BusConstants
  <2> QED BY <1>2, <2>1, <2>2, KeptInRange
<1>3. CASE t.class \notin {"control", "float"}
  <2>1. Settable(t) = Values(t)
    BY <1>3 DEF Settable
  <2> QED BY <1>3, <2>1, KeptAsItIs
<1> QED BY <1>1, <1>2, <1>3

\* A value is accepted when it is read back, and stays in the range of the
\* type, as does what is received.
LEMMA CodecTypes ==
    ASSUME NEW t \in Types, Plain(t), NEW v \in Values(t)
    PROVE  /\ Accepts(t, ToText(t, v))
           /\ Reread(t, v) \in Values(t)
           /\ v \in Settable(t) => Kept(t, Sent(t, v)) \in Values(t)
<1>1. CASE t.class \notin {"float", "scaling", "angle", "step", "time"}
  BY <1>1, Exactly, KeptAsItIs
<1>2. CASE t.class \in {"scaling", "angle"}
  <2>1. Values(t) = 0..255
    BY <1>2, Zenon DEF Values
  <2>2. /\ Accepts(t, ToText(t, v)) /\ v \in 0..255 /\ Sent(t, v) = v
        /\ Reread(t, v) \in {v, v - 1} /\ Reread(t, v) >= 0
    BY <1>2, ScalingCodec
  <2>3. Reread(t, v) \in 0..255
    BY <2>2
  <2> QED BY <1>2, <2>1, <2>2, <2>3, KeptAsItIs
<1>3. CASE t.class = "step"
  <2>1. Values(t) = (0..1) \X (0..7)
    BY <1>3 DEF Values
  <2>2. <<0, 0>> \in Values(t)
    BY <2>1
  <2> QED BY <1>3, <2>2, StepCodec, KeptAsItIs
<1>4. CASE t.class = "time"
  <2>1. Values(t) = (0..7) \X (0..23) \X (0..59) \X (0..59)
    BY <1>4 DEF Values
  <2>2. <<0, v[2], v[3], v[4]>> \in Values(t)
    BY <1>4, <2>1, TimeCodec
  <2> QED BY <1>4, <2>2, TimeCodec, KeptAsItIs
<1>5. CASE t.class = "float"
  BY <1>5, FloatCodec
<1> QED BY <1>1, <1>2, <1>3, <1>4, <1>5

\* A value agrees with itself.
LEMMA AgreeSame ==
    ASSUME type \in Types, Plain(type),
           type.class \notin {"scaling", "angle", "step", "time"},
           NEW v \in Values(type)
    PROVE  Agree(v, v)
<1>1. CASE type.class = "switch"
  <2>1. v \in 0..1
    BY <1>1 DEF Values
  <2>2. SwitchCompare(v, v) = 0
    BY <2>1 DEF SwitchCompare, Signum
  <2>3. Compare(type, v, v) = 0
    BY <1>1, <2>2, Zenon DEF Compare
  <2> QED BY <1>1, <2>3, Zenon DEF Agree
<1>2. CASE type.class \in {"heatmode", "char"} \/ (type.class = "int" /\ type.bytes # 8)
  <2>1. v \in Int
    <3>1. CASE type.class = "heatmode"
      BY <3>1 DEF Values
    <3>2. CASE type.class = "char"
      <4>1. Values(type) = {c \in 0..255 : CharAccepts(type, c)}
        BY <3>2 DEF Values
      <4> QED BY <4>1
    <3>3. CASE type.class = "int" /\ type.bytes # 8
      BY <3>3, IntegerValues
    <3> QED BY <1>2, <3>1, <3>2, <3>3
  <2>2. Signum(v - v) = 0
    BY <2>1 DEF Signum
  <2>3. Compare(type, v, v) = Signum(v - v)
    BY <1>2, Zenon DEF Compare
  <2>4. Compare(type, v, v) = 0
    BY <2>2, <2>3, Zenon
  <2> QED BY <1>2, <2>4, Zenon DEF Agree
<1>3. CASE type.class \in {"control", "date"}
  <2>1. \A a : Lexicographic(a, a) = 0
    BY DEF Lexicographic
  <2>2. Compare(type, v, v) = 0
    BY <1>3, <2>1, Zenon DEF Compare, ControlCompare, DateCompare
  <2> QED BY <1>3, <2>2, Zenon DEF Agree
<1>4. CASE type.class = "string"
  BY <1>4, Zenon DEF Agree
<1>5. CASE type.class = "float"
  <2>1. v \in Int /\ v \in Sendable /\ type.precision \in Nat
    BY <1>5, FloatCodec
  <2>2. TwoTo(Exponent(v)) \in Nat
    BY <2>1, Exponents, Doubled
  <2>3. Abs(v - v) <= type.precision + TwoTo(Exponent(v))
    BY <2>1, <2>2 DEF Abs
  <2> QED BY <1>5, <2>3, Zenon DEF Agree
<1> QED BY <1>1, <1>2, <1>3, <1>4, <1>5 DEF Plain

\* All that the sites may hold of a value is the same to the users.
LEMMA LotAgrees ==
    ASSUME type \in Types, Plain(type), NEW c \in Values(type), NEW d \in Values(type),
           Alike(type, c, d), NEW a \in Lot(type, c, d), NEW b \in Lot(type, c, d)
    PROVE  Agree(a, b)
<1>1. CASE type.class \notin {"float", "scaling", "angle", "step", "time"}
  <2>1. Reread(type, c) = c /\ d = c
    BY <1>1, Exactly, KeptAsItIs DEF Alike
  <2>2. a = c /\ b = c
    BY <2>1 DEF Lot
  <2> QED BY <1>1, <2>2, AgreeSame
<1>2. CASE type.class \in {"scaling", "angle"}
  <2>1. c \in 0..255 /\ Reread(type, c) \in {c, c - 1} /\ d = c
    BY <1>2, ScalingCodec, KeptAsItIs DEF Alike
  <2>2. a \in {c, c - 1} /\ b \in {c, c - 1}
    BY <2>1 DEF Lot
  <2>3. Abs(a - b) <= 1
    BY <2>1, <2>2 DEF Abs
  <2> QED BY <1>2, <2>3, Zenon DEF Agree
<1>3. CASE type.class = "step"
  <2>1. /\ c[1] \in 0..1 /\ c[2] \in 0..7 /\ c = <<c[1], c[2]>>
        /\ Reread(type, c) = IF c[2] = 0 THEN <<0, 0>> ELSE c
        /\ Sent(type, c) = IF c[2] = 0 THEN <<0, 0>> ELSE c
        /\ Reread(type, d) = IF d[2] = 0 THEN <<0, 0>> ELSE d
    BY <1>3, StepCodec
  <2>2. StepCompare(a, b) = 0
    <3>1. CASE c[2] = 0
      <4>1. d[2] = 0
        BY <1>3, <2>1, <3>1, KeptAsItIs DEF Alike
      <4>2. a[2] = 0 /\ b[2] = 0
        BY <2>1, <3>1, <4>1 DEF Lot
      <4> QED BY <4>2 DEF StepCompare
    <3>2. CASE c[2] # 0
      <4>1. a = c /\ b = c
        BY <1>3, <2>1, <3>2, KeptAsItIs DEF Alike, Lot
      <4> QED BY <2>1, <4>1 DEF StepCompare, Signum
    <3> QED BY <3>1, <3>2
  <2>3. Compare(type, a, b) = 0
    BY <1>3, <2>2, Zenon DEF Compare
  <2> QED BY <1>3, <2>3, Zenon DEF Agree
<1>4. CASE type.class = "time"
  <2>1. d = c
    BY <1>4, TimeCodec, KeptAsItIs DEF Alike
  <2>2. a \in {c, Reread(type, c)} /\ b \in {c, Reread(type, c)}
    BY <2>1 DEF Lot
  <2>3. c[1] \in Nat /\ c[2] \in Nat /\ c[3] \in Nat /\ c[4] \in Nat
    BY <1>4, TimeCodec
  <2>4. /\ c = <<c[1], c[2], c[3], c[4]>>
        /\ Reread(type, c) = <<0, c[2], c[3], c[4]>>
    BY <1>4, TimeCodec
  <2>5. Tail(Reread(type, c)) = <<c[2], c[3], c[4]>>
    BY <2>3, <2>4, TailOfFour
  <2>6. Tail(c) = <<c[2], c[3], c[4]>>
    <3>1. PICK w1 \in Nat, w2 \in Nat, w3 \in Nat, w4 \in Nat : c = <<w1, w2, w3, w4>>
      BY <2>3, <2>4
    <3>2. Tail(c) = <<w2, w3, w4>>
      BY <3>1, TailOfFour
    <3> QED BY <3>1, <3>2
  <2>7. Tail(a) = Tail(b)
    BY <2>2, <2>5, <2>6, Zenon
  <2> QED BY <1>4, <2>7, Zenon DEF Agree
<1>5. CASE type.class = "float"
  <2>1. /\ c \in Int /\ Reread(type, c) = c /\ Reread(type, d) = d
        /\ type.precision \in Nat
        /\ type.precision = 0 => d = c
        /\ type.precision > 0 => d = c \/ Abs(c - d) <= type.precision + TwoTo(Exponent(c))
        /\ d \in Int
    BY <1>5, FloatCodec DEF Alike
  <2>2. a \in {c, d} /\ b \in {c, d}
    BY <2>1 DEF Lot
  <2>3. CASE a = b
    <3>1. a \in Values(type)
      BY <2>2
    <3> QED BY <1>5, <2>3, <3>1, AgreeSame
  <2>4. CASE a # b
    <3>1. c \in {a, b} /\ c # d
      BY <2>2, <2>4
    <3>2. Abs(a - b) = Abs(c - d)
      BY <2>1, <2>2, <2>4 DEF Abs
    <3>3. type.precision # 0 /\ Abs(a - b) <= type.precision + TwoTo(Exponent(c))
      BY <2>1, <3>1, <3>2
    <3> QED BY <1>5, <3>1, <3>3, Zenon DEF Agree
  <2> QED BY <2>3, <2>4
<1> QED BY <1>1, <1>2, <1>3, <1>4, <1>5

-----------------------------------------------------------------------------
(***************************************************************************)
(* The texts, numbers and telegrams that come in.                          *)
(***************************************************************************)
\* A number read from the text of a percentage or an angle is a byte.
LEMMA QuotientsAreBytes ==
    ASSUME NEW x
    PROVE  /\ ScalingAccepts(x) => ScalingFromText(x) \in 0..255
           /\ AngleAccepts(x) => AngleFromText(x) \in 0..255
<1>1. ASSUME x \in Nat, x <= 100000 PROVE (x * 255) \div 100000 \in 0..255
  <2>1. x * 255 <= 25500000
    BY <1>1, SMT
  <2> DEFINE q == (x * 255) \div 100000
             r == (x * 255) % 100000
  <2>2. q \in Nat /\ r \in Nat /\ x * 255 = 100000 * q + r
    BY <1>1, SMT
  <2> HIDE DEF q, r
  <2>3. q <= 255
    BY <1>1, <2>1, <2>2, SMT
  <2>4. q \in 0..255
    BY <2>2, <2>3, SMT
  <2> QED BY <2>4 DEF q
<1>2. ScalingAccepts(x) => ScalingFromText(x) \in 0..255
  BY <1>1, SMT DEF ScalingAccepts, ScalingFromText
<1>3. ASSUME x \in Nat PROVE ((x * 256) \div 360000) % 256 \in 0..255
  <2>1. (x * 256) \div 360000 \in Nat
    BY <1>3, SMT
  <2> QED BY <2>1, SMT
<1>4. AngleAccepts(x) => AngleFromText(x) \in 0..255
  BY <1>3, SMT DEF AngleAccepts, AngleFromText
<1> QED BY <1>2, <1>4, Zenon

\* The constructors check that a text is in the range of the type.
LEMMA TextsInRange ==
    ASSUME NEW t \in Types, Plain(t), NEW x \in Texts(t), Accepts(t, x)
    PROVE  FromText(t, x) \in Settable(t)
<1>0. CASE t.class = "float"
  <2>1. x \in t.lo..t.hi
    BY <1>0, Zenon DEF Accepts
  <2>2. FromText(t, x) = x /\ Settable(t) = t.lo..t.hi
    BY <1>0 DEF FromText, Settable
  <2> QED BY <2>1, <2>2
<1>1. CASE t.class \in {"int", "date", "control", "string"}
  BY <1>1, BusConstants DEF InRange
<1>2. CASE t.class = "switch"
  <2>1. Settable(t) = 0..1
    BY <1>2 DEF Settable, Values
  <2>2. FromText(t, x) = SwitchFromText(t, x)
    BY <1>2, Zenon DEF FromText
  <2> QED BY <2>1, <2>2 DEF SwitchFromText
<1>3. CASE t.class = "heatmode"
  <2>1. x \in 0..4
    BY <1>3, Zenon DEF Accepts
  <2>2. FromText(t, x) = x
    BY <1>3 DEF FromText
  <2>3. Settable(t) = 0..4
    BY <1>3 DEF Settable, Values
  <2> QED BY <2>1, <2>2, <2>3
<1>4. CASE t.class = "char"
  <2>1. CharAccepts(t, x)
    BY <1>4, Zenon DEF Accepts
  <2>2. FromText(t, x) = x
    BY <1>4 DEF FromText
  <2>3. Settable(t) = {c \in 0..255 : CharAccepts(t, c)}
    BY <1>4 DEF Settable, Values
  <2>4. t.hi \in {127, 255}
    BY <1>4, BusConstants
  <2>5. x \in 0..255
    BY <2>1, <2>4 DEF CharAccepts
  <2> QED BY <2>1, <2>2, <2>3, <2>5
<1>5. CASE t.class \in {"scaling", "angle"}
  <2>1. Settable(t) = 0..255
    BY <1>5, Zenon DEF Settable, Values
  <2>2. CASE t.class = "scaling"
    <3>1. FromText(t, x) = ScalingFromText(x) /\ ScalingAccepts(x)
      BY <2>2, Zenon DEF FromText, Accepts
    <3> QED BY <2>1, <3>1, QuotientsAreBytes, Zenon
  <2>3. CASE t.class = "angle"
    <3>1. FromText(t, x) = AngleFromText(x) /\ AngleAccepts(x)
      BY <2>3, Zenon DEF FromText, Accepts
    <3> QED BY <2>1, <3>1, QuotientsAreBytes, Zenon
  <2> QED BY <1>5, <2>2, <2>3
<1>6. CASE t.class = "step"
  <2>1. Settable(t) = (0..1) \X (0..7)
    BY <1>6 DEF Settable, Values
  <2>2. FromText(t, x) = StepFromText(t, x) /\ StepAccepts(t, x)
    BY <1>6, Zenon DEF FromText, Accepts
  <2>3. x[2] \in 1..7
    BY <2>2 DEF StepAccepts
  <2>4. StepFromText(t, x) \in (0..1) \X (0..7)
    BY <2>3 DEF StepFromText
  <2> QED BY <2>1, <2>2, <2>4
<1>7. CASE t.class = "time"
  <2>1. Settable(t) = (0..7) \X (0..23) \X (0..59) \X (0..59)
    BY <1>7 DEF Settable, Values
  <2>2. FromText(t, x) = TimeFromText(x) /\ TimeAccepts(x)
    BY <1>7, Zenon DEF FromText, Accepts
  <2>3. /\ x[1] \in 0..23 /\ x[2] \in 0..59 /\ x[3] \in 0..59
        /\ x = <<x[1], x[2], x[3]>>
    BY <2>2 DEF TimeAccepts
  <2>4. x[1] \in Nat /\ x[2] \in Nat /\ x[3] \in Nat /\ 0 \in Nat
    BY <2>3
  <2>5. TimeFromText(x) = <<0, x[1], x[2], x[3]>>
    <3>1. <<0>> \o <<x[1], x[2], x[3]>> = <<0, x[1], x[2], x[3]>>
      BY <2>4, OneAndThree
    <3>2. TimeFromText(x) = <<0>> \o x
      BY DEF TimeFromText
    <3> QED BY <2>3, <3>1, <3>2, Zenon
  <2>6. <<0, x[1], x[2], x[3]>> \in Settable(t)
    BY <2>1, <2>3
  <2> QED BY <2>2, <2>5, <2>6
<1> QED BY <1>0, <1>1, <1>2, <1>3, <1>4, <1>5, <1>6, <1>7 DEF Plain

\* What is received is in the range of the type.
LEMMA TelegramsInRange ==
    ASSUME type \in Types, Plain(type), NEW b \in Telegrams(type), Taken(b)
    PROVE  Received(b) \in Values(type)
<1>1. b \in Seq(0..255) /\ b # <<>>
  BY BusConstants DEF InRange
<1>2. b[1] \in 0..255
  <2>1. Len(b) \in Nat /\ Len(b) # 0
    BY <1>1, EmptySeq
  <2>2. 1 \in 1..Len(b)
    BY <2>1
  <2> QED BY <1>1, <2>2, ElementOfSeq
<1>3. type.class # "float" => Received(b) = FromTelegram(type, b)
  BY KeptAsItIs DEF Received
<1>4. CASE type.class \in {"heatmode", "char", "float", "time", "date"}
  <2>1. FromTelegram(type, b) \in Settable(type)
    BY <1>4, BusConstants DEF InRange
  <2> QED BY <2>1, SettableValues DEF Received
<1>5. CASE type.class = "switch"
  <2>1. Values(type) = 0..1
    BY <1>5 DEF Values
  <2>2. FromTelegram(type, b) = SwitchFromTelegram(b)
    BY <1>5, Zenon DEF FromTelegram
  <2> QED BY <1>3, <1>5, <2>1, <2>2 DEF SwitchFromTelegram
<1>6. CASE type.class \in {"scaling", "angle"}
  <2>1. Values(type) = 0..255
    BY <1>6, Zenon DEF Values
  <2>2. FromTelegram(type, b) = b[1]
    BY <1>6, Zenon DEF FromTelegram
  <2> QED BY <1>2, <1>3, <1>6, <2>1, <2>2
<1>7. CASE type.class = "step"
  <2>1. Values(type) = (0..1) \X (0..7)
    BY <1>7 DEF Values
  <2>2. FromTelegram(type, b) = StepFromTelegram(b)
    BY <1>7, Zenon DEF FromTelegram
  <2>3. b[1] % 8 \in 0..7 /\ (b[1] \div 8) % 2 \in 0..1
    BY <1>2
  <2>4. StepFromTelegram(b) \in (0..1) \X (0..7)
    BY <2>3 DEF StepFromTelegram
  <2> QED BY <1>3, <1>7, <2>1, <2>2, <2>4
<1>8. CASE type.class = "control"
  <2>1. Values(type) = {1} \X (0..1)
    BY <1>8 DEF Values
  <2>2. FromTelegram(type, b) = ControlFromTelegram(b)
    BY <1>8, Zenon DEF FromTelegram
  <2>3. ControlFromTelegram(b) \in {1} \X (0..1)
    BY DEF ControlFromTelegram
  <2> QED BY <1>3, <1>8, <2>1, <2>2, <2>3
<1>9. CASE type.class = "string"
  <2>1. Values(type) = {v \in Seq(Nat \ {0}) : StringAccepts(type, v)}
    BY <1>9 DEF Values
  <2>2. FromTelegram(type, b) = StringFromTelegram(b)
    BY <1>9, Zenon DEF FromTelegram
  <2>3. b \in Seq(Nat)
    <3>1. 0..255 \subseteq Nat
      OBVIOUS
    <3> QED BY <1>1, <3>1, SeqMonotonic, Zenon
  <2>4. StringFromTelegram(b) \in Seq(Nat \ {0})
    BY <2>3, StringReceived
  <2>5. StringAccepts(type, StringFromTelegram(b))
    BY <1>9 DEF Taken
  <2> QED BY <1>3, <1>9, <2>1, <2>2, <2>4, <2>5
<1>10. CASE type.class = "int" /\ type.bytes # 8
  <2>1. Len(b) = type.bytes /\ \A i \in DOMAIN b : b[i] < Byte
    BY <1>10, BusConstants DEF InRange
  <2>2. type.bytes \in {1, 2, 3, 4}
    BY <1>10, IntegerValues
  <2>3. ASSUME NEW i \in 1..type.bytes PROVE b[i] \in 0..(Byte - 1)
    <3>1. i \in DOMAIN b /\ b[i] \in 0..255
      BY <1>1, <2>1, <2>2
    <3>2. b[i] < Byte
      BY <2>1, <3>1
    <3> QED BY <3>1, <3>2, ByteEven
  <2>4. FromBytes(b) \in 0..(Power(type.bytes) - 1)
    BY <2>1, <2>2, <2>3, SumOfBytes
  <2> QED BY <1>3, <1>10, <2>4, IntegersRead
<1> QED BY <1>4, <1>5, <1>6, <1>7, <1>8, <1>9, <1>10 DEF Plain

-----------------------------------------------------------------------------
(***************************************************************************)
(* The steps: a change of the objects, or a loss or gain of knowledge.     *)
(***************************************************************************)
BusShape ==
    /\ type \in Types
    /\ DOMAIN value = Sites /\ DOMAIN known = Sites
    /\ DOMAIN stored = Sites /\ DOMAIN logged = Sites

\* The values that a change brings: that of the one who sets, and what the
\* others receive.
Brings(new) ==
    \E c, d \in Values(type) : Alike(type, c, d) /\ \A s \in Sites : new[s] \in {c, d}

\* Every object is updated, or has the value already.
Updates(new) ==
    /\ type' = type /\ storage' = storage
    /\ DOMAIN value' = Sites /\ DOMAIN known' = Sites
    /\ DOMAIN stored' = Sites /\ DOMAIN logged' = Sites
    /\ \A s \in Sites :
         \/ /\ value'[s] = new[s]
            /\ stored'[s] = Written(stored[s], ToText(type, new[s]))
            /\ logged'[s] = Logged(logged[s], new[s])
         \/ /\ value[s] = new[s] /\ value'[s] = value[s]
            /\ stored'[s] = stored[s] /\ logged'[s] = logged[s]

\* Objects are restored, or nothing changes.
Restores ==
    /\ type' = type /\ storage' = storage /\ stored' = stored /\ logged' = logged
    /\ DOMAIN value' = Sites /\ DOMAIN known' = Sites
    /\ \A s \in Sites : value'[s] = value[s] \/ (Starts(s) /\ value'[s] = Restored(s))

\* What Object::onUpdate does to every site.
LEMMA ChangeUpdates ==
    ASSUME BusShape, NEW new, DOMAIN new = Sites, Change(new)
    PROVE  Updates(new)
<1> DEFINE updated == {s \in Sites : new[s] # value[s] \/ ~known[s]}
<1>1. /\ value' = [s \in Sites |-> IF s \in updated THEN new[s] ELSE value[s]]
      /\ known' = [s \in Sites |-> known[s] \/ s \in updated]
      /\ stored' = [s \in Sites |-> IF s \in updated THEN Written(stored[s], ToText(type, new[s]))
                                    ELSE stored[s]]
      /\ logged' = [s \in Sites |-> IF s \in updated THEN Logged(logged[s], new[s])
                                    ELSE logged[s]]
      /\ type' = type /\ storage' = storage
  BY Zenon DEF Change
<1>2. ASSUME NEW s \in Sites PROVE
         \/ /\ value'[s] = new[s]
            /\ stored'[s] = Written(stored[s], ToText(type, new[s]))
            /\ logged'[s] = Logged(logged[s], new[s])
         \/ /\ value[s] = new[s] /\ value'[s] = value[s]
            /\ stored'[s] = stored[s] /\ logged'[s] = logged[s]
  <2>1. s \notin updated => value[s] = new[s]
    OBVIOUS
  <2> HIDE DEF updated
  <2>2. CASE s \in updated
    BY <1>1, <2>2
  <2>3. CASE s \notin updated
    BY <1>1, <2>1, <2>3
  <2> QED BY <2>2, <2>3
<1> HIDE DEF updated
<1>3. DOMAIN value' = Sites /\ DOMAIN known' = Sites /\ DOMAIN stored' = Sites /\ DOMAIN logged' = Sites
  BY <1>1
<1> QED BY <1>1, <1>2, <1>3 DEF Updates

\* What a site sets, and what the others receive of it.
LEMMA SetChanges ==
    ASSUME BusShape, NEW s \in Sites, NEW v,
           Plain(type) => v \in Settable(type) /\ v \in Values(type), Set(s, v)
    PROVE  \E new : Updates(new) /\ (Plain(type) => Brings(new))
<1> DEFINE new == [r \in Sites |-> IF r = s THEN v ELSE Received(ToTelegram(type, v))]
<1>1. Change(new)
  BY DEF Set
<1>2. DOMAIN new = Sites /\ \A r \in Sites : new[r] \in {v, Received(ToTelegram(type, v))}
  OBVIOUS
<1> HIDE DEF new
<1>3. Updates(new)
  BY <1>1, <1>2, ChangeUpdates
<1>4. ASSUME Plain(type) PROVE Brings(new)
  <2>1. Received(ToTelegram(type, v)) = Kept(type, Sent(type, v))
    BY DEF Received, Sent
  <2>2. v \in Values(type) /\ Kept(type, Sent(type, v)) \in Values(type)
    BY <1>4, CodecTypes DEF BusShape
  <2>3. Alike(type, v, Kept(type, Sent(type, v)))
    BY <1>4 DEF Alike
  <2> QED BY <1>2, <2>1, <2>2, <2>3 DEF Brings
<1> QED BY <1>3, <1>4

\* Storages that give back the text they have, or no text of the type.
Faithful ==
    /\ storage = "file" => ~(type.class = "string" /\ type.charset = "bytes")
    /\ storage = "influxdb" => ~Colour(type)

Covered == Plain(type) /\ Faithful

\* A text that the database mistakes is refused, the others are as they were.
LEMMA RestoredText ==
    ASSUME Covered, NEW s, NEW x, stored[s] = <<x>>, FromText(type, x) \in Values(type)
    PROVE  /\ Starts(s) => Restored(s) = FromText(type, x)
           /\ Accepts(type, x) => Starts(s) \/ Mistaken(s)
<1>1. stored[s] # <<>> /\ stored[s][1] = x
  OBVIOUS
<1>2. CASE storage = "file"
  <2>1. Remembered(x) = x
    BY <1>2, Zenon DEF Covered, Faithful, Remembered
  <2>2. Read(s) = ReadFile(x)
    BY <1>1, <1>2, Zenon DEF Read
  <2>3. CASE type.class = "string" /\ x = <<>>
    <3>1. Read(s) = <<>>
      BY <2>1, <2>2, <2>3, Zenon DEF ReadFile
    <3>2. Restored(s) = Initial(type)
      BY <3>1, Zenon DEF Restored
    <3>3. Initial(type) = <<>> /\ FromText(type, x) = <<>>
      BY <2>3 DEF Initial, FromText
    <3> QED BY <3>1, <3>2, <3>3, Zenon DEF Starts
  <2>4. CASE ~(type.class = "string" /\ x = <<>>)
    <3>1. Read(s) = <<x>>
      BY <2>1, <2>2, <2>4, Zenon DEF ReadFile
    <3>2. Read(s) # <<>> /\ Read(s)[1] = x
      BY <3>1
    <3> QED BY <3>2, KeptAsItIs, Zenon DEF Restored, Starts
  <2> QED BY <2>3, <2>4
<1>3. CASE storage = "influxdb" /\ type.class = "char" /\ x \in TrueFalse
  <2>1. Read(s) = <<NoCharacter>>
    BY <1>1, <1>3 DEF Read, ReadDatabase
  <2>2. ~CharAccepts(type, NoCharacter)
    BY DEF CharAccepts, NoCharacter
  <2>3. ~Accepts(type, NoCharacter)
    BY <1>3, <2>2, Zenon DEF Accepts
  <2>4. ~Starts(s)
    BY <2>1, <2>3 DEF Starts
  <2>5. Mistaken(s)
    BY <1>1, <1>3, Zenon DEF Mistaken
  <2> QED BY <2>4, <2>5
<1>4. CASE storage # "file" /\ ~(storage = "influxdb" /\ type.class = "char" /\ x \in TrueFalse)
  <2>1. storage = "influxdb" => ReadDatabase(x) = <<x>>
    BY <1>4, Zenon DEF ReadDatabase, Covered, Faithful
  <2>2. Read(s) = <<x>>
    BY <1>1, <1>4, <2>1 DEF Read
  <2>3. Read(s) # <<>> /\ Read(s)[1] = x
    BY <2>2
  <2> QED BY <2>3, KeptAsItIs, Zenon DEF Restored, Starts
<1> QED BY <1>2, <1>3, <1>4

\* A step changes the objects to what one of them was set to, or to what was
\* received, or restores them.
LEMMA StepForms ==
    ASSUME BusShape, BusNext
    PROVE  Restores \/ \E new : Updates(new) /\ (Plain(type) => Brings(new))
<1>0. type \in Types
  BY DEF BusShape
<1>1. ASSUME NEW s \in Sites, NEW x \in Texts(type), SetByText(s, x)
      PROVE  \E new : Updates(new) /\ (Plain(type) => Brings(new))
  <2>1. Set(s, Kept(type, FromText(type, x))) /\ Accepts(type, x)
    BY <1>1 DEF SetByText
  <2> DEFINE v == Kept(type, FromText(type, x))
  <2>2. Plain(type) => v \in Settable(type) /\ v \in Values(type)
    BY <1>0, <2>1, TextsInRange, SettableValues
  <2> QED BY <2>1, <2>2, SetChanges
<1>2. ASSUME NEW s \in Sites, NEW n \in Numbers(type), SetByNumber(s, n)
      PROVE  \E new : Updates(new) /\ (Plain(type) => Brings(new))
  <2>1. Set(s, Kept(type, FromNumber(type, n)))
    BY <1>2 DEF SetByNumber
  <2>2. Plain(type) => FromNumber(type, n) \in Settable(type)
    BY <1>0, BusConstants DEF InRange
  <2> DEFINE v == Kept(type, FromNumber(type, n))
  <2>3. Plain(type) => v \in Settable(type) /\ v \in Values(type)
    BY <1>0, <2>2, SettableValues
  <2> QED BY <2>1, <2>3, SetChanges
<1>3. ASSUME NEW s \in Sites, SetToNow(s) \/ SetToToday(s)
      PROVE  \E new : Updates(new) /\ (Plain(type) => Brings(new))
  <2>1. PICK v \in Nows(type) : Set(s, v)
    BY <1>3 DEF SetToNow, SetToToday
  <2>2. type.class \in {"time", "date"}
    BY <1>3 DEF SetToNow, SetToToday
  <2>3. Plain(type) => v \in Settable(type) /\ v \in Values(type)
    BY <1>0, <2>2, BusConstants DEF InRange, Settable
  <2> QED BY <2>1, <2>3, SetChanges
<1>4. ASSUME NEW b \in Telegrams(type), DeviceSends(b)
      PROVE  \E new : Updates(new) /\ (Plain(type) => Brings(new))
  <2> DEFINE new == [s \in Sites |-> Received(b)]
  <2>1. Change(new) /\ Taken(b)
    BY <1>4 DEF DeviceSends
  <2>2. DOMAIN new = Sites /\ \A s \in Sites : new[s] = Received(b)
    OBVIOUS
  <2> HIDE DEF new
  <2>3. Updates(new)
    BY <2>1, <2>2, ChangeUpdates
  <2>4. Plain(type) => Brings(new)
    BY <1>0, <2>1, <2>2, TelegramsInRange DEF Brings, Alike
  <2> QED BY <2>3, <2>4
<1>5. ASSUME NEW s \in Sites, Restart(s)
      PROVE  Restores
  BY <1>5 DEF Restart, Restores, BusShape
<1>6. ASSUME NEW b \in Telegrams(type), DeviceEndsAll(b)
      PROVE  Restores
  BY <1>6 DEF DeviceEndsAll, Restores, BusShape
<1>7. ASSUME NEW s \in Sites, ReadTimesOut(s)
      PROVE  Restores
  BY <1>7 DEF ReadTimesOut, Restores, BusShape
<1> QED BY <1>1, <1>2, <1>3, <1>4, <1>5, <1>6, <1>7 DEF BusNext

-----------------------------------------------------------------------------
(***************************************************************************)
(* The invariant: every site holds and has stored the value that was set,  *)
(* or the one that it was received as, or one of them read back.           *)
(***************************************************************************)
Held(s, c, d) ==
    /\ value[s] \in Lot(type, c, d)
    /\ \E w \in Values(type) :
         /\ stored[s] = <<ToText(type, w)>>
         /\ Reread(type, w) \in Lot(type, c, d)
         /\ Reread(type, w) \in {value[s], Reread(type, value[s])}

InType(s) ==
    /\ value[s] \in Values(type) \cup {Initial(type)}
    /\ stored[s] = <<>> \/ \E w \in Values(type) : stored[s] = <<ToText(type, w)>>

OneValue ==
    Keeps => \E c, d \in Values(type) : Alike(type, c, d) /\ \A s \in Sites : Held(s, c, d)

BusInv ==
    /\ BusShape
    /\ Covered => (\A s \in Sites : InType(s)) /\ OneValue

\* What the database takes the values of a type for that it keeps.
FieldKept ==
    IF type.class \in {"switch", "control"} THEN WordField(type.words[1])
    ELSE IF type.class = "time" THEN "string" ELSE "number"

\* It is the same for all words of a switch.
LEMMA WordFields ==
    ASSUME type \in Types, type.class \in {"switch", "control"}, NEW v \in Values(type)
    PROVE  Field(ToText(type, v)) = WordField(type.words[1])
<1>1. WordField(type.words[1]) = WordField(type.words[2])
  BY BusConstants DEF Words
<1>2. CASE type.class = "switch"
  <2>1. v \in 0..1
    BY <1>2 DEF Values
  <2>2. ToText(type, v) = type.words[v + 1]
    BY <1>2, Zenon DEF ToText, SwitchText
  <2>3. Field(type.words[v + 1]) = WordField(type.words[v + 1])
    BY <1>2, Zenon DEF Field, Colour, Numeric
  <2>4. v + 1 = 1 \/ v + 1 = 2
    BY <2>1
  <2> HIDE DEF WordField
  <2> QED BY <1>1, <2>2, <2>3, <2>4
<1>3. CASE type.class = "control"
  <2>1. Values(type) = {1} \X (0..1)
    BY <1>3 DEF Values
  <2>2. v[1] = 1 /\ (v[2] = 0 \/ v[2] = 1)
    BY <2>1
  <2>3. ToText(type, v) = v
    BY <1>3, <2>2 DEF ToText, ControlText
  <2>4. Field(v) = WordField(type.words[v[2] + 1])
    BY <1>3, <2>2, Zenon DEF Field, Colour, Numeric
  <2>5. v[2] + 1 = 1 \/ v[2] + 1 = 2
    BY <2>2
  <2> QED BY <1>1, <2>3, <2>4, <2>5
<1> QED BY <1>2, <1>3

\* And for all texts of the others that it keeps.
LEMMA KeptFields ==
    ASSUME type \in Types, storage = "influxdb", Keeps, NEW v \in Values(type)
    PROVE  Field(ToText(type, v)) = FieldKept /\ FieldKept # "none"
<1>1. CASE type.class \in {"switch", "control"}
  <2>1. FieldKept = WordField(type.words[1])
    BY <1>1, Zenon DEF FieldKept
  <2>2. WordField(type.words[1]) # "none"
    BY <1>1 DEF Keeps, Numeric
  <2> QED BY <1>1, <2>1, <2>2, WordFields, Zenon
<1>2. CASE type.class \notin {"switch", "control"}
  <2>1. type.class \in Numeric \cup {"time"} /\ ~Colour(type)
    BY <1>2 DEF Keeps
  <2>2. CASE type.class = "time"
    BY <2>2, <2>1 DEF FieldKept, Field, Numeric
  <2>3. CASE type.class \in Numeric
    BY <2>3, <2>1 DEF FieldKept, Field, Numeric
  <2> QED BY <2>1, <2>2, <2>3
<1> QED BY <1>1, <1>2

\* A storage that keeps an object takes the text of every value.
LEMMA KeepsTakes ==
    ASSUME type \in Types, Plain(type), Keeps, NEW v \in Values(type),
           NEW old, old = <<>> \/ \E w \in Values(type) : old = <<ToText(type, w)>>
    PROVE  Takes(old, ToText(type, v))
<1>1. CASE storage = "influxdb"
  <2>1. ASSUME NEW w \in Values(type)
        PROVE  Field(ToText(type, w)) = FieldKept /\ FieldKept # "none"
    BY <1>1, <2>1, KeptFields
  <2>2. old # <<>> => Field(old[1]) = FieldKept
    <3>1. ASSUME NEW w \in Values(type), old = <<ToText(type, w)>> PROVE Field(old[1]) = FieldKept
      <4>1. old[1] = ToText(type, w)
        BY <3>1
      <4> QED BY <2>1, <4>1, Zenon
    <3> QED BY <3>1, Zenon
  <2>3. Influx(old, ToText(type, v))
    BY <2>1, <2>2, Zenon DEF Influx
  <2> QED BY <1>1, <2>3 DEF Takes
<1>2. CASE storage # "influxdb"
  BY <1>2 DEF Keeps, Takes
<1> QED BY <1>1, <1>2

\* Whether a storage keeps the object does not depend on what it has.
LEMMA KeepsStays ==
    ASSUME type' = type, storage' = storage
    PROVE  Keeps' <=> Keeps
BY DEF Keeps, Colour

\* The first telegram is received and stored by all.
LEMMA BusInvInit == BusInit => BusInv
<1> SUFFICES ASSUME BusInit PROVE BusInv
  OBVIOUS
<1>1. BusShape
  BY DEF BusInit, BusShape
<1>2. ASSUME Covered PROVE (\A s \in Sites : InType(s)) /\ OneValue
  <2>1. PICK b \in Telegrams(type) : Taken(b) /\ value = [s \in Sites |-> Received(b)]
    BY DEF BusInit
  <2> DEFINE c == Received(b)
  <2>2. c \in Values(type)
    BY <1>1, <1>2, <2>1, TelegramsInRange DEF BusShape, Covered
  <2>3. \A s \in Sites : value[s] = c /\ stored[s] = Written(<<>>, ToText(type, c))
    BY <2>1 DEF BusInit
  <2> HIDE DEF c
  <2>4. ASSUME NEW s \in Sites PROVE InType(s)
    BY <2>2, <2>3 DEF InType, Written
  <2>5. ASSUME Keeps PROVE \A s \in Sites : Held(s, c, c)
    <3>1. Written(<<>>, ToText(type, c)) = <<ToText(type, c)>>
      BY <1>1, <1>2, <2>2, <2>5, KeepsTakes DEF Written, BusShape, Covered
    <3> QED BY <2>2, <2>3, <3>1 DEF Held, Lot
  <2>6. Alike(type, c, c)
    BY DEF Alike
  <2> QED BY <2>2, <2>4, <2>5, <2>6 DEF OneValue
<1> QED BY <1>1, <1>2 DEF BusInv

\* All that is stored or held comes from the type.
LEMMA UpdatesInType ==
    ASSUME BusInv, Covered, NEW new, Updates(new), Brings(new), NEW s \in Sites
    PROVE  InType(s)'
<1>1. new[s] \in Values(type)
  BY DEF Brings
<1>2. InType(s) /\ type' = type
  BY DEF BusInv, Updates
<1>3. value'[s] \in Values(type) \cup {Initial(type)}
  BY <1>1, <1>2 DEF Updates, InType
<1>4. stored'[s] \in {<<ToText(type, new[s])>>, stored[s]}
  BY DEF Updates, Written
<1> QED BY <1>1, <1>2, <1>3, <1>4 DEF InType

\* The values brought are those that all hold from then on.
LEMMA UpdatesHeld ==
    ASSUME BusInv, Covered, NEW new, Updates(new), Brings(new)
    PROVE  OneValue'
<1>1. type' = type /\ (Keeps' <=> Keeps)
  BY KeepsStays DEF Updates
<1> SUFFICES ASSUME Keeps
             PROVE  \E c, d \in Values(type) :
                       Alike(type, c, d) /\ \A s \in Sites : Held(s, c, d)'
  BY <1>1 DEF OneValue
<1>2. PICK c \in Values(type), d \in Values(type) :
         Alike(type, c, d) /\ \A s \in Sites : new[s] \in {c, d}
  BY DEF Brings
<1>3. ASSUME NEW s \in Sites PROVE Held(s, c, d)'
  <2>0. new[s] \in {c, d} /\ new[s] \in Values(type)
    BY <1>2
  <2>1. CASE /\ value'[s] = new[s]
             /\ stored'[s] = Written(stored[s], ToText(type, new[s]))
    <3>1. stored'[s] = <<ToText(type, new[s])>>
      <4>1. Takes(stored[s], ToText(type, new[s]))
        BY <2>0, KeepsTakes DEF BusInv, BusShape, InType, Covered
      <4> QED BY <2>1, <4>1, Zenon DEF Written
    <3> QED BY <1>1, <2>0, <2>1, <3>1 DEF Held, Lot
  <2>2. CASE value[s] = new[s] /\ value'[s] = value[s] /\ stored'[s] = stored[s]
    <3>1. PICK w \in Values(type) :
             /\ stored[s] = <<ToText(type, w)>>
             /\ Reread(type, w) \in {value[s], Reread(type, value[s])}
      BY DEF BusInv, OneValue, Held
    <3>2. Reread(type, w) \in Lot(type, c, d) /\ value[s] \in Lot(type, c, d)
      BY <2>0, <2>2, <3>1 DEF Lot
    <3> QED BY <1>1, <2>2, <3>1, <3>2 DEF Held
  <2> QED BY <2>1, <2>2 DEF Updates
<1> QED BY <1>2, <1>3

\* What is restored is a value of the type, or that of a new object.
LEMMA RestoresInType ==
    ASSUME BusInv, Covered, Restores, NEW s \in Sites
    PROVE  InType(s)'
<1>1. InType(s) /\ type \in Types
  BY DEF BusInv, BusShape
<1>2. Starts(s) => Restored(s) \in Values(type) \cup {Initial(type)}
  <2>1. CASE stored[s] = <<>>
    BY <2>1 DEF Restored, Read
  <2>2. CASE stored[s] # <<>>
    <3>1. PICK w \in Values(type) : stored[s] = <<ToText(type, w)>>
      BY <1>1, <2>2 DEF InType
    <3>2. Starts(s) => Restored(s) = Reread(type, w)
      BY <1>1, <3>1, CodecTypes, RestoredText DEF Reread, Covered
    <3> QED BY <1>1, <3>2, CodecTypes DEF Covered
  <2> QED BY <2>1, <2>2
<1> QED BY <1>1, <1>2 DEF Restores, InType

\* Reading a value back once or more makes no further difference.
LEMMA RestoresHeld ==
    ASSUME BusInv, Covered, Restores
    PROVE  OneValue'
<1>1. type' = type /\ (Keeps' <=> Keeps)
  BY KeepsStays DEF Restores
<1> SUFFICES ASSUME Keeps
             PROVE  \E c, d \in Values(type) :
                       Alike(type, c, d) /\ \A s \in Sites : Held(s, c, d)'
  BY <1>1 DEF OneValue
<1>2. PICK c \in Values(type), d \in Values(type) :
         Alike(type, c, d) /\ \A s \in Sites : Held(s, c, d)
  BY DEF BusInv, OneValue
<1>3. ASSUME NEW s \in Sites PROVE Held(s, c, d)'
  <2>1. PICK w \in Values(type) :
           /\ stored[s] = <<ToText(type, w)>>
           /\ Reread(type, w) \in Lot(type, c, d)
           /\ Reread(type, w) \in {value[s], Reread(type, value[s])}
    BY <1>2 DEF Held
  <2>2. Starts(s) => Restored(s) = Reread(type, w)
    BY <2>1, CodecTypes, RestoredText DEF Reread, BusInv, BusShape, Covered
  <2>3. value'[s] \in {value[s], Reread(type, w)} /\ stored'[s] = stored[s]
    BY <2>2 DEF Restores
  <2>4. value'[s] \in Lot(type, c, d)
    BY <1>2, <2>1, <2>3 DEF Held
  <2>5. Reread(type, w) \in {value'[s], Reread(type, value'[s])}
    BY <2>1, <2>3
  <2> QED BY <1>1, <2>1, <2>3, <2>4, <2>5 DEF Held
<1> QED BY <1>2, <1>3

\* Every step keeps the invariant.
LEMMA BusInvNext == BusInv /\ [BusNext]_busVars => BusInv'
<1> SUFFICES ASSUME BusInv, [BusNext]_busVars PROVE BusInv'
  OBVIOUS
<1>1. CASE UNCHANGED busVars
  <2>1. Restores
    BY <1>1 DEF busVars, Restores, BusInv, BusShape
  <2>2. BusShape'
    BY <1>1 DEF busVars, BusInv, BusShape
  <2>3. Covered' = Covered
    BY <1>1 DEF busVars, Covered, Faithful
  <2> QED BY <2>1, <2>2, <2>3, RestoresInType, RestoresHeld DEF BusInv
<1>2. CASE Restores
  <2>1. BusShape' /\ Covered' = Covered
    BY <1>2 DEF Restores, BusInv, BusShape, Covered, Faithful
  <2> QED BY <1>2, <2>1, RestoresInType, RestoresHeld DEF BusInv
<1>3. ASSUME NEW new, Updates(new), Plain(type) => Brings(new)
      PROVE  BusInv'
  <2>1. BusShape' /\ Covered' = Covered
    BY <1>3 DEF Updates, BusInv, BusShape, Covered, Faithful
  <2> QED BY <1>3, <2>1, UpdatesInType, UpdatesHeld DEF BusInv, Covered
<1> QED BY <1>1, <1>2, <1>3, StepForms DEF BusInv

\* The invariant holds throughout.
LEMMA BusInvEver == BusSpec => []BusInv
BY BusInvInit, BusInvNext, PTL DEF BusSpec

\* Every installation knows the same value of an object, whether it was set by
\* text, number or telegram, restored or read, the storage permitting
\* (Object::setValue, doSend, doWrite, Object::importXml and onUpdate).  This is for
\* the classes that are not floats of four bytes, integers of eight or strings of
\* Latin-1 (nor strings of bytes in files, nor colours in the database), for
\* numbers, texts and telegrams within the range of the type, and for
\* switches with control that are only ever set to on, under control.
THEOREM AgreementEver == BusSpec => [](Covered => Agreement)
<1>1. ASSUME BusInv, Covered PROVE Agreement
  <2> SUFFICES ASSUME Keeps, NEW r \in Sites, NEW s \in Sites
               PROVE  Agree(value[r], value[s])
    BY DEF Agreement
  <2>1. PICK c \in Values(type), d \in Values(type) :
           Alike(type, c, d) /\ \A q \in Sites : Held(q, c, d)
    BY <1>1 DEF BusInv, OneValue
  <2>2. value[r] \in Lot(type, c, d) /\ value[s] \in Lot(type, c, d)
    BY <2>1 DEF Held
  <2> QED BY <1>1, <2>1, <2>2, LotAgrees DEF BusInv, BusShape, Covered
<1> QED BY <1>1, BusInvEver, PTL

\* The text that an installation has stored of such an object is accepted by
\* createObjectValue when it starts again, and is the value that the object
\* had, but for a character that the database takes for a Boolean
\* (PersistentStorage::write and read, Object::importXml).
THEOREM StorageAcceptedEver == BusSpec => [](Covered => StorageAccepted)
<1>1. ASSUME BusInv, Covered PROVE StorageAccepted
  <2> SUFFICES ASSUME NEW s \in Sites, ~Mistaken(s)
               PROVE  Starts(s) /\ (Keeps => Agree(value[s], Restored(s)))
    BY DEF StorageAccepted
  <2>0. type \in Types /\ InType(s)
    BY <1>1 DEF BusInv, BusShape
  <2>1. Starts(s)
    <3>1. CASE stored[s] = <<>>
      BY <3>1 DEF Starts, Read
    <3>2. CASE stored[s] # <<>>
      <4>1. PICK w \in Values(type) : stored[s] = <<ToText(type, w)>>
        BY <2>0, <3>2 DEF InType
      <4>2. Accepts(type, ToText(type, w)) /\ FromText(type, ToText(type, w)) \in Values(type)
        BY <1>1, <2>0, CodecTypes DEF Reread, Covered
      <4> QED BY <1>1, <4>1, <4>2, RestoredText
    <3> QED BY <3>1, <3>2
  <2>2. ASSUME Keeps PROVE Agree(value[s], Restored(s))
    <3>1. PICK c \in Values(type), d \in Values(type) :
             Alike(type, c, d) /\ Held(s, c, d)
      BY <1>1, <2>2 DEF BusInv, OneValue
    <3>2. PICK w \in Values(type) :
             stored[s] = <<ToText(type, w)>> /\ Reread(type, w) \in Lot(type, c, d)
      BY <3>1 DEF Held
    <3>3. Restored(s) = Reread(type, w)
      BY <1>1, <2>0, <2>1, <3>2, CodecTypes, RestoredText DEF Reread, Covered
    <3>4. value[s] \in Lot(type, c, d)
      BY <3>1 DEF Held
    <3> QED BY <1>1, <2>0, <3>1, <3>2, <3>3, <3>4, LotAgrees DEF Covered
  <2> QED BY <2>1, <2>2
<1> QED BY <1>1, BusInvEver, PTL

-----------------------------------------------------------------------------
(***************************************************************************)
(* The log.                                                                *)
(***************************************************************************)
\* The values of a switch have words, one for off and one for on.
Worded == type.class \in {"switch", "control"}

\* Objects of which the storage and the log take every text, those that are only
\* logged, and those that are only stored.
BothTake ==
    \/ storage \notin {"mysqlLog", "influxdb"}
    \/ /\ storage = "influxdb"
       /\ \/ type.class = "int" /\ ~Colour(type)
          \/ type.class \in {"float", "time"}
          \/ Worded /\ WordField(type.words[1]) # "none"

OnlyLogged ==
    \/ storage = "mysqlLog"
    \/ storage = "influxdb" /\ Worded /\ WordField(type.words[1]) = "none"

OnlyStored ==
    storage = "influxdb" /\ type.class \notin Numeric \cup {"switch", "control", "char", "time"}

\* The log and the storage have the same text, or one of them has none.
SameTexts(s) ==
    /\ BothTake => stored[s] = logged[s]
    /\ OnlyLogged => stored[s] = <<>>
    /\ OnlyStored => logged[s] = <<>>

LogInv == BusInv /\ \A s \in Sites : SameTexts(s)

\* The words of the log are those that are written.
LEMMA WordsLogged ==
    ASSUME type \in Types, storage = "influxdb", Worded, NEW v \in Values(type)
    PROVE  LogEntry(v) = <<ToText(type, v)>>
<1>1. CASE type.class = "switch"
  BY <1>1 DEF LogEntry, InfluxEntry, ToText, SwitchText
<1>2. CASE type.class = "control"
  <2>1. Values(type) = {1} \X (0..1)
    BY <1>2 DEF Values
  <2>2. v = <<1, 0>> \/ v = <<1, 1>>
    BY <2>1
  <2>3. ToText(type, v) = v
    BY <1>2, <2>2 DEF ToText, ControlText
  <2>4. LogEntry(v) = <<<<1, IF ControlNumber(v) # 0 THEN 1 ELSE 0>>>>
    BY <1>2 DEF LogEntry, InfluxEntry
  <2>5. <<1, IF ControlNumber(v) # 0 THEN 1 ELSE 0>> = v
    BY <2>2 DEF ControlNumber
  <2> QED BY <2>3, <2>4, <2>5
<1> QED BY <1>1, <1>2 DEF Worded

\* Whatever is written and logged of a value, both have it, or one of them
\* never has anything.
LEMMA BothOrOne ==
    ASSUME type \in Types, NEW v, NEW old, NEW last,
           Worded => /\ v \in Values(type)
                     /\ old = <<>> \/ \E w \in Values(type) : old = <<ToText(type, w)>>
    PROVE  /\ BothTake => /\ Written(old, ToText(type, v)) = LogEntry(v)
                          /\ Logged(last, v) = LogEntry(v)
           /\ OnlyLogged => Written(old, ToText(type, v)) = old
           /\ OnlyStored => LogEntry(v) = <<>> /\ Logged(last, v) = last
<1>1. CASE storage \notin {"mysqlLog", "influxdb"}
  <2>1. LogEntry(v) = <<ToText(type, v)>> /\ Written(old, ToText(type, v)) = <<ToText(type, v)>>
    BY <1>1 DEF LogEntry, Written, Takes
  <2>2. Logged(last, v) = LogEntry(v)
    BY <2>1 DEF Logged
  <2> QED BY <1>1, <2>1, <2>2 DEF OnlyLogged, OnlyStored
<1>2. CASE storage = "influxdb" /\ (type.class \in {"float", "time"} \/ (type.class = "int" /\ ~Colour(type)))
  <2>1. \A x : Field(x) = IF type.class = "time" THEN "string" ELSE "number"
    BY <1>2 DEF Field, Colour, Numeric
  <2>2. Takes(old, ToText(type, v))
    BY <1>2, <2>1 DEF Takes, Influx
  <2>3. LogEntry(v) = <<ToText(type, v)>>
    BY <1>2 DEF LogEntry, InfluxEntry, ToText
  <2>4. Logged(last, v) = LogEntry(v)
    BY <2>3 DEF Logged
  <2>5. Written(old, ToText(type, v)) = LogEntry(v)
    BY <2>2, <2>3, Zenon DEF Written
  <2>6. ~OnlyLogged /\ ~OnlyStored
    BY <1>2 DEF OnlyLogged, OnlyStored, Worded, Numeric
  <2> QED BY <2>4, <2>5, <2>6, Zenon
<1>3. CASE storage = "influxdb" /\ Worded
  <2> DEFINE word == WordField(type.words[1])
  <2>1. LogEntry(v) = <<ToText(type, v)>>
    BY <1>3, WordsLogged
  <2>2. Logged(last, v) = LogEntry(v)
    BY <2>1 DEF Logged
  <2>3. Field(ToText(type, v)) = word
    BY <1>3, WordFields DEF Worded
  <2>4. old # <<>> => Field(old[1]) = word
    <3>1. ASSUME NEW w \in Values(type), old = <<ToText(type, w)>> PROVE Field(old[1]) = word
      <4>1. old[1] = ToText(type, w)
        BY <3>1
      <4>2. Field(ToText(type, w)) = word
        BY <1>3, WordFields DEF Worded
      <4> QED BY <4>1, <4>2, Zenon
    <3> QED BY <1>3, <3>1, Zenon
  <2> HIDE DEF word
  <2>5. Takes(old, ToText(type, v)) <=> word # "none"
    BY <1>3, <2>3, <2>4 DEF Takes, Influx
  <2>6. word # "none" => Written(old, ToText(type, v)) = LogEntry(v)
    BY <2>1, <2>5, Zenon DEF Written
  <2>7. word = "none" => Written(old, ToText(type, v)) = old
    BY <2>5, Zenon DEF Written
  <2>8. (BothTake => word # "none") /\ (OnlyLogged => word = "none") /\ ~OnlyStored
    BY <1>3 DEF BothTake, OnlyLogged, OnlyStored, Worded, word, Numeric
  <2> QED BY <2>2, <2>6, <2>7, <2>8, Zenon
<1>4. CASE storage = "mysqlLog"
  BY <1>4 DEF Written, Takes, BothTake, OnlyLogged, OnlyStored
<1>5. CASE OnlyStored
  <2>1. LogEntry(v) = <<>>
    BY <1>5 DEF LogEntry, InfluxEntry, Numeric, OnlyStored
  <2>2. ~BothTake /\ ~OnlyLogged
    BY <1>5 DEF BothTake, OnlyLogged, OnlyStored, Worded, Numeric
  <2> QED BY <2>1, <2>2, Zenon DEF Logged
<1>6. CASE storage = "influxdb" /\ ~OnlyStored /\ ~Worded
           /\ ~(type.class \in {"float", "time"} \/ (type.class = "int" /\ ~Colour(type)))
  BY <1>6 DEF BothTake, OnlyLogged
<1> QED BY <1>1, <1>2, <1>3, <1>4, <1>5, <1>6

\* The values of switches are always those of the type.
LEMMA WordedCovered ==
    ASSUME Worded
    PROVE  Plain(type) /\ Covered
BY DEF Worded, Covered, Faithful, Plain, Colour

\* The first value is stored and logged, or not.
LEMMA LogInvInit == BusInit => LogInv
<1> SUFFICES ASSUME BusInit, NEW s \in Sites PROVE SameTexts(s)
  BY BusInvInit DEF LogInv
<1>1. BusInv /\ type \in Types
  BY BusInvInit DEF BusInv, BusShape
<1>2. /\ stored[s] = Written(<<>>, ToText(type, value[s]))
      /\ logged[s] = LogEntry(value[s])
  BY DEF BusInit
<1>3. Worded => value[s] \in Values(type)
  <2>1. PICK b \in Telegrams(type) : Taken(b) /\ value = [r \in Sites |-> Received(b)]
    BY DEF BusInit
  <2>2. value[s] = Received(b)
    BY <2>1
  <2> QED BY <1>1, <2>1, <2>2, TelegramsInRange, WordedCovered
<1>4. /\ BothTake => stored[s] = logged[s]
      /\ OnlyLogged => stored[s] = <<>>
      /\ OnlyStored => logged[s] = <<>>
  BY <1>1, <1>2, <1>3, BothOrOne
<1> QED BY <1>4 DEF SameTexts

\* An update writes the storage and the log, the other steps neither.
LEMMA LogInvNext == LogInv /\ [BusNext]_busVars => LogInv'
<1> SUFFICES ASSUME LogInv, [BusNext]_busVars, NEW s \in Sites PROVE SameTexts(s)'
  BY BusInvNext DEF LogInv
<1>1. SameTexts(s) /\ BusShape /\ type \in Types
  BY DEF LogInv, BusInv, BusShape
<1>2. ASSUME type' = type, storage' = storage
      PROVE  /\ BothTake' <=> BothTake
             /\ OnlyLogged' <=> OnlyLogged
             /\ OnlyStored' <=> OnlyStored
  BY <1>2 DEF BothTake, OnlyLogged, OnlyStored, Worded, Colour
<1>3. ASSUME type' = type, storage' = storage, stored'[s] = stored[s], logged'[s] = logged[s]
      PROVE  SameTexts(s)'
  BY <1>1, <1>2, <1>3 DEF SameTexts
<1>4. CASE UNCHANGED busVars
  BY <1>3, <1>4 DEF busVars
<1>5. CASE Restores
  BY <1>3, <1>5 DEF Restores
<1>6. ASSUME NEW new, Updates(new), Plain(type) => Brings(new)
      PROVE  SameTexts(s)'
  <2>1. type' = type /\ storage' = storage
    BY <1>6 DEF Updates
  <2>2. CASE stored'[s] = stored[s] /\ logged'[s] = logged[s]
    BY <1>3, <2>1, <2>2
  <2>3. CASE /\ stored'[s] = Written(stored[s], ToText(type, new[s]))
             /\ logged'[s] = Logged(logged[s], new[s])
    <3>1. Worded => /\ new[s] \in Values(type)
                    /\ stored[s] = <<>> \/ \E w \in Values(type) : stored[s] = <<ToText(type, w)>>
      BY <1>6, WordedCovered DEF Brings, LogInv, BusInv, InType
    <3>2. /\ BothTake => stored'[s] = logged'[s]
          /\ OnlyLogged => stored'[s] = stored[s]
          /\ OnlyStored => logged'[s] = logged[s]
      BY <1>1, <2>3, <3>1, BothOrOne
    <3> QED BY <1>1, <1>2, <2>1, <3>2 DEF SameTexts
  <2> QED BY <1>6, <2>2, <2>3 DEF Updates
<1> QED BY <1>1, <1>4, <1>5, <1>6, StepForms

\* The log and the storage match throughout.
LEMMA LogInvEver == BusSpec => []LogInv
BY LogInvInit, LogInvNext, PTL DEF BusSpec

\* The log and the storage tell the same of an object, whatever its class and the
\* storage, but for floats of four bytes in the time series database, and for what
\* the property excepts there: percentages, angles, characters and colours
\* (PersistentStorage::write and writelog as called by onUpdate, and the
\* formats of InfluxdbPersistentStorage).
THEOREM LogTellsStoredEver ==
    BusSpec => [](~(storage = "influxdb" /\ type.class = "float32") => LogTellsStored)
<1>1. ASSUME LogInv, ~(storage = "influxdb" /\ type.class = "float32") PROVE LogTellsStored
  <2> SUFFICES ASSUME NEW s \in Sites, stored[s] # <<>>, logged[s] # <<>>,
                      ~(storage = "influxdb" /\ LogLags)
               PROVE  logged[s] = stored[s]
    BY DEF LogTellsStored
  <2>1. SameTexts(s)
    BY <1>1 DEF LogInv
  <2>2. BothTake \/ OnlyLogged \/ OnlyStored
    BY <1>1 DEF BothTake, OnlyLogged, OnlyStored, LogLags, Worded, Numeric
  <2> QED BY <2>1, <2>2 DEF SameTexts
<1> QED BY <1>1, LogInvEver, PTL

\* The first component in which a and b differ.
FirstAt(a, b, i) ==
    /\ DOMAIN a \subseteq Nat /\ i \in DOMAIN a
    /\ a[i] # b[i] /\ \A j \in DOMAIN a : j < i => a[j] = b[j]

-----------------------------------------------------------------------------
(***************************************************************************)
(* Numbers.                                                                *)
(***************************************************************************)
\* The first difference decides.
LEMMA FirstDifference ==
    ASSUME NEW a, NEW b, NEW i, FirstAt(a, b, i)
    PROVE  Lexicographic(a, b) = Signum(a[i] - b[i])
<1> DEFINE different == {j \in DOMAIN a : a[j] # b[j]}
<1>1. different \in SUBSET Nat /\ different # {} /\ i \in different
  BY DEF FirstAt
<1>2. \A j \in different : i <= j
  BY DEF FirstAt
<1>3. Lexicographic(a, b) = Signum(a[Min(different)] - b[Min(different)])
  BY <1>1, Zenon DEF Lexicographic
<1> HIDE DEF different
<1>4. Min(different) \in different /\ \A j \in different : Min(different) <= j
  BY <1>1, LeastNumber, Zenon
<1>5. Min(different) \in Nat /\ i \in Nat /\ Min(different) <= i /\ i <= Min(different)
  BY <1>1, <1>2, <1>4
<1>6. Min(different) = i
  BY <1>5
<1> QED BY <1>3, <1>6

\* A sequence is in no order with itself.
LEMMA NoDifference ==
    ASSUME NEW a
    PROVE  Lexicographic(a, a) = 0
BY DEF Lexicographic

\* A time without a weekday.
OfDay(v) == \E h \in 0..23, m \in 0..59, s \in 0..59 : v = <<0, h, m, s>>

\* A date, and a date or none.
Dated(v) ==
    v = <<v[1], v[2], v[3]>> /\ v[1] \in 90..189 /\ v[2] \in 1..12 /\ v[3] \in 1..31

DatedOrNot(v) ==
    /\ v = <<v[1], v[2], v[3]>> /\ v[1] \in 0..255 /\ v[2] \in 0..12 /\ v[3] \in 0..31
    /\ (v[1] = 0 /\ v[2] = 0 /\ v[3] = 0) \/ (v[2] >= 1 /\ v[3] >= 1)

\* The numbers of a time and a date.
Seconds(h, m, s) == h * 3600 + m * 60 + s

Days(y, m, d) == y * 400 + m * 31 + d

\* Times of the same day are in the order of their seconds.
LEMMA TimesOrdered ==
    ASSUME NEW a, NEW b, OfDay(a), OfDay(b)
    PROVE  Lexicographic(a, b) = Signum(TimeNumber(a) - TimeNumber(b))
<1>a. PICK h \in 0..23, m \in 0..59, s \in 0..59 : a = <<0, h, m, s>>
  BY Zenon DEF OfDay
<1>b. PICK k \in 0..23, n \in 0..59, u \in 0..59 : b = <<0, k, n, u>>
  BY Zenon DEF OfDay
<1> DEFINE p == Seconds(h, m, s)
           q == Seconds(k, n, u)
<1>0. DOMAIN a = 1..4
  BY <1>a
<1>1. /\ a[1] = 0 /\ a[2] = h /\ a[3] = m /\ a[4] = s
      /\ b[1] = 0 /\ b[2] = k /\ b[3] = n /\ b[4] = u
  BY <1>a, <1>b
<1>2. DOMAIN a \subseteq Nat /\ 2 \in DOMAIN a /\ 3 \in DOMAIN a /\ 4 \in DOMAIN a
  BY <1>0
<1>3. \A j \in 1..4 : (j < 2 => j = 1) /\ (j < 3 => j \in {1, 2}) /\ (j < 4 => j \in {1, 2, 3})
  OBVIOUS
<1>4. p \in Int /\ q \in Int /\ h \in Int /\ k \in Int /\ m \in Int /\ n \in Int /\ s \in Int /\ u \in Int
  BY SMT DEF Seconds
<1>5. /\ h < k => p < q
      /\ h > k => p > q
      /\ h = k /\ m < n => p < q
      /\ h = k /\ m > n => p > q
      /\ h = k /\ m = n => p - q = s - u
  BY SMT DEF Seconds
<1> SUFFICES Lexicographic(a, b) = Signum(p - q)
  BY <1>1, SMT DEF TimeNumber, Seconds
<1> HIDE DEF p, q
<1>6. CASE h # k
  <2>1. Lexicographic(a, b) = Signum(h - k)
    <3>1. a[2] # b[2] /\ \A j \in DOMAIN a : j < 2 => a[j] = b[j]
      BY <1>0, <1>1, <1>3, <1>6
    <3>2. FirstAt(a, b, 2)
      BY <1>2, <3>1 DEF FirstAt
    <3>3. Lexicographic(a, b) = Signum(a[2] - b[2])
      BY <3>2, FirstDifference, Zenon
    <3> QED BY <1>1, <3>3
  <2>2. Signum(h - k) = Signum(p - q)
    BY <1>4, <1>5, <1>6, SMT DEF Signum
  <2> QED BY <2>1, <2>2, Zenon
<1>7. CASE h = k /\ m # n
  <2>1. Lexicographic(a, b) = Signum(m - n)
    <3>1. a[3] # b[3] /\ \A j \in DOMAIN a : j < 3 => a[j] = b[j]
      BY <1>0, <1>1, <1>3, <1>7
    <3>2. FirstAt(a, b, 3)
      BY <1>2, <3>1 DEF FirstAt
    <3>3. Lexicographic(a, b) = Signum(a[3] - b[3])
      BY <3>2, FirstDifference, Zenon
    <3> QED BY <1>1, <3>3
  <2>2. Signum(m - n) = Signum(p - q)
    BY <1>4, <1>5, <1>7, SMT DEF Signum
  <2> QED BY <2>1, <2>2, Zenon
<1>8. CASE h = k /\ m = n /\ s # u
  <2>1. Lexicographic(a, b) = Signum(s - u)
    <3>1. a[4] # b[4] /\ \A j \in DOMAIN a : j < 4 => a[j] = b[j]
      BY <1>0, <1>1, <1>3, <1>8
    <3>2. FirstAt(a, b, 4)
      BY <1>2, <3>1 DEF FirstAt
    <3>3. Lexicographic(a, b) = Signum(a[4] - b[4])
      BY <3>2, FirstDifference, Zenon
    <3> QED BY <1>1, <3>3
  <2>2. Signum(s - u) = Signum(p - q)
    BY <1>5, <1>8, Zenon
  <2> QED BY <2>1, <2>2, Zenon
<1>9. CASE h = k /\ m = n /\ s = u
  <2>1. a = b
    BY <1>9, <1>a, <1>b
  <2>2. Lexicographic(a, b) = 0
    BY <2>1, NoDifference, Zenon
  <2>3. Signum(p - q) = 0
    BY <1>4, <1>5, <1>9, SMT DEF Signum
  <2> QED BY <2>2, <2>3, Zenon
<1> QED BY <1>6, <1>7, <1>8, <1>9, Zenon

\* Dates are in the order of their numbers, though a number may be that of
\* the first days of the next month or year.
LEMMA DatesOrdered ==
    ASSUME NEW a, NEW b, DatedOrNot(a), Dated(b)
    PROVE  Lexicographic(a, b) = Signum(DateNumber(a) - DateNumber(b))
<1> DEFINE y == a[1]
           m == a[2]
           d == a[3]
           z == b[1]
           n == b[2]
           e == b[3]
<1>a. a = <<y, m, d>> /\ b = <<z, n, e>>
  BY Zenon DEF DatedOrNot, Dated
<1>b. /\ y \in 0..255 /\ m \in 0..12 /\ d \in 0..31
      /\ (y = 0 /\ m = 0 /\ d = 0) \/ (m >= 1 /\ d >= 1)
      /\ z \in 90..189 /\ n \in 1..12 /\ e \in 1..31
  BY Zenon DEF DatedOrNot, Dated
<1>c. DateNumber(a) = Days(y, m, d) /\ DateNumber(b) = Days(z, n, e)
  BY <1>b, SMT DEF DateNumber, Days
<1>1. /\ a[1] = y /\ a[2] = m /\ a[3] = d
      /\ b[1] = z /\ b[2] = n /\ b[3] = e
  OBVIOUS
<1> HIDE DEF y, m, d, z, n, e
<1> DEFINE p == Days(y, m, d)
           q == Days(z, n, e)
<1>0. DOMAIN a = 1..3
  BY <1>a
<1>2. DOMAIN a \subseteq Nat /\ 1 \in DOMAIN a /\ 2 \in DOMAIN a /\ 3 \in DOMAIN a
  BY <1>0
<1>3. \A j \in 1..3 : ~(j < 1) /\ (j < 2 => j = 1) /\ (j < 3 => j \in {1, 2})
  OBVIOUS
<1>4. p \in Int /\ q \in Int /\ y \in Int /\ z \in Int /\ m \in Int /\ n \in Int /\ d \in Int /\ e \in Int
  BY <1>b, SMT DEF Days
<1>5. /\ y < z => p < q
      /\ y > z => p > q
      /\ y = z /\ m < n => p < q
      /\ y = z /\ m > n => p > q
      /\ y = z /\ m = n => p - q = d - e
  BY <1>b, SMT DEF Days
<1> SUFFICES Lexicographic(a, b) = Signum(p - q)
  BY <1>c
<1> HIDE DEF p, q
<1>6. CASE y # z
  <2>1. Lexicographic(a, b) = Signum(y - z)
    <3>1. a[1] # b[1] /\ \A j \in DOMAIN a : j < 1 => a[j] = b[j]
      BY <1>0, <1>1, <1>3, <1>6
    <3>2. FirstAt(a, b, 1)
      BY <1>2, <3>1 DEF FirstAt
    <3>3. Lexicographic(a, b) = Signum(a[1] - b[1])
      BY <3>2, FirstDifference, Zenon
    <3> QED BY <1>1, <3>3
  <2>2. Signum(y - z) = Signum(p - q)
    BY <1>4, <1>5, <1>6, SMT DEF Signum
  <2> QED BY <2>1, <2>2, Zenon
<1>7. CASE y = z /\ m # n
  <2>1. Lexicographic(a, b) = Signum(m - n)
    <3>1. a[2] # b[2] /\ \A j \in DOMAIN a : j < 2 => a[j] = b[j]
      BY <1>0, <1>1, <1>3, <1>7
    <3>2. FirstAt(a, b, 2)
      BY <1>2, <3>1 DEF FirstAt
    <3>3. Lexicographic(a, b) = Signum(a[2] - b[2])
      BY <3>2, FirstDifference, Zenon
    <3> QED BY <1>1, <3>3
  <2>2. Signum(m - n) = Signum(p - q)
    BY <1>4, <1>5, <1>7, SMT DEF Signum
  <2> QED BY <2>1, <2>2, Zenon
<1>8. CASE y = z /\ m = n /\ d # e
  <2>1. Lexicographic(a, b) = Signum(d - e)
    <3>1. a[3] # b[3] /\ \A j \in DOMAIN a : j < 3 => a[j] = b[j]
      BY <1>0, <1>1, <1>3, <1>8
    <3>2. FirstAt(a, b, 3)
      BY <1>2, <3>1 DEF FirstAt
    <3>3. Lexicographic(a, b) = Signum(a[3] - b[3])
      BY <3>2, FirstDifference, Zenon
    <3> QED BY <1>1, <3>3
  <2>2. Signum(d - e) = Signum(p - q)
    BY <1>5, <1>8, Zenon
  <2> QED BY <2>1, <2>2, Zenon
<1>9. CASE y = z /\ m = n /\ d = e
  <2>1. a = b
    BY <1>9, <1>a
  <2>2. Lexicographic(a, b) = 0
    BY <2>1, NoDifference, Zenon
  <2>3. Signum(p - q) = 0
    BY <1>4, <1>5, <1>9, SMT DEF Signum
  <2> QED BY <2>2, <2>3, Zenon
<1> QED BY <1>6, <1>7, <1>8, <1>9, Zenon

\* The numbers of times and dates are taken apart again.
LEMMA TimeFromItsNumber ==
    ASSUME NEW h \in 0..23, NEW m \in 0..59, NEW s \in 0..59
    PROVE  TimeFromNumber(Seconds(h, m, s)) = <<0, h, m, s>>
<1> DEFINE p == Seconds(h, m, s)
<1>1. p \div 3600 = h /\ p % 3600 = m * 60 + s
  BY SMT DEF Seconds
<1>2. (m * 60 + s) \div 60 = m /\ p % 60 = s
  BY SMT DEF Seconds
<1> SUFFICES TimeFromNumber(p) = <<0, h, m, s>>
  BY SMT
<1> HIDE DEF p
<1>3. TimeFromNumber(p) = <<0, h, m, s>>
  BY <1>1, <1>2, SMT DEF TimeFromNumber
<1> QED BY <1>3, Zenon

\* The number of a date is taken apart, if its day does not reach into the next month.
LEMMA DateFromItsNumber ==
    ASSUME NEW y \in 90..189, NEW m \in 1..12, NEW d \in 1..30, m = 12 => d <= 27
    PROVE  DateFromNumber(Days(y, m, d)) = <<y, m, d>>
<1> DEFINE p == Days(y, m, d)
<1>1. m * 31 + d < 400
  BY SMT DEF Days
<1>2. p \div 400 = y /\ p % 400 = m * 31 + d
  BY <1>1, SMT DEF Days
<1>3. (m * 31 + d) \div 31 = m /\ (m * 31 + d) % 31 = d
  BY SMT DEF Days
<1> SUFFICES DateFromNumber(p) = <<y, m, d>>
  BY SMT
<1> HIDE DEF p
<1>4. DateFromNumber(p) = <<y, m, d>>
  BY <1>2, <1>3, SMT DEF DateFromNumber
<1> QED BY <1>4, Zenon

\* A float is its own number, that of a new object as well.
LEMMA FloatNumber ==
    ASSUME NEW t \in Types, t.class = "float", NEW v \in Values(t) \cup {Initial(t)}
    PROVE  v \in Values(t) /\ FromNumber(t, ToNumber(t, v)) = v
<1>1. FromNumber(t, ToNumber(t, v)) = v
  BY Zenon DEF FromNumber, ToNumber
<1>2. Initial(t) = 0
  BY Zenon DEF Initial
<1>3. Floats(t) /\ Values(t) = {w \in t.lo..t.hi : Kept(t, w) = w}
  BY BusConstants DEF Values
<1>4. t.precision \in Nat /\ 0 \in t.lo..t.hi
  BY <1>3, PowersOfTwo, SMT DEF Floats
<1>5. CASE t.precision = 0
  <2>1. 0 \in Mantissas /\ 0 = 0 * TwoTo(0)
    BY PowersOfTwo, SMT DEF Mantissas
  <2>2. RoundToKnx(0) = 0
    <3>1. 0 \in 0..15
      OBVIOUS
    <3> QED BY <2>1, <3>1, CarriedExactly, Zenon
  <2>3. Kept(t, 0) = 0
    BY <1>5, <2>2 DEF Kept
  <2> QED BY <1>1, <1>2, <1>3, <1>4, <2>3
<1>6. CASE t.precision > 0
  <2> DEFINE k == Truncated(2 * 0 + Signum(0) * t.precision, 2 * t.precision)
  <2>1. Nearest(t.precision, 0, k)
    <3>1. 0 \in Int
      OBVIOUS
    <3> QED BY <1>4, <1>6, <3>1, NearestFound, Zenon
  <2>2. Kept(t, 0) = k * t.precision
    BY <1>4, <1>6 DEF Kept
  <2> HIDE DEF k
  <2>3. k = 0
    BY <2>1 DEF Nearest
  <2>4. Kept(t, 0) = 0
    BY <1>4, <2>2, <2>3, SMT
  <2> QED BY <1>1, <1>2, <1>3, <1>4, <2>4
<1> QED BY <1>4, <1>5, <1>6

\* What a formula copies.
LEMMA CopiedValue ==
    ASSUME type \in Types, Plain(type), type.class # "string",
           NEW v \in Values(type) \cup {Initial(type)},
           ~(type.class = "date" /\ (v[3] \in {0, 31} \/ (v[2] = 12 /\ v[3] > 27)))
    PROVE  Agree(v, FromNumber(type, ToNumber(type, v)))
<1>1. CASE type.class \in {"switch", "heatmode", "char"}
  <2>1. v \in Values(type)
    BY <1>1, BusConstants DEF Initial, Values, CharAccepts
  <2>2. ToNumber(type, v) = v
    BY <1>1, Zenon DEF ToNumber
  <2>3. FromNumber(type, v) = v
    <3>1. CASE type.class = "switch"
      <4>1. v \in 0..1
        BY <2>1, <3>1 DEF Values
      <4>2. FromNumber(type, v) = SwitchFromNumber(v)
        BY <3>1, Zenon DEF FromNumber
      <4> QED BY <4>1, <4>2 DEF SwitchFromNumber
    <3>2. CASE type.class \in {"heatmode", "char"}
      BY <3>2, Zenon DEF FromNumber
    <3> QED BY <1>1, <3>1, <3>2
  <2> QED BY <1>1, <2>1, <2>2, <2>3, AgreeSame
<1>2. CASE type.class \in {"scaling", "angle"}
  <2>1. v \in 0..255
    <3>1. Values(type) = 0..255
      BY <1>2, Zenon DEF Values
    <3>2. Initial(type) = 0
      BY <1>2, Zenon DEF Initial
    <3> QED BY <3>1, <3>2
  <2>2. FromNumber(type, ToNumber(type, v)) = v
    BY <1>2, Zenon DEF FromNumber, ToNumber
  <2>3. Abs(v - v) <= 1
    BY <2>1 DEF Abs
  <2> QED BY <1>2, <2>2, <2>3, Zenon DEF Agree
<1>3. CASE type.class = "step"
  <2>1. v \in (0..1) \X (0..7)
    <3>1. Values(type) = (0..1) \X (0..7) /\ Initial(type) = <<0, 0>>
      BY <1>3 DEF Values, Initial
    <3> QED BY <3>1
  <2>2. FromNumber(type, ToNumber(type, v)) = StepFromNumber(StepNumber(v))
    BY <1>3, Zenon DEF FromNumber, ToNumber
  <2>3. StepFromNumber(StepNumber(v)) = IF v[2] = 0 THEN <<1, 0>> ELSE v
    BY <2>1 DEF StepFromNumber, StepNumber
  <2>4. StepCompare(v, StepFromNumber(StepNumber(v))) = 0
    BY <2>1, <2>3 DEF StepCompare, Signum
  <2>5. Compare(type, v, StepFromNumber(StepNumber(v))) = 0
    BY <1>3, <2>4, Zenon DEF Compare
  <2> QED BY <1>3, <2>2, <2>5, Zenon DEF Agree
<1>4. CASE type.class = "control"
  <2>1. v \in {<<1, 0>>, <<1, 1>>, <<0, 0>>}
    <3>1. Values(type) = {1} \X (0..1) /\ Initial(type) = <<0, 0>>
      BY <1>4 DEF Values, Initial
    <3> QED BY <3>1
  <2>2. FromNumber(type, ToNumber(type, v)) = ControlFromNumber(ControlNumber(v))
    BY <1>4, Zenon DEF FromNumber, ToNumber
  <2>3. ControlFromNumber(ControlNumber(v)) = v
    BY <2>1 DEF ControlFromNumber, ControlNumber
  <2>4. Compare(type, v, v) = 0
    BY <1>4, NoDifference, Zenon DEF Compare, ControlCompare
  <2> QED BY <1>4, <2>2, <2>3, <2>4, Zenon DEF Agree
<1>5. CASE type.class = "time"
  <2>1. /\ v[1] \in 0..7 /\ v[2] \in 0..23 /\ v[3] \in 0..59 /\ v[4] \in 0..59
        /\ v = <<v[1], v[2], v[3], v[4]>>
    <3>1. Values(type) = (0..7) \X (0..23) \X (0..59) \X (0..59) /\ Initial(type) = <<0, 0, 0, 0>>
      BY <1>5 DEF Values, Initial
    <3> QED BY <3>1
  <2>2. FromNumber(type, ToNumber(type, v)) = TimeFromNumber(TimeNumber(v))
    BY <1>5, Zenon DEF FromNumber, ToNumber
  <2>3. TimeFromNumber(TimeNumber(v)) = <<0, v[2], v[3], v[4]>>
    <3>1. TimeNumber(v) = Seconds(v[2], v[3], v[4])
      BY SMT DEF TimeNumber, Seconds
    <3> QED BY <2>1, <3>1, TimeFromItsNumber, Zenon
  <2>4. v[1] \in Nat /\ v[2] \in Nat /\ v[3] \in Nat /\ v[4] \in Nat /\ 0 \in Nat
    BY <2>1
  <2>5. Tail(v) = <<v[2], v[3], v[4]>>
    <3>1. Tail(<<v[1], v[2], v[3], v[4]>>) = <<v[2], v[3], v[4]>>
      BY <2>4, TailOfFour
    <3> QED BY <2>1, <3>1
  <2>6. Tail(<<0, v[2], v[3], v[4]>>) = <<v[2], v[3], v[4]>>
    BY <2>4, TailOfFour
  <2>7. Tail(v) = Tail(TimeFromNumber(TimeNumber(v)))
    BY <2>3, <2>5, <2>6
  <2> QED BY <1>5, <2>2, <2>7, Zenon DEF Agree
<1>6. CASE type.class = "date"
  <2>1. Values(type) = (90..189) \X (1..12) \X (1..31) /\ Initial(type) = <<0, 0, 0>>
    BY <1>6 DEF Values, Initial
  <2>2. /\ v[1] \in 90..189 /\ v[2] \in 1..12 /\ v[3] \in 1..30
        /\ v[2] = 12 => v[3] <= 27
        /\ v = <<v[1], v[2], v[3]>>
    BY <1>6, <2>1
  <2>3. FromNumber(type, ToNumber(type, v)) = DateFromNumber(DateNumber(v))
    BY <1>6, Zenon DEF FromNumber, ToNumber
  <2>4. DateFromNumber(DateNumber(v)) = v
    <3>1. DateNumber(v) = Days(v[1], v[2], v[3])
      BY SMT DEF DateNumber, Days
    <3>2. DateFromNumber(Days(v[1], v[2], v[3])) = <<v[1], v[2], v[3]>>
      BY <2>2, DateFromItsNumber, Zenon
    <3> QED BY <2>2, <3>1, <3>2
  <2>5. Compare(type, v, v) = 0
    BY <1>6, NoDifference, Zenon DEF Compare, DateCompare
  <2> QED BY <1>6, <2>3, <2>4, <2>5, Zenon DEF Agree
<1>7. CASE type.class = "int" /\ type.bytes # 8
  <2>1. v \in Values(type)
    <3>1. Initial(type) = 0
      BY <1>7, Zenon DEF Initial
    <3> QED BY <1>7, <3>1, IntegerValues
  <2>2. FromNumber(type, ToNumber(type, v)) = v
    BY <1>7, Zenon DEF FromNumber, ToNumber
  <2> QED BY <1>7, <2>1, <2>2, AgreeSame
<1>8. CASE type.class = "float"
  BY <1>8, FloatNumber, AgreeSame
<1> QED BY <1>1, <1>2, <1>3, <1>4, <1>5, <1>6, <1>7, <1>8 DEF Plain

\* What an object condition and a threshold condition compare.
LEMMA ComparedNumbers ==
    ASSUME type \in Types, Plain(type), type.class \notin {"step", "string"},
           NEW a \in Values(type) \cup {Initial(type)}, NEW b \in Settable(type),
           type.class = "time" => a[1] = 0 /\ b[1] = 0
    PROVE  Compare(type, a, b) = Signum(ToNumber(type, a) - ToNumber(type, b))
<1>1. CASE type.class \in {"int", "float", "heatmode", "char", "scaling", "angle", "switch"}
  <2>1. ToNumber(type, a) = a /\ ToNumber(type, b) = b
    BY <1>1, Zenon DEF ToNumber
  <2>2. Compare(type, a, b) = Signum(a - b)
    BY <1>1, Zenon DEF Compare, SwitchCompare
  <2> QED BY <2>1, <2>2, Zenon
<1>2. CASE type.class = "control"
  <2>1. a \in {<<1, 0>>, <<1, 1>>, <<0, 0>>} /\ b = <<1, 1>>
    <3>1. Values(type) = {1} \X (0..1) /\ Initial(type) = <<0, 0>> /\ Settable(type) = {<<1, 1>>}
      BY <1>2 DEF Values, Initial, Settable
    <3> QED BY <3>1
  <2>2. ControlText(a) = a /\ ControlText(b) = b
    BY <2>1 DEF ControlText
  <2>3. Lexicographic(a, b) = Signum(ControlNumber(a) - ControlNumber(b))
    <3>1. DOMAIN a = 1..2 /\ 1 \in DOMAIN a /\ 2 \in DOMAIN a /\ DOMAIN a \subseteq Nat
      BY <2>1
    <3>2. CASE a = <<1, 1>>
      <4>1. Lexicographic(a, b) = 0
        BY <2>1, <3>2, NoDifference
      <4> QED BY <2>1, <3>2, <4>1 DEF Signum, ControlNumber
    <3>3. CASE a = <<1, 0>>
      <4>1. a[2] # b[2] /\ \A j \in DOMAIN a : j < 2 => a[j] = b[j]
        BY <2>1, <3>1, <3>3
      <4>2. FirstAt(a, b, 2)
        BY <3>1, <4>1 DEF FirstAt
      <4>3. Lexicographic(a, b) = Signum(a[2] - b[2])
        BY <4>2, FirstDifference
      <4> QED BY <2>1, <3>3, <4>3 DEF Signum, ControlNumber
    <3>4. CASE a = <<0, 0>>
      <4>1. a[1] # b[1] /\ \A j \in DOMAIN a : j < 1 => a[j] = b[j]
        BY <2>1, <3>1, <3>4
      <4>2. FirstAt(a, b, 1)
        BY <3>1, <4>1 DEF FirstAt
      <4>3. Lexicographic(a, b) = Signum(a[1] - b[1])
        BY <4>2, FirstDifference
      <4> QED BY <2>1, <3>4, <4>3 DEF Signum, ControlNumber
    <3> QED BY <2>1, <3>2, <3>3, <3>4
  <2>4. Compare(type, a, b) = Lexicographic(a, b)
    BY <1>2, <2>2, Zenon DEF Compare, ControlCompare
  <2>5. ToNumber(type, a) = ControlNumber(a) /\ ToNumber(type, b) = ControlNumber(b)
    BY <1>2, Zenon DEF ToNumber
  <2> QED BY <2>3, <2>4, <2>5, Zenon
<1>3. CASE type.class = "time"
  <2>1. /\ a[2] \in 0..23 /\ a[3] \in 0..59 /\ a[4] \in 0..59 /\ a = <<0, a[2], a[3], a[4]>>
        /\ b[2] \in 0..23 /\ b[3] \in 0..59 /\ b[4] \in 0..59 /\ b = <<0, b[2], b[3], b[4]>>
    <3>1. /\ Values(type) = (0..7) \X (0..23) \X (0..59) \X (0..59)
          /\ Settable(type) = Values(type) /\ Initial(type) = <<0, 0, 0, 0>>
      BY <1>3 DEF Values, Initial, Settable
    <3>2. a[1] = 0 /\ b[1] = 0
      BY <1>3
    <3> QED BY <3>1, <3>2
  <2>2. Lexicographic(a, b) = Signum(TimeNumber(a) - TimeNumber(b))
    <3>1. OfDay(a) /\ OfDay(b)
      BY <2>1 DEF OfDay
    <3> QED BY <3>1, TimesOrdered, Zenon
  <2>3. Compare(type, a, b) = Lexicographic(a, b)
    BY <1>3, Zenon DEF Compare, TimeCompare
  <2>4. ToNumber(type, a) = TimeNumber(a) /\ ToNumber(type, b) = TimeNumber(b)
    BY <1>3, Zenon DEF ToNumber
  <2> QED BY <2>2, <2>3, <2>4, Zenon
<1>4. CASE type.class = "date"
  <2>1. /\ a[1] \in 0..255 /\ a[2] \in 0..12 /\ a[3] \in 0..31 /\ a = <<a[1], a[2], a[3]>>
        /\ (a[1] = 0 /\ a[2] = 0 /\ a[3] = 0) \/ (a[2] >= 1 /\ a[3] >= 1)
        /\ b[1] \in 90..189 /\ b[2] \in 1..12 /\ b[3] \in 1..31 /\ b = <<b[1], b[2], b[3]>>
    <3>1. /\ Values(type) = (90..189) \X (1..12) \X (1..31)
          /\ Settable(type) = Values(type) /\ Initial(type) = <<0, 0, 0>>
      BY <1>4 DEF Values, Initial, Settable
    <3> QED BY <3>1
  <2>2. Lexicographic(a, b) = Signum(DateNumber(a) - DateNumber(b))
    <3>1. DatedOrNot(a) /\ Dated(b)
      BY <2>1, SMT DEF DatedOrNot, Dated
    <3> QED BY <3>1, DatesOrdered, Zenon
  <2>3. Compare(type, a, b) = Lexicographic(a, b)
    BY <1>4, Zenon DEF Compare, DateCompare
  <2>4. ToNumber(type, a) = DateNumber(a) /\ ToNumber(type, b) = DateNumber(b)
    BY <1>4, Zenon DEF ToNumber
  <2> QED BY <2>2, <2>3, <2>4, Zenon
<1> QED BY <1>1, <1>2, <1>3, <1>4 DEF Plain

\* Copied by a formula, an object keeps its value, and a comparison with a
\* number orders the objects as one with a text does (ObjectValue::toNumber,
\* set(double) and compare).  This is for the objects of AgreementEver that are no
\* strings, whose numbers are read digit by digit; not for the dates on a 31st, after
\* the 27th of December or never set, nor for the weekdays of times and the sizes of
\* steps, which the property excepts.
THEOREM NumbersStandForValuesEver ==
    BusSpec => [](Covered /\ type.class # "string" => NumbersStandForValues)
<1>1. ASSUME BusInv, Covered, type.class # "string" PROVE NumbersStandForValues
  <2>0. type \in Types /\ \A s \in Sites : value[s] \in Values(type) \cup {Initial(type)}
    BY <1>1 DEF BusInv, BusShape, InType
  <2>1. CopiedByNumber
    <3> SUFFICES ASSUME NEW s \in Sites,
                        ~(type.class = "date" /\ (value[s][3] \in {0, 31}
                            \/ (value[s][2] = 12 /\ value[s][3] > 27)))
                 PROVE  Agree(value[s], Kept(type, FromNumber(type, ToNumber(type, value[s]))))
      BY <1>1, Zenon DEF CopiedByNumber
    <3>1. Agree(value[s], FromNumber(type, ToNumber(type, value[s])))
      BY <1>1, <2>0, CopiedValue DEF Covered
    <3>2. type.class = "float" => FromNumber(type, ToNumber(type, value[s])) \in Values(type)
      BY <2>0, FloatNumber
    <3> QED BY <3>1, <3>2, KeptAsItIs
  <2>2. OrderedByNumber
    <3> SUFFICES ASSUME NEW s \in Sites, NEW x \in Texts(type), Accepts(type, x),
                        type.class # "step", type.class = "time" => value[s][1] = 0
                 PROVE  Compare(type, value[s], FromText(type, x))
                          = Signum(ToNumber(type, value[s]) - ToNumber(type, FromText(type, x)))
      BY Zenon DEF OrderedByNumber
    <3>1. FromText(type, x) \in Settable(type)
      BY <1>1, <2>0, TextsInRange DEF Covered
    <3>2. ASSUME type.class = "time" PROVE FromText(type, x)[1] = 0
      <4>1. /\ FromText(type, x) = <<0>> \o x
            /\ x[1] \in Nat /\ x[2] \in Nat /\ x[3] \in Nat /\ 0 \in Nat /\ x = <<x[1], x[2], x[3]>>
        <5>1. TimeAccepts(x)
          BY <3>2, Zenon DEF Accepts
        <5>2. FromText(type, x) = <<0>> \o x
          BY <3>2, Zenon DEF FromText, TimeFromText
        <5>3. x \in (0..23) \X (0..59) \X (0..59)
          BY <5>1 DEF TimeAccepts
        <5>4. x = <<x[1], x[2], x[3]>> /\ x[1] \in Nat /\ x[2] \in Nat /\ x[3] \in Nat
          BY <5>3
        <5>5. 0 \in Nat
          OBVIOUS
        <5> QED BY <5>2, <5>4, <5>5, Zenon
      <4>2. FromText(type, x) = <<0, x[1], x[2], x[3]>>
        <5>1. <<0>> \o <<x[1], x[2], x[3]>> = <<0, x[1], x[2], x[3]>>
          BY <4>1, OneAndThree
        <5> QED BY <4>1, <5>1, Zenon
      <4> QED BY <4>2
    <3> QED BY <1>1, <2>0, <3>1, <3>2, ComparedNumbers DEF Covered
  <2> QED BY <2>1, <2>2 DEF NumbersStandForValues
<1> QED BY <1>1, BusInvEver, PTL
=============================================================================
