--------------------------- MODULE IOPortsProofs ---------------------------
(***************************************************************************)
(* For any rules, senders, sockets and messages: each expected message     *)
(* executes the actions of every rule that listens once, no listener is    *)
(* left out because another one comes or goes while a listener blocks, and *)
(* a port keeps no thread and no socket that it does not need, but those   *)
(* its configurations and simultaneous connections account for.            *)
(***************************************************************************)
EXTENDS IOPorts, SequenceTheorems, FiniteSetTheorems, WellFoundedInduction, TLAPS

\* The receiving thread, with any listener and message.
RxRecord(r) == r \in [place : RxPlaces, socket : {0} \cup Sockets,
                      listener : {r.listener}, message : {r.message}]

Types ==
    /\ sock \in [Sockets -> {"closed", "connecting", "connected", "unconnected", "eof", "unbound"}]
    /\ own \in {0} \cup Sockets
    /\ raced \in Nat /\ lost \in Nat
    /\ listeners \in Seq(Rules)
    /\ owed \subseteq Rules
    /\ RxRecord(rx)
    /\ tx \in [Senders -> [place : {"idle", "connecting", "writing"},
                           socket : {0} \cup Sockets]]

\* A rule listens once.
Once ==
    \A i, j \in 1..Len(listeners) : i < j => listeners[i] # listeners[j]

\* Who is still to hear of the message stands where the thread is, or behind.
OwedAhead ==
    rx.place = "calling" /\ rx.listener # Erased =>
        \E p \in 1..Len(listeners) :
            /\ listeners[p] = rx.listener
            /\ \A r \in owed : \E i \in p..Len(listeners) : listeners[i] = r

Counts ==
    /\ ran \in [Rules -> Nat] /\ matched \in [Rules -> Nat] /\ prev \in [Rules -> BOOLEAN]
    /\ \A r \in Rules : ran[r] = matched[r] /\ ~prev[r]

Removing == admin = "removing" => listeners = <<>>

RunsInv == Once /\ OwedAhead /\ NobodyLeftOut /\ Counts /\ ThreadForListeners /\ Removing

\* The sockets the port knows of: its own, those a permanent TCP port waits
\* for, those another TCP port uses.
UsedByRx(s, places) == rx.place \in places /\ rx.socket = s
UsedByTx(s, places) == \E t \in Senders : tx[t].place \in places /\ tx[t].socket = s

Awaited(s) == UsedByRx(s, {"connecting"}) \/ UsedByTx(s, {"connecting"})
InHand(s)  == UsedByRx(s, {"connecting", "reading"}) \/ UsedByTx(s, {"connecting", "writing"})

Held(s) ==
    \/ s = own
    \/ kind = "tcp" /\ Awaited(s)
    \/ kind = "tcpOnce" /\ InHand(s)

Closed(s) == sock[s] = "closed"
Loose == {s \in Sockets : ~Closed(s) /\ ~Held(s)}

SocketsInv == Cardinality(Loose) <= raced + lost

PortInv == Types /\ RunsInv /\ SocketsInv

-----------------------------------------------------------------------------
\* A set of numbers with a member has a smallest one.
LEMMA Least ==
    ASSUME NEW S \in SUBSET Nat, S # {}
    PROVE  \E x \in S : \A y \in S : x <= y
<1>1. PICK x \in S : \A y \in S : ~(<<y, x>> \in OpToRel(<, Nat))
  BY NatLessThanWellFounded, WFMin
<1>2. \A y \in S : y < x => <<y, x>> \in OpToRel(<, Nat)
  BY Zenon, <1>1 DEF OpToRel
<1>3. \A y \in S : ~(y < x)
  BY Zenon, <1>1, <1>2
<1>. QED
  BY <1>3

\* A thread that connects finds a socket that is closed.
LEMMA UnusedIs ==
    ASSUME Types, CanConnect
    PROVE  Unused \in Sockets /\ sock[Unused] = "closed" /\ Unused \notin Open
<1>. DEFINE S == {s \in Sockets : sock[s] = "closed"}
<1>1. S # {} /\ S \in SUBSET Nat
  BY DEF CanConnect, Open, Sockets
<1>2. PICK m \in S : \A y \in S : m <= y
  BY <1>1, Least
<1>3. m \in Sockets /\ sock[m] = "closed"
  BY <1>2
<1>4. \A u \in 1..m - 1 : sock[u] # "closed"
  <2>. SUFFICES ASSUME NEW u \in 1..m - 1, sock[u] = "closed" PROVE FALSE
    OBVIOUS
  <2>1. u \in Sockets /\ ~(m <= u)
    BY <1>3, IOPortsConstants DEF Sockets
  <2>. QED
    BY <1>2, <2>1
<1>5. Unused \in Sockets /\ sock[Unused] = "closed"
  BY Zenon, <1>3, <1>4 DEF Unused
<1>. QED
  BY Zenon, <1>5 DEF Open

\* Who is in the list of listeners.
LEMMA ListenersAre ==
    ASSUME NEW list \in Seq(Rules), NEW r
    PROVE  r \in ToSet(list) <=> \E i \in 1..Len(list) : list[i] = r
<1>1. DOMAIN list = 1..Len(list)
  BY LenProperties
<1>. QED
  BY <1>1 DEF ToSet

\* The place of a rule that listens.
LEMMA PositionIs ==
    ASSUME Types, Once, NEW i \in 1..Len(listeners)
    PROVE  Position(listeners[i]) = i
<1>. DEFINE k == Position(listeners[i])
<1>1. k \in 1..Len(listeners) /\ listeners[k] = listeners[i]
  BY Zenon DEF Position
<1>2. \A a, b \in 1..Len(listeners) : a < b => listeners[a] # listeners[b]
  BY Zenon DEF Once
<1>3. Len(listeners) \in Nat
  BY LenProperties DEF Types
<1>. HIDE DEF k
<1>4. ~(k < i) /\ ~(i < k)
  BY <1>1, <1>2
<1>. QED
  BY <1>1, <1>3, <1>4 DEF k

\* What stands where after an element was removed.
LEMMA RemoveIs ==
    ASSUME NEW S, NEW s \in Seq(S), NEW k \in 1..Len(s)
    PROVE  /\ RemoveAt(s, k) \in Seq(S)
           /\ Len(RemoveAt(s, k)) = Len(s) - 1
           /\ \A i \in 1..(Len(s) - 1) :
                 RemoveAt(s, k)[i] = IF i < k THEN s[i] ELSE s[i + 1]
<1>. DEFINE n     == Len(s)
            front == SubSeq(s, 1, k - 1)
            back  == SubSeq(s, k + 1, n)
            new   == RemoveAt(s, k)
<1>1. n \in Nat /\ \A i \in 1..n : s[i] \in S
  BY ElementOfSeq, LenProperties
<1>2. new = front \o back
  BY Zenon DEF RemoveAt
<1>3. /\ front \in Seq(S)
      /\ Len(front) = k - 1
      /\ \A i \in 1..(k - 1) : front[i] = s[i]
  <2>1. \A i \in 1..(k - 1) : s[i] \in S
    BY <1>1
  <2>2. /\ front \in Seq(S)
        /\ Len(front) = IF 1 <= k - 1 THEN ((k - 1) - 1) + 1 ELSE 0
        /\ \A i \in 1..(((k - 1) - 1) + 1) : front[i] = s[(1 + i) - 1]
    BY <2>1, SubSeqProperties
  <2>. HIDE DEF front
  <2>. QED
    BY <2>2
<1>4. /\ back \in Seq(S)
      /\ Len(back) = n - k
      /\ \A i \in 1..(n - k) : back[i] = s[k + i]
  <2>1. \A i \in (k + 1)..n : s[i] \in S
    BY <1>1
  <2>2. /\ back \in Seq(S)
        /\ Len(back) = IF k + 1 <= n THEN (n - (k + 1)) + 1 ELSE 0
        /\ \A i \in 1..((n - (k + 1)) + 1) : back[i] = s[((k + 1) + i) - 1]
    BY <1>1, <2>1, SubSeqProperties
  <2>. HIDE DEF back, n
  <2>3. k \in 1..n
    BY DEF n
  <2>4. Len(back) = n - k
    BY <1>1, <2>2, <2>3
  <2>5. ASSUME NEW i \in 1..(n - k) PROVE back[i] = s[k + i]
    <3>1. i \in 1..((n - (k + 1)) + 1) /\ ((k + 1) + i) - 1 = k + i
      BY <1>1, <2>3
    <3>. QED
      BY <2>2, <3>1
  <2>. QED
    BY <2>2, <2>4, <2>5
<1>. HIDE DEF front, back, new
<1>5. /\ new \in Seq(S)
      /\ Len(new) = Len(front) + Len(back)
      /\ \A i \in 1..(Len(front) + Len(back)) :
            new[i] = IF i <= Len(front) THEN front[i] ELSE back[i - Len(front)]
  BY <1>2, <1>3, <1>4, ConcatProperties
<1>. HIDE DEF n
<1>6. k \in 1..n
  BY DEF n
<1>7. Len(new) = n - 1
  BY <1>1, <1>3, <1>4, <1>5, <1>6
<1>8. \A i \in 1..(n - 1) : new[i] = IF i < k THEN s[i] ELSE s[i + 1]
  <2>. SUFFICES ASSUME NEW i \in 1..(n - 1) PROVE new[i] = IF i < k THEN s[i] ELSE s[i + 1]
    OBVIOUS
  <2>1. new[i] = IF i <= k - 1 THEN front[i] ELSE back[i - (k - 1)]
    BY <1>1, <1>3, <1>4, <1>5, <1>6
  <2>2. CASE i < k
    BY <1>3, <1>6, <2>1, <2>2
  <2>3. CASE ~(i < k)
    <3>1. i - (k - 1) \in 1..(n - k) /\ k + (i - (k - 1)) = i + 1 /\ ~(i <= k - 1)
      BY <1>1, <1>6, <2>3
    <3>. QED
      BY <1>4, <2>1, <2>3, <3>1
  <2>. QED
    BY <2>2, <2>3
<1>. QED
  BY Zenon, <1>5, <1>7, <1>8 DEF n, new

-----------------------------------------------------------------------------
\* The types hold at first.
LEMMA TypesAtFirst == Init => Types
<1>. SUFFICES ASSUME Init PROVE Types
  OBVIOUS
<1>1. own \in {0} \cup Sockets
  BY IOPortsConstants DEF Init, Sockets, Tcp
<1>2. /\ sock \in [Sockets -> {"closed", "connecting", "connected", "unconnected", "eof", "unbound"}]
      /\ raced \in Nat /\ lost \in Nat /\ owed \subseteq Rules
  BY DEF Init
<1>3. listeners \in Seq(Rules)
  BY EmptySeq DEF Init
<1>4. /\ RxRecord(rx)
      /\ tx \in [Senders -> [place : {"idle", "connecting", "writing"},
                             socket : {0} \cup Sockets]]
  BY DEF Init, NoThread, Resting, RxPlaces, RxRecord
<1>. QED
  BY <1>1, <1>2, <1>3, <1>4 DEF Types

\* The receiving thread goes somewhere else.
LEMMA RxGoes ==
    ASSUME RxRecord(rx), NEW p \in RxPlaces, NEW s \in {0} \cup Sockets
    PROVE  /\ RxRecord([rx EXCEPT !.place = p, !.socket = s])
           /\ [rx EXCEPT !.place = p, !.socket = s].place = p
           /\ [rx EXCEPT !.place = p, !.socket = s].socket = s
<1>. DEFINE r == [rx EXCEPT !.place = p, !.socket = s]
<1>1. r.place = p /\ r.socket = s /\ r.listener = rx.listener /\ r.message = rx.message
  BY DEF RxRecord
<1>2. r \in [place : RxPlaces, socket : {0} \cup Sockets,
             listener : {rx.listener}, message : {rx.message}]
  BY DEF RxRecord
<1>. HIDE DEF r
<1>3. RxRecord(r)
  BY <1>1, <1>2 DEF RxRecord
<1>. QED
  BY Zenon, <1>1, <1>3 DEF r

\* The receiving thread stays where it is, with another listener.
LEMMA RxTurns ==
    ASSUME RxRecord(rx), NEW l
    PROVE  /\ RxRecord([rx EXCEPT !.listener = l])
           /\ [rx EXCEPT !.listener = l].place = rx.place
           /\ [rx EXCEPT !.listener = l].socket = rx.socket
           /\ [rx EXCEPT !.listener = l].listener = l
<1>. DEFINE r == [rx EXCEPT !.listener = l]
<1>1. r.place = rx.place /\ r.socket = rx.socket /\ r.listener = l /\ r.message = rx.message
  BY DEF RxRecord
<1>2. r \in [place : RxPlaces, socket : {0} \cup Sockets,
             listener : {l}, message : {rx.message}]
  BY DEF RxRecord
<1>. HIDE DEF r
<1>3. RxRecord(r)
  BY <1>1, <1>2 DEF RxRecord
<1>. QED
  BY Zenon, <1>1, <1>3 DEF r

\* No receiving thread, or one that begins.
LEMMA RxAnew ==
    ASSUME NEW p \in RxPlaces
    PROVE  /\ RxRecord([NoThread EXCEPT !.place = p])
           /\ [NoThread EXCEPT !.place = p].place = p
           /\ RxRecord(NoThread) /\ NoThread.place = "none"
<1>. DEFINE r == [NoThread EXCEPT !.place = p]
<1>1. r.place = p /\ r.socket = 0 /\ r.listener = "" /\ r.message = ""
  BY DEF NoThread
<1>2. r \in [place : RxPlaces, socket : {0} \cup Sockets, listener : {""}, message : {""}]
  BY DEF NoThread
<1>. HIDE DEF r
<1>3. RxRecord(r)
  BY <1>1, <1>2 DEF RxRecord
<1>4. RxRecord(NoThread) /\ NoThread.place = "none"
  BY DEF NoThread, RxRecord, RxPlaces
<1>. QED
  BY Zenon, <1>1, <1>3, <1>4 DEF r

\* What Connects does to the types.
LEMMA ConnectsTypes ==
    ASSUME Types, NEW s \in {0} \cup Sockets, Connects(s)
    PROVE  /\ sock' \in [Sockets -> {"closed", "connecting", "connected", "unconnected", "eof", "unbound"}]
           /\ own' \in {0} \cup Sockets
           /\ raced' \in Nat
<1>1. \/ sock' = [sock EXCEPT ![s] = "connected"] \/ sock' = [sock EXCEPT ![s] = "unconnected"]
      \/ sock' = [sock EXCEPT ![s] = @]
  BY Zenon DEF Connects
<1>2. own' = s \/ own' = own
  BY Zenon DEF Connects, Kept
<1>3. raced' = raced + 1 \/ raced' = raced
  BY Zenon DEF Connects
<1>4. raced' \in Nat
  BY <1>3 DEF Types
<1>5. sock' \in [Sockets -> {"closed", "connecting", "connected", "unconnected", "eof", "unbound"}]
  BY <1>1 DEF Types
<1>6. own' \in {0} \cup Sockets
  BY Zenon, <1>2 DEF Types
<1>. QED
  BY Zenon, <1>4, <1>5, <1>6

\* A socket that is released is closed or stays.
LEMMA ReleasedTypes ==
    ASSUME NEW States, "closed" \in States, sock \in [Sockets -> States], NEW s
    PROVE  Released(s) \in [Sockets -> States]
<1>1. [sock EXCEPT ![s] = "closed"] \in [Sockets -> States]
  OBVIOUS
<1>. QED
  BY Zenon, <1>1 DEF Released

\* The receiving thread keeps the types.
LEMMA RxTypes == ASSUME Types, RxThread PROVE Types'
<1>. DEFINE States == {"closed", "connecting", "connected", "unconnected", "eof", "unbound"}
<1>0. /\ sock \in [Sockets -> States] /\ own \in {0} \cup Sockets
      /\ raced \in Nat /\ lost \in Nat
      /\ listeners \in Seq(Rules) /\ owed \subseteq Rules /\ RxRecord(rx)
  BY Zenon DEF Types
<1>1. lost' = lost /\ listeners' = listeners /\ tx' = tx
  BY Zenon DEF RxThread, RxGet, RxConnected, RxReceives, RxStopped, RxFails, RxCalls, RxKeeps,
               Settings
<1>2. /\ "reading" \in RxPlaces /\ "connecting" \in RxPlaces /\ "ended" \in RxPlaces
      /\ "get" \in RxPlaces /\ "calling" \in RxPlaces
  BY DEF RxPlaces
<1>3. CASE RxGet
  <2>1. own' = own /\ raced' = raced /\ owed' = owed
    BY Zenon, <1>3 DEF RxGet, RuleVars
  <2>2. CASE Tcp /\ ~Reused
    <3>1. Unused \in Sockets /\ rx' = [rx EXCEPT !.place = "connecting", !.socket = Unused]
          /\ sock' = [sock EXCEPT ![Unused] = "connecting"]
      BY Zenon, <1>3, <2>2, UnusedIs DEF RxGet, Go
    <3>2. RxRecord(rx')
      BY Zenon, <1>0, <1>2, <3>1, RxGoes
    <3>3. sock' \in [Sockets -> States]
      BY <1>0, <3>1
    <3>. QED
      BY Zenon, <1>0, <1>1, <2>1, <3>2, <3>3 DEF Types
  <2>3. CASE ~(Tcp /\ ~Reused)
    <3>1. rx' = [rx EXCEPT !.place = "reading", !.socket = own] /\ sock' = sock
      BY Zenon, <1>3, <2>3 DEF RxGet, Go
    <3>2. RxRecord(rx')
      BY Zenon, <1>0, <1>2, <3>1, RxGoes
    <3>. QED
      BY Zenon, <1>0, <1>1, <2>1, <3>1, <3>2 DEF Types
  <2>. QED
    BY Zenon, <2>2, <2>3
<1>4. CASE RxConnected
  <2>1. /\ rx' = [rx EXCEPT !.place = "reading", !.socket = rx.socket] /\ owed' = owed
        /\ Connects(rx.socket)
    BY Zenon, <1>4 DEF RxConnected, Go, RuleVars
  <2>2. rx.socket \in {0} \cup Sockets
    BY Zenon, <1>0 DEF RxRecord
  <2>3. RxRecord(rx')
    BY Zenon, <1>0, <1>2, <2>1, <2>2, RxGoes
  <2>. QED
    BY Zenon, <1>0, <1>1, <2>1, <2>2, <2>3, ConnectsTypes DEF Types
<1>5. CASE RxReceives
  <2>1. own' = own /\ raced' = raced /\ sock' = Released(rx.socket)
    BY Zenon, <1>5 DEF RxReceives, Release
  <2>2. \/ rx' = [rx EXCEPT !.place = "get", !.socket = 0]
        \/ rx' = [rx EXCEPT !.place = "ended", !.socket = 0]
        \/ rx' = [place |-> "calling", socket |-> 0, listener |-> Head(listeners),
                  message |-> Head(inbox[rx.socket])]
    BY Zenon, <1>5 DEF RxReceives, Go
  <2>3. RxRecord(rx')
    <3>1. RxRecord([place |-> "calling", socket |-> 0, listener |-> Head(listeners),
                    message |-> Head(inbox[rx.socket])])
      BY <1>2 DEF RxRecord
    <3>2. 0 \in {0} \cup Sockets
      OBVIOUS
    <3>3. CASE rx' = [rx EXCEPT !.place = "get", !.socket = 0]
      BY Zenon, <1>0, <1>2, <3>2, <3>3, RxGoes
    <3>4. CASE rx' = [rx EXCEPT !.place = "ended", !.socket = 0]
      BY Zenon, <1>0, <1>2, <3>2, <3>4, RxGoes
    <3>. QED
      BY Zenon, <2>2, <3>1, <3>3, <3>4
  <2>4. owed' = owed \/ owed' = ToSet(listeners)
    BY Zenon, <1>5 DEF RxReceives
  <2>5. ToSet(listeners) \subseteq Rules
    BY <1>0, ListenersAre, ElementOfSeq
  <2>6. sock' \in [Sockets -> States]
    BY Zenon, <1>0, <2>1, ReleasedTypes
  <2>. QED
    BY Zenon, <1>0, <1>1, <2>1, <2>3, <2>4, <2>5, <2>6 DEF Types
<1>6. CASE RxStopped \/ RxFails
  <2>1. /\ own' = own /\ raced' = raced /\ owed' = owed
        /\ sock' = Released(rx.socket)
    BY Zenon, <1>6 DEF RxStopped, RxFails, Release, RuleVars
  <2>2. \/ rx' = rx
        \/ rx' = [rx EXCEPT !.place = "ended", !.socket = 0]
        \/ rx' = [rx EXCEPT !.place = "get", !.socket = 0]
    <3>1. CASE RxStopped
      BY Zenon, <3>1 DEF RxStopped, Go
    <3>2. CASE RxFails
      <4>1. \/ rx' = rx
            \/ rx' = [rx EXCEPT !.place = IF Tcp THEN "get" ELSE "ended", !.socket = 0]
        BY Zenon, <3>2 DEF RxFails, Go
      <4>2. CASE Tcp
        BY Zenon, <4>1, <4>2
      <4>3. CASE ~Tcp
        BY Zenon, <4>1, <4>3
      <4>. QED
        BY Zenon, <4>2, <4>3
    <3>. QED
      BY Zenon, <1>6, <3>1, <3>2
  <2>3. 0 \in {0} \cup Sockets
    OBVIOUS
  <2>4. RxRecord(rx')
    <3>1. CASE rx' = [rx EXCEPT !.place = "ended", !.socket = 0]
      BY Zenon, <1>0, <1>2, <2>3, <3>1, RxGoes
    <3>2. CASE rx' = [rx EXCEPT !.place = "get", !.socket = 0]
      BY Zenon, <1>0, <1>2, <2>3, <3>2, RxGoes
    <3>. QED
      BY Zenon, <1>0, <2>2, <3>1, <3>2
  <2>5. sock' \in [Sockets -> States]
    BY Zenon, <1>0, <2>1, ReleasedTypes
  <2>. QED
    BY Zenon, <1>0, <1>1, <2>1, <2>4, <2>5 DEF Types
<1>7. CASE RxCalls
  <2>1. sock' = sock /\ own' = own /\ raced' = raced
    BY Zenon, <1>7 DEF RxCalls, NetVars
  <2>2. owed' = owed \/ owed' = owed \ {rx.listener}
    BY Zenon, <1>7 DEF RxCalls, RuleVars
  <2>3. \/ rx' = rx
        \/ rx' = [NoThread EXCEPT !.place = AfterMessage]
        \/ rx' = [rx EXCEPT !.listener = CHOOSE x \in NextListener(rx.listener) : TRUE]
    BY Zenon, <1>7 DEF RxCalls
  <2>4. RxRecord(rx')
    <3>1. AfterMessage \in RxPlaces
      BY <1>2 DEF AfterMessage
    <3>2. CASE rx' = [NoThread EXCEPT !.place = AfterMessage]
      BY Zenon, <3>1, <3>2, RxAnew
    <3>3. CASE rx' = [rx EXCEPT !.listener = CHOOSE x \in NextListener(rx.listener) : TRUE]
      BY Zenon, <1>0, <3>3, RxTurns
    <3>. QED
      BY Zenon, <1>0, <2>3, <3>2, <3>3
  <2>. QED
    BY Zenon, <1>0, <1>1, <2>1, <2>2, <2>4 DEF Types
<1>. QED
  BY Zenon, <1>3, <1>4, <1>5, <1>6, <1>7 DEF RxThread

\* A sending thread keeps the types.
LEMMA SenderTypes == ASSUME Types, NEW t \in Senders, Sender(t) PROVE Types'
<1>. DEFINE States == {"closed", "connecting", "connected", "unconnected", "eof", "unbound"}
            Threads == [Senders -> [place : {"idle", "connecting", "writing"},
                                    socket : {0} \cup Sockets]]
<1>0. /\ sock \in [Sockets -> States] /\ own \in {0} \cup Sockets
      /\ raced \in Nat /\ lost \in Nat
      /\ tx \in Threads
  BY Zenon DEF Types
<1>1. lost' = lost /\ listeners' = listeners /\ owed' = owed /\ rx' = rx
  BY Zenon DEF Sender, TxStart, TxConnected, TxWrites, TxKeeps, RuleVars, Settings
<1>2. CASE TxStart(t)
  <2>1. own' = own /\ raced' = raced
    BY Zenon, <1>2 DEF TxStart
  <2>2. CASE Tcp /\ ~Reused
    <3>1. /\ Unused \in Sockets /\ sock' = [sock EXCEPT ![Unused] = "connecting"]
          /\ tx' = [tx EXCEPT ![t] = [place |-> "connecting", socket |-> Unused]]
      BY Zenon, <1>2, <2>2, UnusedIs DEF TxStart
    <3>2. sock' \in [Sockets -> States] /\ tx' \in Threads
      BY <1>0, <3>1
    <3>. QED
      BY Zenon, <1>0, <1>1, <2>1, <3>2 DEF Types
  <2>3. CASE ~(Tcp /\ ~Reused)
    <3>1. sock' = sock /\ tx' = [tx EXCEPT ![t] = [place |-> "writing", socket |-> own]]
      BY Zenon, <1>2, <2>3 DEF TxStart
    <3>2. tx' \in Threads
      BY <1>0, <3>1
    <3>. QED
      BY Zenon, <1>0, <1>1, <2>1, <3>1, <3>2 DEF Types
  <2>. QED
    BY Zenon, <2>2, <2>3
<1>3. CASE TxConnected(t)
  <2>1. Connects(tx[t].socket) /\ tx' = [tx EXCEPT ![t].place = "writing"]
    BY Zenon, <1>3 DEF TxConnected
  <2>2. tx[t].socket \in {0} \cup Sockets /\ tx' \in Threads
    BY <1>0, <2>1
  <2>. QED
    BY Zenon, <1>0, <1>1, <2>1, <2>2, ConnectsTypes DEF Types
<1>4. CASE TxWrites(t)
  <2>1. /\ own' = own /\ raced' = raced /\ tx' = [tx EXCEPT ![t] = Resting]
        /\ sock' = sock \/ sock' = [sock EXCEPT ![tx[t].socket] = "closed"]
    BY Zenon, <1>4 DEF TxWrites, Release, Released
  <2>2. tx' \in Threads /\ sock' \in [Sockets -> States]
    BY <1>0, <2>1 DEF Resting
  <2>. QED
    BY Zenon, <1>0, <1>1, <2>1, <2>2 DEF Types
<1>. QED
  BY Zenon, <1>2, <1>3, <1>4 DEF Sender

\* The peer and the administrator keep the types.
LEMMA PeerTypes == ASSUME Types, Peer PROVE Types'
<1>. DEFINE States == {"closed", "connecting", "connected", "unconnected", "eof", "unbound"}
<1>0. sock \in [Sockets -> States]
  BY Zenon DEF Types
<1>1. /\ lost' = lost /\ own' = own /\ raced' = raced /\ listeners' = listeners
      /\ owed' = owed /\ rx' = rx /\ tx' = tx
  BY Zenon DEF Peer, PeerSends, PeerCloses, PeerTurns, RuleVars, NetVars, Settings
<1>2. sock' = sock \/ \E s \in Sockets : sock' = [sock EXCEPT ![s] = "eof"]
  BY Zenon DEF Peer, PeerSends, PeerCloses, PeerTurns, NetVars
<1>3. sock' \in [Sockets -> States]
  BY <1>0, <1>2
<1>. QED
  BY Zenon, <1>1, <1>3 DEF Types

\* The sockets in use are finitely many.
LEMMA InUseIsFinite == ASSUME Types PROVE IsFiniteSet(InUse) /\ Cardinality(InUse) \in Nat
<1>1. tx \in [Senders -> [place : {"idle", "connecting", "writing"}, socket : {0} \cup Sockets]]
      /\ RxRecord(rx)
  BY Zenon DEF Types
<1>2. \A t \in Senders : tx[t].socket \in 0..MaxSockets
  BY <1>1, IOPortsConstants DEF Sockets
<1>3. rx.socket \in 0..MaxSockets
  BY <1>1, IOPortsConstants DEF RxRecord, Sockets
<1>4. InUse \subseteq 0..MaxSockets
  BY Zenon, <1>2, <1>3 DEF InUse
<1>5. IsFiniteSet(0..MaxSockets)
  BY FS_Interval, IOPortsConstants
<1>. QED
  BY Zenon, <1>4, <1>5, FS_Subset, FS_CardinalityType

\* The administrating thread keeps the types.
LEMMA AdminTypes == ASSUME Types, Once, Admin PROVE Types'
<1>. DEFINE States == {"closed", "connecting", "connected", "unconnected", "eof", "unbound"}
<1>0. /\ sock \in [Sockets -> States] /\ own \in {0} \cup Sockets
      /\ listeners \in Seq(Rules) /\ owed \subseteq Rules /\ RxRecord(rx)
      /\ lost \in Nat /\ raced \in Nat
  BY Zenon DEF Types
<1>1. raced' = raced /\ tx' = tx
  BY Zenon DEF Admin, AddRule, DeleteRule, ConfigureBegin, RemoveEnd, ConfigureEnd, AdminKeeps
<1>2. RxRecord([NoThread EXCEPT !.place = "get"]) /\ RxRecord(NoThread)
  <2>1. "get" \in RxPlaces
    BY DEF RxPlaces
  <2>. QED
    BY Zenon, <2>1, RxAnew
<1>3. CASE \E r \in Rules : AddRule(r)
  <2>1. PICK r \in Rules : AddRule(r)
    BY Zenon, <1>3
  <2>2. /\ sock' = sock /\ own' = own /\ owed' = owed /\ listeners' = Append(listeners, r)
        /\ lost' = lost
    BY Zenon, <2>1 DEF AddRule, Settings
  <2>3. rx' = rx \/ rx' = [NoThread EXCEPT !.place = "get"]
    BY Zenon, <2>1 DEF AddRule
  <2>4. RxRecord(rx')
    BY Zenon, <1>0, <1>2, <2>3
  <2>5. listeners' \in Seq(Rules)
    BY <1>0, <2>2, AppendProperties
  <2>. QED
    BY Zenon, <1>1, <1>0, <2>2, <2>4, <2>5 DEF Types
<1>4. CASE \E r \in Rules : DeleteRule(r)
  <2>1. PICK r \in Rules : DeleteRule(r)
    BY Zenon, <1>4
  <2>2. /\ sock' = sock /\ own' = own /\ owed' = owed \ {r}
        /\ listeners' = RemoveAt(listeners, Position(r)) /\ r \in ToSet(listeners)
        /\ lost' = lost
    BY Zenon, <2>1 DEF DeleteRule, Settings
  <2>3. rx' = rx \/ rx' = [rx EXCEPT !.listener = Erased]
    BY Zenon, <2>1 DEF DeleteRule
  <2>4. RxRecord(rx')
    BY Zenon, <1>0, <2>3, RxTurns
  <2>5. Position(r) \in 1..Len(listeners)
    <3>1. PICK i \in 1..Len(listeners) : listeners[i] = r
      BY Zenon, <1>0, <2>2, ListenersAre
    <3>. QED
      BY Zenon, <3>1, PositionIs
  <2>6. listeners' \in Seq(Rules)
    BY Zenon, <1>0, <2>2, <2>5, RemoveIs
  <2>. QED
    BY Zenon, <1>1, <1>0, <2>2, <2>4, <2>6 DEF Types
<1>5. CASE RemoveEnd
  <2>1. /\ sock' = sock /\ own' = own /\ owed' = owed /\ listeners' = listeners
        /\ rx' = NoThread /\ lost' = lost
    BY Zenon, <1>5 DEF RemoveEnd, Settings
  <2>. QED
    BY Zenon, <1>0, <1>1, <1>2, <2>1 DEF Types
<1>6. CASE \E c \in Kinds : ConfigureBegin(c)
  <2>1. /\ sock' = sock /\ own' = own /\ owed' = owed /\ listeners' = listeners /\ rx' = rx
        /\ lost' = lost \/ lost' = lost + Cardinality(InUse)
    BY Zenon, <1>6 DEF ConfigureBegin
  <2>2. Cardinality(InUse) \in Nat
    BY Zenon, InUseIsFinite
  <2>3. lost' \in Nat
    BY <1>0, <2>1, <2>2
  <2>. QED
    BY Zenon, <1>0, <1>1, <2>1, <2>3 DEF Types
<1>7. CASE ConfigureEnd
  <2>1. \/ listeners' = <<>> /\ owed' = {} /\ rx' = NoThread
        \/ listeners' = listeners /\ owed' = owed /\ rx' = rx
    BY Zenon, <1>7 DEF ConfigureEnd
  <2>2. /\ Tcp \/ CanConnect
        /\ \/ sock' = sock /\ own' = own /\ lost' = lost
           \/ /\ ~Tcp /\ own' = Unused /\ lost' = lost + 1
              /\ \E state \in Opened : sock' = [sock EXCEPT ![Unused] = state]
    BY Zenon, <1>7 DEF ConfigureEnd
  <2>3. listeners' \in Seq(Rules) /\ owed' \subseteq Rules
    BY <1>0, <2>1, EmptySeq
  <2>4. RxRecord(rx')
    BY Zenon, <1>0, <1>2, <2>1
  <2>5. own' \in {0} \cup Sockets
    BY Zenon, <1>0, <2>2, UnusedIs
  <2>6. Opened \subseteq States
    BY DEF Opened
  <2>7. sock' \in [Sockets -> States]
    BY <1>0, <2>2, <2>6
  <2>8. lost' \in Nat
    BY <1>0, <2>2
  <2>. QED
    BY Zenon, <1>0, <1>1, <2>3, <2>4, <2>5, <2>7, <2>8 DEF Types
<1>. QED
  BY Zenon, <1>3, <1>4, <1>5, <1>6, <1>7 DEF Admin

-----------------------------------------------------------------------------
\* Nothing that the runs depend on changes.
LEMMA RunsStay ==
    ASSUME RunsInv, listeners' = listeners, rx' = rx, owed' = owed, ran' = ran,
           matched' = matched, prev' = prev
    PROVE  Once' /\ OwedAhead' /\ NobodyLeftOut' /\ Counts'
<1>0. Once /\ OwedAhead /\ NobodyLeftOut /\ Counts
  BY Zenon DEF RunsInv
<1>1. Once'
  BY Zenon, <1>0 DEF Once
<1>2. OwedAhead'
  BY Zenon, <1>0 DEF OwedAhead
<1>3. NobodyLeftOut' /\ Counts'
  BY Zenon, <1>0 DEF NobodyLeftOut, Counts
<1>. QED
  BY Zenon, <1>1, <1>2, <1>3

\* The peer and the sending threads touch nothing the runs depend on.
LEMMA OthersKeepRuns ==
    ASSUME RunsInv, Peer \/ \E t \in Senders : Sender(t)
    PROVE  RunsInv'
<1>1. /\ listeners' = listeners /\ rx' = rx /\ owed' = owed /\ ran' = ran
      /\ matched' = matched /\ prev' = prev /\ admin' = admin
  BY Zenon DEF Peer, PeerSends, PeerCloses, PeerTurns, Sender, TxStart, TxConnected, TxWrites,
               TxKeeps, RuleVars
<1>2. Once' /\ OwedAhead' /\ NobodyLeftOut' /\ Counts'
  BY Zenon, <1>1, RunsStay
<1>3. ThreadForListeners' /\ Removing'
  BY Zenon, <1>1 DEF RunsInv, ThreadForListeners, Removing
<1>. QED
  BY Zenon, <1>2, <1>3 DEF RunsInv

\* The receiving thread calls nobody, before and after.
LEMMA RunsIdle ==
    ASSUME RunsInv, listeners' = listeners, admin' = admin,
           rx.place # "none", rx'.place # "none", rx.place # "calling", rx'.place # "calling",
           owed' = owed, ran' = ran, matched' = matched, prev' = prev
    PROVE  RunsInv'
<1>1. Once' /\ Removing' /\ Counts'
  <2>1. Once'
    BY Zenon DEF RunsInv, Once
  <2>2. Removing' /\ Counts'
    BY Zenon DEF RunsInv, Removing, Counts
  <2>. QED
    BY Zenon, <2>1, <2>2
<1>2. OwedAhead' /\ NobodyLeftOut'
  BY Zenon DEF RunsInv, OwedAhead, NobodyLeftOut
<1>3. ThreadForListeners'
  BY Zenon DEF RunsInv, ThreadForListeners
<1>. QED
  BY Zenon, <1>1, <1>2, <1>3 DEF RunsInv

\* A message is read: every listener is owed the call, and the first one is
\* called first.
LEMMA ReceivesRuns == ASSUME Types, RunsInv, RxReceives PROVE RunsInv'
<1>0. RxRecord(rx) /\ listeners \in Seq(Rules)
  BY Zenon DEF Types
<1>1. /\ rx.place = "reading" /\ listeners' = listeners /\ admin' = admin
      /\ ran' = ran /\ matched' = matched /\ prev' = prev
  BY Zenon DEF RxReceives, RxKeeps
<1>2. "get" \in RxPlaces /\ "ended" \in RxPlaces /\ 0 \in {0} \cup Sockets
  BY DEF RxPlaces
<1>3. CASE owed' = owed /\ (Go("get", 0) \/ Go("ended", 0))
  <2>1. rx'.place = "get" \/ rx'.place = "ended"
    <3>1. CASE rx' = [rx EXCEPT !.place = "get", !.socket = 0]
      BY Zenon, <1>0, <1>2, <3>1, RxGoes
    <3>2. CASE rx' = [rx EXCEPT !.place = "ended", !.socket = 0]
      BY Zenon, <1>0, <1>2, <3>2, RxGoes
    <3>. QED
      BY Zenon, <1>3, <3>1, <3>2 DEF Go
  <2>2. rx.place # "none" /\ rx'.place # "none" /\ rx.place # "calling" /\ rx'.place # "calling"
    BY <1>1, <2>1
  <2>. QED
    BY Zenon, <1>1, <1>3, <2>2, RunsIdle
<1>4. CASE /\ listeners # <<>>
           /\ rx' = [place |-> "calling", socket |-> 0, listener |-> Head(listeners),
                     message |-> Head(inbox[rx.socket])]
           /\ owed' = ToSet(listeners)
  <2>1. rx'.place = "calling" /\ rx'.listener = Head(listeners)
    BY <1>4
  <2>2. Len(listeners) \in Nat /\ 1 \in 1..Len(listeners) /\ Head(listeners) = listeners[1]
    BY <1>0, <1>4, EmptySeq, LenProperties
  <2>3. OwedAhead'
    <3>1. \A r \in owed' : \E i \in 1..Len(listeners) : listeners[i] = r
      BY Zenon, <1>0, <1>4, ListenersAre
    <3>. QED
      BY Zenon, <1>1, <2>1, <2>2, <3>1 DEF OwedAhead
  <2>4. Once' /\ Removing' /\ Counts'
    <3>1. Once'
      BY Zenon, <1>1 DEF RunsInv, Once
    <3>2. Removing' /\ Counts'
      BY Zenon, <1>1 DEF RunsInv, Removing, Counts
    <3>. QED
      BY Zenon, <3>1, <3>2
  <2>5. NobodyLeftOut'
    BY Zenon, <2>1 DEF NobodyLeftOut
  <2>6. rx'.place # "none" /\ rx.place # "none"
    BY <1>1, <2>1
  <2>7. ThreadForListeners'
    BY Zenon, <1>1, <2>6 DEF RunsInv, ThreadForListeners
  <2>. QED
    BY Zenon, <2>3, <2>4, <2>5, <2>7 DEF RunsInv
<1>. QED
  BY Zenon, <1>3, <1>4 DEF RxReceives

\* A listener returns: the one behind it is called, or it was the last one
\* anybody is owed to.
LEMMA CallsRuns == ASSUME Types, RunsInv, RxCalls PROVE RunsInv'
<1>. DEFINE r == rx.listener
<1>0. /\ RxRecord(rx) /\ listeners \in Seq(Rules) /\ Len(listeners) \in Nat
      /\ rx.place = "calling" /\ listeners' = listeners /\ admin' = admin
  BY LenProperties DEF Types, RxCalls
<1>1. Once' /\ Removing'
  BY Zenon, <1>0 DEF RunsInv, Once, Removing
<1>2. CASE r = Erased
  <2>1. rx' = rx /\ owed' = owed /\ ran' = ran /\ matched' = matched /\ prev' = prev
    BY Zenon, <1>2 DEF RxCalls, RuleVars
  <2>2. OwedAhead' /\ NobodyLeftOut'
    BY Zenon, <1>0, <2>1 DEF RunsInv, OwedAhead, NobodyLeftOut
  <2>3. Counts' /\ ThreadForListeners'
    BY Zenon, <1>0, <2>1 DEF RunsInv, Counts, ThreadForListeners
  <2>. QED
    BY Zenon, <1>1, <2>2, <2>3 DEF RunsInv
<1>3. CASE r # Erased
  <2>1. PICK p \in 1..Len(listeners) :
            /\ listeners[p] = r
            /\ \A x \in owed : \E i \in p..Len(listeners) : listeners[i] = x
    BY Zenon, <1>0, <1>3 DEF RunsInv, OwedAhead
  <2>2. Position(r) = p /\ r \in Rules
    <3>1. Position(listeners[p]) = p
      BY Zenon, PositionIs DEF RunsInv
    <3>2. listeners[p] \in Rules
      BY <1>0, ElementOfSeq
    <3>. QED
      BY Zenon, <2>1, <3>1, <3>2
  <2>3. /\ owed' = owed \ {r}
        /\ IF rx.message = "expected"
           THEN /\ matched' = [matched EXCEPT ![r] = @ + 1]
                /\ ran' = [ran EXCEPT ![r] = IF prev[r] THEN @ ELSE @ + 1]
                /\ prev' = [prev EXCEPT ![r] = Pulsed(r)]
           ELSE ran' = ran /\ matched' = matched /\ prev' = prev
        /\ IF NextListener(r) = {}
           THEN rx' = [NoThread EXCEPT !.place = AfterMessage]
           ELSE rx' = [rx EXCEPT !.listener = CHOOSE x \in NextListener(r) : TRUE]
    BY Zenon, <1>3 DEF RxCalls
  <2>4. Counts'
    <3>1. CASE rx.message = "expected"
      <4>1. matched' = [matched EXCEPT ![r] = @ + 1] /\ prev' = [prev EXCEPT ![r] = FALSE]
        BY Zenon, <2>3, <3>1 DEF Pulsed
      <4>2. ~prev[r]
        BY Zenon, <2>2 DEF RunsInv, Counts
      <4>3. ran' = [ran EXCEPT ![r] = @ + 1]
        BY Zenon, <2>3, <3>1, <4>2
      <4>4. /\ ran \in [Rules -> Nat] /\ matched \in [Rules -> Nat] /\ prev \in [Rules -> BOOLEAN]
            /\ \A x \in Rules : ran[x] = matched[x]
        BY Zenon DEF RunsInv, Counts
      <4>. HIDE DEF r
      <4>5. /\ ran' \in [Rules -> Nat] /\ matched' \in [Rules -> Nat]
            /\ \A x \in Rules : ran'[x] = matched'[x]
        BY <2>2, <4>1, <4>3, <4>4
      <4>6. prev' \in [Rules -> BOOLEAN]
        BY <4>1, <4>4
      <4>7. \A x \in Rules : ~prev'[x]
        <5>1. \A x \in Rules : ~prev[x]
          BY Zenon DEF RunsInv, Counts
        <5>2. \A x \in Rules : prev'[x] = IF x = r THEN FALSE ELSE prev[x]
          BY Zenon, <4>1, <4>4
        <5>. QED
          BY Zenon, <5>1, <5>2
      <4>. QED
        BY Zenon, <4>5, <4>6, <4>7 DEF Counts
    <3>2. CASE rx.message # "expected"
      <4>1. ran' = ran /\ matched' = matched /\ prev' = prev
        BY Zenon, <2>3, <3>2
      <4>. QED
        BY Zenon, <4>1 DEF RunsInv, Counts
    <3>. QED
      BY Zenon, <3>1, <3>2
  <2>. HIDE DEF r
  <2>5. \A x \in owed' : \E i \in (p + 1)..Len(listeners) : listeners[i] = x
    <3>. SUFFICES ASSUME NEW x \in owed' PROVE \E i \in (p + 1)..Len(listeners) : listeners[i] = x
      OBVIOUS
    <3>1. x \in owed /\ x # r
      BY <2>3
    <3>2. PICK i \in p..Len(listeners) : listeners[i] = x
      BY Zenon, <2>1, <3>1
    <3>3. i \in (p + 1)..Len(listeners)
      BY <1>0, <2>1, <3>1, <3>2
    <3>. QED
      BY Zenon, <3>2, <3>3
  <2>6. CASE p < Len(listeners)
    <3>1. NextListener(r) = {listeners[p + 1]}
      BY Zenon, <2>2, <2>6 DEF NextListener
    <3>2. rx' = [rx EXCEPT !.listener = listeners[p + 1]]
      <4>1. NextListener(r) # {}
        BY <3>1
      <4>2. (CHOOSE x \in NextListener(r) : TRUE) = listeners[p + 1]
        BY <3>1
      <4>. QED
        BY Zenon, <2>3, <4>1, <4>2
    <3>3. rx'.place = "calling" /\ rx'.listener = listeners[p + 1]
      BY Zenon, <1>0, <3>2, RxTurns
    <3>4. p + 1 \in 1..Len(listeners)
      BY <1>0, <2>6
    <3>5. OwedAhead' /\ NobodyLeftOut'
      BY Zenon, <1>0, <2>5, <3>3, <3>4 DEF OwedAhead, NobodyLeftOut
    <3>6. rx'.place # "none" /\ rx.place # "none"
      BY <1>0, <3>3
    <3>7. ThreadForListeners'
      BY Zenon, <1>0, <3>6 DEF RunsInv, ThreadForListeners
    <3>. QED
      BY Zenon, <1>1, <2>4, <3>5, <3>7 DEF RunsInv
  <2>7. CASE ~(p < Len(listeners))
    <3>1. rx' = [NoThread EXCEPT !.place = "get"]
      <4>1. NextListener(r) = {}
        BY Zenon, <2>2, <2>7 DEF NextListener
      <4>. QED
        BY Zenon, <2>3, <4>1 DEF AfterMessage
    <3>2. rx'.place = "get"
      <4>1. "get" \in RxPlaces
        BY DEF RxPlaces
      <4>. QED
        BY Zenon, <3>1, <4>1, RxAnew
    <3>3. owed' = {}
      BY <1>0, <2>5, <2>7
    <3>4. rx'.place # "none" /\ rx.place # "none" /\ rx'.place # "calling"
      BY <1>0, <3>2
    <3>5. OwedAhead' /\ NobodyLeftOut'
      BY Zenon, <3>3, <3>4 DEF OwedAhead, NobodyLeftOut
    <3>6. ThreadForListeners'
      BY Zenon, <1>0, <3>4 DEF RunsInv, ThreadForListeners
    <3>. QED
      BY Zenon, <1>1, <2>4, <3>5, <3>6 DEF RunsInv
  <2>. QED
    BY Zenon, <2>6, <2>7
<1>. QED
  BY Zenon, <1>2, <1>3

\* Every step of the receiving thread.
LEMMA RxRuns == ASSUME Types, RunsInv, RxThread PROVE RunsInv'
<1>1. CASE RxGet \/ RxConnected \/ RxStopped \/ RxFails
  <2>1. /\ listeners' = listeners /\ admin' = admin /\ owed' = owed
        /\ ran' = ran /\ matched' = matched /\ prev' = prev
    BY Zenon, <1>1 DEF RxGet, RxConnected, RxStopped, RxFails, RxKeeps, RuleVars
  <2>2. rx.place \in {"get", "connecting", "reading"}
    BY <1>1 DEF RxGet, RxConnected, RxStopped, RxFails
  <2>3. \/ rx' = rx
        \/ \E s \in {0} \cup Sockets, q \in {"get", "connecting", "reading", "ended"} :
              rx' = [rx EXCEPT !.place = q, !.socket = s]
    <3>0. RxRecord(rx) /\ own \in {0} \cup Sockets /\ rx.socket \in {0} \cup Sockets
      BY Zenon DEF Types, RxRecord
    <3>1. /\ "connecting" \in {"get", "connecting", "reading", "ended"}
          /\ "reading" \in {"get", "connecting", "reading", "ended"}
          /\ "ended" \in {"get", "connecting", "reading", "ended"}
          /\ 0 \in {0} \cup Sockets
      OBVIOUS
    <3>2. CASE RxGet
      <4>1. \/ CanConnect /\ rx' = [rx EXCEPT !.place = "connecting", !.socket = Unused]
            \/ rx' = [rx EXCEPT !.place = "reading", !.socket = own]
        BY Zenon, <3>2 DEF RxGet, Go
      <4>2. CASE CanConnect /\ rx' = [rx EXCEPT !.place = "connecting", !.socket = Unused]
        <5>1. Unused \in {0} \cup Sockets
          BY Zenon, <4>2, UnusedIs
        <5>. QED
          BY Zenon, <3>1, <4>2, <5>1
      <4>3. CASE rx' = [rx EXCEPT !.place = "reading", !.socket = own]
        BY Zenon, <3>0, <3>1, <4>3
      <4>. QED
        BY Zenon, <4>1, <4>2, <4>3
    <3>3. CASE RxConnected
      BY Zenon, <3>0, <3>1, <3>3 DEF RxConnected, Go
    <3>4. CASE RxStopped \/ RxFails
      <4>1. CASE RxStopped
        BY Zenon, <3>1, <4>1 DEF RxStopped, Go
      <4>2. CASE RxFails
        <5>1. \/ rx' = rx
              \/ rx' = [rx EXCEPT !.place = IF Tcp THEN "get" ELSE "ended", !.socket = 0]
          BY Zenon, <4>2 DEF RxFails, Go
        <5>2. (IF Tcp THEN "get" ELSE "ended") \in {"get", "connecting", "reading", "ended"}
          OBVIOUS
        <5>. QED
          BY Zenon, <3>1, <5>1, <5>2
      <4>. QED
        BY Zenon, <3>4, <4>1, <4>2
    <3>. QED
      BY Zenon, <1>1, <3>2, <3>3, <3>4
  <2>4. rx'.place \in {"get", "connecting", "reading", "ended"}
    <3>1. CASE rx' = rx
      BY <2>2, <3>1
    <3>2. ASSUME NEW s \in {0} \cup Sockets, NEW q \in {"get", "connecting", "reading", "ended"},
                 rx' = [rx EXCEPT !.place = q, !.socket = s]
          PROVE  rx'.place \in {"get", "connecting", "reading", "ended"}
      <4>1. q \in RxPlaces /\ q \in {"get", "connecting", "reading", "ended"}
        BY DEF RxPlaces
      <4>2. rx'.place = q
        BY Zenon, <3>2, <4>1, RxGoes DEF Types
      <4>. QED
        BY Zenon, <4>1, <4>2
    <3>. QED
      BY Zenon, <2>3, <3>1, <3>2
  <2>5. rx.place # "none" /\ rx'.place # "none" /\ rx.place # "calling" /\ rx'.place # "calling"
    BY <2>2, <2>4
  <2>. QED
    BY Zenon, <2>1, <2>5, RunsIdle
<1>. QED
  BY Zenon, <1>1, ReceivesRuns, CallsRuns DEF RxThread

\* A rule begins to listen.
LEMMA AddRuns == ASSUME Types, RunsInv, NEW r \in Rules, AddRule(r) PROVE RunsInv'
<1>0. /\ listeners \in Seq(Rules) /\ Len(listeners) \in Nat
      /\ r \notin ToSet(listeners) /\ listeners' = Append(listeners, r)
      /\ admin = "idle" /\ admin' = admin /\ owed' = owed
      /\ ran' = ran /\ matched' = matched /\ prev' = prev
  BY LenProperties DEF Types, AddRule, Request, AdminKeeps
<1>1. /\ Len(listeners') = Len(listeners) + 1
      /\ \A i \in 1..Len(listeners) : listeners'[i] = listeners[i]
      /\ listeners'[Len(listeners) + 1] = r
      /\ listeners' # <<>>
  BY <1>0, AppendProperties
<1>2. \A i \in 1..Len(listeners) : listeners[i] # r
  BY Zenon, <1>0, ListenersAre
<1>3. Once'
  <2>. SUFFICES ASSUME NEW i \in 1..Len(listeners'), NEW j \in 1..Len(listeners'), i < j
                PROVE  listeners'[i] # listeners'[j]
    BY Zenon DEF Once
  <2>1. i \in 1..Len(listeners) /\ listeners'[i] = listeners[i]
    BY <1>0, <1>1
  <2>2. CASE j = Len(listeners) + 1
    BY Zenon, <1>1, <1>2, <2>1, <2>2
  <2>3. CASE j # Len(listeners) + 1
    <3>1. j \in 1..Len(listeners) /\ listeners'[j] = listeners[j]
      BY <1>0, <1>1, <2>3
    <3>. QED
      BY Zenon, <2>1, <3>1 DEF RunsInv, Once
  <2>. QED
    BY Zenon, <2>2, <2>3
<1>4. Counts' /\ Removing'
  <2>1. admin' # "removing"
    BY <1>0
  <2>. QED
    BY Zenon, <1>0, <2>1 DEF RunsInv, Counts, Removing
<1>5. CASE listeners = <<>>
  <2>1. rx' = [NoThread EXCEPT !.place = "get"]
    BY Zenon, <1>5 DEF AddRule
  <2>2. rx'.place = "get"
    BY <2>1 DEF NoThread
  <2>3. rx'.place # "none" /\ rx'.place # "calling"
    BY <2>2
  <2>4. rx.place = "none"
    BY Zenon, <1>0, <1>5 DEF RunsInv, ThreadForListeners
  <2>5. owed = {}
    BY <2>4 DEF RunsInv, NobodyLeftOut
  <2>6. OwedAhead' /\ NobodyLeftOut'
    BY Zenon, <1>0, <2>3, <2>5 DEF OwedAhead, NobodyLeftOut
  <2>7. ThreadForListeners'
    BY Zenon, <1>1, <2>3 DEF ThreadForListeners
  <2>. QED
    BY Zenon, <1>3, <1>4, <2>6, <2>7 DEF RunsInv
<1>6. CASE listeners # <<>>
  <2>1. rx' = rx
    BY Zenon, <1>6 DEF AddRule
  <2>2. OwedAhead'
    <3>. SUFFICES ASSUME rx.place = "calling", rx.listener # Erased
                  PROVE  \E p \in 1..Len(listeners') :
                            /\ listeners'[p] = rx.listener
                            /\ \A x \in owed : \E i \in p..Len(listeners') : listeners'[i] = x
      BY Zenon, <1>0, <2>1 DEF OwedAhead
    <3>1. PICK p \in 1..Len(listeners) :
            /\ listeners[p] = rx.listener
            /\ \A x \in owed : \E i \in p..Len(listeners) : listeners[i] = x
      BY Zenon DEF RunsInv, OwedAhead
    <3>2. p \in 1..Len(listeners') /\ listeners'[p] = rx.listener
      BY <1>0, <1>1, <3>1
    <3>3. ASSUME NEW x \in owed PROVE \E i \in p..Len(listeners') : listeners'[i] = x
      <4>1. PICK i \in p..Len(listeners) : listeners[i] = x
        BY Zenon, <3>1
      <4>2. i \in p..Len(listeners') /\ listeners'[i] = x
        BY <1>0, <1>1, <3>1, <4>1
      <4>. QED
        BY Zenon, <4>2
    <3>. QED
      BY Zenon, <3>2, <3>3
  <2>3. NobodyLeftOut'
    BY Zenon, <1>0, <2>1 DEF RunsInv, NobodyLeftOut
  <2>4. ThreadForListeners'
    BY Zenon, <1>0, <1>1, <1>6, <2>1 DEF RunsInv, ThreadForListeners
  <2>. QED
    BY Zenon, <1>3, <1>4, <2>2, <2>3, <2>4 DEF RunsInv
<1>. QED
  BY Zenon, <1>5, <1>6

\* A rule leaves: the others close up, in the same order.
LEMMA DeleteRuns == ASSUME Types, RunsInv, NEW r \in Rules, DeleteRule(r) PROVE RunsInv'
<1>. DEFINE k == Position(r)
            n == Len(listeners)
<1>0. /\ listeners \in Seq(Rules) /\ n \in Nat /\ RxRecord(rx)
      /\ r \in ToSet(listeners) /\ listeners' = RemoveAt(listeners, k)
      /\ admin = "idle" /\ owed' = owed \ {r}
      /\ ran' = ran /\ matched' = matched /\ prev' = prev
  BY LenProperties DEF Types, DeleteRule, Request, AdminKeeps
<1>1. k \in 1..n /\ listeners[k] = r
  <2>1. PICK i \in 1..n : listeners[i] = r
    BY Zenon, <1>0, ListenersAre
  <2>2. k = i
    BY Zenon, <2>1, PositionIs DEF RunsInv
  <2>. QED
    BY Zenon, <2>1, <2>2
<1>2. /\ Len(listeners') = n - 1
      /\ \A i \in 1..(n - 1) : listeners'[i] = IF i < k THEN listeners[i] ELSE listeners[i + 1]
  BY Zenon, <1>0, <1>1, RemoveIs
<1>3. \A i, j \in 1..n : i < j => listeners[i] # listeners[j]
  BY Zenon DEF RunsInv, Once
<1>. HIDE DEF k, n
<1>4. Once'
  <2>. SUFFICES ASSUME NEW i \in 1..(n - 1), NEW j \in 1..(n - 1), i < j
                PROVE  listeners'[i] # listeners'[j]
    BY Zenon, <1>2 DEF Once
  <2>1. PICK a \in 1..n : listeners'[i] = listeners[a] /\ a = IF i < k THEN i ELSE i + 1
    <3>1. i \in 1..n /\ i + 1 \in 1..n
      BY <1>0
    <3>. QED
      BY Zenon, <1>2, <3>1
  <2>2. PICK b \in 1..n : listeners'[j] = listeners[b] /\ b = IF j < k THEN j ELSE j + 1
    <3>1. j \in 1..n /\ j + 1 \in 1..n
      BY <1>0
    <3>. QED
      BY Zenon, <1>2, <3>1
  <2>3. a < b
    BY <1>1, <2>1, <2>2
  <2>. QED
    BY Zenon, <1>3, <2>1, <2>2, <2>3
<1>5. Counts'
  BY Zenon, <1>0 DEF RunsInv, Counts
<1>6. rx.place # "none"
  <2>1. listeners # <<>>
    BY <1>0, <1>1, EmptySeq DEF n
  <2>. QED
    BY Zenon, <1>0, <2>1 DEF RunsInv, ThreadForListeners
<1>7. rx'.place = rx.place
  <2>1. rx' = rx \/ rx' = [rx EXCEPT !.listener = Erased]
    BY Zenon DEF DeleteRule
  <2>. QED
    BY Zenon, <1>0, <2>1, RxTurns
<1>8. Removing' /\ ThreadForListeners'
  <2>1. CASE listeners' = <<>>
    <3>1. admin' = "removing"
      BY Zenon, <1>6, <2>1 DEF DeleteRule, LastOut
    <3>. QED
      BY Zenon, <2>1, <3>1 DEF Removing, ThreadForListeners
  <2>2. CASE listeners' # <<>>
    <3>1. admin' = admin
      BY Zenon, <2>2 DEF DeleteRule, LastOut
    <3>2. admin' # "removing"
      BY <1>0, <3>1
    <3>. QED
      BY Zenon, <1>6, <1>7, <2>2, <3>2 DEF Removing, ThreadForListeners
  <2>. QED
    BY Zenon, <2>1, <2>2
<1>9. NobodyLeftOut'
  <2>1. owed = {} => owed' = {}
    BY <1>0
  <2>. QED
    BY Zenon, <1>7, <2>1 DEF RunsInv, NobodyLeftOut
<1>10. OwedAhead'
  <2>. SUFFICES ASSUME rx'.place = "calling", rx'.listener # Erased
                PROVE  \E p \in 1..Len(listeners') :
                          /\ listeners'[p] = rx'.listener
                          /\ \A x \in owed' : \E i \in p..Len(listeners') : listeners'[i] = x
    BY Zenon DEF OwedAhead
  <2>1. rx' = rx /\ rx.listener # r
    <3>1. CASE rx.listener = r
      <4>1. rx' = [rx EXCEPT !.listener = Erased]
        BY Zenon, <1>7, <3>1 DEF DeleteRule
      <4>2. rx'.listener = Erased
        BY Zenon, <1>0, <4>1, RxTurns
      <4>. QED
        BY Zenon, <4>2
    <3>2. CASE rx.listener # r
      BY Zenon, <3>2 DEF DeleteRule
    <3>. QED
      BY Zenon, <3>1, <3>2
  <2>2. PICK p \in 1..n :
            /\ listeners[p] = rx.listener
            /\ \A x \in owed : \E i \in p..n : listeners[i] = x
    BY Zenon, <2>1 DEF RunsInv, OwedAhead, n
  <2>3. \A i \in 1..n : i # k =>
            \E a \in 1..(n - 1) : a = (IF i < k THEN i ELSE i - 1) /\ listeners'[a] = listeners[i]
    <3>. SUFFICES ASSUME NEW i \in 1..n, i # k
                  PROVE  \E a \in 1..(n - 1) :
                            a = (IF i < k THEN i ELSE i - 1) /\ listeners'[a] = listeners[i]
      BY Zenon
    <3>1. CASE i < k
      BY <1>0, <1>1, <1>2, <3>1
    <3>2. CASE ~(i < k)
      <4>1. i - 1 \in 1..(n - 1) /\ ~(i - 1 < k) /\ (i - 1) + 1 = i
        BY <1>0, <1>1, <3>2
      <4>2. listeners'[i - 1] = listeners[i]
        BY Zenon, <1>2, <4>1
      <4>. QED
        BY Zenon, <3>2, <4>1, <4>2
    <3>. QED
      BY Zenon, <3>1, <3>2
  <2>4. p # k
    BY Zenon, <1>1, <2>1, <2>2
  <2>5. PICK q \in 1..(n - 1) : q = (IF p < k THEN p ELSE p - 1) /\ listeners'[q] = listeners[p]
    BY Zenon, <2>3, <2>4
  <2>6. ASSUME NEW x \in owed' PROVE \E i \in q..(n - 1) : listeners'[i] = x
    <3>1. x \in owed /\ x # r
      BY <1>0
    <3>2. PICK i \in p..n : listeners[i] = x
      BY Zenon, <2>2, <3>1
    <3>3. i \in 1..n /\ i # k
      BY <1>0, <1>1, <3>1, <3>2
    <3>4. PICK a \in 1..(n - 1) : a = (IF i < k THEN i ELSE i - 1) /\ listeners'[a] = listeners[i]
      BY Zenon, <2>3, <3>3
    <3>5. a \in q..(n - 1)
      BY <1>0, <1>1, <2>4, <2>5, <3>2, <3>3, <3>4
    <3>. QED
      BY Zenon, <3>2, <3>4, <3>5
  <2>7. listeners'[q] = rx'.listener
    BY Zenon, <2>1, <2>2, <2>5
  <2>8. q \in 1..Len(listeners') /\ q..Len(listeners') = q..(n - 1)
    BY Zenon, <1>2
  <2>9. \A x \in owed' : \E i \in q..Len(listeners') : listeners'[i] = x
    BY Zenon, <2>6, <2>8
  <2>. QED
    BY Zenon, <2>7, <2>8, <2>9
<1>. QED
  BY Zenon, <1>4, <1>5, <1>8, <1>9, <1>10 DEF RunsInv

\* Every request of the administrator.
LEMMA AdminRuns == ASSUME Types, RunsInv, Admin PROVE RunsInv'
<1>1. ASSUME /\ listeners' = listeners /\ rx' = rx /\ owed' = owed /\ ran' = ran
             /\ matched' = matched /\ prev' = prev
             /\ admin \in {"idle", "configuring"} /\ admin' \in {"idle", "configuring"}
      PROVE  RunsInv'
  <2>1. admin # "removing" /\ admin' # "removing"
    BY <1>1
  <2>2. Once' /\ OwedAhead' /\ NobodyLeftOut' /\ Counts'
    BY Zenon, <1>1, RunsStay
  <2>3. ThreadForListeners' /\ Removing'
    BY Zenon, <1>1, <2>1 DEF RunsInv, ThreadForListeners, Removing
  <2>. QED
    BY Zenon, <2>2, <2>3 DEF RunsInv
<1>2. ASSUME /\ listeners' = <<>> /\ rx' = NoThread /\ owed' = {} /\ ran' = ran
             /\ matched' = matched /\ prev' = prev /\ admin' = "idle"
      PROVE  RunsInv'
  <2>1. rx'.place = "none" /\ rx'.place # "calling" /\ admin' # "removing"
    BY <1>2 DEF NoThread
  <2>2. Once'
    <3>1. Len(listeners') = 0
      BY <1>2, EmptySeq
    <3>. QED
      BY <3>1 DEF Once
  <2>3. OwedAhead' /\ NobodyLeftOut' /\ ThreadForListeners' /\ Removing'
    BY Zenon, <1>2, <2>1 DEF OwedAhead, NobodyLeftOut, ThreadForListeners, Removing
  <2>4. Counts'
    BY Zenon, <1>2 DEF RunsInv, Counts
  <2>. QED
    BY Zenon, <2>2, <2>3, <2>4 DEF RunsInv
<1>3. CASE \E c \in Kinds : ConfigureBegin(c)
  <2>1. /\ listeners' = listeners /\ rx' = rx /\ owed' = owed /\ ran' = ran
        /\ matched' = matched /\ prev' = prev /\ admin = "idle" /\ admin' = "configuring"
    BY Zenon, <1>3 DEF ConfigureBegin, Request, AdminKeeps
  <2>2. admin \in {"idle", "configuring"} /\ admin' \in {"idle", "configuring"}
    BY <2>1
  <2>. QED
    BY Zenon, <1>1, <2>1, <2>2
<1>4. CASE RemoveEnd
  <2>1. /\ listeners' = <<>> /\ rx' = NoThread /\ admin' = "idle" /\ ran' = ran
        /\ matched' = matched /\ prev' = prev /\ owed' = owed
    BY Zenon, <1>4 DEF RemoveEnd, AdminKeeps, RunsInv, Removing
  <2>2. rx.place # "calling"
    BY <1>4 DEF RemoveEnd, Joined
  <2>3. owed' = {}
    BY Zenon, <2>1, <2>2 DEF RunsInv, NobodyLeftOut
  <2>. QED
    BY Zenon, <1>2, <2>1, <2>3
<1>5. CASE ConfigureEnd
  <2>1. /\ admin' = "idle" /\ admin = "configuring" /\ ran' = ran
        /\ matched' = matched /\ prev' = prev
    BY Zenon, <1>5 DEF ConfigureEnd, AdminKeeps
  <2>2. admin \in {"idle", "configuring"} /\ admin' \in {"idle", "configuring"}
    BY <2>1
  <2>3. CASE RxEnabled
    <3>1. rx' = NoThread /\ listeners' = <<>> /\ owed' = {}
      BY Zenon, <1>5, <2>3 DEF ConfigureEnd
    <3>. QED
      BY Zenon, <1>2, <2>1, <3>1
  <2>4. CASE ~RxEnabled
    <3>1. rx' = rx /\ listeners' = listeners /\ owed' = owed
      BY Zenon, <1>5, <2>4 DEF ConfigureEnd
    <3>. QED
      BY Zenon, <1>1, <2>1, <2>2, <3>1
  <2>. QED
    BY Zenon, <2>3, <2>4
<1>. QED
  BY Zenon, <1>3, <1>4, <1>5, AddRuns, DeleteRuns DEF Admin

-----------------------------------------------------------------------------
\* The sockets are finitely many, and 0 is none of them.
LEMMA LooseIsFinite ==
    /\ IsFiniteSet(Loose) /\ Cardinality(Loose) \in Nat
    /\ IsFiniteSet(Sockets) /\ 0 \notin Sockets
<1>1. IsFiniteSet(Sockets) /\ 0 \notin Sockets
  BY FS_Interval, IOPortsConstants DEF Sockets
<1>2. Loose \subseteq Sockets
  BY DEF Loose
<1>. QED
  BY <1>1, <1>2, FS_Subset, FS_CardinalityType

\* At most the sockets of E come loose, and all of them are counted.
LEMMA SomeLoose ==
    ASSUME Types, SocketsInv, Types', NEW E, IsFiniteSet(E), Loose' \subseteq Loose \cup E,
           raced' + lost' = raced + lost + Cardinality(E)
    PROVE  SocketsInv'
<1>1. IsFiniteSet(Loose) /\ Cardinality(Loose) \in Nat /\ Cardinality(E) \in Nat
  BY LooseIsFinite, FS_CardinalityType
<1>2. /\ IsFiniteSet(Loose \cup E)
      /\ Cardinality(Loose \cup E)
            = Cardinality(Loose) + Cardinality(E) - Cardinality(Loose \cap E)
  BY Zenon, <1>1, FS_Union
<1>3. IsFiniteSet(Loose \cap E) /\ Cardinality(Loose \cap E) \in Nat
  BY <1>1, FS_Intersection, FS_CardinalityType
<1>4. /\ Cardinality(Loose') <= Cardinality(Loose \cup E)
      /\ Cardinality(Loose') \in Nat /\ Cardinality(Loose \cup E) \in Nat
  BY <1>2, FS_Subset, FS_CardinalityType
<1>5. Cardinality(Loose) <= raced + lost /\ {raced, lost, raced', lost'} \subseteq Nat
  BY DEF SocketsInv, Types
<1>6. Cardinality(Loose') <= raced' + lost'
  BY <1>1, <1>2, <1>3, <1>4, <1>5
<1>. QED
  BY Zenon, <1>6 DEF SocketsInv

\* No socket comes loose.
LEMMA NoneLoose ==
    ASSUME Types, SocketsInv, Types', Loose' \subseteq Loose, raced' = raced, lost' = lost
    PROVE  SocketsInv'
<1>1. IsFiniteSet({}) /\ Cardinality({}) = 0
  BY FS_EmptySet
<1>2. raced' + lost' = raced + lost + Cardinality({})
  BY <1>1 DEF Types
<1>3. Loose' \subseteq Loose \cup {}
  OBVIOUS
<1>. QED
  BY Zenon, <1>1, <1>2, <1>3, SomeLoose

\* A socket that is opened is held, and one that is not held any more is closed.
LEMMA StillHeld ==
    ASSUME NEW E,
           \A s \in Sockets \ E : Closed(s) => Closed(s)' \/ Held(s)',
           \A s \in Sockets \ E : Held(s) => Closed(s)' \/ Held(s)'
    PROVE  Loose' \subseteq Loose \cup E
<1>1. Sockets' = Sockets
  BY DEF Sockets
<1>. QED
  BY Zenon, <1>1 DEF Loose

\* Whoever uses a socket still uses it.
LEMMA HeldByUsers ==
    ASSUME kind' = kind, own' = own, NEW s \in Sockets,
           Awaited(s) => Awaited(s)', InHand(s) => InHand(s)'
    PROVE  Held(s) => Held(s)'
<1>. QED
  BY Zenon DEF Held

\* A thread takes an unused socket for a new connection, which it awaits.
LEMMA BeginsSockets ==
    ASSUME Types, SocketsInv, Types', Tcp, NEW u, sock' = [sock EXCEPT ![u] = "connecting"],
           kind' = kind, own' = own, raced' = raced, lost' = lost,
           Awaited(u)', InHand(u)',
           \A s \in Sockets : Awaited(s) => Awaited(s)',
           \A s \in Sockets : InHand(s) => InHand(s)'
    PROVE  SocketsInv'
<1>1. \A s \in Sockets : Held(s) => Held(s)'
  BY Zenon, HeldByUsers
<1>2. Held(u)'
  BY DEF Held, Tcp
<1>3. \A s \in Sockets : s # u => (Closed(s)' <=> Closed(s))
  BY DEF Closed, Types
<1>4. Loose' \subseteq Loose \cup {}
  BY Zenon, <1>1, <1>2, <1>3, StillHeld
<1>5. Loose' \subseteq Loose
  BY Zenon, <1>4
<1>. QED
  BY Zenon, <1>5, NoneLoose

\* A thread goes on with a socket the port has already.
LEMMA ReusesSockets ==
    ASSUME Types, SocketsInv, Types', sock' = sock,
           kind' = kind, own' = own, raced' = raced, lost' = lost,
           \A s \in Sockets : Awaited(s) => Awaited(s)',
           \A s \in Sockets : InHand(s) => InHand(s)'
    PROVE  SocketsInv'
<1>1. \A s \in Sockets : Held(s) => Held(s)'
  BY Zenon, HeldByUsers
<1>2. Loose' \subseteq Loose \cup {}
  BY Zenon, <1>1, StillHeld DEF Closed
<1>3. Loose' \subseteq Loose
  BY Zenon, <1>2
<1>. QED
  BY Zenon, <1>3, NoneLoose

\* A connection is made: it is in use, and the permanent one takes the place of
\* one that was there before.
LEMMA ConnectsSockets ==
    ASSUME Types, SocketsInv, Types', NEW c \in {0} \cup Sockets, Connects(c),
           kind' = kind, lost' = lost,
           \A s \in Sockets : s # c /\ Awaited(s) => Awaited(s)',
           \A s \in Sockets : InHand(s) => InHand(s)'
    PROVE  SocketsInv'
<1>1. \A s \in Sockets : Closed(s)' <=> Closed(s)
  BY DEF Closed, Types, Connects
<1>2. CASE ~Permanent
  <2>1. own' = own /\ raced' = raced
    BY Zenon, <1>2 DEF Connects, Kept
  <2>2. \A s \in Sockets : Held(s) => Held(s)'
    BY Zenon, <1>2, <2>1 DEF Held, Permanent
  <2>3. Loose' \subseteq Loose \cup {}
    BY Zenon, <1>1, <2>2, StillHeld
  <2>4. Loose' \subseteq Loose
    BY Zenon, <2>3
  <2>. QED
    BY Zenon, <2>1, <2>4, NoneLoose
<1>3. CASE Permanent
  <2>1. own' = c /\ raced' = IF own # 0 THEN raced + 1 ELSE raced
    BY Zenon, <1>3 DEF Connects, Kept
  <2>2. kind # "tcpOnce"
    BY <1>3 DEF Permanent
  <2>3. \A s \in Sockets : s # own /\ Held(s) => Held(s)'
    BY Zenon, <1>3, <2>1, <2>2 DEF Held, Permanent
  <2>4. Loose' \subseteq Loose \cup {own}
    BY Zenon, <1>1, <2>3, StillHeld
  <2>5. CASE own # 0
    <3>1. IsFiniteSet({own}) /\ Cardinality({own}) = 1
      BY FS_Singleton
    <3>2. raced' + lost' = raced + lost + Cardinality({own})
      BY <2>1, <2>5, <3>1 DEF Types
    <3>. QED
      BY Zenon, <2>4, <3>1, <3>2, SomeLoose
  <2>6. CASE own = 0
    <3>1. Loose' \subseteq Sockets
      BY DEF Loose, Sockets
    <3>2. Loose' \subseteq Loose
      BY Zenon, <2>4, <2>6, <3>1, LooseIsFinite
    <3>. QED
      BY Zenon, <2>1, <2>6, <3>2, NoneLoose
  <2>. QED
    BY Zenon, <2>5, <2>6
<1>. QED
  BY Zenon, <1>2, <1>3

\* A socket is let go, and closed if nobody holds it for good.
LEMMA ReleasesSockets ==
    ASSUME Types, SocketsInv, Types', NEW c, Release(c, inbox'[c]) \/ sock' = Released(c),
           kind' = kind, own' = own, raced' = raced, lost' = lost,
           \A s \in Sockets : Awaited(s) => Awaited(s)',
           \A s \in Sockets : s # c /\ InHand(s) => InHand(s)'
    PROVE  SocketsInv'
<1>1. sock' = Released(c)
  BY Zenon DEF Release
<1>2. CASE kind = "tcpOnce"
  <2>1. sock' = [sock EXCEPT ![c] = "closed"]
    BY Zenon, <1>1, <1>2 DEF Released
  <2>2. \A s \in Sockets : Closed(s) => Closed(s)'
    BY <2>1 DEF Closed, Types
  <2>3. c \in Sockets => Closed(c)'
    BY <2>1 DEF Closed, Types
  <2>4. \A s \in Sockets : s # c => (Held(s) => Held(s)')
    BY Zenon, HeldByUsers
  <2>5. Loose' \subseteq Loose \cup {}
    BY Zenon, <2>2, <2>3, <2>4, StillHeld
  <2>6. Loose' \subseteq Loose
    BY Zenon, <2>5
  <2>. QED
    BY Zenon, <2>6, NoneLoose
<1>3. CASE kind # "tcpOnce"
  <2>1. sock' = sock
    BY Zenon, <1>1, <1>3 DEF Released
  <2>2. \A s \in Sockets : Held(s) => Held(s)'
    BY Zenon, <1>3 DEF Held
  <2>3. Loose' \subseteq Loose \cup {}
    BY Zenon, <2>1, <2>2, StillHeld DEF Closed
  <2>4. Loose' \subseteq Loose
    BY Zenon, <2>3
  <2>. QED
    BY Zenon, <2>4, NoneLoose
<1>. QED
  BY Zenon, <1>2, <1>3

\* The receiving thread.
LEMMA RxSockets == ASSUME Types, SocketsInv, Types', RxThread PROVE SocketsInv'
<1>0. /\ RxRecord(rx) /\ own \in {0} \cup Sockets /\ rx.socket \in {0} \cup Sockets
      /\ "connecting" \in RxPlaces /\ "reading" \in RxPlaces
  BY DEF Types, RxRecord, RxPlaces
<1>1. kind' = kind /\ lost' = lost /\ tx' = tx
  BY Zenon DEF RxThread, RxGet, RxConnected, RxReceives, RxStopped, RxFails, RxCalls, RxKeeps,
               Settings
<1>2. \A s, places : UsedByTx(s, places) => UsedByTx(s, places)'
  BY Zenon, <1>1 DEF UsedByTx
<1>3. CASE RxGet
  <2>1. own' = own /\ raced' = raced /\ rx.place = "get"
    BY Zenon, <1>3 DEF RxGet
  <2>2. \A s : ~UsedByRx(s, {"connecting"}) /\ ~UsedByRx(s, {"connecting", "reading"})
    BY <2>1 DEF UsedByRx
  <2>3. \A s \in Sockets : (Awaited(s) => Awaited(s)') /\ (InHand(s) => InHand(s)')
    BY Zenon, <1>2, <2>2 DEF Awaited, InHand
  <2>4. CASE Tcp /\ ~Reused
    <3>0. PICK u : u = Unused
      OBVIOUS
    <3>1. /\ CanConnect /\ sock' = [sock EXCEPT ![u] = "connecting"]
          /\ rx' = [rx EXCEPT !.place = "connecting", !.socket = u]
      BY Zenon, <1>3, <2>4, <3>0 DEF RxGet, Go
    <3>2. u \in {0} \cup Sockets
      BY Zenon, <3>0, <3>1, UnusedIs
    <3>3. rx'.place = "connecting" /\ rx'.socket = u
      BY Zenon, <1>0, <3>1, <3>2, RxGoes
    <3>4. Awaited(u)' /\ InHand(u)'
      BY <3>3 DEF Awaited, InHand, UsedByRx
    <3>. QED
      BY Zenon, <1>1, <2>1, <2>3, <2>4, <3>1, <3>4, BeginsSockets
  <2>5. CASE ~(Tcp /\ ~Reused)
    <3>1. sock' = sock
      BY Zenon, <1>3, <2>5 DEF RxGet
    <3>. QED
      BY Zenon, <1>1, <2>1, <2>3, <3>1, ReusesSockets
  <2>. QED
    BY Zenon, <2>4, <2>5
<1>4. CASE RxConnected
  <2>1. /\ rx.place = "connecting" /\ Connects(rx.socket)
        /\ rx' = [rx EXCEPT !.place = "reading", !.socket = rx.socket]
    BY Zenon, <1>4 DEF RxConnected, Go
  <2>2. rx'.place = "reading" /\ rx'.socket = rx.socket
    BY Zenon, <1>0, <2>1, RxGoes
  <2>3. \A s : UsedByRx(s, {"connecting"}) => s = rx.socket
    BY DEF UsedByRx
  <2>4. \A s : UsedByRx(s, {"connecting", "reading"}) => UsedByRx(s, {"connecting", "reading"})'
    BY <2>2 DEF UsedByRx
  <2>5. \A s \in Sockets : s # rx.socket /\ Awaited(s) => Awaited(s)'
    BY Zenon, <1>2, <2>3 DEF Awaited
  <2>6. \A s \in Sockets : InHand(s) => InHand(s)'
    BY Zenon, <1>2, <2>4 DEF InHand
  <2>. QED
    BY Zenon, <1>0, <1>1, <2>1, <2>5, <2>6, ConnectsSockets
<1>5. CASE RxReceives \/ RxStopped \/ RxFails
  <2>1. /\ own' = own /\ raced' = raced /\ rx.place = "reading"
        /\ sock' = Released(rx.socket)
    BY Zenon, <1>5 DEF RxReceives, RxStopped, RxFails, Release
  <2>2. \A s : ~UsedByRx(s, {"connecting"})
    BY <2>1 DEF UsedByRx
  <2>3. \A s : UsedByRx(s, {"connecting", "reading"}) => s = rx.socket
    BY DEF UsedByRx
  <2>4. \A s \in Sockets : Awaited(s) => Awaited(s)'
    BY Zenon, <1>2, <2>2 DEF Awaited
  <2>5. \A s \in Sockets : s # rx.socket /\ InHand(s) => InHand(s)'
    BY Zenon, <1>2, <2>3 DEF InHand
  <2>. QED
    BY Zenon, <1>1, <2>1, <2>4, <2>5, ReleasesSockets
<1>6. CASE RxCalls
  <2>1. own' = own /\ raced' = raced /\ rx.place = "calling" /\ sock' = sock
    BY Zenon, <1>6 DEF RxCalls, NetVars
  <2>2. \A s : ~UsedByRx(s, {"connecting"}) /\ ~UsedByRx(s, {"connecting", "reading"})
    BY <2>1 DEF UsedByRx
  <2>3. \A s \in Sockets : (Awaited(s) => Awaited(s)') /\ (InHand(s) => InHand(s)')
    BY Zenon, <1>2, <2>2 DEF Awaited, InHand
  <2>. QED
    BY Zenon, <1>1, <2>1, <2>3, ReusesSockets
<1>. QED
  BY Zenon, <1>3, <1>4, <1>5, <1>6 DEF RxThread

\* A thread that sends.
LEMMA SenderSockets ==
    ASSUME Types, SocketsInv, Types', NEW t \in Senders, Sender(t)
    PROVE  SocketsInv'
<1>. DEFINE Threads == [Senders -> [place : {"idle", "connecting", "writing"},
                                    socket : {0} \cup Sockets]]
<1>0. tx \in Threads /\ tx[t].socket \in {0} \cup Sockets
  BY DEF Types
<1>1. kind' = kind /\ lost' = lost /\ rx' = rx
  BY Zenon DEF Sender, TxStart, TxConnected, TxWrites, TxKeeps, Settings
<1>2. \A s, places : UsedByRx(s, places) => UsedByRx(s, places)'
  BY Zenon, <1>1 DEF UsedByRx
\* The other threads keep their sockets.
<1>3. ASSUME NEW v, tx' = [tx EXCEPT ![t] = v], NEW s, NEW places,
             ~(tx[t].place \in places /\ tx[t].socket = s) \/ (v.place \in places /\ v.socket = s)
      PROVE  UsedByTx(s, places) => UsedByTx(s, places)'
  <2>1. /\ DOMAIN tx = Senders
        /\ tx'[t] = v
        /\ \A u \in Senders : u # t => tx'[u] = tx[u]
    BY <1>0, <1>3
  <2>. QED
    BY Zenon, <1>3, <2>1 DEF UsedByTx
<1>4. CASE TxStart(t)
  <2>1. own' = own /\ raced' = raced /\ tx[t].place = "idle"
    BY Zenon, <1>4 DEF TxStart
  <2>2. tx[t].place \notin {"connecting"} /\ tx[t].place \notin {"connecting", "writing"}
    BY <2>1
  <2>3. CASE Tcp /\ ~Reused
    <3>0. PICK u : u = Unused
      OBVIOUS
    <3>1. /\ CanConnect /\ sock' = [sock EXCEPT ![u] = "connecting"]
          /\ tx' = [tx EXCEPT ![t] = [place |-> "connecting", socket |-> u]]
      BY Zenon, <1>4, <2>3, <3>0 DEF TxStart
    <3>2. tx'[t].place = "connecting" /\ tx'[t].socket = u
      BY <1>0, <3>1
    <3>3. Awaited(u)' /\ InHand(u)'
      BY <3>2 DEF Awaited, InHand, UsedByTx
    <3>4. \A s \in Sockets : (Awaited(s) => Awaited(s)') /\ (InHand(s) => InHand(s)')
      BY Zenon, <1>2, <1>3, <2>2, <3>1 DEF Awaited, InHand
    <3>. QED
      BY Zenon, <1>1, <2>1, <2>3, <3>1, <3>3, <3>4, BeginsSockets
  <2>4. CASE ~(Tcp /\ ~Reused)
    <3>1. sock' = sock /\ tx' = [tx EXCEPT ![t] = [place |-> "writing", socket |-> own]]
      BY Zenon, <1>4, <2>4 DEF TxStart
    <3>2. \A s \in Sockets : (Awaited(s) => Awaited(s)') /\ (InHand(s) => InHand(s)')
      BY Zenon, <1>2, <1>3, <2>2, <3>1 DEF Awaited, InHand
    <3>. QED
      BY Zenon, <1>1, <2>1, <3>1, <3>2, ReusesSockets
  <2>. QED
    BY Zenon, <2>3, <2>4
<1>5. CASE TxConnected(t)
  <2>1. /\ tx[t].place = "connecting" /\ Connects(tx[t].socket)
        /\ tx' = [tx EXCEPT ![t].place = "writing"]
    BY Zenon, <1>5 DEF TxConnected
  <2>2. /\ tx' = [tx EXCEPT ![t] = [tx[t] EXCEPT !.place = "writing"]]
        /\ [tx[t] EXCEPT !.place = "writing"].place = "writing"
        /\ [tx[t] EXCEPT !.place = "writing"].socket = tx[t].socket
    BY <1>0, <2>1
  <2>3. \A s \in Sockets : s # tx[t].socket /\ Awaited(s) => Awaited(s)'
    BY Zenon, <1>2, <1>3, <2>2 DEF Awaited
  <2>4. "writing" \in {"connecting", "writing"}
    OBVIOUS
  <2>5. \A s \in Sockets : InHand(s) => InHand(s)'
    BY Zenon, <1>2, <1>3, <2>2, <2>4 DEF InHand
  <2>. QED
    BY Zenon, <1>0, <1>1, <2>1, <2>3, <2>5, ConnectsSockets
<1>6. CASE TxWrites(t)
  <2>1. /\ own' = own /\ raced' = raced /\ tx[t].place = "writing"
        /\ tx' = [tx EXCEPT ![t] = Resting] /\ sock' = Released(tx[t].socket)
    BY Zenon, <1>6 DEF TxWrites, Release
  <2>2. tx[t].place \notin {"connecting"}
    BY <2>1
  <2>3. \A s \in Sockets : Awaited(s) => Awaited(s)'
    BY Zenon, <1>2, <1>3, <2>1, <2>2 DEF Awaited
  <2>4. \A s \in Sockets : s # tx[t].socket /\ InHand(s) => InHand(s)'
    BY Zenon, <1>2, <1>3, <2>1 DEF InHand
  <2>. QED
    BY Zenon, <1>1, <2>1, <2>3, <2>4, ReleasesSockets
<1>. QED
  BY Zenon, <1>4, <1>5, <1>6 DEF Sender

\* The peer closes no socket of the program.
LEMMA PeerSockets == ASSUME Types, SocketsInv, Types', Peer PROVE SocketsInv'
<1>1. kind' = kind /\ lost' = lost /\ rx' = rx /\ tx' = tx /\ own' = own /\ raced' = raced
  BY Zenon DEF Peer, PeerSends, PeerCloses, PeerTurns, NetVars, Settings
<1>2. sock' = sock \/ \E s \in Sockets : sock[s] = "connected" /\ sock' = [sock EXCEPT ![s] = "eof"]
  BY Zenon DEF Peer, PeerSends, PeerCloses, PeerTurns, NetVars
<1>3. \A s \in Sockets : Closed(s)' <=> Closed(s)
  BY <1>2 DEF Closed, Types
<1>4. \A s \in Sockets : Held(s)' <=> Held(s)
  BY Zenon, <1>1 DEF Held, Awaited, InHand, UsedByRx, UsedByTx
<1>5. Loose' \subseteq Loose \cup {}
  BY Zenon, <1>3, <1>4, StillHeld
<1>6. Loose' \subseteq Loose
  BY Zenon, <1>5
<1>. QED
  BY Zenon, <1>1, <1>6, NoneLoose

\* The port becomes permanent, or stops to be it, or keeps its settings.
LEMMA BeginConfigureSockets ==
    ASSUME Types, SocketsInv, Types', NEW c \in Kinds, ConfigureBegin(c)
    PROVE  SocketsInv'
<1>1. /\ sock' = sock /\ own' = own /\ rx' = rx /\ tx' = tx /\ raced' = raced /\ kind' = c
      /\ lost' = IF kind = "tcpOnce" /\ c = "tcp" THEN lost + Cardinality(InUse) ELSE lost
  BY Zenon DEF ConfigureBegin, AdminKeeps
<1>2. \A s \in Sockets : (Awaited(s)' <=> Awaited(s)) /\ (InHand(s)' <=> InHand(s))
  BY Zenon, <1>1 DEF Awaited, InHand, UsedByRx, UsedByTx
<1>3. \A s \in Sockets : Awaited(s) => InHand(s)
  BY DEF Awaited, InHand, UsedByRx, UsedByTx
<1>4. \A s \in Sockets : InHand(s) => Awaited(s) \/ s \in InUse
  BY DEF Awaited, InHand, UsedByRx, UsedByTx, InUse
<1>5. CASE kind = "tcpOnce" /\ c = "tcp"
  <2>1. \A s \in Sockets \ InUse : Held(s) => Held(s)'
    BY <1>1, <1>2, <1>4, <1>5 DEF Held
  <2>2. Loose' \subseteq Loose \cup InUse
    BY Zenon, <1>1, <2>1, StillHeld DEF Closed
  <2>3. IsFiniteSet(InUse) /\ Cardinality(InUse) \in Nat
    BY InUseIsFinite
  <2>4. raced' + lost' = raced + lost + Cardinality(InUse)
    <3>1. lost' = lost + Cardinality(InUse) /\ raced \in Nat /\ lost \in Nat
      BY Zenon, <1>1, <1>5 DEF Types
    <3>. QED
      BY <1>1, <2>3, <3>1
  <2>. QED
    BY Zenon, <2>2, <2>3, <2>4, SomeLoose
<1>6. CASE ~(kind = "tcpOnce" /\ c = "tcp")
  <2>1. kind = "tcp" => c \in {"tcp", "tcpOnce"}
    BY DEF ConfigureBegin, Configurable, PortTypes
  <2>2. kind = "tcpOnce" => c = "tcpOnce"
    BY <1>6 DEF ConfigureBegin, Configurable, PortTypes
  <2>3. \A s \in Sockets : Held(s) => Held(s)'
    BY <1>1, <1>2, <1>3, <2>1, <2>2 DEF Held
  <2>4. Loose' \subseteq Loose \cup {}
    BY Zenon, <1>1, <2>3, StillHeld DEF Closed
  <2>5. Loose' \subseteq Loose /\ lost' = lost
    BY Zenon, <1>1, <1>6, <2>4
  <2>. QED
    BY Zenon, <1>1, <2>5, NoneLoose
<1>. QED
  BY Zenon, <1>5, <1>6

\* A socket of a UDP or serial port takes the place of the one before.
LEMMA EndConfigureSockets ==
    ASSUME Types, SocketsInv, Types', ConfigureEnd
    PROVE  SocketsInv'
<1>1. /\ kind' = kind /\ tx' = tx /\ raced' = raced
      /\ \/ rx' = rx
         \/ rx' = NoThread /\ rx.place \in {"none", "ended"}
  BY Zenon DEF ConfigureEnd, AdminKeeps, Joined
<1>2. \A s \in Sockets : (Awaited(s) => Awaited(s)') /\ (InHand(s) => InHand(s)')
  <2>1. \A s, places : UsedByTx(s, places) => UsedByTx(s, places)'
    BY Zenon, <1>1 DEF UsedByTx
  <2>2. CASE rx' = rx
    BY Zenon, <2>1, <2>2 DEF Awaited, InHand, UsedByRx
  <2>3. CASE rx.place \in {"none", "ended"}
    <3>1. \A s : ~UsedByRx(s, {"connecting"}) /\ ~UsedByRx(s, {"connecting", "reading"})
      BY <2>3 DEF UsedByRx
    <3>. QED
      BY Zenon, <2>1, <3>1 DEF Awaited, InHand
  <2>. QED
    BY Zenon, <1>1, <2>2, <2>3
<1>3. CASE Tcp
  <2>1. sock' = sock /\ own' = own /\ lost' = lost
    BY Zenon, <1>3 DEF ConfigureEnd
  <2>. QED
    BY Zenon, <1>1, <1>2, <2>1, ReusesSockets
<1>4. CASE ~Tcp
  <2>0. PICK u : u = Unused
    OBVIOUS
  <2>1. /\ CanConnect /\ own' = u /\ lost' = lost + 1
        /\ \E state \in Opened : sock' = [sock EXCEPT ![u] = state]
    BY Zenon, <1>4, <2>0 DEF ConfigureEnd
  <2>2. kind # "tcp" /\ kind # "tcpOnce"
    BY <1>4 DEF Tcp
  <2>3. \A s \in Sockets : s # u => (Closed(s)' <=> Closed(s))
    BY <2>1 DEF Closed, Types
  <2>4. Held(u)'
    BY Zenon, <2>1 DEF Held
  <2>5. \A s \in Sockets : Held(s) => s = own
    BY Zenon, <2>2 DEF Held
  <2>6. Loose' \subseteq Loose \cup {own}
    BY Zenon, <2>3, <2>4, <2>5, StillHeld
  <2>7. IsFiniteSet({own}) /\ Cardinality({own}) = 1
    BY FS_Singleton
  <2>8. raced' + lost' = raced + lost + Cardinality({own})
    BY <1>1, <2>1, <2>7 DEF Types
  <2>. QED
    BY Zenon, <2>6, <2>7, <2>8, SomeLoose
<1>. QED
  BY Zenon, <1>3, <1>4

\* Every request of the administrator.
LEMMA AdminSockets == ASSUME Types, SocketsInv, Types', RunsInv, Admin PROVE SocketsInv'
<1>1. CASE (\E r \in Rules : AddRule(r) \/ DeleteRule(r)) \/ RemoveEnd
  <2>1. /\ kind' = kind /\ lost' = lost /\ tx' = tx /\ own' = own /\ raced' = raced
        /\ sock' = sock
    BY Zenon, <1>1 DEF AddRule, DeleteRule, RemoveEnd, AdminKeeps, Settings
  <2>2. \A s, places : UsedByTx(s, places) => UsedByTx(s, places)'
    BY Zenon, <2>1 DEF UsedByTx
  <2>3. ASSUME rx' = rx \/ rx.place \notin {"connecting", "reading"}
        PROVE  SocketsInv'
    <3>1. \/ rx' = rx
          \/ \A s : ~UsedByRx(s, {"connecting"}) /\ ~UsedByRx(s, {"connecting", "reading"})
      BY <2>3 DEF UsedByRx
    <3>2. \A s \in Sockets : (Awaited(s) => Awaited(s)') /\ (InHand(s) => InHand(s)')
      BY Zenon, <2>2, <3>1 DEF Awaited, InHand, UsedByRx
    <3>. QED
      BY Zenon, <2>1, <3>2, ReusesSockets
  <2>4. rx' = rx \/ rx.place \in {"none", "ended", "calling"}
    <3>1. ASSUME NEW r \in Rules, AddRule(r), listeners = <<>> PROVE rx.place = "none"
      <4>1. admin = "idle"
        BY Zenon, <3>1 DEF AddRule, Request
      <4>2. admin # "removing"
        BY <4>1
      <4>. QED
        BY Zenon, <3>1, <4>2 DEF RunsInv, ThreadForListeners
    <3>2. ASSUME NEW r \in Rules, AddRule(r) PROVE rx' = rx \/ rx.place = "none"
      BY Zenon, <3>1, <3>2 DEF AddRule
    <3>3. ASSUME NEW r \in Rules, DeleteRule(r) PROVE rx' = rx \/ rx.place = "calling"
      BY Zenon, <3>3 DEF DeleteRule
    <3>4. CASE RemoveEnd
      BY Zenon, <3>4 DEF RemoveEnd, Joined
    <3>. QED
      BY <1>1, <3>2, <3>3, <3>4
  <2>5. rx' = rx \/ rx.place \notin {"connecting", "reading"}
    BY <2>4
  <2>. QED
    BY Zenon, <2>3, <2>5
<1>. QED
  BY Zenon, <1>1, BeginConfigureSockets, EndConfigureSockets DEF Admin

-----------------------------------------------------------------------------
\* The invariant holds at first ...
LEMMA Initially == Init => PortInv
<1>. SUFFICES ASSUME Init PROVE PortInv
  OBVIOUS
<1>1. Types
  BY Zenon, TypesAtFirst
<1>2. /\ listeners = <<>> /\ rx.place = "none" /\ owed = {} /\ admin = "idle"
      /\ \A s \in Sockets : s # own => sock[s] = "closed"
  BY DEF Init, NoThread
<1>3. Once /\ OwedAhead /\ NobodyLeftOut /\ ThreadForListeners /\ Removing
  <2>1. Once
    BY <1>2, EmptySeq DEF Once
  <2>2. OwedAhead /\ NobodyLeftOut /\ ThreadForListeners /\ Removing
    BY <1>2 DEF OwedAhead, NobodyLeftOut, ThreadForListeners, Removing
  <2>. QED
    BY Zenon, <2>1, <2>2
<1>4. Counts
  <2>1. ran = [r \in Rules |-> 0] /\ matched = [r \in Rules |-> 0] /\ prev = [r \in Rules |-> FALSE]
    BY Zenon DEF Init
  <2>2. /\ ran \in [Rules -> Nat] /\ matched \in [Rules -> Nat]
        /\ \A r \in Rules : ran[r] = matched[r]
    BY <2>1
  <2>3. prev \in [Rules -> BOOLEAN] /\ \A r \in Rules : ~prev[r]
    BY Zenon, <2>1
  <2>. QED
    BY Zenon, <2>2, <2>3 DEF Counts
<1>5. SocketsInv
  <2>1. Loose = {}
    BY Zenon, <1>2 DEF Loose, Closed, Held
  <2>2. raced = 0 /\ lost = 0 /\ Cardinality({}) = 0
    BY FS_EmptySet DEF Init
  <2>. QED
    BY <2>1, <2>2 DEF SocketsInv
<1>. QED
  BY Zenon, <1>1, <1>3, <1>4, <1>5 DEF PortInv, RunsInv

\* ... and every step keeps it.
LEMMA Stepwise == PortInv /\ [Next]_vars => PortInv'
<1>1. ASSUME PortInv, UNCHANGED vars PROVE PortInv'
  <2>1. /\ kind' = kind /\ sock' = sock /\ own' = own /\ listeners' = listeners /\ rx' = rx
        /\ owed' = owed /\ prev' = prev /\ matched' = matched /\ ran' = ran /\ tx' = tx
        /\ admin' = admin /\ raced' = raced /\ lost' = lost
    BY Zenon, <1>1 DEF vars
  <2>2. Types'
    BY Zenon, <1>1, <2>1 DEF PortInv, Types, RxRecord
  <2>3. RunsInv'
    <3>1. Once' /\ OwedAhead' /\ NobodyLeftOut' /\ Counts'
      BY Zenon, <1>1, <2>1, RunsStay DEF PortInv
    <3>2. ThreadForListeners' /\ Removing'
      BY Zenon, <1>1, <2>1 DEF PortInv, RunsInv, ThreadForListeners, Removing
    <3>. QED
      BY Zenon, <3>1, <3>2 DEF RunsInv
  <2>4. SocketsInv'
    BY Zenon, <1>1, <2>1 DEF PortInv, SocketsInv, Loose, Closed, Held, Awaited, InHand,
                             UsedByRx, UsedByTx
  <2>. QED
    BY Zenon, <2>2, <2>3, <2>4 DEF PortInv
<1>2. ASSUME PortInv, RxThread PROVE PortInv'
  BY Zenon, <1>2, RxTypes, RxRuns, RxSockets DEF PortInv
<1>3. ASSUME PortInv, NEW t \in Senders, Sender(t) PROVE PortInv'
  BY Zenon, <1>3, SenderTypes, OthersKeepRuns, SenderSockets DEF PortInv
<1>4. ASSUME PortInv, Peer PROVE PortInv'
  BY Zenon, <1>4, PeerTypes, OthersKeepRuns, PeerSockets DEF PortInv
<1>5. ASSUME PortInv, Admin PROVE PortInv'
  <2>1. Types'
    BY Zenon, <1>5, AdminTypes DEF PortInv, RunsInv
  <2>. QED
    BY Zenon, <1>5, <2>1, AdminRuns, AdminSockets DEF PortInv
<1>. QED
  BY Zenon, <1>1, <1>2, <1>3, <1>4, <1>5 DEF Next

\* The invariant of every run.
LEMMA PortInvEver == Spec => []PortInv
<1>. QED
  BY Initially, Stepwise, PTL DEF Spec

\* Whatever is neither the port's own nor in use is loose.
LEMMA Counted == PortInv => SocketsCounted
<1>. SUFFICES ASSUME PortInv PROVE SocketsCounted
  OBVIOUS
<1>. DEFINE Rest == Open \ (Using \cup {own})
<1>1. \A s \in Sockets : Awaited(s) \/ InHand(s) => s \in Using
  BY DEF Awaited, InHand, UsedByRx, UsedByTx, Using
<1>2. Rest \subseteq Loose
  BY Zenon, <1>1 DEF Loose, Open, Closed, Held
<1>3. /\ Cardinality(Rest) <= Cardinality(Loose)
      /\ Cardinality(Rest) \in Nat /\ Cardinality(Loose) \in Nat
  BY <1>2, LooseIsFinite, FS_Subset, FS_CardinalityType
<1>4. Cardinality(Loose) <= raced + lost /\ raced \in Nat /\ lost \in Nat
  BY Zenon DEF PortInv, SocketsInv, Types
<1>5. Cardinality(Rest) <= raced + lost
  BY <1>3, <1>4
<1>. QED
  BY Zenon, <1>5 DEF SocketsCounted

\* RxCondition::onDataReceived (ioport.cpp): each expected message executes the
\* actions of every rule that listens, once, and nobody is left out because a
\* rule was added or deleted while a listener blocked.
THEOREM OneRunPerMessageEver == Spec => []OneRunPerMessage
<1>1. PortInv => OneRunPerMessage
  BY Zenon DEF PortInv, RunsInv, Counts, OneRunPerMessage
<1>. QED
  BY <1>1, PortInvEver, PTL

\* RxThread::addListener, removeListener, TcpClientIOPort::Socket and importXml
\* of every kind of port: a port has a receiving thread while somebody listens,
\* and no open socket but its own and those in use, except one for each that a
\* configuration replaced, that was in use when the port became permanent, or
\* that was made while another thread made one.
THEOREM NothingLeaksEver == Spec => []NothingLeaks
<1>1. PortInv => NothingLeaks
  BY Zenon, Counted DEF PortInv, RunsInv, NothingLeaks
<1>. QED
  BY <1>1, PortInvEver, PTL
=============================================================================
