------------------------------ MODULE IOPorts ------------------------------
(***************************************************************************)
(* An IO port with its receiving thread, the conditions that wait for      *)
(* messages on it and the actions that send on it (src/src/ioport.cpp).    *)
(*                                                                         *)
(* The receiving thread starts with the first condition and is stopped and *)
(* joined when the last one leaves.  A TCP port connects when somebody     *)
(* needs it: a permanent one keeps the socket for everybody, the other one *)
(* closes it after each message, and has a receiving thread only if it was *)
(* permanent before.                                                       *)
(*                                                                         *)
(* An administrator, one request at a time, adds and deletes rules with    *)
(* such a condition and configures the port again, which may change        *)
(* whether it is permanent or has a port to receive on.  The peer may be   *)
(* unreachable, and close a connection.  A number that was closed is given *)
(* to the next socket, also when somebody still holds it.                  *)
(***************************************************************************)
EXTENDS Naturals, FiniteSets, SequencesExt

CONSTANTS
    Kinds,         \* the ports: "udp", "udpSend" (without rxport), "serial",
                   \* "tcp" (permanent), "tcpOnce"
    Rules,         \* rules with a condition on a received message
    Senders,       \* threads of actions that send on the port
    MaxSockets,    \* bound: sockets that exist
    MaxMessages,   \* bound: messages from the peer
    MaxSends,      \* bound: messages sent
    MaxRequests,   \* bound: requests of the administrator
    MaxFaults      \* bound: changes of the peer for the worse or the better

ASSUME IOPortsConstants ==
    /\ Kinds \subseteq {"udp", "udpSend", "serial", "tcp", "tcpOnce"}
    /\ MaxSockets \in Nat /\ MaxSockets > MaxRequests
    /\ {MaxMessages, MaxSends, MaxRequests, MaxFaults} \subseteq Nat

VARIABLES
    kind,       \* the class of the port and its settings
    receives,   \* rxThread_m is not NULL
    sock,       \* the state of every socket
    inbox,      \* what a socket has received and nobody has read
    own,        \* sockfd_m, fd_m or permanentSockfd_m of the port, or 0
    listeners,  \* listenerList_m of the receiving thread
    rx,         \* the receiving thread
    stop,       \* its semaphore is raised
    owed,       \* history: who is still to hear of the message being delivered
    prev,       \* prevValue_m of the rules
    matched,    \* history: expected messages a rule was told of
    ran,        \* history: executions of the actions of a rule
    tx,         \* the sending threads
    sent,       \* messages sent so far
    admin,      \* the request in progress
    requests,   \* requests so far
    peerUp, faults, messages,
    raced,      \* history: connections made while there was another one
    lost,       \* history: sockets replaced by a configuration, or made before it
    hung,       \* a thread spins without ever yielding: nothing else runs
    crashed     \* the program used a list entry that was erased

vars == <<kind, receives, sock, inbox, own, listeners, rx, stop, owed, prev, matched, ran, tx,
          sent, admin, requests, peerUp, faults, messages, raced, lost, hung,
          crashed>>

Sockets == 1..MaxSockets
Messages == {"expected", "other", "empty"}
Open == {s \in Sockets : sock[s] # "closed"}

Permanent == kind = "tcp"
Tcp == kind \in {"tcp", "tcpOnce"}
RxEnabled == kind \notin {"udpSend", "tcpOnce"}

Erased == "erased"   \* a list entry that is no more

RxPlaces == {"none", "get", "connecting", "reading", "calling", "ended"}

TypeOK ==
    /\ kind \in Kinds
    /\ sock \in [Sockets -> {"closed", "connecting", "connected", "unconnected", "eof", "unbound"}]
    /\ own \in {0} \cup Sockets
    /\ listeners \in Seq(Rules) /\ Len(listeners) = Cardinality(ToSet(listeners))
    /\ rx.place \in RxPlaces
    /\ rx.place \in {"connecting", "reading"} => rx.socket \in Sockets
    /\ rx.place = "calling" => rx.listener \in Rules \cup {Erased} /\ rx.message \in Messages
    /\ \A t \in Senders : tx[t].place \in {"idle", "connecting", "writing"}
    /\ \A t \in Senders : tx[t].place # "idle" => tx[t].socket \in Sockets
    /\ receives \in BOOLEAN /\ (RxEnabled /\ admin = "idle" => receives)
    /\ admin \in {"idle", "removing", "configuring"}
    /\ owed \subseteq Rules
    /\ {messages, sent, requests, faults, raced, lost} \subseteq Nat

NoThread == [place |-> "none", socket |-> 0, listener |-> "", message |-> ""]
Resting == [place |-> "idle", socket |-> 0]

Init ==
    /\ kind \in Kinds
    /\ receives = RxEnabled
    /\ own = IF Tcp THEN 0 ELSE 1
    /\ sock = [s \in Sockets |-> IF s # own THEN "closed"
                                 ELSE IF kind = "udpSend" THEN "unbound" ELSE "connected"]
    /\ inbox = [s \in Sockets |-> <<>>]
    /\ listeners = <<>>
    /\ rx = NoThread
    /\ stop = FALSE
    /\ owed = {}
    /\ prev = [r \in Rules |-> FALSE]
    /\ matched = [r \in Rules |-> 0]
    /\ ran = [r \in Rules |-> 0]
    /\ tx = [t \in Senders |-> Resting]
    /\ sent = 0 /\ requests = 0 /\ faults = 0 /\ messages = 0 /\ raced = 0 /\ lost = 0
    /\ admin = "idle"
    /\ peerUp = TRUE
    /\ hung = FALSE
    /\ crashed = FALSE

Alive == ~hung /\ ~crashed

Settings == <<kind, receives, lost>>
RuleVars == <<owed, prev, matched, ran>>
NetVars == <<sock, inbox, own, raced>>
Bounds == <<sent, requests, faults, messages>>

-----------------------------------------------------------------------------
\* The peer.

PeerSends(s, m) ==
    /\ messages < MaxMessages
    /\ sock[s] = "connected"
    /\ m = "empty" => kind \in {"udp", "udpSend"}
    /\ inbox' = [inbox EXCEPT ![s] = Append(@, m)]
    /\ messages' = messages + 1
    /\ UNCHANGED <<Settings, sock, own, listeners, rx, stop, RuleVars, tx, sent, admin,
                   requests, peerUp, faults, raced, hung, crashed>>

\* The connection or the serial device goes away.
PeerCloses(s) ==
    /\ faults < MaxFaults
    /\ (Tcp \/ kind = "serial") /\ sock[s] = "connected"
    /\ sock' = [sock EXCEPT ![s] = "eof"]
    /\ faults' = faults + 1
    /\ UNCHANGED <<Settings, inbox, own, listeners, rx, stop, RuleVars, tx, sent, admin,
                   requests, peerUp, messages, raced, hung, crashed>>

PeerTurns ==
    /\ faults < MaxFaults /\ Tcp
    /\ peerUp' = ~peerUp
    /\ faults' = faults + 1
    /\ UNCHANGED <<Settings, NetVars, listeners, rx, stop, RuleVars, tx, sent, admin,
                   requests, messages, hung, crashed>>

-----------------------------------------------------------------------------
\* TcpClientIOPort::Socket

Unused == CHOOSE s \in Sockets : sock[s] = "closed" /\ \A u \in 1..s - 1 : sock[u] # "closed"
CanConnect == Open # Sockets

\* A permanent port has a socket already, connected or not.
Reused == Permanent /\ own # 0

\* Mistake: the connection is not kept.
KeptNever(s) == own

\* The socket becomes the permanent one, although another thread may have
\* made one in the meantime.
Kept(s) == IF Permanent THEN s ELSE own

\* pth_connect returns; a socket that is not connected is kept all the same.
\* Another holder of the number may have closed it meanwhile.
Connects(s) ==
    /\ sock' = [sock EXCEPT ![s] = IF @ # "connecting" THEN @
                                   ELSE IF peerUp THEN "connected" ELSE "unconnected"]
    /\ own' = Kept(s)
    /\ raced' = IF Permanent /\ own # 0 THEN raced + 1 ELSE raced
    /\ UNCHANGED inbox

\* The destructor closes it unless the port is permanent now, whatever it was
\* when the socket was made.
Released(s) == IF kind = "tcpOnce" THEN [sock EXCEPT ![s] = "closed"] ELSE sock

Release(s, rest) ==
    /\ sock' = Released(s)
    /\ inbox' = [inbox EXCEPT ![s] = IF kind = "tcpOnce" THEN <<>> ELSE rest]
    /\ UNCHANGED <<own, raced>>

-----------------------------------------------------------------------------
\* The receiving thread.

Go(place, s) == rx' = [rx EXCEPT !.place = place, !.socket = s]

RxKeeps == UNCHANGED <<Settings, listeners, stop, tx, admin, Bounds, peerUp, crashed>>

\* get(): with a socket the thread reads from it, otherwise it connects.
RxGet ==
    /\ rx.place = "get"
    /\ IF Tcp /\ ~Reused
       THEN /\ CanConnect
            /\ sock' = [sock EXCEPT ![Unused] = "connecting"]
            /\ Go("connecting", Unused)
       ELSE /\ Go("reading", own)
            /\ UNCHANGED sock
    /\ UNCHANGED <<inbox, own, raced, RuleVars, hung>> /\ RxKeeps

RxConnected ==
    /\ rx.place = "connecting"
    /\ Connects(rx.socket)
    /\ Go("reading", rx.socket)
    /\ UNCHANGED <<RuleVars, hung>> /\ RxKeeps

\* A message: the listeners are called in turn.
RxReceives ==
    LET s == rx.socket IN
    /\ rx.place = "reading"
    /\ inbox[s] # <<>>
    /\ Release(s, Tail(inbox[s]))
    /\ \/ /\ Head(inbox[s]) # "empty"
          /\ IF listeners = <<>>
             THEN Go("get", 0) /\ UNCHANGED owed
             ELSE /\ rx' = [place |-> "calling", socket |-> 0,
                            listener |-> Head(listeners), message |-> Head(inbox[s])]
                  /\ owed' = ToSet(listeners)
       \/ Head(inbox[s]) = "empty" /\ Go("ended", 0) /\ UNCHANGED owed
    /\ UNCHANGED <<prev, matched, ran, hung>> /\ RxKeeps

\* Mistake: only a thread with listeners looks at the semaphore.
NoticedWithListeners == stop /\ listeners # <<>>

\* The event passed to the read.
Noticed == stop

\* Nothing to read: the semaphore ends the wait.
RxStopped ==
    /\ rx.place = "reading"
    /\ Noticed /\ inbox[rx.socket] = <<>>
    /\ sock[rx.socket] \in {"connecting", "connected", "unbound"}
    /\ Go("ended", 0)
    /\ Release(rx.socket, <<>>)
    /\ UNCHANGED <<RuleVars, hung>> /\ RxKeeps

\* read() fails or finds the end.  A serial port gives up; a TCP port tries
\* again at once: a permanent one the same socket, and never yields, the other
\* one a new one.
RxFails ==
    /\ rx.place = "reading"
    /\ inbox[rx.socket] = <<>> /\ sock[rx.socket] \in {"eof", "unconnected", "closed"}
    /\ IF Permanent THEN hung' = TRUE /\ UNCHANGED rx
       ELSE Go(IF Tcp THEN "get" ELSE "ended", 0) /\ UNCHANGED hung
    /\ Release(rx.socket, <<>>)
    /\ UNCHANGED RuleVars /\ RxKeeps

Position(r) == CHOOSE i \in 1..Len(listeners) : listeners[i] = r

\* Mistake: whoever takes a message keeps it from the others.
NextListenerUnlessTaken(r) ==
    IF rx.message # "expected" /\ Position(r) < Len(listeners)
    THEN {listeners[Position(r) + 1]} ELSE {}

\* The listener behind r.
NextListener(r) ==
    IF Position(r) < Len(listeners) THEN {listeners[Position(r) + 1]} ELSE {}

\* RxCondition::onDataReceived makes the condition true, then false again.
Pulsed(r) == FALSE

\* Mistake: the loop of RxThread::Run is left after a message.
AfterMessageOnce == "ended"

\* Where the thread goes when all listeners were called.
AfterMessage == "get"

\* The call of one listener returns.  It sets objects to parts of the message
\* first, which may block: meanwhile the listener may have been erased.
RxCalls ==
    /\ rx.place = "calling"
    /\ LET r == rx.listener IN
       IF r = Erased
       THEN crashed' = TRUE /\ UNCHANGED <<rx, RuleVars>>
       ELSE /\ owed' = owed \ {r}
            /\ IF rx.message = "expected"
               THEN /\ matched' = [matched EXCEPT ![r] = @ + 1]
                    /\ ran' = [ran EXCEPT ![r] = IF prev[r] THEN @ ELSE @ + 1]
                    /\ prev' = [prev EXCEPT ![r] = Pulsed(r)]
               ELSE UNCHANGED <<matched, ran, prev>>
            /\ IF NextListener(r) = {}
               THEN rx' = [NoThread EXCEPT !.place = AfterMessage]
               ELSE rx' = [rx EXCEPT !.listener = CHOOSE x \in NextListener(r) : TRUE]
            /\ UNCHANGED crashed
    /\ UNCHANGED <<Settings, NetVars, listeners, stop, tx, admin, Bounds, peerUp, hung>>

RxThread == RxGet \/ RxConnected \/ RxReceives \/ RxStopped \/ RxFails \/ RxCalls

-----------------------------------------------------------------------------
\* TxAction::Run, after its delay.

TxKeeps == UNCHANGED <<Settings, listeners, rx, stop, RuleVars, admin, requests,
                       faults, messages, peerUp, hung, crashed>>

TxStart(t) ==
    /\ tx[t].place = "idle"
    /\ sent < MaxSends
    /\ IF Tcp /\ ~Reused
       THEN /\ CanConnect
            /\ sock' = [sock EXCEPT ![Unused] = "connecting"]
            /\ tx' = [tx EXCEPT ![t] = [place |-> "connecting", socket |-> Unused]]
       ELSE /\ tx' = [tx EXCEPT ![t] = [place |-> "writing", socket |-> own]]
            /\ UNCHANGED sock
    /\ sent' = sent + 1
    /\ UNCHANGED <<inbox, own, raced>> /\ TxKeeps

TxConnected(t) ==
    /\ tx[t].place = "connecting"
    /\ Connects(tx[t].socket)
    /\ tx' = [tx EXCEPT ![t].place = "writing"]
    /\ UNCHANGED <<Settings, listeners, rx, stop, RuleVars, admin, Bounds, peerUp, hung, crashed>>

\* The message is written, or an error is logged.
TxWrites(t) ==
    /\ tx[t].place = "writing"
    /\ Release(tx[t].socket, inbox[tx[t].socket])
    /\ tx' = [tx EXCEPT ![t] = Resting]
    /\ UNCHANGED sent /\ TxKeeps

Sender(t) == TxStart(t) \/ TxConnected(t) \/ TxWrites(t)

-----------------------------------------------------------------------------
\* The administrator.

Request ==
    /\ admin = "idle"
    /\ requests < MaxRequests
    /\ requests' = requests + 1

AdminKeeps == UNCHANGED <<inbox, raced, prev, matched, ran, tx, sent, faults,
                          messages, peerUp, hung, crashed>>

\* RxThread::addListener: the first one starts the thread.
AddRule(r) ==
    /\ Request
    /\ receives
    /\ r \notin ToSet(listeners)
    /\ listeners' = Append(listeners, r)
    /\ IF listeners = <<>>
       THEN rx' = [NoThread EXCEPT !.place = "get"] /\ stop' = FALSE
       ELSE UNCHANGED <<rx, stop>>
    /\ UNCHANGED <<Settings, sock, own, owed, admin>> /\ AdminKeeps

\* The last listener stops the thread, which has to be joined then.
LastOut == listeners' = <<>> /\ rx.place # "none"

\* ~RxCondition
DeleteRule(r) ==
    /\ Request
    /\ r \in ToSet(listeners)
    /\ listeners' = RemoveAt(listeners, Position(r))
    /\ owed' = owed \ {r}
    /\ rx' = IF rx.place = "calling" /\ rx.listener = r
             THEN [rx EXCEPT !.listener = Erased] ELSE rx
    /\ IF LastOut THEN admin' = "removing" /\ stop' = TRUE
                  ELSE UNCHANGED <<admin, stop>>
    /\ UNCHANGED <<Settings, sock, own>> /\ AdminKeeps

\* The settings a port of this type can be given.
PortTypes == {{"udp", "udpSend"}, {"serial"}, {"tcp", "tcpOnce"}}
Configurable(k) == \E type \in PortTypes : {kind, k} \subseteq type

\* The sockets somebody is sending or reading on.
InUse == {tx[t].socket : t \in {u \in Senders : tx[u].place = "writing"}}
             \cup {s \in {rx.socket} : rx.place = "reading"}

\* importXml: the settings are changed first, also whether the connection is
\* permanent, and then a port that receives deletes the receiving thread
\* together with its list.  A port that does not any more leaves it alone.
ConfigureBegin(k) ==
    /\ Request
    /\ Configurable(k)
    /\ kind' = k
    /\ admin' = "configuring"
    /\ stop' = (stop \/ (RxEnabled' /\ rx.place # "none"))
    /\ lost' = IF kind = "tcpOnce" /\ k = "tcp" THEN lost + Cardinality(InUse) ELSE lost
    /\ UNCHANGED <<receives, sock, own, listeners, rx, owed>> /\ AdminKeeps

\* pth_join
Joined == rx.place \in {"none", "ended"}

RemoveEnd ==
    /\ admin = "removing" /\ Joined
    /\ rx' = NoThread /\ stop' = FALSE
    /\ admin' = "idle"
    /\ UNCHANGED <<Settings, sock, own, listeners, owed, requests>> /\ AdminKeeps

\* The state of a new socket: a UDP port cannot bind it to the port that an
\* older one still has, and one without rxport does not.
Opened == CASE kind = "udp"     -> {"connected", "unbound"}
            [] kind = "udpSend" -> {"unbound"}
            [] OTHER            -> {"connected"}

\* The rest of importXml: a UDP or serial port opens another socket, and
\* forgets the one it had.
ConfigureEnd ==
    /\ admin = "configuring" /\ (RxEnabled => Joined)
    /\ Tcp \/ CanConnect
    /\ IF RxEnabled
       THEN rx' = NoThread /\ stop' = FALSE /\ listeners' = <<>> /\ owed' = {}
       ELSE UNCHANGED <<rx, stop, listeners, owed>>
    /\ receives' = (receives \/ RxEnabled)
    /\ IF Tcp THEN UNCHANGED <<sock, own, lost>>
       ELSE /\ own' = Unused
            /\ \E state \in Opened : sock' = [sock EXCEPT ![Unused] = state]
            /\ lost' = lost + 1
    /\ admin' = "idle"
    /\ UNCHANGED <<kind, requests>> /\ AdminKeeps

Admin ==
    \/ \E r \in Rules : AddRule(r) \/ DeleteRule(r)
    \/ (\E k \in Kinds : ConfigureBegin(k)) \/ RemoveEnd \/ ConfigureEnd

-----------------------------------------------------------------------------
Peer == (\E s \in Sockets, m \in Messages : PeerSends(s, m))
        \/ (\E s \in Sockets : PeerCloses(s))
        \/ PeerTurns

Next ==
    /\ Alive
    /\ RxThread \/ (\E t \in Senders : Sender(t)) \/ Admin \/ Peer

\* Every thread is scheduled, and a connection attempt ends.
Spec ==
    /\ Init
    /\ [][Next]_vars
    /\ WF_vars(Alive /\ RxThread)
    /\ \A t \in Senders : WF_vars(Alive /\ (TxConnected(t) \/ TxWrites(t)))
    /\ WF_vars(Alive /\ (RemoveEnd \/ ConfigureEnd))

-----------------------------------------------------------------------------
\* Nobody who listened when a message was read, and still does, is left out,
\* although others come and go while a listener blocks.
NobodyLeftOut == rx.place # "calling" => owed = {}

\* Each expected message executes the actions of every rule that listens, once,
\* whatever came before it: the condition is true for as long as the change is
\* told.
OneRunPerMessage == NobodyLeftOut /\ \A r \in Rules : ran[r] = matched[r]

\* There is a receiving thread as long as there are listeners, and it is gone
\* when the last one has left, whatever the port was configured to meanwhile.
ThreadForListeners == admin # "removing" => (listeners # <<>> <=> rx.place # "none")

\* The sockets somebody connects, sends or reads on.
Using == {tx[t].socket : t \in {u \in Senders : tx[u].place # "idle"}}
             \cup {s \in {rx.socket} : rx.place \in {"connecting", "reading"}}

\* An open socket is the port's own, or in use: there is at most one more for
\* every socket that was replaced by a configuration (of a UDP or serial port),
\* was in use when the port became permanent, or was made by two threads at the
\* same time.  No message, fault or rule that comes or goes costs a socket.
SocketsCounted == Cardinality(Open \ (Using \cup {own})) <= raced + lost

\* A port has the thread and the sockets it needs, and no others but those its
\* configurations and simultaneous connections account for.
NothingLeaks == ThreadForListeners /\ SocketsCounted

\* What arrives on the socket of a port with listeners is read: unless they
\* leave, the thread hangs, has given up on a datagram or a device, two threads
\* have connected at the same time (the receiving one then waits for a message
\* on the other socket), or the port connects for every message now.
Received ==
    \A s \in Sockets :
        (inbox[s] # <<>> /\ s = own /\ listeners # <<>>)
            ~> (\/ raced # 0 \/ inbox[s] = <<>> \/ s # own \/ listeners = <<>>
                \/ (rx.place = "ended" /\ ~Tcp) \/ kind = "tcpOnce" \/ ~Alive)

\* A request of the administrator comes to an end: the thread it joins finds
\* its semaphore, wherever it is.  One that connects for every message does not
\* look at it while the peer refuses.
RequestsEnd ==
    admin # "idle" ~> (admin = "idle" \/ ~Alive \/ (kind = "tcpOnce" /\ ~peerUp))
=============================================================================
