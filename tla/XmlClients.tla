----------------------------- MODULE XmlClients -----------------------------
(***************************************************************************)
(* The server of the XML clients and its connections                        *)
(* (src/src/xmlserver.cpp): every connection is a thread that reads         *)
(* requests from its socket and answers them one after the other, while the *)
(* threads that change an object send notifications on the same socket.     *)
(*                                                                          *)
(* One object stands for all of them.  A request is a body and the          *)
(* character 4; the socket gives it in any pieces.  Threads are             *)
(* cooperative: one step goes to the next place where the code may block.   *)
(* Where it uses what was freed, the program ends (`crashed').              *)
(***************************************************************************)
EXTENDS Integers, Sequences, SequencesExt

CONSTANTS
    Clients,        \* the connections there may be
    Bus,            \* the thread of KnxConnection
    Kinds,          \* the kinds of requests each client makes
    Timeouts,       \* the timeouts of execute requests
    MaxActions,     \* bound: actions of an execute request
    MaxRequests,    \* bound: requests
    MaxTelegrams,   \* bound: changes by the bus
    MaxFailures,    \* bound: servers that cannot be started again
    ReadSize        \* symbols one read gives (256 bytes in the code)

ASSUME XmlClientsConstants ==
    /\ Bus \notin Clients
    /\ Kinds \in [Clients -> SUBSET {"read", "refused", "write", "register", "unregister",
                                     "registerall", "unregisterall", "execute", "restart"}]
    /\ Timeouts \subseteq Nat
    /\ {MaxActions, MaxRequests, MaxTelegrams, MaxFailures} \subseteq Nat
    /\ ReadSize \in Nat \ {0}

Threads == Clients \cup {Bus}

VARIABLES
    phase,       \* where each connection stands in Run
    sent,        \* the number of requests each client has made
    inbox,       \* what has arrived on its socket and was not read
    msg,         \* what readmessage has collected: msg_m
    msgbuf,      \* msgbuf_m
    request,     \* the request that is being handled
    handled,     \* the number of requests handled
    answer,      \* the final answer that is being written
    answered,    \* the number of answers
    hungUp,      \* the client has closed its side
    stop,        \* should_stop of the connection
    server,      \* the life of *xmlServer_m, or "failed": nothing is there
    attached,    \* the connections whose server_m is set
    connections, \* connections_m of the server
    value,       \* the value of the object
    listeners,   \* its listenerList_m
    at,          \* the listener each thread's onUpdate stands at, or 0
    told,        \* the value the last notification of each client was made with
    actions,     \* al: for each action whether it is finished
    count,       \* the seconds waited for them
    killed,      \* an action was deleted before it was finished
    telegrams, failures,
    crashed

socket == <<sent, inbox, msg, msgbuf, request, handled, hungUp>>
answers == <<answer, answered>>
lives  == <<stop, server, attached, connections, failures>>
object == <<value, listeners, at, told, telegrams>>
execution == <<actions, count, killed>>
vars == <<phase, socket, answers, lives, object, execution, crashed>>

-----------------------------------------------------------------------------
End == 0    \* the character 4
NoRequest == [kind |-> "none", value |-> FALSE, actions |-> 0, timeout |-> 0]

Live(c) == phase[c] \notin {"absent", "gone"}

Serves(c, kind) == phase[c] = "serving" /\ request[c].kind = kind

Requests(c) ==
    {r \in [kind : Kinds[c], value : BOOLEAN, actions : 0..MaxActions, timeout : Timeouts] :
        /\ r.kind # "write" => ~r.value
        /\ r.kind # "execute" => r.actions = 0 /\ \A t \in Timeouts : r.timeout <= t}

Init ==
    /\ phase = [c \in Clients |-> "absent"]
    /\ sent = [c \in Clients |-> 0]
    /\ inbox = [c \in Clients |-> <<>>]
    /\ msg = [c \in Clients |-> <<>>]
    /\ msgbuf = [c \in Clients |-> <<>>]
    /\ request = [c \in Clients |-> NoRequest]
    /\ handled = [c \in Clients |-> 0]
    /\ answer = [c \in Clients |-> "none"]
    /\ answered = [c \in Clients |-> 0]
    /\ hungUp = [c \in Clients |-> FALSE]
    /\ stop = [c \in Clients |-> FALSE]
    /\ server = "running"
    /\ attached = {}
    /\ connections = {}
    /\ value = FALSE
    /\ listeners = <<>>
    /\ at = [t \in Threads |-> 0]
    /\ told = [c \in Clients |-> FALSE]
    /\ actions = [c \in Clients |-> <<>>]
    /\ count = [c \in Clients |-> 0]
    /\ killed = [c \in Clients |-> FALSE]
    /\ telegrams = 0
    /\ failures = 0
    /\ crashed = FALSE

Go(c, where) == phase' = [phase EXCEPT ![c] = where]

-----------------------------------------------------------------------------
(***************************************************************************)
(* The clients.                                                             *)
(***************************************************************************)
AllSent == FoldFunction(+, 0, sent)

Send(c) ==
    /\ Live(c) /\ ~hungUp[c]
    /\ AllSent < MaxRequests
    /\ sent' = [sent EXCEPT ![c] = @ + 1]
    /\ inbox' = [inbox EXCEPT ![c] = @ \o <<sent[c] + 1, End>>]
    /\ UNCHANGED <<phase, msg, msgbuf, request, handled, hungUp, answers, lives, object, execution, crashed>>

HangUp(c) ==
    /\ Live(c) /\ ~hungUp[c]
    /\ hungUp' = [hungUp EXCEPT ![c] = TRUE]
    /\ UNCHANGED <<phase, sent, inbox, msg, msgbuf, request, handled, answers, lives, object, execution, crashed>>

\* XmlServer::Run accepts a connection; a server that is to stop may do so once
\* more before it notices.
Accept(c) ==
    /\ phase[c] = "absent"
    /\ server \in {"running", "stopping"}
    /\ Go(c, "idle")
    /\ attached' = attached \cup {c}
    /\ connections' = connections \cup {c}
    /\ UNCHANGED <<socket, answers, stop, server, failures, object, execution, crashed>>

-----------------------------------------------------------------------------
(***************************************************************************)
(* Object::onUpdate and ClientConnection::onChange.  A notification is made *)
(* with the value the object has when the loop comes to the client, and is  *)
(* being written until the loop leaves it.                                  *)
(***************************************************************************)
\* Mistake: a client that is being written to by another thread is passed over.
ComeToUnlessBusy(t, i) ==
    /\ at' = [at EXCEPT ![t] = i]
    /\ told' = IF i = 0 \/ \E u \in Threads : at[u] = i THEN told
                                           ELSE [told EXCEPT ![listeners[i]] = value']

ComeTo(t, i) ==
    /\ at' = [at EXCEPT ![t] = i]
    /\ told' = IF i = 0 THEN told ELSE [told EXCEPT ![listeners[i]] = value']

\* The listener behind the i-th, or 0.
Following(i) == IF i < Len(listeners) THEN i + 1 ELSE 0

\* A telegram changes the object.
BusChange(v) ==
    /\ at[Bus] = 0
    /\ telegrams < MaxTelegrams
    /\ telegrams' = telegrams + 1
    /\ v # value
    /\ value' = v
    /\ ComeTo(Bus, Following(0))
    /\ UNCHANGED <<phase, socket, answers, lives, listeners, execution, crashed>>

BusAdvance ==
    /\ at[Bus] # 0
    /\ UNCHANGED value
    /\ ComeTo(Bus, Following(at[Bus]))
    /\ UNCHANGED <<phase, socket, answers, lives, listeners, telegrams, execution, crashed>>

Entries(c) == {i \in 1..Len(listeners) : listeners[i] = c}

\* The entries of others, up to the i-th.
Others(c, i) == Cardinality((1..i) \ Entries(c))

\* What is left, in the same order, when all entries of a client are erased.
ListenersBut(c) ==
    [n \in 1..Others(c, Len(listeners)) |->
        listeners[CHOOSE i \in (1..Len(listeners)) \ Entries(c) : Others(c, i) = n]]

\* A thread that stands on an element that is erased goes on with what was
\* freed; the others stay where they are.
Erase(c) ==
    /\ at' = [t \in Threads |-> Others(c, at[t])]
    /\ crashed' = (\E t \in Threads : at[t] \in Entries(c))

\* removeChangeListener
Unlist(c) == listeners' = ListenersBut(c) /\ Erase(c)

-----------------------------------------------------------------------------
(***************************************************************************)
(* ClientConnection::readmessage                                            *)
(***************************************************************************)
EndIn(s) == SelectInSeq(s, LAMBDA x : x = End)

Buffered(c) == EndIn(msgbuf[c]) > 0

\* What the client asks for shows here.
TakeUp(c, m) ==
    /\ msg' = [msg EXCEPT ![c] = m]
    /\ handled' = [handled EXCEPT ![c] = @ + 1]
    /\ \E r \in Requests(c) : request' = [request EXCEPT ![c] = r]
    /\ Go(c, "serving")

TakeBuffered(c) ==
    /\ phase[c] = "idle"
    /\ Buffered(c)
    /\ LET e == EndIn(msgbuf[c])
       IN  /\ TakeUp(c, SubSeq(msgbuf[c], 1, e - 1))
           /\ msgbuf' = [msgbuf EXCEPT ![c] = SubSeq(@, e + 1, Len(@))]
    /\ UNCHANGED <<sent, inbox, hungUp, answers, lives, object, execution, crashed>>

StartRead(c) ==
    /\ phase[c] = "idle"
    /\ ~Buffered(c)
    /\ Go(c, "reading")
    /\ msg' = [msg EXCEPT ![c] = msgbuf[c]]
    /\ UNCHANGED <<sent, inbox, msgbuf, request, handled, hungUp, answers, lives, object, execution, crashed>>

\* Mistake: what follows the end of the message is lost.
RestNone(piece) == <<>>

\* What a piece holds behind the end of the message.
Rest(piece) == SubSeq(piece, EndIn(piece) + 1, Len(piece))

ReadPiece(c, n) ==
    /\ phase[c] = "reading"
    /\ n <= Len(inbox[c])
    /\ inbox' = [inbox EXCEPT ![c] = SubSeq(@, n + 1, Len(@))]
    /\ LET piece == SubSeq(inbox[c], 1, n)
       IN  IF EndIn(piece) > 0
           THEN /\ TakeUp(c, msg[c] \o SubSeq(piece, 1, EndIn(piece) - 1))
                /\ msgbuf' = [msgbuf EXCEPT ![c] = Rest(piece)]
           ELSE /\ msg' = [msg EXCEPT ![c] = @ \o piece]
                /\ UNCHANGED <<phase, request, handled, msgbuf>>
    /\ UNCHANGED <<sent, hungUp, answers, lives, object, execution, crashed>>

\* ~ClientConnection
Destroy(c) ==
    /\ Go(c, "gone")
    /\ Unlist(c)
    /\ IF c \in attached
       THEN attached' = attached \ {c} /\ connections' = connections \ {c}
       ELSE UNCHANGED <<attached, connections>>
    /\ UNCHANGED <<socket, answers, stop, server, failures, value, told, telegrams, execution>>

ReadFails(c) ==
    /\ phase[c] = "reading"
    /\ inbox[c] = <<>>
    /\ hungUp[c] \/ stop[c]
    /\ Destroy(c)

\* The loop of Run ends, if the event was noticed in a write that waited.
LeaveLoop(c) ==
    /\ phase[c] = "idle"
    /\ stop[c]
    /\ Destroy(c)

-----------------------------------------------------------------------------
(***************************************************************************)
(* ClientConnection::Run on a request.                                      *)
(***************************************************************************)
\* The answer is written; it is lost if the connection is to stop and the
\* write has to wait.
Answer(c, status) ==
    /\ Go(c, "replying")
    /\ \/ /\ answer' = [answer EXCEPT ![c] = status]
          /\ answered' = [answered EXCEPT ![c] = @ + 1]
       \/ stop[c] /\ UNCHANGED answers

Replied(c) ==
    /\ phase[c] = "replying"
    /\ Go(c, "idle")
    /\ msg' = [msg EXCEPT ![c] = <<>>]
    /\ request' = [request EXCEPT ![c] = NoRequest]
    /\ answer' = [answer EXCEPT ![c] = "none"]
    /\ killed' = [killed EXCEPT ![c] = FALSE]
    /\ UNCHANGED <<sent, inbox, msgbuf, handled, hungUp, answered, lives, object, actions, count, crashed>>

\* Requests that change nothing, and requests that are no good.
Read(c) ==
    /\ Serves(c, "read")
    /\ Answer(c, "success")
    /\ UNCHANGED <<socket, lives, object, execution, crashed>>

Refuse(c) ==
    /\ Serves(c, "refused")
    /\ Answer(c, "error")
    /\ UNCHANGED <<socket, lives, object, execution, crashed>>

\* Object::setValue: the telegram is written before anyone is notified.
Write(c) ==
    /\ Serves(c, "write")
    /\ IF request[c].value = value
       THEN Answer(c, "success") /\ UNCHANGED value
       ELSE value' = request[c].value /\ Go(c, "setting") /\ UNCHANGED answers
    /\ UNCHANGED <<socket, lives, listeners, at, told, telegrams, execution, crashed>>

Notify(c) ==
    /\ phase[c] \in {"setting", "notifying"}
    /\ UNCHANGED value
    /\ ComeTo(c, Following(at[c]))
    /\ IF at'[c] # 0 THEN Go(c, "notifying") /\ UNCHANGED answers ELSE Answer(c, "success")
    /\ UNCHANGED <<socket, lives, listeners, telegrams, execution, crashed>>

Register(c) ==
    /\ Serves(c, "register")
    /\ listeners' = Append(listeners, c)
    /\ told' = [told EXCEPT ![c] = value]
    /\ Answer(c, "success")
    /\ UNCHANGED <<socket, lives, value, at, telegrams, execution, crashed>>

Unregister(c) ==
    /\ Serves(c, "unregister") \/ Serves(c, "unregisterall")
    /\ Unlist(c)
    /\ Answer(c, "success")
    /\ UNCHANGED <<socket, lives, value, told, telegrams, execution>>

\* The list is cleared and made again.
RegisterAll(c) ==
    /\ Serves(c, "registerall")
    /\ listeners' = Append(ListenersBut(c), c)
    /\ Erase(c)
    /\ told' = [told EXCEPT ![c] = value]
    /\ Answer(c, "success")
    /\ UNCHANGED <<socket, lives, value, telegrams, execution>>

-----------------------------------------------------------------------------
(***************************************************************************)
(* An execute request waits for its actions, one after the other.           *)
(***************************************************************************)
Execute(c) ==
    /\ Serves(c, "execute")
    /\ actions' = [actions EXCEPT ![c] = [i \in 1..request[c].actions |-> FALSE]]
    /\ count' = [count EXCEPT ![c] = 0]
    /\ Go(c, "executing")
    /\ UNCHANGED <<socket, answers, lives, object, killed, crashed>>

ActionEnds(c, i) ==
    /\ i <= Len(actions[c])
    /\ ~actions[c][i]
    /\ actions' = [actions EXCEPT ![c][i] = TRUE]
    /\ UNCHANGED <<phase, socket, answers, lives, object, count, killed, crashed>>

\* Mistake: every action is given the whole time.
ForgetFirstAndCount(c) ==
    /\ actions' = [actions EXCEPT ![c] = Tail(@)]
    /\ killed' = [killed EXCEPT ![c] = @ \/ ~Head(actions[c])]
    /\ count' = [count EXCEPT ![c] = 0]

\* The first action is deleted, which waits for its thread to stop.
ForgetFirst(c) ==
    /\ actions' = [actions EXCEPT ![c] = Tail(@)]
    /\ killed' = [killed EXCEPT ![c] = @ \/ ~Head(actions[c])]
    /\ UNCHANGED count

WaitForFirst(c) ==
    /\ phase[c] = "executing"
    /\ actions[c] # <<>>
    /\ IF Head(actions[c]) \/ count[c] = request[c].timeout
       THEN ForgetFirst(c)
       ELSE count' = [count EXCEPT ![c] = @ + 1] /\ UNCHANGED <<actions, killed>>
    /\ UNCHANGED <<phase, socket, answers, lives, object, crashed>>

Executed(c) ==
    /\ phase[c] = "executing"
    /\ actions[c] = <<>>
    /\ Answer(c, IF count[c] = request[c].timeout THEN "timeout" ELSE "success")
    /\ count' = [count EXCEPT ![c] = 0]
    /\ UNCHANGED <<socket, lives, object, actions, killed, crashed>>

-----------------------------------------------------------------------------
(***************************************************************************)
(* Services::importXml with an xmlserver: the server is deleted, and with   *)
(* it go its connections, that of the request among them.  The pointer to   *)
(* it stays until the new one is there.                                     *)
(***************************************************************************)
DeleteServer(c) ==
    /\ Serves(c, "restart")
    /\ IF server = "running"
       THEN server' = "stopping" /\ Go(c, "joining") /\ UNCHANGED crashed
       ELSE crashed' = TRUE /\ UNCHANGED <<server, phase>>
    /\ UNCHANGED <<socket, answers, stop, attached, connections, failures, object, execution>>

\* Mistake: the connections are not told that their server is gone.
DisconnectSilently(c) ==
    /\ phase[c] = "joining"
    /\ server' = "deleted"
    /\ stop' = [d \in Clients |-> stop[d] \/ d \in connections]
    /\ connections' = {}
    /\ UNCHANGED attached
    /\ Go(c, "sleeping")
    /\ UNCHANGED <<socket, answers, failures, object, execution, crashed>>

\* The thread of the server has ended: RemoveServer and StopDelete.
Disconnect(c) ==
    /\ phase[c] = "joining"
    /\ server' = "deleted"
    /\ stop' = [d \in Clients |-> stop[d] \/ d \in connections]
    /\ connections' = {}
    /\ attached' = attached \ connections
    /\ Go(c, "sleeping")
    /\ UNCHANGED <<socket, answers, failures, object, execution, crashed>>

\* XmlServer::create
StartServer(c) ==
    /\ phase[c] = "sleeping"
    /\ server' = "running"
    /\ Answer(c, "success")
    /\ UNCHANGED <<socket, stop, attached, connections, failures, object, execution, crashed>>

StartServerFails(c) ==
    /\ phase[c] = "sleeping"
    /\ failures < MaxFailures
    /\ failures' = failures + 1
    /\ server' = "failed"
    /\ Answer(c, "error")
    /\ UNCHANGED <<socket, stop, attached, connections, object, execution, crashed>>

-----------------------------------------------------------------------------
Run(c) ==
    \/ TakeBuffered(c) \/ StartRead(c) \/ ReadFails(c)
    \/ \E n \in 1..ReadSize : ReadPiece(c, n)
    \/ Replied(c) \/ Read(c) \/ Refuse(c) \/ Write(c) \/ Notify(c)
    \/ Register(c) \/ Unregister(c) \/ RegisterAll(c)
    \/ Execute(c) \/ WaitForFirst(c) \/ Executed(c)
    \/ DeleteServer(c) \/ Disconnect(c) \/ StartServer(c)

Next ==
    /\ ~crashed
    /\ \/ \E c \in Clients :
             \/ Send(c) \/ HangUp(c) \/ Accept(c) \/ Run(c) \/ LeaveLoop(c) \/ StartServerFails(c)
             \/ \E i \in 1..MaxActions : ActionEnds(c, i)
       \/ \E v \in BOOLEAN : BusChange(v)
       \/ BusAdvance

\* The threads are scheduled, and the clients read what is written to them: a
\* client that does not stops every thread that notifies it.
Spec ==
    /\ Init
    /\ [][Next]_vars
    /\ \A c \in Clients : WF_vars(~crashed /\ Run(c))
    /\ WF_vars(~crashed /\ BusAdvance)

-----------------------------------------------------------------------------
TypeOK ==
    /\ phase \in [Clients -> {"absent", "idle", "reading", "serving", "setting", "notifying",
                              "executing", "joining", "sleeping", "replying", "gone"}]
    /\ server \in {"running", "stopping", "deleted", "failed"}
    /\ attached \subseteq Clients /\ connections \subseteq Clients
    /\ {stop[c] : c \in Clients} \cup {hungUp[c] : c \in Clients} \subseteq BOOLEAN
    /\ listeners \in Seq(Clients)
    /\ at \in [Threads -> 0..Len(listeners)]
    /\ \A c \in Clients : crashed \/ (at[c] # 0 <=> phase[c] = "notifying")
    /\ \A c \in Clients : actions[c] # <<>> => phase[c] = "executing"

\* Whatever pieces the socket gives, the requests of a client are handled one
\* by one in the order they were made (readmessage, msgbuf_m).
RequestsInOrder ==
    \A c \in Clients : phase[c] = "serving" => msg[c] = <<handled[c]>>

\* An execute request is only answered with success if every one of its actions
\* has ended by itself (Run, the shared count).
ExecuteTellsTruth ==
    \A c \in Clients : answer[c] = "success" => ~killed[c]

\* An answer belongs to the request, and success means success.
AnswersRight == RequestsInOrder /\ ExecuteTellsTruth

\* A connection outlives its server without a pointer to it, and an object
\* without one to the connection (RemoveServer, ~ClientConnection).
NothingDangles ==
    /\ attached \subseteq connections
    /\ connections # {} => server \in {"running", "stopping"}
    /\ ~crashed => \A c \in ToSet(listeners) : Live(c)

\* When no change is under way, every client that is registered was last
\* notified with the value the object has, whichever threads were in their
\* loops at the same time (onUpdate, onChange).
Informed ==
    ~crashed /\ (\A t \in Threads : at[t] = 0) /\ (\A c \in Clients : phase[c] # "setting")
        => \A c \in ToSet(listeners) : told[c] = value

\* Every request is answered, as long as its connection lives, although others
\* arrive in the same piece (readmessage, Run).
Answered ==
    \A c \in Clients : []<>(answered[c] = sent[c] \/ stop[c] \/ hungUp[c] \/ crashed)
=============================================================================
