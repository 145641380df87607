------------------------------ MODULE KnxLink ------------------------------
(***************************************************************************)
(* The connection to the bus: the thread of KnxConnection                   *)
(* (src/src/knxconnection.cpp) on the socket of the bus daemon              *)
(* (src/src/eibclient.c).                                                   *)
(*                                                                          *)
(* A telegram arrives in two parts, its head and its body, and the read of  *)
(* either can be interrupted by the event the connection waits with: the    *)
(* semaphore that stops the thread, or, while a listener waits in           *)
(* Object::read for the value of an object, the time limit of this read.    *)
(* A head whose two bytes arrive one by one is misread: the second is stored *)
(* past the array, and what comes out of that the compiler and the stack     *)
(* decide.                                                                  *)
(* Reads nest: what arrives during one is handed to the listener, which may *)
(* begin another.  The bus goes away and comes back, and a client that      *)
(* writes a new URL stops the thread and starts it again.                   *)
(***************************************************************************)
EXTENDS Integers, Sequences, SequencesExt

CONSTANTS
    MaxTelegrams,   \* bound: telegrams on the bus
    MaxReads,       \* bound: reads open at a time
    MaxUnread,      \* objects without a value at the start: only they are read
    MaxTries,       \* calls of checkInput one read makes (100 in the code)
    MaxSplits,      \* bound: heads that arrive byte by byte
    MaxFailures,    \* bound: failures of the connection
    MaxImports      \* bound: URLs written

ASSUME KnxLinkConstants ==
    /\ {MaxTelegrams, MaxReads, MaxUnread, MaxSplits, MaxFailures, MaxImports} \subseteq Nat
    /\ MaxTries \in Nat \ {0}

VARIABLES
    url,         \* whether url_m is given
    isRunning,   \* isRunning_m
    life,        \* what the thread is doing
    raised,      \* should_stop of the thread
    caller,      \* the thread that is inside Stop, and goes on with Start or not
    event,       \* con_m->ev: Stop (0), or the limit of an open read
    reads,       \* the calls of Object::read that are open, innermost last
    unread,      \* objects whose init_m is not set
    inside,      \* the head that was read and its body was not, or none
    half,        \* con_m->readlen is 1
    framed,      \* con_m->size is that of the telegram that is read
    splits,      \* heads that arrived byte by byte
    misread,     \* something that was no telegram was handed to the listener
    up,          \* the daemon keeps its side of the connection
    wire,        \* what has arrived and was not read
    unsent,      \* the telegram whose body the daemon has still to send, or none
    telegrams,   \* telegrams sent by the bus
    result,      \* what checkInput returns: -1, 0 or 1
    delivered,   \* telegrams handed to the listener
    skipped,     \* telegrams that never will be
    failures, imports

link == <<event, inside, up, wire, unsent>>
pieces == <<half, framed, splits, misread>>
bus == <<telegrams, delivered, skipped>>
control == <<url, isRunning, raised, caller, imports>>
vars == <<link, pieces, bus, control, life, result, reads, unread, failures>>

-----------------------------------------------------------------------------
StopEvent == 0

\* The limit passed, the answer has come, and the calls of checkInput so far.
NewRead == [expired |-> FALSE, answered |-> FALSE, tries |-> 0]

Part(n, what, kind) == [telegram |-> n, part |-> what, kind |-> kind]
None == Part(0, "none", "none")

Level == Len(reads)

Init ==
    /\ url \in BOOLEAN
    /\ isRunning = TRUE
    /\ life = "new"
    /\ raised = FALSE
    /\ caller = "idle"
    /\ event = StopEvent
    /\ reads = <<>>
    /\ unread = MaxUnread
    /\ inside = None
    /\ half = FALSE
    /\ framed = TRUE
    /\ splits = 0
    /\ misread = FALSE
    /\ up = FALSE
    /\ wire = <<>>
    /\ unsent = None
    /\ telegrams = 0
    /\ result = 0
    /\ delivered = <<>>
    /\ skipped = {}
    /\ failures = 0
    /\ imports = 0

-----------------------------------------------------------------------------
(***************************************************************************)
(* The clients and the main thread.  (Assumption: one at a time is inside   *)
(* Stop; a second one would join a thread that is gone.)                    *)
(***************************************************************************)
\* Thread::Stop
Stop(then) ==
    IF life = "off" THEN caller' = then /\ UNCHANGED raised
                    ELSE caller' = then /\ raised' = TRUE

\* KnxConnection::importXml
ImportUrl(given) ==
    /\ caller = "idle" /\ life # "crashed"
    /\ imports < MaxImports
    /\ imports' = imports + 1
    /\ url' = given
    /\ IF isRunning THEN Stop("restarting") ELSE UNCHANGED <<caller, raised>>
    /\ UNCHANGED <<link, bus, isRunning, life, result, reads, unread, failures, pieces>>

StopConnection ==
    /\ caller = "idle" /\ life # "crashed"
    /\ isRunning
    /\ isRunning' = FALSE
    /\ Stop("stopping")
    /\ UNCHANGED <<link, bus, url, imports, life, result, reads, unread, failures, pieces>>

\* pth_join returns; Thread::Start spawns the thread again.
Joined ==
    /\ life \in {"dead", "off"}
    /\ caller # "idle"
    /\ caller' = "idle"
    /\ IF caller = "restarting" THEN life' = "new" /\ raised' = FALSE
                                ELSE life' = "off" /\ UNCHANGED raised
    /\ UNCHANGED <<link, bus, url, isRunning, imports, result, reads, unread, failures, pieces>>

-----------------------------------------------------------------------------
(***************************************************************************)
(* The daemon and the bus.                                                  *)
(***************************************************************************)
Listening == life \in {"waiting", "dispatching"}

\* A packet that is no group telegram, or too short for one, is "bad"; one with
\* an unknown command is "unknown".
SendHead(kind) ==
    /\ Listening /\ up
    /\ unsent = None
    /\ telegrams < MaxTelegrams
    /\ telegrams' = telegrams + 1
    /\ wire' = Append(wire, Part(telegrams + 1, "head", kind))
    /\ unsent' = Part(telegrams + 1, "body", kind)
    /\ UNCHANGED <<event, inside, up, delivered, skipped, control, life, result, reads, unread, failures, pieces>>

SendBody ==
    /\ up
    /\ unsent # None
    /\ wire' = Append(wire, unsent)
    /\ unsent' = None
    /\ UNCHANGED <<event, inside, up, bus, control, life, result, reads, unread, failures, pieces>>

\* The daemon closes the connection.
HangUp ==
    /\ Listening /\ up
    /\ failures < MaxFailures
    /\ failures' = failures + 1
    /\ up' = FALSE
    /\ UNCHANGED <<event, inside, wire, unsent, bus, control, life, result, reads, unread, pieces>>

-----------------------------------------------------------------------------
(***************************************************************************)
(* KnxConnection::Run                                                       *)
(***************************************************************************)
Begin ==
    /\ life = "new"
    /\ life' = IF url THEN "connecting" ELSE "dead"
    /\ UNCHANGED <<link, bus, control, result, reads, unread, failures, pieces>>

\* EIBSocketURL: nothing interrupts it.
Connect ==
    /\ life = "connecting"
    /\ life' = "opening"
    /\ up' = TRUE
    /\ event' = StopEvent
    /\ UNCHANGED <<inside, wire, unsent, bus, control, result, reads, unread, failures, pieces>>

ConnectFails ==
    /\ life = "connecting"
    /\ failures < MaxFailures
    /\ failures' = failures + 1
    /\ life' = "pausing"
    /\ UNCHANGED <<link, bus, control, result, reads, unread, pieces>>

\* EIBOpen_GroupSocket
OpenGroupSocket ==
    /\ life = "opening"
    /\ life' = "waiting"
    /\ UNCHANGED <<link, bus, control, result, reads, unread, failures, pieces>>

\* EIBClose, and what has arrived is lost with the connection.
Unread == {wire[i].telegram : i \in 1..Len(wire)}
              \cup {inside.telegram, unsent.telegram}

Close(next) ==
    /\ life' = next
    /\ skipped' = skipped \cup (Unread \ {0})
    /\ event' = StopEvent
    /\ inside' = None
    /\ half' = FALSE
    /\ framed' = TRUE
    /\ up' = FALSE
    /\ wire' = <<>>
    /\ unsent' = None
    /\ UNCHANGED <<telegrams, delivered, splits, misread>>

OpenFails ==
    /\ life = "opening"
    /\ \/ raised /\ UNCHANGED failures
       \/ failures < MaxFailures /\ failures' = failures + 1
    /\ Close("pausing")
    /\ UNCHANGED <<control, result, reads, unread>>

\* Mistake: a thread that is to stop tries once more.
PauseWhatever ==
    /\ life = "pausing"
    /\ life' = "connecting"
    /\ UNCHANGED <<link, bus, control, result, reads, unread, failures, pieces>>

\* A minute passes, or the thread is to stop.
Pause ==
    /\ life = "pausing"
    /\ life' = IF raised THEN "dead" ELSE "connecting"
    /\ UNCHANGED <<link, bus, control, result, reads, unread, failures, pieces>>

-----------------------------------------------------------------------------
(***************************************************************************)
(* KnxConnection::checkInput on CheckRequest and GetRequest.  It returns -1 *)
(* when the event occurred, 0 when the connection failed or the telegram is *)
(* bad, else 1.                                                             *)
(***************************************************************************)
Occurred == IF event = StopEvent THEN raised ELSE reads[event].expired

Failure == IF Occurred THEN -1 ELSE 0

Returns(value) ==
    /\ life' = "returned"
    /\ result' = value
    /\ event' = StopEvent

GoesOn == UNCHANGED <<life, result, event>>

Arrived(part) ==
    /\ life = "waiting" /\ framed
    /\ wire # <<>>
    /\ Head(wire).part = part

PassHead ==
    /\ inside' = Head(wire)
    /\ wire' = Tail(wire)
    /\ UNCHANGED <<up, unsent, splits, bus, control, unread, failures>>

PassBody(n) ==
    /\ n = Head(wire).telegram
    /\ inside' = None
    /\ wire' = Tail(wire)
    /\ UNCHANGED <<up, unsent, half, splits, telegrams, control, unread, failures>>

TakeHead ==
    /\ Arrived("head")
    /\ inside = None /\ ~half
    /\ PassHead /\ GoesOn
    /\ UNCHANGED <<half, framed, misread, reads>>

\* The first byte of a head arrives alone.  The size read from it and from the
\* byte that is not there may be below two: the read fails.
TakeHalf ==
    /\ Arrived("head")
    /\ inside = None /\ ~half
    /\ splits < MaxSplits
    /\ splits' = splits + 1
    /\ half' = TRUE
    /\ GoesOn \/ Returns(Failure)
    /\ UNCHANGED <<inside, up, wire, unsent, framed, misread, bus, control, reads, unread, failures>>

\* The second byte is stored past the array: whether the size is the right one
\* depends on what stands in its place.
TakeRest ==
    /\ Arrived("head")
    /\ half
    /\ half' = FALSE
    /\ framed' \in BOOLEAN
    /\ PassHead /\ GoesOn
    /\ UNCHANGED <<misread, reads>>

Take(n) ==
    /\ Arrived("body")
    /\ inside # None
    /\ PassBody(n)
    /\ UNCHANGED <<framed, misread>>

\* The event occurred while the body was awaited: the telegram is thrown away.
TakeTooLate(n) ==
    /\ Take(n)
    /\ Occurred
    /\ Returns(-1)
    /\ skipped' = skipped \cup {n}
    /\ UNCHANGED <<delivered, reads>>

\* A bad packet ends the connection, an unknown command is passed over.
TakeBad(n) ==
    /\ Take(n)
    /\ Head(wire).kind # "good"
    /\ Returns(IF Head(wire).kind = "bad" THEN 0 ELSE 1)
    /\ skipped' = skipped \cup {n}
    /\ UNCHANGED <<delivered, reads>>

HandOver(n) == delivered' = Append(delivered, n)

\* What was read is given to the listener, and may be the answer to some of the
\* reads that are open.
TellListener ==
    /\ life' = "dispatching"
    /\ event' = StopEvent
    /\ \E answers \in SUBSET (1..Level) :
          reads' = [i \in 1..Level |-> [reads[i] EXCEPT !.answered = @ \/ i \in answers]]
    /\ UNCHANGED result

\* An event is only noticed while a read waits, so it may have occurred all the
\* same.
TakeGood(n) ==
    /\ Take(n)
    /\ Head(wire).kind = "good"
    /\ TellListener
    /\ HandOver(n)
    /\ UNCHANGED skipped

\* Mistake: an interrupted read begins the telegram anew.
InterruptedAnywhere ==
    /\ life = "waiting" /\ framed
    /\ (wire = <<>> /\ up) \/ half
    /\ Occurred
    /\ Returns(-1)
    /\ inside' = None
    /\ UNCHANGED <<up, wire, unsent, bus, control, reads, unread, failures, pieces>>

\* Nothing has arrived when the event occurs: only a read between two
\* telegrams, or between the bytes of a head, gives up; inside a telegram it
\* goes on.
Interrupted ==
    /\ life = "waiting" /\ framed
    /\ (wire = <<>> /\ up) \/ half
    /\ Occurred
    /\ inside = None
    /\ Returns(-1)
    /\ UNCHANGED <<inside, up, wire, unsent, bus, control, reads, unread, failures, pieces>>

EndOfFile ==
    /\ life = "waiting"
    /\ wire = <<>> /\ ~up
    /\ Returns(Failure)
    /\ UNCHANGED <<inside, up, wire, unsent, bus, control, reads, unread, failures, pieces>>

-----------------------------------------------------------------------------
(***************************************************************************)
(* A read with the size of another telegram: what it takes for telegrams    *)
(* begins and ends anywhere, until one happens to end with a body.          *)
(***************************************************************************)
Misframed == life = "waiting" /\ ~framed

GarbageEnds ==
    \/ /\ Returns(1) \/ Returns(Failure)
       /\ UNCHANGED <<misread, reads>>
    \/ TellListener /\ misread' = TRUE

GarbageGoesOn == GoesOn /\ UNCHANGED <<misread, reads>>

GarbledHead ==
    /\ Misframed
    /\ wire # <<>> /\ Head(wire).part = "head"
    /\ PassHead
    /\ GarbageEnds \/ GarbageGoesOn
    /\ UNCHANGED <<half, framed>>

GarbledBody(n) ==
    /\ Misframed
    /\ wire # <<>> /\ Head(wire).part = "body"
    /\ PassBody(n)
    /\ skipped' = skipped \cup {n}
    /\ \/ GarbageEnds /\ framed' \in BOOLEAN
       \/ GarbageGoesOn /\ UNCHANGED framed
    /\ UNCHANGED delivered

\* It ends inside of what has arrived, or is interrupted where it takes the next
\* bytes for a head.
GarbledPiece ==
    /\ Misframed
    /\ \/ wire # <<>> /\ GarbageEnds
       \/ Occurred /\ Returns(-1) /\ UNCHANGED <<misread, reads>>
    /\ UNCHANGED <<inside, up, wire, unsent, half, framed, splits, bus, control, unread, failures>>

\* The byte behind the array was one the program needs.
Crash ==
    /\ Misframed
    /\ Close("crashed")
    /\ reads' = <<>>
    /\ UNCHANGED <<control, result, unread, failures>>

-----------------------------------------------------------------------------
\* The listener returns.
EndDispatch ==
    /\ life = "dispatching"
    /\ Returns(1)
    /\ UNCHANGED <<inside, up, wire, unsent, bus, control, reads, unread, failures, pieces>>

-----------------------------------------------------------------------------
\* Back in the loop of Run.
CheckAgain ==
    /\ life = "returned" /\ Level = 0
    /\ result = 1
    /\ life' = "waiting"
    /\ UNCHANGED <<link, bus, control, result, reads, unread, failures, pieces>>

\* Mistake: a connection that failed is given up.
NextAttemptNever(value) == "dead"

NextAttempt(value) == IF value = 0 THEN "pausing" ELSE "dead"

LeaveLoop ==
    /\ life = "returned" /\ Level = 0
    /\ result # 1
    /\ Close(NextAttempt(result))
    /\ UNCHANGED <<control, result, reads, unread, failures>>

\* The listener waits for the value of an object: Object::read.
OpenRead ==
    /\ life = "dispatching"
    /\ Level < MaxReads
    /\ unread > 0
    /\ unread' = unread - 1
    /\ reads' = Append(reads, NewRead)
    /\ life' = "waiting"
    /\ event' = Level + 1
    /\ UNCHANGED <<inside, up, wire, unsent, bus, control, result, failures, pieces>>

\* A second has passed since a read began.
Expire(i) ==
    /\ i <= Level
    /\ ~reads[i].expired
    /\ \A j \in 1..i - 1 : reads[j].expired
    /\ reads' = [reads EXCEPT ![i].expired = TRUE]
    /\ UNCHANGED <<link, bus, control, life, result, unread, failures, pieces>>

\* The loop of Object::read is over for this read.
Done(read) == read.answered \/ result = -1 \/ read.tries + 1 = MaxTries

ReadAgain ==
    /\ life = "returned" /\ Level > 0
    /\ ~Done(Last(reads))
    /\ reads' = [reads EXCEPT ![Level].tries = @ + 1]
    /\ life' = "waiting"
    /\ event' = Level
    /\ UNCHANGED <<inside, up, wire, unsent, bus, control, result, unread, failures, pieces>>

CloseRead ==
    /\ life = "returned" /\ Level > 0
    /\ Done(Last(reads))
    /\ reads' = Front(reads)
    /\ life' = "dispatching"
    /\ UNCHANGED <<link, bus, control, result, unread, failures, pieces>>

-----------------------------------------------------------------------------
Daemon == OpenGroupSocket \/ OpenFails \/ SendBody

Thread ==
    \/ Begin \/ Connect \/ Pause \/ TakeHead \/ TakeRest \/ GarbledHead
    \/ \E n \in 1..MaxTelegrams :
          TakeTooLate(n) \/ TakeBad(n) \/ TakeGood(n) \/ GarbledBody(n)
    \/ Interrupted \/ EndOfFile \/ EndDispatch
    \/ CheckAgain \/ LeaveLoop \/ ReadAgain \/ CloseRead

Next ==
    \/ \E given \in BOOLEAN : ImportUrl(given)
    \/ StopConnection \/ Joined
    \/ \E kind \in {"good", "bad", "unknown"} : SendHead(kind)
    \/ HangUp \/ ConnectFails \/ Daemon
    \/ Thread \/ OpenRead \/ TakeHalf \/ GarbledPiece \/ Crash
    \/ \E i \in 1..MaxReads : Expire(i)

\* The thread is scheduled, time passes, and the daemon answers and finishes
\* what it began to send, or closes the connection.
Spec ==
    /\ Init
    /\ [][Next]_vars
    /\ WF_vars(Thread)
    /\ WF_vars(Joined)
    /\ WF_vars(Daemon)
    /\ \A i \in 1..MaxReads : WF_vars(Expire(i))

-----------------------------------------------------------------------------
TypeOK ==
    /\ life \in {"off", "new", "connecting", "opening", "waiting", "dispatching",
                 "returned", "pausing", "dead", "crashed"}
    /\ {url, isRunning, raised, up, half, framed, misread} \subseteq BOOLEAN
    /\ caller \in {"idle", "restarting", "stopping"}
    /\ Level <= MaxReads
    /\ life = "waiting" => event = Level
    /\ life # "waiting" => event = StopEvent
    /\ life \notin {"waiting", "dispatching", "returned"} =>
           Level = 0 /\ wire = <<>> /\ inside = None /\ ~half /\ framed
    /\ half => framed /\ inside = None /\ wire # <<>>

\* Whatever interrupts a read, and on whichever level the next one is made, a
\* head is taken for a head and a body for a body (CheckRequest, con->readlen),
\* until a head arrives byte by byte.
NeverMisframed ==
    framed /\ wire # <<>> => Head(wire).part = (IF inside = None THEN "head" ELSE "body")

\* The listener gets the telegrams in the order of the bus, none of them twice,
\* and passes over none that was not thrown away (checkInput).
NoneOvertaken ==
    /\ \A i, j \in 1..Len(delivered) : i < j => delivered[i] < delivered[j]
    /\ \A n \in 1..MaxTelegrams :
          (delivered # <<>> /\ n <= Last(delivered)) =>
              (Contains(delivered, n) <=> n \notin skipped)

\* Every telegram is read as what it is and handed over in its turn, and only
\* after a head in two pieces something else is (CheckRequest).
TelegramsInOrder ==
    /\ NeverMisframed
    /\ NoneOvertaken
    /\ ~framed \/ misread => splits > 0

\* A lost connection is made again, as long as it is wanted (Run) and the program
\* survives the heads in pieces.
LinkRestored == []<>(Listening \/ ~url \/ ~isRunning \/ life = "crashed")

\* Thread::Stop returns, whatever the thread was waiting for, unless it waits for
\* the body of a telegram with a wrong size.
StopReturns == caller # "idle" ~> caller = "idle" \/ ~framed \/ life = "crashed"
=============================================================================
