-------------------------- MODULE XmlClientsProofs --------------------------
(***************************************************************************)
(* For any clients, requests, pieces and threads: requests are handled in   *)
(* the order they were made, success is told of what succeeded, nothing     *)
(* points to a server or a connection that is gone, and every registered    *)
(* client ends up notified with the value the object has.                   *)
(*                                                                          *)
(* Each of the four has an inductive invariant of its own; they share       *)
(* nothing but the types.                                                   *)
(***************************************************************************)
EXTENDS XmlClients, SequenceTheorems, FiniteSetTheorems, WellFoundedInduction, TLAPS

Phases == {"absent", "idle", "reading", "serving", "setting", "notifying",
           "executing", "joining", "sleeping", "replying", "gone"}

-----------------------------------------------------------------------------
\* The requests from the first one behind `done' up to the last one sent.
IsStream(s, done, last) ==
    /\ Len(s) = 2 * (last - done)
    /\ \A j \in 1..(last - done) : s[2 * j - 1] = done + j /\ s[2 * j] = End

\* What was read and belongs to no request that is being handled.
Pending(c) == IF phase[c] = "reading" THEN msg[c] ELSE msgbuf[c]

NoEnd(s) == \A i \in 1..Len(s) : s[i] # End

Stream(c) ==
    /\ sent[c] >= handled[c]
    /\ IsStream(Pending(c) \o inbox[c], handled[c], sent[c])
    /\ phase[c] = "reading" => NoEnd(msg[c])
    /\ phase[c] = "serving" => msg[c] = <<handled[c]>>

StreamInv ==
    /\ phase \in [Clients -> Phases]
    /\ sent \in [Clients -> Nat] /\ handled \in [Clients -> Nat]
    /\ inbox \in [Clients -> Seq(Nat)] /\ msg \in [Clients -> Seq(Nat)]
    /\ msgbuf \in [Clients -> Seq(Nat)]
    /\ \A c \in Clients : phase[c] # "gone" => Stream(c)

-----------------------------------------------------------------------------
\* Once an action was deleted too early, the time of the request is over, and
\* stays so until the answer says it.
Truth(c) ==
    /\ killed[c] => \/ phase[c] = "executing" /\ count[c] = request[c].timeout
                    \/ phase[c] = "replying" /\ answer[c] # "success"
    /\ phase[c] # "replying" => answer[c] = "none"

TruthInv ==
    /\ phase \in [Clients -> Phases]
    /\ answer \in [Clients -> {"none", "success", "error", "timeout"}]
    /\ killed \in [Clients -> BOOLEAN]
    /\ DOMAIN request = Clients /\ DOMAIN count = Clients
    /\ \A c \in Clients : Truth(c)

-----------------------------------------------------------------------------
\* One thread at a time replaces the server.
Replacing(c) ==
    /\ phase[c] = "joining" => server = "stopping"
    /\ phase[c] = "sleeping" => server = "deleted"

OneReplaces ==
    \A c, d \in Clients :
        phase[c] \in {"joining", "sleeping"} /\ phase[d] \in {"joining", "sleeping"} => c = d

LivesInv ==
    /\ phase \in [Clients -> Phases]
    /\ listeners \in Seq(Clients)
    /\ OneReplaces
    /\ \A c \in Clients : Replacing(c)
    /\ NothingDangles

-----------------------------------------------------------------------------
\* A thread that tells the listeners of the change has not come to this one.
Ahead(t, c) == at[t] # 0 /\ \E i \in 1..Len(listeners) : i > at[t] /\ listeners[i] = c

Listed(c) == \E i \in 1..Len(listeners) : listeners[i] = c

\* A client was told the value, or will be: a thread is still to come to it, or
\* has not entered its loop.
ToldOrSoon(c) ==
    \/ told[c] = value
    \/ \E d \in Clients : phase[d] = "setting"
    \/ \E t \in Threads : Ahead(t, c)

InformedInv ==
    /\ phase \in [Clients -> Phases]
    /\ listeners \in Seq(Clients)
    /\ at \in [Threads -> Nat]
    /\ DOMAIN told = Clients
    /\ \A t \in Threads : at[t] <= Len(listeners)
    /\ ~crashed => \A c \in Clients : at[c] # 0 <=> phase[c] = "notifying"
    /\ ~crashed => \A c \in Clients : Listed(c) => ToldOrSoon(c)

-----------------------------------------------------------------------------
(***************************************************************************)
(* Success is told of what succeeded.                                       *)
(***************************************************************************)
\* Steps that are about something else.
LEMMA TruthUntouched ==
    ASSUME TruthInv, phase' = phase, request' = request, answer' = answer,
           count' = count, killed' = killed
    PROVE  TruthInv'
<1>1. \A c \in Clients : Truth(c)'
  BY Zenon DEF TruthInv, Truth
<1>. QED
  BY Zenon, <1>1 DEF TruthInv

\* A connection that is about something else than an execute request.
LEMMA TruthQuiet ==
    ASSUME TruthInv, NEW c \in Clients, phase[c] \notin {"executing", "replying"},
           NEW p \in Phases, phase' = [phase EXCEPT ![c] = p], killed' = killed,
           request' = request \/ \E r : request' = [request EXCEPT ![c] = r],
           count' = count \/ \E n : count' = [count EXCEPT ![c] = n],
           \/ answer' = answer
           \/ p = "replying" /\ \E s \in {"success", "error", "timeout"} :
                                    answer' = [answer EXCEPT ![c] = s]
    PROVE  TruthInv'
<1>1. /\ phase \in [Clients -> Phases]
      /\ answer \in [Clients -> {"none", "success", "error", "timeout"}]
      /\ killed \in [Clients -> BOOLEAN]
      /\ DOMAIN request = Clients /\ DOMAIN count = Clients
      /\ \A d \in Clients : Truth(d)
  BY Zenon DEF TruthInv
<1>2. /\ phase' \in [Clients -> Phases]
      /\ answer' \in [Clients -> {"none", "success", "error", "timeout"}]
      /\ DOMAIN request' = Clients /\ DOMAIN count' = Clients
      /\ phase'[c] = p
  BY <1>1
<1>3. ~killed[c] /\ answer[c] = "none"
  <2>1. phase[c] # "executing" /\ phase[c] # "replying"
    OBVIOUS
  <2>. QED
    BY Zenon, <1>1, <2>1 DEF Truth
<1>4. p # "replying" => answer'[c] = "none"
  BY <1>3
<1>5. Truth(c)'
  BY Zenon, <1>2, <1>3, <1>4 DEF Truth
<1>6. ASSUME NEW d \in Clients, d # c PROVE Truth(d)'
  <2>1. phase'[d] = phase[d] /\ request'[d] = request[d] /\ count'[d] = count[d]
        /\ answer'[d] = answer[d]
    BY <1>1, <1>6
  <2>2. Truth(d)
    BY Zenon, <1>1
  <2>. QED
    BY Zenon, <2>1, <2>2 DEF Truth
<1>7. \A d \in Clients : Truth(d)'
  BY Zenon, <1>5, <1>6
<1>. QED
  BY Zenon, <1>1, <1>2, <1>7 DEF TruthInv

\* The actions of an execute request are waited for.
LEMMA TruthWaiting == ASSUME TruthInv, NEW c \in Clients, WaitForFirst(c) PROVE TruthInv'
<1>1. /\ phase' = phase /\ request' = request /\ answer' = answer
      /\ phase[c] = "executing"
  BY Zenon DEF WaitForFirst, socket, answers
<1>2. /\ killed \in [Clients -> BOOLEAN] /\ DOMAIN count = Clients
      /\ \A d \in Clients : Truth(d)
  BY Zenon DEF TruthInv
<1>3. CASE count[c] = request[c].timeout \/ Head(actions[c])
  <2>1. /\ count' = count
        /\ killed' = [killed EXCEPT ![c] = @ \/ ~Head(actions[c])]
    BY Zenon, <1>3 DEF WaitForFirst, ForgetFirst
  <2>2. killed' \in [Clients -> BOOLEAN]
    BY Zenon, <1>2, <2>1
  <2>3. killed'[c] => killed[c] \/ count[c] = request[c].timeout
    BY Zenon, <1>2, <1>3, <2>1
  <2>4. phase[c] # "replying"
    BY <1>1
  <2>5. Truth(c)'
    BY Zenon, <1>1, <1>2, <2>1, <2>3, <2>4 DEF Truth
  <2>6. ASSUME NEW d \in Clients, d # c PROVE Truth(d)'
    <3>1. killed'[d] = killed[d]
      BY Zenon, <1>2, <2>1, <2>6
    <3>. QED
      BY Zenon, <1>1, <1>2, <2>1, <3>1 DEF Truth
  <2>7. \A d \in Clients : Truth(d)'
    BY Zenon, <2>5, <2>6
  <2>. QED
    BY Zenon, <1>1, <2>1, <2>2, <2>7 DEF TruthInv
<1>4. CASE ~(count[c] = request[c].timeout \/ Head(actions[c]))
  <2>1. count' = [count EXCEPT ![c] = @ + 1] /\ killed' = killed
    BY Zenon, <1>4 DEF WaitForFirst
  <2>2. DOMAIN count' = Clients
    BY <1>2, <2>1
  <2>3. phase[c] # "replying"
    BY <1>1
  <2>4. Truth(c)'
    BY Zenon, <1>1, <1>2, <1>4, <2>1, <2>3 DEF Truth
  <2>5. ASSUME NEW d \in Clients, d # c PROVE Truth(d)'
    <3>1. count'[d] = count[d]
      BY <1>2, <2>1, <2>5
    <3>. QED
      BY Zenon, <1>1, <1>2, <2>1, <3>1 DEF Truth
  <2>6. \A d \in Clients : Truth(d)'
    BY Zenon, <2>4, <2>5
  <2>. QED
    BY Zenon, <1>1, <2>1, <2>2, <2>6 DEF TruthInv
<1>. QED
  BY Zenon, <1>3, <1>4

\* An execute request is answered.
LEMMA TruthExecuted == ASSUME TruthInv, NEW c \in Clients, Executed(c) PROVE TruthInv'
<1>. DEFINE status == IF count[c] = request[c].timeout THEN "timeout" ELSE "success"
<1>1. /\ phase' = [phase EXCEPT ![c] = "replying"] /\ request' = request
      /\ count' = [count EXCEPT ![c] = 0] /\ killed' = killed
      /\ phase[c] = "executing"
      /\ answer' = answer \/ answer' = [answer EXCEPT ![c] = status]
  BY Zenon DEF Executed, Answer, answers, socket, Go
<1>2. /\ phase \in [Clients -> Phases]
      /\ answer \in [Clients -> {"none", "success", "error", "timeout"}]
      /\ killed \in [Clients -> BOOLEAN]
      /\ DOMAIN request = Clients /\ DOMAIN count = Clients
      /\ \A d \in Clients : Truth(d)
  BY Zenon DEF TruthInv
<1>3. /\ phase' \in [Clients -> Phases] /\ phase'[c] = "replying"
      /\ answer' \in [Clients -> {"none", "success", "error", "timeout"}]
      /\ DOMAIN count' = Clients
  BY <1>1, <1>2 DEF Phases
<1>4. answer[c] = "none" /\ (killed[c] => count[c] = request[c].timeout)
  <2>1. phase[c] # "replying"
    BY <1>1
  <2>. QED
    BY Zenon, <1>2, <2>1 DEF Truth
<1>5. killed[c] => answer'[c] # "success"
  <2>. SUFFICES ASSUME killed[c] PROVE answer'[c] # "success"
    OBVIOUS
  <2>1. status = "timeout"
    BY Zenon, <1>4
  <2>2. answer'[c] = "none" \/ answer'[c] = "timeout"
    BY <1>1, <1>2, <1>4, <2>1
  <2>. QED
    BY <2>2
<1>6. Truth(c)'
  BY Zenon, <1>1, <1>3, <1>5 DEF Truth
<1>7. ASSUME NEW d \in Clients, d # c PROVE Truth(d)'
  <2>1. phase'[d] = phase[d] /\ count'[d] = count[d] /\ answer'[d] = answer[d]
    BY <1>1, <1>2, <1>7
  <2>. QED
    BY Zenon, <1>1, <1>2, <2>1 DEF Truth
<1>8. \A d \in Clients : Truth(d)'
  BY Zenon, <1>6, <1>7
<1>. QED
  BY Zenon, <1>1, <1>2, <1>3, <1>8 DEF TruthInv

\* The answer is written.
LEMMA TruthReplied == ASSUME TruthInv, NEW c \in Clients, Replied(c) PROVE TruthInv'
<1>1. /\ phase' = [phase EXCEPT ![c] = "idle"]
      /\ request' = [request EXCEPT ![c] = NoRequest]
      /\ answer' = [answer EXCEPT ![c] = "none"]
      /\ killed' = [killed EXCEPT ![c] = FALSE] /\ count' = count
  BY Zenon DEF Replied, Go
<1>2. /\ phase \in [Clients -> Phases]
      /\ answer \in [Clients -> {"none", "success", "error", "timeout"}]
      /\ killed \in [Clients -> BOOLEAN]
      /\ DOMAIN request = Clients /\ DOMAIN count = Clients
      /\ \A d \in Clients : Truth(d)
  BY Zenon DEF TruthInv
<1>3. /\ phase' \in [Clients -> Phases]
      /\ answer' \in [Clients -> {"none", "success", "error", "timeout"}]
      /\ DOMAIN request' = Clients /\ answer'[c] = "none"
  BY <1>1, <1>2 DEF Phases
<1>4. killed' \in [Clients -> BOOLEAN] /\ ~killed'[c]
  BY Zenon, <1>1, <1>2
<1>5. Truth(c)'
  BY Zenon, <1>3, <1>4 DEF Truth
<1>6. ASSUME NEW d \in Clients, d # c PROVE Truth(d)'
  <2>1. phase'[d] = phase[d] /\ request'[d] = request[d] /\ answer'[d] = answer[d]
    BY <1>1, <1>2, <1>6
  <2>2. killed'[d] = killed[d]
    BY Zenon, <1>1, <1>2, <1>6
  <2>. QED
    BY Zenon, <1>1, <1>2, <2>1, <2>2 DEF Truth
<1>7. \A d \in Clients : Truth(d)'
  BY Zenon, <1>5, <1>6
<1>. QED
  BY Zenon, <1>1, <1>2, <1>3, <1>4, <1>7 DEF TruthInv

\* Every other step of a connection leads from a place to another one, and
\* answers at most.
Passes(c) ==
    \/ Accept(c) \/ TakeBuffered(c) \/ StartRead(c) \/ ReadFails(c) \/ LeaveLoop(c)
    \/ \E n \in 1..ReadSize : ReadPiece(c, n)
    \/ Read(c) \/ Refuse(c) \/ Write(c) \/ Notify(c)
    \/ Register(c) \/ Unregister(c) \/ RegisterAll(c) \/ Execute(c)
    \/ DeleteServer(c) \/ Disconnect(c) \/ StartServer(c) \/ StartServerFails(c)

\* These steps keep what is known of answers.
LEMMA TruthPasses == ASSUME TruthInv, NEW c \in Clients, Passes(c) PROVE TruthInv'
<1>. DEFINE Told == \E s \in {"success", "error", "timeout"} : answer' = [answer EXCEPT ![c] = s]
            NewRequest == request' = request \/ \E r : request' = [request EXCEPT ![c] = r]
            NewCount == count' = count \/ \E n : count' = [count EXCEPT ![c] = n]
<1>0. /\ "success" \in {"success", "error", "timeout"} /\ "error" \in {"success", "error", "timeout"}
      /\ {"idle", "reading", "serving", "setting", "notifying", "executing", "joining",
          "sleeping", "replying", "gone"} \subseteq Phases
  BY DEF Phases
<1>1. CASE Accept(c) \/ TakeBuffered(c) \/ StartRead(c) \/ ReadFails(c) \/ LeaveLoop(c)
           \/ \E n \in 1..ReadSize : ReadPiece(c, n)
  <2>1. phase[c] \in {"absent", "idle", "reading"}
    BY <1>1 DEF Accept, TakeBuffered, StartRead, ReadFails, LeaveLoop, ReadPiece
  <2>2. phase[c] \notin {"executing", "replying"}
    BY <2>1
  <2>3. /\ killed' = killed /\ NewRequest /\ NewCount /\ answer' = answer
        /\ phase' = phase \/ \E p \in Phases : phase' = [phase EXCEPT ![c] = p]
    <3>1. CASE Accept(c)
      BY <1>0, <3>1 DEF Accept, socket, execution, answers, Go
    <3>2. CASE TakeBuffered(c)
      BY <1>0, <3>2 DEF TakeBuffered, TakeUp, execution, answers, Go
    <3>3. CASE StartRead(c)
      BY <1>0, <3>3 DEF StartRead, execution, answers, Go
    <3>4. CASE ReadFails(c) \/ LeaveLoop(c)
      BY <1>0, <3>4 DEF ReadFails, LeaveLoop, Destroy, socket, execution, answers, Go
    <3>5. CASE \E n \in 1..ReadSize : ReadPiece(c, n)
      BY <1>0, <3>5 DEF ReadPiece, TakeUp, execution, answers, Go
    <3>. QED
      BY Zenon, <1>1, <3>1, <3>2, <3>3, <3>4, <3>5
  <2>4. CASE phase' = phase
    <3>1. phase' = [phase EXCEPT ![c] = phase[c]] /\ phase[c] \in Phases
      BY <2>4 DEF TruthInv
    <3>. QED
      BY Zenon, <2>2, <2>3, <3>1, TruthQuiet
  <2>. QED
    BY Zenon, <2>2, <2>3, <2>4, TruthQuiet
<1>2. CASE \/ Read(c) \/ Refuse(c) \/ Write(c) \/ Notify(c)
           \/ Register(c) \/ Unregister(c) \/ RegisterAll(c) \/ Execute(c)
           \/ DeleteServer(c) \/ Disconnect(c) \/ StartServer(c) \/ StartServerFails(c)
  <2>1. phase[c] \in {"serving", "setting", "notifying", "joining", "sleeping"}
    BY <1>2 DEF Read, Refuse, Write, Notify, Register, Unregister, RegisterAll, Execute,
                DeleteServer, Disconnect, StartServer, StartServerFails, Serves
  <2>2. phase[c] \notin {"executing", "replying"}
    BY <2>1
  <2>3. killed' = killed /\ request' = request
    BY Zenon, <1>2 DEF Read, Refuse, Write, Notify, Register, Unregister, RegisterAll, Execute,
                DeleteServer, Disconnect, StartServer, StartServerFails, execution, socket
  <2>4. NewCount
    BY Zenon, <1>2 DEF Read, Refuse, Write, Notify, Register, Unregister, RegisterAll, Execute,
                DeleteServer, Disconnect, StartServer, StartServerFails, execution
  <2>5. \/ phase' = [phase EXCEPT ![c] = "replying"] /\ (answer' = answer \/ Told)
        \/ answer' = answer /\ phase' = [phase EXCEPT ![c] = "setting"]
        \/ answer' = answer /\ phase' = [phase EXCEPT ![c] = "notifying"]
        \/ answer' = answer /\ phase' = [phase EXCEPT ![c] = "executing"]
        \/ answer' = answer /\ phase' = [phase EXCEPT ![c] = "joining"]
        \/ answer' = answer /\ phase' = [phase EXCEPT ![c] = "sleeping"]
        \/ answer' = answer /\ phase' = phase
    BY Zenon, <1>0, <1>2 DEF Read, Refuse, Write, Notify, Register, Unregister, RegisterAll, Execute,
                DeleteServer, Disconnect, StartServer, StartServerFails, Answer, Go, answers
  <2>6. CASE phase' = [phase EXCEPT ![c] = "replying"] /\ (answer' = answer \/ Told)
    <3>1. "replying" \in Phases
      BY <1>0
    <3>. QED
      BY Zenon, <2>2, <2>3, <2>4, <2>6, <3>1, TruthQuiet
  <2>7. CASE answer' = answer /\ phase' = phase
    <3>1. phase' = [phase EXCEPT ![c] = phase[c]] /\ phase[c] \in Phases
      BY <2>7 DEF TruthInv
    <3>. QED
      BY Zenon, <2>2, <2>3, <2>4, <2>7, <3>1, TruthQuiet
  <2>8. ASSUME NEW p \in Phases, answer' = answer, phase' = [phase EXCEPT ![c] = p]
        PROVE  TruthInv'
    BY Zenon, <2>2, <2>3, <2>4, <2>8, TruthQuiet
  <2>9. /\ "setting" \in Phases /\ "notifying" \in Phases /\ "executing" \in Phases
        /\ "joining" \in Phases /\ "sleeping" \in Phases
    BY <1>0
  <2>. QED
    BY Zenon, <2>5, <2>6, <2>7, <2>8, <2>9
<1>. QED
  BY Zenon, <1>1, <1>2 DEF Passes

\* The invariant holds at first, and every step keeps it.
LEMMA TruthAtFirst == Init => TruthInv
<1>. SUFFICES ASSUME Init PROVE TruthInv
  OBVIOUS
<1>1. /\ phase = [c \in Clients |-> "absent"] /\ answer = [c \in Clients |-> "none"]
      /\ request = [c \in Clients |-> NoRequest] /\ count = [c \in Clients |-> 0]
      /\ killed = [c \in Clients |-> FALSE]
  BY Zenon DEF Init
<1>2. killed \in [Clients -> BOOLEAN] /\ \A c \in Clients : ~killed[c]
  BY Zenon, <1>1
<1>3. /\ phase \in [Clients -> Phases]
      /\ answer \in [Clients -> {"none", "success", "error", "timeout"}]
      /\ DOMAIN request = Clients /\ DOMAIN count = Clients
      /\ \A c \in Clients : answer[c] = "none"
  BY <1>1 DEF Phases
<1>. QED
  BY Zenon, <1>2, <1>3 DEF TruthInv, Truth

\* Every step keeps it.
LEMMA TruthStepwise == TruthInv /\ [Next]_vars => TruthInv'
<1>1. ASSUME TruthInv, UNCHANGED vars PROVE TruthInv'
  <2>1. /\ phase' = phase /\ request' = request /\ answer' = answer
        /\ count' = count /\ killed' = killed
    BY Zenon, <1>1 DEF vars, socket, answers, execution
  <2>. QED
    BY Zenon, <1>1, <2>1, TruthUntouched
<1>2. ASSUME TruthInv, NEW c \in Clients,
             Send(c) \/ HangUp(c) \/ \E i \in 1..MaxActions : ActionEnds(c, i)
      PROVE  TruthInv'
  <2>1. /\ phase' = phase /\ request' = request /\ answer' = answer
        /\ count' = count /\ killed' = killed
    BY Zenon, <1>2 DEF Send, HangUp, ActionEnds, socket, answers, execution
  <2>. QED
    BY Zenon, <1>2, <2>1, TruthUntouched
<1>3. ASSUME TruthInv, BusAdvance \/ \E v \in BOOLEAN : BusChange(v) PROVE TruthInv'
  <2>1. /\ phase' = phase /\ request' = request /\ answer' = answer
        /\ count' = count /\ killed' = killed
    BY Zenon, <1>3 DEF BusAdvance, BusChange, socket, answers, execution
  <2>. QED
    BY Zenon, <1>3, <2>1, TruthUntouched
<1>4. ASSUME TruthInv, NEW c \in Clients, Passes(c) PROVE TruthInv'
  BY Zenon, <1>4, TruthPasses
<1>5. ASSUME TruthInv, NEW c \in Clients, WaitForFirst(c) \/ Executed(c) \/ Replied(c)
      PROVE  TruthInv'
  BY Zenon, <1>5, TruthWaiting, TruthExecuted, TruthReplied
<1>. QED
  BY Zenon, <1>1, <1>2, <1>3, <1>4, <1>5 DEF Next, Run, Passes

-----------------------------------------------------------------------------
(***************************************************************************)
(* What is left of the list of listeners without those of a client.         *)
(***************************************************************************)
\* A set of numbers with a member has a smallest one.
LEMMA Least ==
    ASSUME NEW S \in SUBSET Nat, S # {}
    PROVE  \E x \in S : \A y \in S : x <= y
<1>1. PICK x \in S : \A y \in S : ~(<<y, x>> \in OpToRel(<, Nat))
  BY NatLessThanWellFounded, WFMin
<1>2. \A y \in S : y < x => <<y, x>> \in OpToRel(<, Nat)
  BY Zenon, <1>1 DEF OpToRel
<1>3. \A y \in S : ~(y < x)
  BY Zenon, <1>1, <1>2
<1>. QED
  BY <1>3

\* Each entry counts, or is to be erased.
LEMMA OthersCount ==
    ASSUME listeners \in Seq(Clients), NEW c
    PROVE  /\ Others(c, 0) = 0
           /\ \A i \in 0..Len(listeners) : Others(c, i) \in Nat /\ Others(c, i) <= i
           /\ \A i \in 1..Len(listeners) :
                 Others(c, i) = IF i \in Entries(c) THEN Others(c, i - 1) ELSE Others(c, i - 1) + 1
<1>. DEFINE n == Len(listeners)
<1>1. n \in Nat
  BY LenProperties
<1>2. \A i \in 0..n : IsFiniteSet(1..i) /\ Cardinality(1..i) = i
  BY <1>1, FS_Interval
<1>3. \A i \in 0..n : /\ IsFiniteSet((1..i) \ Entries(c))
                      /\ Others(c, i) \in Nat
                      /\ Others(c, i) <= i
  <2>. SUFFICES ASSUME NEW i \in 0..n
                PROVE  /\ IsFiniteSet((1..i) \ Entries(c))
                       /\ Others(c, i) \in Nat
                       /\ Others(c, i) <= i
    OBVIOUS
  <2>1. (1..i) \ Entries(c) \in SUBSET (1..i) /\ IsFiniteSet(1..i) /\ Cardinality(1..i) = i
    BY <1>2
  <2>2. /\ IsFiniteSet((1..i) \ Entries(c))
        /\ Cardinality((1..i) \ Entries(c)) <= Cardinality(1..i)
    BY Zenon, <2>1, FS_Subset
  <2>3. Cardinality((1..i) \ Entries(c)) \in Nat
    BY Zenon, <2>2, FS_CardinalityType
  <2>. QED
    BY <2>1, <2>2, <2>3 DEF Others
<1>4. Others(c, 0) = 0
  <2>1. (1..0) \ Entries(c) = {}
    OBVIOUS
  <2>. QED
    BY <2>1, FS_EmptySet DEF Others
<1>5. ASSUME NEW i \in 1..n
      PROVE  Others(c, i) = IF i \in Entries(c) THEN Others(c, i - 1) ELSE Others(c, i - 1) + 1
  <2>1. CASE i \in Entries(c)
    <3>1. (1..i) \ Entries(c) = (1..(i - 1)) \ Entries(c)
      BY <1>1, <2>1
    <3>. QED
      BY <2>1, <3>1 DEF Others
  <2>2. CASE i \notin Entries(c)
    <3>. DEFINE S == (1..(i - 1)) \ Entries(c)
    <3>1. (1..i) \ Entries(c) = S \cup {i} /\ i \notin S /\ i - 1 \in 0..n
      BY <1>1, <2>2
    <3>2. IsFiniteSet(S)
      BY <1>3, <3>1
    <3>3. Cardinality(S \cup {i}) = Cardinality(S) + 1
      BY <3>1, <3>2, FS_AddElement
    <3>. HIDE DEF S
    <3>4. Others(c, i) = Cardinality(S) + 1
      BY <3>1, <3>3 DEF Others
    <3>5. Others(c, i - 1) = Cardinality(S)
      BY DEF Others, S
    <3>. QED
      BY <2>2, <3>4, <3>5
  <2>. QED
    BY <2>1, <2>2
<1>. QED
  BY Zenon, <1>3, <1>4, <1>5

\* The entries that stay keep their order.
LEMMA OthersGrow ==
    ASSUME listeners \in Seq(Clients), NEW c,
           NEW i \in 0..Len(listeners), NEW j \in 0..Len(listeners), i <= j
    PROVE  /\ Others(c, i) <= Others(c, j)
           /\ i < j /\ j \notin Entries(c) => Others(c, i) < Others(c, j)
<1>. DEFINE n == Len(listeners)
<1>1. n \in Nat
  BY LenProperties
<1>2. \A k \in 0..n : Others(c, k) \in Nat
  BY Zenon, OthersCount
<1>3. \A k \in 0..n : i <= k => Others(c, i) <= Others(c, k)
  <2>. DEFINE Bad == {k \in 0..n : i <= k /\ ~(Others(c, i) <= Others(c, k))}
  <2>. SUFFICES ASSUME Bad # {} PROVE FALSE
    OBVIOUS
  <2>1. PICK k \in Bad : \A m \in Bad : k <= m
    <3>1. Bad \in SUBSET Nat
      BY <1>1
    <3>. QED
      BY Zenon, <3>1, Least
  <2>2. k \in 0..n /\ i <= k /\ ~(Others(c, i) <= Others(c, k))
    OBVIOUS
  <2>3. i # k
    BY <1>2, <2>2
  <2>4. k \in 1..n /\ k - 1 \in 0..n /\ i <= k - 1 /\ ~(k <= k - 1)
    BY <1>1, <2>2, <2>3
  <2>5. Others(c, i) <= Others(c, k - 1)
    BY Zenon, <2>1, <2>4
  <2>6. Others(c, k) = Others(c, k - 1) \/ Others(c, k) = Others(c, k - 1) + 1
    BY Zenon, <2>4, OthersCount
  <2>. HIDE DEF Bad
  <2>. QED
    BY <1>2, <2>2, <2>4, <2>5, <2>6
<1>4. CASE i < j /\ j \notin Entries(c)
  <2>1. j \in 1..n /\ j - 1 \in 0..n /\ i <= j - 1
    BY <1>1, <1>4
  <2>2. Others(c, i) <= Others(c, j - 1) /\ Others(c, i) <= Others(c, j)
    BY Zenon, <1>3, <2>1
  <2>3. Others(c, j) = Others(c, j - 1) + 1
    BY Zenon, <1>4, <2>1, OthersCount
  <2>. QED
    BY <1>2, <2>1, <2>2, <2>3
<1>. QED
  BY Zenon, <1>3, <1>4

\* Where the entries of others are, afterwards.
LEMMA ButIs ==
    ASSUME listeners \in Seq(Clients), NEW c
    PROVE  /\ ListenersBut(c) \in Seq(Clients)
           /\ Len(ListenersBut(c)) = Others(c, Len(listeners))
           /\ \A i \in (1..Len(listeners)) \ Entries(c) :
                 /\ Others(c, i) \in 1..Len(ListenersBut(c))
                 /\ ListenersBut(c)[Others(c, i)] = listeners[i]
           /\ \A m \in 1..Len(ListenersBut(c)) :
                 \E i \in (1..Len(listeners)) \ Entries(c) :
                    Others(c, i) = m /\ ListenersBut(c)[m] = listeners[i]
<1>. DEFINE n == Len(listeners)
            Kept == (1..n) \ Entries(c)
            K == Others(c, n)
            new == ListenersBut(c)
<1>1. /\ n \in Nat /\ n \in 0..n
      /\ \A i \in 1..n : listeners[i] \in Clients /\ i \in 0..n
  BY LenProperties, ElementOfSeq
<1>2. K \in Nat
  BY Zenon, <1>1, OthersCount
<1>3. ASSUME NEW m \in 1..K PROVE \E i \in Kept : Others(c, i) = m
  <2>. DEFINE S == {i \in 0..n : Others(c, i) >= m}
  <2>1. n \in S
    BY <1>1, <1>2
  <2>2. PICK k \in S : \A i \in S : k <= i
    <3>1. S \in SUBSET Nat /\ S # {}
      BY <1>1, <2>1
    <3>. QED
      BY Zenon, <3>1, Least
  <2>3. k # 0
    <3>1. Others(c, 0) = 0
      BY Zenon, OthersCount
    <3>. QED
      BY <1>2, <2>2, <3>1
  <2>4. k \in 1..n /\ k - 1 \in 0..n /\ ~(k <= k - 1)
    BY <1>1, <2>2, <2>3
  <2>5. ~(Others(c, k - 1) >= m)
    BY <2>2, <2>4
  <2>6. Others(c, k) = IF k \in Entries(c) THEN Others(c, k - 1) ELSE Others(c, k - 1) + 1
    BY Zenon, <2>4, OthersCount
  <2>7. Others(c, k) \in Nat /\ Others(c, k - 1) \in Nat /\ Others(c, k) >= m
    BY Zenon, <2>2, <2>4, OthersCount
  <2>8. k \notin Entries(c) /\ Others(c, k) = m
    BY <1>2, <2>5, <2>6, <2>7
  <2>. QED
    BY <2>4, <2>8
<1>4. ASSUME NEW i \in Kept, NEW j \in Kept, Others(c, i) = Others(c, j) PROVE i = j
  <2>1. i \in 0..n /\ j \in 0..n /\ i \notin Entries(c) /\ j \notin Entries(c)
    BY <1>1
  <2>2. Others(c, i) \in Nat /\ Others(c, j) \in Nat
    BY Zenon, <2>1, OthersCount
  <2>3. i < j => Others(c, i) < Others(c, j)
    BY <2>1, OthersGrow
  <2>4. j < i => Others(c, j) < Others(c, i)
    BY <2>1, OthersGrow
  <2>. QED
    BY <1>1, <1>4, <2>2, <2>3, <2>4
<1>5. ASSUME NEW i \in Kept PROVE Others(c, i) \in 1..K
  <2>1. i \in 1..n /\ i \notin Entries(c) /\ 0 \in 0..n /\ i \in 0..n /\ i <= n
    BY <1>1
  <2>2. Others(c, 0) < Others(c, i) /\ Others(c, 0) = 0 /\ Others(c, i) \in Nat
    <3>1. 0 <= i /\ 0 < i
      BY <2>1
    <3>. QED
      BY Zenon, <2>1, <3>1, OthersGrow, OthersCount
  <2>3. Others(c, i) <= K
    BY Zenon, <1>1, <2>1, OthersGrow
  <2>. QED
    BY <1>2, <2>2, <2>3
<1>. DEFINE From(m) == CHOOSE i \in Kept : Others(c, i) = m
<1>6. \A m \in 1..K : From(m) \in Kept /\ Others(c, From(m)) = m
  BY Zenon, <1>3
<1>7. new = [m \in 1..K |-> listeners[From(m)]]
  BY DEF ListenersBut
<1>. HIDE DEF new, From, K
<1>8. new \in [1..K -> Clients]
  <2>1. \A m \in 1..K : listeners[From(m)] \in Clients
    BY Zenon, <1>1, <1>6
  <2>. QED
    BY <1>7, <2>1
<1>9. new \in Seq(Clients) /\ Len(new) = K
  <2>1. new \in Seq(Clients)
    BY <1>2, <1>8, SeqDef
  <2>2. DOMAIN new = 1..Len(new) /\ Len(new) \in Nat /\ DOMAIN new = 1..K
    BY <1>8, <2>1, LenProperties
  <2>. DEFINE L == Len(new)
  <2>3. L \in Nat /\ \A i \in Nat : i \in 1..L <=> i \in 1..K
    BY <2>2
  <2>. HIDE DEF L
  <2>4. L = K
    BY <1>2, <2>3
  <2>. QED
    BY <2>1, <2>4 DEF L
<1>10. \A m \in 1..K : \E i \in Kept : Others(c, i) = m /\ new[m] = listeners[i]
  <2>1. \A m \in 1..K : new[m] = listeners[From(m)]
    BY <1>7
  <2>. QED
    BY Zenon, <1>6, <2>1
<1>11. \A i \in Kept : Others(c, i) \in 1..K /\ new[Others(c, i)] = listeners[i]
  <2>. SUFFICES ASSUME NEW i \in Kept
                PROVE  Others(c, i) \in 1..K /\ new[Others(c, i)] = listeners[i]
    OBVIOUS
  <2>1. Others(c, i) \in 1..K
    BY Zenon, <1>5
  <2>2. PICK j \in Kept : Others(c, j) = Others(c, i) /\ new[Others(c, i)] = listeners[j]
    BY Zenon, <1>10, <2>1
  <2>3. j = i
    BY Zenon, <1>4, <2>2
  <2>. QED
    BY Zenon, <2>1, <2>2, <2>3
<1>. QED
  BY Zenon, <1>9, <1>10, <1>11 DEF new, K

-----------------------------------------------------------------------------
(***************************************************************************)
(* Nothing points to a server or a connection that is gone.                 *)
(***************************************************************************)
\* The set of a list holds what is at some place of it.
LEMMA InSet ==
    ASSUME NEW list \in Seq(Clients), NEW c
    PROVE  c \in ToSet(list) <=> \E i \in 1..Len(list) : list[i] = c
<1>1. DOMAIN list = 1..Len(list)
  BY LenProperties
<1>. QED
  BY <1>1 DEF ToSet

\* Who is left in the list was in it, and was not erased.
LEMMA ButInSet ==
    ASSUME listeners \in Seq(Clients), NEW c, NEW d \in ToSet(ListenersBut(c))
    PROVE  d \in ToSet(listeners) /\ d # c
<1>1. PICK m \in 1..Len(ListenersBut(c)) : ListenersBut(c)[m] = d
  BY Zenon, ButIs, InSet
<1>2. PICK i \in (1..Len(listeners)) \ Entries(c) :
          Others(c, i) = m /\ ListenersBut(c)[m] = listeners[i]
  BY Zenon, ButIs
<1>3. i \in 1..Len(listeners) /\ listeners[i] # c /\ listeners[i] = d
  BY <1>1, <1>2 DEF Entries
<1>. QED
  BY Zenon, <1>3, InSet

\* The list holds clients after a connection was erased from it or added.
LEMMA ListIs ==
    ASSUME listeners \in Seq(Clients), NEW c \in Clients
    PROVE  /\ Append(listeners, c) \in Seq(Clients)
           /\ Append(ListenersBut(c), c) \in Seq(Clients)
           /\ \A d \in ToSet(Append(listeners, c)) : d = c \/ d \in ToSet(listeners)
           /\ \A d \in ToSet(Append(ListenersBut(c), c)) : d = c \/ d \in ToSet(listeners)
<1>1. ASSUME NEW list \in Seq(Clients)
      PROVE  /\ Append(list, c) \in Seq(Clients)
             /\ \A d \in ToSet(Append(list, c)) : d = c \/ d \in ToSet(list)
  <2>1. /\ Append(list, c) \in Seq(Clients) /\ Len(list) \in Nat
        /\ Len(Append(list, c)) = Len(list) + 1
        /\ \A i \in 1..Len(list) : Append(list, c)[i] = list[i]
        /\ Append(list, c)[Len(list) + 1] = c
    BY AppendProperties, LenProperties
  <2>2. ASSUME NEW d \in ToSet(Append(list, c)), d # c PROVE d \in ToSet(list)
    <3>1. PICK i \in 1..Len(Append(list, c)) : Append(list, c)[i] = d
      BY Zenon, <2>1, InSet
    <3>2. i \in 1..Len(list) /\ list[i] = d
      BY <2>1, <2>2, <3>1
    <3>. QED
      BY Zenon, <3>2, InSet
  <2>. QED
    BY Zenon, <2>1, <2>2
<1>2. ListenersBut(c) \in Seq(Clients)
  BY Zenon, ButIs
<1>3. \A d \in ToSet(Append(ListenersBut(c), c)) : d = c \/ d \in ToSet(listeners)
  BY Zenon, <1>1, <1>2, ButInSet
<1>4. /\ Append(listeners, c) \in Seq(Clients)
      /\ \A d \in ToSet(Append(listeners, c)) : d = c \/ d \in ToSet(listeners)
  BY Zenon, <1>1
<1>. QED
  BY Zenon, <1>1, <1>2, <1>3, <1>4

\* Steps that are about something else.
LEMMA LivesUntouched ==
    ASSUME LivesInv, ~crashed, phase' = phase, listeners' = listeners, server' = server,
           attached' = attached, connections' = connections
    PROVE  LivesInv'
<1>1. OneReplaces' /\ \A c \in Clients : Replacing(c)'
  BY Zenon DEF LivesInv, OneReplaces, Replacing
<1>2. NothingDangles'
  BY Zenon DEF LivesInv, NothingDangles, Live
<1>. QED
  BY Zenon, <1>1, <1>2 DEF LivesInv

\* A connection goes on, and may join or leave the listeners.
LEMMA LivesQuiet ==
    ASSUME LivesInv, ~crashed, NEW c \in Clients, NEW p \in Phases,
           phase' = [phase EXCEPT ![c] = p],
           p \notin {"joining", "sleeping", "absent", "gone"},
           server' = server, attached' = attached, connections' = connections,
           listeners' \in Seq(Clients),
           \A d \in ToSet(listeners') : d = c \/ d \in ToSet(listeners)
    PROVE  LivesInv'
<1>1. /\ phase' \in [Clients -> Phases] /\ phase'[c] = p
      /\ \A d \in Clients : d # c => phase'[d] = phase[d]
  BY DEF LivesInv
<1>2. /\ p # "joining" /\ p # "sleeping" /\ p # "absent" /\ p # "gone"
      /\ \A d \in Clients : phase'[d] \in {"joining", "sleeping"} => d # c
  BY <1>1
<1>3. OneReplaces'
  BY Zenon, <1>1, <1>2 DEF LivesInv, OneReplaces
<1>4. ASSUME NEW d \in Clients PROVE Replacing(d)'
  <2>1. CASE d = c
    BY Zenon, <1>1, <1>2, <2>1 DEF Replacing
  <2>2. CASE d # c
    BY Zenon, <1>1, <2>2 DEF LivesInv, Replacing
  <2>. QED
    BY Zenon, <2>1, <2>2
<1>5. ASSUME NEW d \in ToSet(listeners') PROVE Live(d)'
  <2>1. CASE d = c
    BY <1>1, <1>2, <2>1 DEF Live
  <2>2. CASE d # c
    <3>1. d \in ToSet(listeners) /\ d \in Clients
      <4>1. d \in ToSet(listeners)
        BY Zenon, <2>2
      <4>2. PICK i \in 1..Len(listeners) : listeners[i] = d
        BY Zenon, <4>1, InSet DEF LivesInv
      <4>. QED
        BY <4>1, <4>2, ElementOfSeq DEF LivesInv
    <3>2. Live(d) /\ phase'[d] = phase[d]
      BY Zenon, <1>1, <2>2, <3>1 DEF LivesInv, NothingDangles
    <3>. QED
      BY Zenon, <3>2 DEF Live
  <2>. QED
    BY Zenon, <2>1, <2>2
<1>6. NothingDangles'
  BY Zenon, <1>5 DEF LivesInv, NothingDangles
<1>. QED
  BY Zenon, <1>1, <1>3, <1>4, <1>6 DEF LivesInv

\* A connection is made.
LEMMA LivesAccept == ASSUME LivesInv, ~crashed, NEW c \in Clients, Accept(c) PROVE LivesInv'
<1>1. /\ phase' = [phase EXCEPT ![c] = "idle"] /\ server' = server /\ listeners' = listeners
      /\ server \in {"running", "stopping"}
      /\ attached' = attached \cup {c} /\ connections' = connections \cup {c}
  BY Zenon DEF Accept, Go, object
<1>2. /\ phase' \in [Clients -> Phases] /\ phase'[c] = "idle"
      /\ \A d \in Clients : d # c => phase'[d] = phase[d]
  BY <1>1 DEF LivesInv, Phases
<1>3. \A d \in Clients : phase'[d] \in {"joining", "sleeping"} => d # c
  BY <1>2
<1>4. OneReplaces'
  BY Zenon, <1>2, <1>3 DEF LivesInv, OneReplaces
<1>5. ASSUME NEW d \in Clients PROVE Replacing(d)'
  <2>1. CASE d = c
    BY <1>2, <2>1 DEF Replacing
  <2>2. CASE d # c
    BY Zenon, <1>1, <1>2, <2>2 DEF LivesInv, Replacing
  <2>. QED
    BY Zenon, <2>1, <2>2
<1>6. ASSUME NEW d \in ToSet(listeners') PROVE Live(d)'
  <2>1. CASE d = c
    BY <1>2, <2>1 DEF Live
  <2>2. CASE d # c
    <3>1. PICK i \in 1..Len(listeners) : listeners[i] = d
      BY Zenon, <1>1, InSet DEF LivesInv
    <3>2. d \in Clients
      BY <3>1, ElementOfSeq DEF LivesInv
    <3>3. Live(d) /\ phase'[d] = phase[d]
      BY Zenon, <1>1, <1>2, <2>2, <3>2 DEF LivesInv, NothingDangles
    <3>. QED
      BY Zenon, <3>3 DEF Live
  <2>. QED
    BY Zenon, <2>1, <2>2
<1>7. attached' \subseteq connections' /\ server' \in {"running", "stopping"}
  BY <1>1 DEF LivesInv, NothingDangles
<1>8. NothingDangles'
  BY Zenon, <1>6, <1>7 DEF NothingDangles
<1>. QED
  BY Zenon, <1>1, <1>2, <1>4, <1>5, <1>8 DEF LivesInv

\* A connection ends.
LEMMA LivesDestroy ==
    ASSUME LivesInv, ~crashed, NEW c \in Clients, Destroy(c), phase[c] \in {"idle", "reading"}
    PROVE  LivesInv'
<1>1. /\ phase' = [phase EXCEPT ![c] = "gone"] /\ server' = server
      /\ listeners' = ListenersBut(c)
      /\ \/ attached' = attached \ {c} /\ connections' = connections \ {c}
         \/ attached' = attached /\ connections' = connections
  BY Zenon DEF Destroy, Go, Unlist
<1>2. /\ phase' \in [Clients -> Phases] /\ phase'[c] = "gone"
      /\ \A d \in Clients : d # c => phase'[d] = phase[d]
  BY <1>1 DEF LivesInv, Phases
<1>3. \A d \in Clients : phase'[d] \in {"joining", "sleeping"} => d # c
  BY <1>2
<1>4. OneReplaces'
  BY Zenon, <1>2, <1>3 DEF LivesInv, OneReplaces
<1>5. ASSUME NEW d \in Clients PROVE Replacing(d)'
  <2>1. CASE d = c
    BY <1>2, <2>1 DEF Replacing
  <2>2. CASE d # c
    BY Zenon, <1>1, <1>2, <2>2 DEF LivesInv, Replacing
  <2>. QED
    BY Zenon, <2>1, <2>2
<1>6. listeners' \in Seq(Clients)
  BY Zenon, <1>1, ButIs DEF LivesInv
<1>7. ASSUME NEW d \in ToSet(listeners') PROVE Live(d)'
  <2>1. d \in ToSet(listeners) /\ d # c
    BY Zenon, <1>1, ButInSet DEF LivesInv
  <2>2. PICK i \in 1..Len(listeners) : listeners[i] = d
    BY Zenon, <2>1, InSet DEF LivesInv
  <2>3. d \in Clients
    BY <2>2, ElementOfSeq DEF LivesInv
  <2>4. Live(d) /\ phase'[d] = phase[d]
    BY Zenon, <1>2, <2>1, <2>3 DEF LivesInv, NothingDangles
  <2>. QED
    BY Zenon, <2>4 DEF Live
<1>8. attached' \subseteq connections' /\ (connections' # {} => server' \in {"running", "stopping"})
  BY <1>1 DEF LivesInv, NothingDangles
<1>9. NothingDangles'
  BY Zenon, <1>7, <1>8 DEF NothingDangles
<1>. QED
  BY Zenon, <1>2, <1>4, <1>5, <1>6, <1>9 DEF LivesInv

\* The server is replaced: only one thread does so.
LEMMA LivesReplace ==
    ASSUME LivesInv, ~crashed, NEW c \in Clients,
           DeleteServer(c) \/ Disconnect(c) \/ StartServer(c) \/ StartServerFails(c)
    PROVE  LivesInv'
<1>1. listeners' = listeners /\ phase \in [Clients -> Phases]
  BY Zenon DEF LivesInv, DeleteServer, Disconnect, StartServer, StartServerFails, object
<1>2. CASE DeleteServer(c) /\ server # "running"
  <2>1. server' = server /\ attached' = attached /\ connections' = connections /\ phase' = phase
    BY Zenon, <1>2 DEF DeleteServer
  <2>. QED
    BY Zenon, <1>1, <2>1, LivesUntouched
<1>3. CASE DeleteServer(c) /\ server = "running"
  <2>1. /\ server' = "stopping" /\ phase' = [phase EXCEPT ![c] = "joining"]
        /\ attached' = attached /\ connections' = connections /\ phase[c] = "serving"
    BY Zenon, <1>3 DEF DeleteServer, Go, Serves
  <2>2. /\ phase' \in [Clients -> Phases] /\ phase'[c] = "joining"
        /\ \A d \in Clients : d # c => phase'[d] = phase[d]
    BY <1>1, <2>1 DEF Phases
  <2>3. \A d \in Clients : phase[d] \notin {"joining", "sleeping"}
    <3>1. server # "stopping" /\ server # "deleted"
      BY <1>3
    <3>2. \A d \in Clients : phase[d] # "joining" /\ phase[d] # "sleeping"
      BY Zenon, <3>1 DEF LivesInv, Replacing
    <3>. QED
      BY <3>2
  <2>4. OneReplaces'
    BY Zenon, <2>2, <2>3 DEF OneReplaces
  <2>5. \A d \in Clients : Replacing(d)'
    <3>1. "joining" \in {"joining", "sleeping"} /\ "sleeping" \in {"joining", "sleeping"}
          /\ phase'[c] # "sleeping"
      BY <2>2
    <3>. QED
      BY Zenon, <2>1, <2>2, <2>3, <3>1 DEF Replacing
  <2>6. \A d \in Clients : Live(d) => Live(d)'
    <3>1. Live(c)'
      BY <2>2 DEF Live
    <3>. QED
      BY Zenon, <2>2, <3>1 DEF Live
  <2>7. \A d \in ToSet(listeners') : Live(d)'
    <3>1. \A d \in ToSet(listeners) : d \in Clients
      BY InSet, ElementOfSeq DEF LivesInv
    <3>. QED
      BY Zenon, <1>1, <2>6, <3>1 DEF LivesInv, NothingDangles
  <2>8. server' \in {"running", "stopping"}
    BY <2>1
  <2>9. NothingDangles'
    BY Zenon, <2>1, <2>7, <2>8 DEF LivesInv, NothingDangles
  <2>. QED
    BY Zenon, <1>1, <2>2, <2>4, <2>5, <2>9 DEF LivesInv
<1>4. ASSUME NEW p \in {"sleeping", "replying"}, phase' = [phase EXCEPT ![c] = p],
             phase[c] \in {"joining", "sleeping"},
             p = "sleeping" => server' = "deleted",
             attached' \subseteq connections',
             connections' # {} => server' \in {"running", "stopping"}
      PROVE  LivesInv'
  <2>1. /\ phase' \in [Clients -> Phases] /\ phase'[c] = p
        /\ \A d \in Clients : d # c => phase'[d] = phase[d]
    BY <1>1, <1>4 DEF Phases
  <2>2. \A d \in Clients : d # c => phase'[d] \notin {"joining", "sleeping"}
    BY Zenon, <1>4, <2>1 DEF LivesInv, OneReplaces
  <2>3. OneReplaces'
    BY Zenon, <2>2 DEF OneReplaces
  <2>4. \A d \in Clients : Replacing(d)'
    <3>1. "joining" \in {"joining", "sleeping"} /\ "sleeping" \in {"joining", "sleeping"}
          /\ p # "joining"
      BY <1>4
    <3>. QED
      BY Zenon, <1>4, <2>1, <2>2, <3>1 DEF Replacing
  <2>5. \A d \in Clients : Live(d) => Live(d)'
    <3>1. Live(c)'
      BY <1>4, <2>1 DEF Live
    <3>. QED
      BY Zenon, <2>1, <3>1 DEF Live
  <2>6. \A d \in ToSet(listeners') : Live(d)'
    <3>1. \A d \in ToSet(listeners) : d \in Clients
      BY InSet, ElementOfSeq DEF LivesInv
    <3>. QED
      BY Zenon, <1>1, <2>5, <3>1 DEF LivesInv, NothingDangles
  <2>7. NothingDangles'
    BY Zenon, <1>4, <2>6 DEF NothingDangles
  <2>. QED
    BY Zenon, <1>1, <2>1, <2>3, <2>4, <2>7 DEF LivesInv
<1>5. CASE Disconnect(c)
  <2>1. /\ phase' = [phase EXCEPT ![c] = "sleeping"] /\ phase[c] \in {"joining", "sleeping"}
        /\ server' = "deleted" /\ connections' = {} /\ attached' \subseteq connections'
        /\ "sleeping" \in {"sleeping", "replying"}
    BY <1>5 DEF Disconnect, Go, LivesInv, NothingDangles
  <2>. QED
    BY Zenon, <1>4, <2>1
<1>6. CASE StartServer(c) \/ StartServerFails(c)
  <2>1. /\ phase' = [phase EXCEPT ![c] = "replying"] /\ phase[c] = "sleeping"
        /\ connections' = connections /\ attached' = attached
    BY Zenon, <1>6 DEF StartServer, StartServerFails, Answer, Go
  <2>2. connections = {}
    <3>1. server = "deleted"
      BY Zenon, <2>1 DEF LivesInv, Replacing
    <3>. QED
      BY <3>1 DEF LivesInv, NothingDangles
  <2>3. /\ "replying" \in {"sleeping", "replying"} /\ "replying" # "sleeping"
        /\ phase[c] \in {"joining", "sleeping"}
    BY <2>1
  <2>4. attached' \subseteq connections'
    BY Zenon, <2>1 DEF LivesInv, NothingDangles
  <2>. QED
    BY Zenon, <1>4, <2>1, <2>2, <2>3, <2>4
<1>. QED
  BY Zenon, <1>2, <1>3, <1>5, <1>6

\* The other steps of a connection.
Proceeds(c) ==
    \/ TakeBuffered(c) \/ StartRead(c) \/ \E n \in 1..ReadSize : ReadPiece(c, n)
    \/ Replied(c) \/ Read(c) \/ Refuse(c) \/ Write(c) \/ Notify(c)
    \/ Register(c) \/ Unregister(c) \/ RegisterAll(c) \/ Execute(c) \/ Executed(c)

\* Where they lead.
Proceeding == {"idle", "reading", "serving", "setting", "notifying", "executing", "replying"}

\* These steps lead from one of these places to one of them.
LEMMA ProceedsTo ==
    ASSUME NEW c \in Clients, Proceeds(c), phase \in [Clients -> Phases]
    PROVE  /\ phase[c] \in Proceeding
           /\ \E p \in Proceeding : phase' = [phase EXCEPT ![c] = p]
<1>1. phase[c] \in Proceeding
  BY DEF Proceeds, TakeBuffered, StartRead, ReadPiece, Replied, Read, Refuse, Write, Notify,
         Register, Unregister, RegisterAll, Execute, Executed, Serves, Proceeding
<1>2. phase' = phase \/ \E p \in Proceeding : phase' = [phase EXCEPT ![c] = p]
  <2>1. /\ "idle" \in Proceeding /\ "reading" \in Proceeding /\ "serving" \in Proceeding
        /\ "setting" \in Proceeding /\ "notifying" \in Proceeding /\ "executing" \in Proceeding
        /\ "replying" \in Proceeding
    BY DEF Proceeding
  <2>2. CASE TakeBuffered(c) \/ StartRead(c) \/ \E n \in 1..ReadSize : ReadPiece(c, n)
    BY Zenon, <2>1, <2>2 DEF TakeBuffered, StartRead, ReadPiece, TakeUp, Go
  <2>3. CASE \/ Replied(c) \/ Read(c) \/ Refuse(c) \/ Write(c) \/ Notify(c)
             \/ Register(c) \/ Unregister(c) \/ RegisterAll(c) \/ Execute(c) \/ Executed(c)
    BY Zenon, <2>1, <2>3 DEF Replied, Read, Refuse, Write, Notify,
         Register, Unregister, RegisterAll, Execute, Executed, Answer, Go
  <2>. QED
    BY Zenon, <2>2, <2>3 DEF Proceeds
<1>3. CASE phase' = phase
  <2>1. phase' = [phase EXCEPT ![c] = phase[c]]
    BY <1>3
  <2>. QED
    BY Zenon, <1>1, <2>1
<1>. QED
  BY Zenon, <1>1, <1>2, <1>3

\* They keep what is known of lives.
LEMMA LivesProceeds ==
    ASSUME LivesInv, ~crashed, NEW c \in Clients, Proceeds(c) PROVE LivesInv'
<1>1. server' = server /\ attached' = attached /\ connections' = connections
  BY Zenon DEF Proceeds, TakeBuffered, StartRead, ReadPiece, Replied, Read, Refuse, Write, Notify,
         Register, Unregister, RegisterAll, Execute, Executed, lives
<1>2. \/ listeners' = listeners \/ listeners' = Append(listeners, c)
      \/ listeners' = ListenersBut(c) \/ listeners' = Append(ListenersBut(c), c)
  BY Zenon DEF Proceeds, TakeBuffered, StartRead, ReadPiece, Replied, Read, Refuse, Write, Notify,
         Register, Unregister, RegisterAll, Execute, Executed, object, Unlist
<1>3. /\ listeners' \in Seq(Clients)
      /\ \A d \in ToSet(listeners') : d = c \/ d \in ToSet(listeners)
  <2>1. listeners \in Seq(Clients)
    BY Zenon DEF LivesInv
  <2>. QED
    BY Zenon, <1>2, <2>1, ListIs, ButIs, ButInSet
<1>4. PICK p \in Proceeding : phase' = [phase EXCEPT ![c] = p]
  BY Zenon, ProceedsTo DEF LivesInv
<1>5. p \in Phases /\ p \notin {"joining", "sleeping", "absent", "gone"}
  BY DEF Proceeding, Phases
<1>. QED
  BY Zenon, <1>1, <1>3, <1>4, <1>5, LivesQuiet

\* The invariant holds at first, and every step keeps it.
LEMMA LivesAtFirst == Init => LivesInv
<1>. SUFFICES ASSUME Init PROVE LivesInv
  OBVIOUS
<1>1. /\ phase = [c \in Clients |-> "absent"] /\ server = "running" /\ attached = {}
      /\ connections = {} /\ listeners = <<>>
  BY Zenon DEF Init
<1>2. /\ phase \in [Clients -> Phases] /\ listeners \in Seq(Clients)
      /\ \A c \in Clients : phase[c] = "absent"
  BY <1>1, EmptySeq DEF Phases
<1>3. OneReplaces /\ \A c \in Clients : Replacing(c)
  BY <1>2 DEF OneReplaces, Replacing
<1>4. ToSet(listeners) = {}
  BY <1>1 DEF ToSet
<1>5. NothingDangles
  BY <1>1, <1>4 DEF NothingDangles
<1>. QED
  BY Zenon, <1>2, <1>3, <1>5 DEF LivesInv

\* Every step keeps it.
LEMMA LivesStepwise == LivesInv /\ [Next]_vars => LivesInv'
<1>1. ASSUME LivesInv, UNCHANGED vars PROVE LivesInv'
  <2>1. /\ phase' = phase /\ listeners' = listeners /\ server' = server
        /\ attached' = attached /\ connections' = connections /\ crashed' = crashed
    BY Zenon, <1>1 DEF vars, lives, object
  <2>2. OneReplaces' /\ \A c \in Clients : Replacing(c)'
    BY Zenon, <1>1, <2>1 DEF LivesInv, OneReplaces, Replacing
  <2>3. NothingDangles'
    BY Zenon, <1>1, <2>1 DEF LivesInv, NothingDangles, Live
  <2>. QED
    BY Zenon, <1>1, <2>1, <2>2, <2>3 DEF LivesInv
<1>2. ASSUME LivesInv, ~crashed, NEW c \in Clients,
             Send(c) \/ HangUp(c) \/ WaitForFirst(c) \/ \E i \in 1..MaxActions : ActionEnds(c, i)
      PROVE  LivesInv'
  <2>1. /\ phase' = phase /\ listeners' = listeners /\ server' = server
        /\ attached' = attached /\ connections' = connections
    BY Zenon, <1>2 DEF Send, HangUp, WaitForFirst, ActionEnds, lives, object
  <2>. QED
    BY Zenon, <1>2, <2>1, LivesUntouched
<1>3. ASSUME LivesInv, ~crashed, BusAdvance \/ \E v \in BOOLEAN : BusChange(v) PROVE LivesInv'
  <2>1. /\ phase' = phase /\ listeners' = listeners /\ server' = server
        /\ attached' = attached /\ connections' = connections
    BY Zenon, <1>3 DEF BusAdvance, BusChange, lives
  <2>. QED
    BY Zenon, <1>3, <2>1, LivesUntouched
<1>4. ASSUME LivesInv, ~crashed, NEW c \in Clients, ReadFails(c) \/ LeaveLoop(c) PROVE LivesInv'
  <2>1. Destroy(c) /\ phase[c] \in {"idle", "reading"}
    BY <1>4 DEF ReadFails, LeaveLoop
  <2>. QED
    BY Zenon, <1>4, <2>1, LivesDestroy
<1>5. ASSUME LivesInv, ~crashed, NEW c \in Clients,
             \/ Accept(c) \/ Proceeds(c)
             \/ DeleteServer(c) \/ Disconnect(c) \/ StartServer(c) \/ StartServerFails(c)
      PROVE  LivesInv'
  BY Zenon, <1>5, LivesAccept, LivesProceeds, LivesReplace
<1>. QED
  BY Zenon, <1>1, <1>2, <1>3, <1>4, <1>5 DEF Next, Run, Proceeds

-----------------------------------------------------------------------------
(***************************************************************************)
(* Whoever is registered ends up notified with the value of the object.     *)
(***************************************************************************)
\* Steps that are about something else.
LEMMA InformedUntouched ==
    ASSUME InformedInv, phase' = phase, listeners' = listeners, at' = at, told' = told,
           value' = value, crashed' = crashed
    PROVE  InformedInv'
<1>1. \A c \in Clients : ToldOrSoon(c) => ToldOrSoon(c)'
  BY Zenon DEF ToldOrSoon, Ahead
<1>2. ~crashed' => \A c \in Clients : Listed(c)' => ToldOrSoon(c)'
  BY Zenon, <1>1 DEF InformedInv, Listed
<1>. QED
  BY Zenon, <1>2 DEF InformedInv

\* A connection that tells nobody goes on, and may register.
LEMMA InformedQuiet ==
    ASSUME InformedInv, ~crashed, NEW c \in Clients, NEW p \in Phases,
           phase' = [phase EXCEPT ![c] = p], p # "notifying",
           phase[c] \notin {"setting", "notifying"},
           at' = at, value' = value,
           \/ listeners' = listeners /\ told' = told
           \/ listeners' = Append(listeners, c) /\ told' = [told EXCEPT ![c] = value]
    PROVE  InformedInv'
<1>. DEFINE n == Len(listeners)
<1>1. /\ phase \in [Clients -> Phases] /\ listeners \in Seq(Clients) /\ n \in Nat
      /\ at \in [Threads -> Nat] /\ DOMAIN told = Clients
      /\ \A t \in Threads : at[t] <= n
      /\ phase[c] # "setting" /\ phase[c] # "notifying"
  BY LenProperties DEF InformedInv
<1>2. /\ phase' \in [Clients -> Phases] /\ phase'[c] = p
      /\ \A d \in Clients : d # c => phase'[d] = phase[d]
  BY <1>1
<1>3. \A d \in Clients : at'[d] # 0 <=> phase'[d] = "notifying"
  BY Zenon, <1>1, <1>2 DEF InformedInv
<1>4. /\ listeners' \in Seq(Clients) /\ Len(listeners') \in Nat /\ n <= Len(listeners')
      /\ \A i \in 1..n : listeners'[i] = listeners[i]
      /\ \A i \in 1..Len(listeners') : i \notin 1..n => listeners'[i] = c /\ told'[c] = value
      /\ DOMAIN told' = Clients
      /\ \A d \in Clients : told'[d] = told[d] \/ told'[d] = value
  <2>1. CASE listeners' = listeners /\ told' = told
    BY <1>1, <2>1
  <2>2. CASE listeners' = Append(listeners, c) /\ told' = [told EXCEPT ![c] = value]
    <3>1. /\ listeners' \in Seq(Clients) /\ Len(listeners') = n + 1
          /\ \A i \in 1..n : listeners'[i] = listeners[i]
          /\ listeners'[n + 1] = c
      BY <1>1, <2>2, AppendProperties
    <3>2. /\ DOMAIN told' = Clients /\ told'[c] = value
          /\ \A d \in Clients : told'[d] = told[d] \/ told'[d] = value
      BY <1>1, <2>2
    <3>3. \A i \in 1..(n + 1) : i \notin 1..n => i = n + 1
      BY <1>1
    <3>4. n + 1 \in Nat /\ n <= n + 1
      BY <1>1
    <3>. QED
      BY Zenon, <3>1, <3>2, <3>3, <3>4
  <2>. QED
    BY Zenon, <2>1, <2>2
<1>5. \A d \in Clients, t \in Threads : Ahead(t, d) => Ahead(t, d)'
  <2>. SUFFICES ASSUME NEW d \in Clients, NEW t \in Threads, Ahead(t, d) PROVE Ahead(t, d)'
    OBVIOUS
  <2>1. PICK i \in 1..n : i > at[t] /\ listeners[i] = d
    BY Zenon DEF Ahead
  <2>2. i \in 1..Len(listeners')
    BY <1>1, <1>4
  <2>3. listeners'[i] = d
    BY Zenon, <1>4, <2>1
  <2>. QED
    BY Zenon, <2>1, <2>2, <2>3 DEF Ahead
<1>6. ASSUME NEW d \in Clients, Listed(d)' PROVE ToldOrSoon(d)'
  <2>1. PICK i \in 1..Len(listeners') : listeners'[i] = d
    BY Zenon, <1>6 DEF Listed
  <2>2. CASE i \notin 1..n
    <3>1. told'[d] = value'
      BY Zenon, <1>4, <2>1, <2>2
    <3>. QED
      BY Zenon, <3>1 DEF ToldOrSoon
  <2>3. CASE i \in 1..n
    <3>1. ToldOrSoon(d)
      <4>1. listeners[i] = d
        BY Zenon, <1>4, <2>1, <2>3
      <4>2. Listed(d)
        BY Zenon, <2>3, <4>1 DEF Listed
      <4>. QED
        BY Zenon, <4>2 DEF InformedInv
    <3>2. CASE told[d] = value
      <4>1. told'[d] = value'
        BY Zenon, <1>4, <3>2
      <4>. QED
        BY Zenon, <4>1 DEF ToldOrSoon
    <3>3. CASE \E e \in Clients : phase[e] = "setting"
      <4>1. \E e \in Clients : phase'[e] = "setting"
        BY Zenon, <1>1, <1>2, <3>3
      <4>. QED
        BY Zenon, <4>1 DEF ToldOrSoon
    <3>4. CASE \E t \in Threads : Ahead(t, d)
      <4>1. \E t \in Threads : Ahead(t, d)'
        BY Zenon, <1>5, <3>4
      <4>. QED
        BY Zenon, <4>1 DEF ToldOrSoon, Ahead
    <3>. QED
      BY Zenon, <3>1, <3>2, <3>3, <3>4 DEF ToldOrSoon
  <2>. QED
    BY Zenon, <2>2, <2>3
<1>7. \A t \in Threads : at'[t] <= Len(listeners')
  BY <1>1, <1>4
<1>. QED
  BY Zenon, <1>1, <1>2, <1>3, <1>4, <1>6, <1>7 DEF InformedInv

\* A request changes the value, and tells so later.
LEMMA InformedWrite == ASSUME InformedInv, ~crashed, NEW c \in Clients, Write(c) PROVE InformedInv'
<1>1. /\ phase[c] = "serving" /\ listeners' = listeners /\ at' = at /\ told' = told
      /\ crashed' = crashed
  BY Zenon DEF Write, Serves
<1>2. CASE value' = value /\ phase' = [phase EXCEPT ![c] = "replying"]
  <2>1. "replying" \in Phases /\ "replying" # "notifying" /\ phase[c] \notin {"setting", "notifying"}
    BY <1>1 DEF Phases
  <2>. QED
    BY Zenon, <1>1, <1>2, <2>1, InformedQuiet
<1>3. CASE phase' = [phase EXCEPT ![c] = "setting"]
  <2>1. /\ phase' \in [Clients -> Phases] /\ phase'[c] = "setting"
        /\ \A d \in Clients : d # c => phase'[d] = phase[d]
        /\ phase[c] # "notifying" /\ "setting" # "notifying"
    BY <1>1, <1>3 DEF InformedInv, Phases
  <2>2. \A d \in Clients : at'[d] # 0 <=> phase'[d] = "notifying"
    BY Zenon, <1>1, <2>1 DEF InformedInv
  <2>3. \A d \in Clients : ToldOrSoon(d)'
    BY Zenon, <2>1 DEF ToldOrSoon
  <2>. QED
    BY Zenon, <1>1, <2>1, <2>2, <2>3 DEF InformedInv
<1>. QED
  BY Zenon, <1>2, <1>3 DEF Write, Answer, Go

\* A thread comes to the next listener: the one it comes to is told, those
\* behind will be.
LEMMA InformedComes ==
    ASSUME InformedInv, ~crashed, NEW t \in Threads, ComeTo(t, Following(at[t])),
           listeners' = listeners, phase' \in [Clients -> Phases],
           \A c \in Clients : at'[c] # 0 <=> phase'[c] = "notifying",
           at[t] # 0 => /\ value' = value
                        /\ \A d \in Clients : phase[d] = "setting" => phase'[d] = "setting"
    PROVE  InformedInv'
<1>. DEFINE n == Len(listeners)
            k == at[t]
            next == Following(at[t])
<1>1. /\ listeners \in Seq(Clients) /\ n \in Nat
      /\ at \in [Threads -> Nat] /\ DOMAIN told = Clients
      /\ k \in Nat /\ k <= n
      /\ \A u \in Threads : at[u] <= n
      /\ \A i \in 1..n : listeners[i] \in Clients
  BY LenProperties, ElementOfSeq DEF InformedInv
<1>2. next = IF k < n THEN k + 1 ELSE 0
  BY Zenon DEF Following
<1>3. /\ at' = [at EXCEPT ![t] = next]
      /\ told' = IF next = 0 THEN told ELSE [told EXCEPT ![listeners[next]] = value']
  BY Zenon DEF ComeTo
<1>. HIDE DEF n, k, next
<1>4. /\ at' \in [Threads -> Nat] /\ at'[t] = next
      /\ \A u \in Threads : u # t => at'[u] = at[u]
      /\ \A u \in Threads : at'[u] <= n
      /\ DOMAIN told' = Clients
  BY <1>1, <1>2, <1>3
<1>5. k < n => next = k + 1 /\ next # 0 /\ next \in 1..n
  BY <1>1, <1>2
<1>6. ASSUME NEW d \in Clients, NEW j \in 1..n, j > k, listeners[j] = d PROVE ToldOrSoon(d)'
  <2>1. k < n
    BY <1>1, <1>6
  <2>2. CASE j = next
    <3>1. told'[d] = value'
      BY <1>1, <1>3, <1>5, <1>6, <2>1, <2>2
    <3>. QED
      BY Zenon, <3>1 DEF ToldOrSoon
  <2>3. CASE j # next
    <3>1. j > next /\ next # 0
      BY <1>1, <1>5, <1>6, <2>1, <2>3
    <3>2. at'[t] # 0 /\ j > at'[t] /\ listeners'[j] = d /\ j \in 1..Len(listeners')
      BY Zenon, <1>4, <1>6, <3>1 DEF n
    <3>3. Ahead(t, d)'
      BY Zenon, <3>2 DEF Ahead
    <3>. QED
      BY Zenon, <3>3 DEF ToldOrSoon, Ahead
  <2>. QED
    BY Zenon, <2>2, <2>3
<1>7. ASSUME NEW d \in Clients, NEW j \in 1..n, ~(j > k), listeners[j] = d PROVE ToldOrSoon(d)'
  <2>1. k # 0 /\ ToldOrSoon(d)
    <3>1. k # 0
      BY <1>1, <1>7
    <3>2. Listed(d)
      BY Zenon, <1>7 DEF Listed, n
    <3>. QED
      BY Zenon, <3>1, <3>2 DEF InformedInv
  <2>2. value' = value /\ \A e \in Clients : phase[e] = "setting" => phase'[e] = "setting"
    BY Zenon, <2>1 DEF k
  <2>3. CASE told[d] = value
    <3>1. told'[d] = value'
      BY <1>1, <1>3, <2>1, <2>2, <2>3
    <3>. QED
      BY Zenon, <3>1 DEF ToldOrSoon
  <2>4. CASE \E e \in Clients : phase[e] = "setting"
    <3>1. \E e \in Clients : phase'[e] = "setting"
      BY Zenon, <2>2, <2>4
    <3>. QED
      BY Zenon, <3>1 DEF ToldOrSoon
  <2>5. ASSUME NEW u \in Threads, Ahead(u, d) PROVE ToldOrSoon(d)'
    <3>1. PICK i \in 1..n : i > at[u] /\ listeners[i] = d
      BY Zenon, <2>5 DEF Ahead, n
    <3>2. CASE u = t
      BY Zenon, <1>6, <3>1, <3>2 DEF k
    <3>3. CASE u # t
      <4>1. at'[u] # 0 /\ i > at'[u] /\ listeners'[i] = d /\ i \in 1..Len(listeners')
        BY Zenon, <1>4, <2>5, <3>1, <3>3 DEF Ahead, n
      <4>2. Ahead(u, d)'
        BY Zenon, <4>1 DEF Ahead
      <4>. QED
        BY Zenon, <4>2 DEF ToldOrSoon, Ahead
    <3>. QED
      BY Zenon, <3>2, <3>3
  <2>. QED
    BY Zenon, <2>1, <2>3, <2>4, <2>5 DEF ToldOrSoon
<1>8. ASSUME NEW d \in Clients, Listed(d)' PROVE ToldOrSoon(d)'
  <2>1. PICK j \in 1..n : listeners[j] = d
    BY Zenon, <1>8 DEF Listed, n
  <2>. QED
    BY Zenon, <1>6, <1>7, <2>1
<1>9. \A u \in Threads : at'[u] <= Len(listeners')
  BY Zenon, <1>4 DEF n
<1>. QED
  BY Zenon, <1>1, <1>4, <1>8, <1>9 DEF InformedInv

\* The entries of a client are erased: nobody stands on one, or the program
\* ends, and everybody else keeps the place.
LEMMA InformedErases ==
    ASSUME InformedInv, ~crashed, NEW c \in Clients, NEW p \in Phases,
           phase' = [phase EXCEPT ![c] = p], p # "notifying",
           phase[c] \notin {"setting", "notifying"},
           Erase(c), value' = value,
           \/ listeners' = ListenersBut(c) /\ told' = told
           \/ listeners' = Append(ListenersBut(c), c) /\ told' = [told EXCEPT ![c] = value]
    PROVE  InformedInv'
<1>. DEFINE n == Len(listeners)
            but == ListenersBut(c)
            K == Others(c, n)
<1>1. /\ phase \in [Clients -> Phases] /\ listeners \in Seq(Clients) /\ n \in Nat
      /\ at \in [Threads -> Nat] /\ DOMAIN told = Clients
      /\ \A t \in Threads : at[t] \in 0..n
      /\ phase[c] # "setting" /\ phase[c] # "notifying"
  BY LenProperties DEF InformedInv
<1>2. /\ phase' \in [Clients -> Phases] /\ phase'[c] = p
      /\ \A d \in Clients : d # c => phase'[d] = phase[d]
  BY <1>1
<1>3. /\ but \in Seq(Clients) /\ Len(but) = K /\ K \in Nat
      /\ \A i \in (1..n) \ Entries(c) : Others(c, i) \in 1..K /\ but[Others(c, i)] = listeners[i]
      /\ \A m \in 1..K : \E i \in (1..n) \ Entries(c) : Others(c, i) = m /\ but[m] = listeners[i]
  <2>1. n \in 0..n
    BY <1>1
  <2>2. K \in Nat
    BY Zenon, <1>1, <2>1, OthersCount
  <2>3. but \in Seq(Clients) /\ Len(but) = K
    BY Zenon, <1>1, ButIs
  <2>4. /\ \A i \in (1..n) \ Entries(c) : Others(c, i) \in 1..Len(but) /\ but[Others(c, i)] = listeners[i]
        /\ \A m \in 1..Len(but) : \E i \in (1..n) \ Entries(c) : Others(c, i) = m /\ but[m] = listeners[i]
    BY Zenon, <1>1, ButIs
  <2>. HIDE DEF n, but, K
  <2>. QED
    BY Zenon, <2>2, <2>3, <2>4
<1>. HIDE DEF n, but, K
<1>4. /\ listeners' \in Seq(Clients) /\ Len(listeners') \in Nat /\ K <= Len(listeners')
      /\ \A m \in 1..K : listeners'[m] = but[m]
      /\ \A m \in 1..Len(listeners') : m \notin 1..K => listeners'[m] = c /\ told'[c] = value
      /\ DOMAIN told' = Clients
      /\ \A d \in Clients : told'[d] = told[d] \/ told'[d] = value
  <2>1. CASE listeners' = ListenersBut(c) /\ told' = told
    BY <1>1, <1>3, <2>1 DEF but
  <2>2. CASE listeners' = Append(ListenersBut(c), c) /\ told' = [told EXCEPT ![c] = value]
    <3>1. /\ listeners' \in Seq(Clients) /\ Len(listeners') = K + 1
          /\ \A i \in 1..K : listeners'[i] = but[i]
          /\ listeners'[K + 1] = c
      <4>1. listeners' = Append(but, c)
        BY Zenon, <2>2 DEF but
      <4>. QED
        BY <1>3, <4>1, AppendProperties
    <3>2. /\ DOMAIN told' = Clients /\ told'[c] = value
          /\ \A d \in Clients : told'[d] = told[d] \/ told'[d] = value
      BY <1>1, <2>2
    <3>3. \A i \in 1..(K + 1) : i \notin 1..K => i = K + 1
      BY <1>3
    <3>4. K + 1 \in Nat /\ K <= K + 1
      BY <1>3
    <3>. QED
      BY Zenon, <3>1, <3>2, <3>3, <3>4
  <2>. QED
    BY Zenon, <2>1, <2>2
<1>5. \A t \in Threads : at'[t] = Others(c, at[t]) /\ at'[t] \in Nat /\ at'[t] <= K
  <2>. SUFFICES ASSUME NEW t \in Threads
                PROVE  at'[t] = Others(c, at[t]) /\ at'[t] \in Nat /\ at'[t] <= K
    OBVIOUS
  <2>1. at' = [u \in Threads |-> Others(c, at[u])]
    BY Zenon DEF Erase
  <2>2. at'[t] = Others(c, at[t])
    BY <2>1
  <2>3. at[t] \in 0..Len(listeners) /\ Len(listeners) \in 0..Len(listeners) /\ at[t] <= Len(listeners)
    BY <1>1 DEF n
  <2>4. Others(c, at[t]) \in Nat /\ Others(c, at[t]) <= Others(c, Len(listeners))
    BY Zenon, <1>1, <2>3, OthersCount, OthersGrow
  <2>. QED
    BY Zenon, <2>2, <2>4 DEF K, n
<1>6. at' \in [Threads -> Nat]
  <2>1. at' = [u \in Threads |-> Others(c, at[u])]
    BY Zenon DEF Erase
  <2>2. \A u \in Threads : Others(c, at[u]) \in Nat
    BY Zenon, <1>5
  <2>. QED
    BY <2>1, <2>2
<1>7. \A t \in Threads : at'[t] <= Len(listeners')
  BY <1>3, <1>4, <1>5
<1>8. ASSUME ~crashed' PROVE \A t \in Threads : at[t] \notin Entries(c)
  BY Zenon, <1>8 DEF Erase
<1>9. ASSUME ~crashed', NEW t \in Threads PROVE at'[t] # 0 <=> at[t] # 0
  <2>1. at[t] \notin Entries(c) /\ at[t] \in 0..Len(listeners) /\ 0 \in 0..Len(listeners)
        /\ Others(c, 0) = 0
    <3>1. at[t] \in 0..Len(listeners) /\ 0 \in 0..Len(listeners)
      BY <1>1 DEF n
    <3>. QED
      BY Zenon, <1>1, <1>8, <1>9, <3>1, OthersCount
  <2>2. CASE at[t] = 0
    BY Zenon, <1>5, <2>1, <2>2
  <2>3. CASE at[t] # 0
    <3>1. 0 < at[t] /\ 0 <= at[t]
      BY <2>1, <2>3
    <3>2. Others(c, 0) < Others(c, at[t])
      BY Zenon, <1>1, <2>1, <3>1, OthersGrow
    <3>3. at'[t] = Others(c, at[t]) /\ at'[t] \in Nat
      BY Zenon, <1>5
    <3>4. at'[t] # 0
      BY <2>1, <3>2, <3>3
    <3>. QED
      BY Zenon, <2>3, <3>4
  <2>. QED
    BY Zenon, <2>2, <2>3
<1>10. ~crashed' => \A d \in Clients : at'[d] # 0 <=> phase'[d] = "notifying"
  <2>1. Clients \subseteq Threads
    BY DEF Threads
  <2>2. ASSUME ~crashed', NEW d \in Clients PROVE at'[d] # 0 <=> phase'[d] = "notifying"
    <3>1. at'[d] # 0 <=> at[d] # 0
      BY Zenon, <1>9, <2>1, <2>2
    <3>. QED
      BY Zenon, <1>1, <1>2, <3>1 DEF InformedInv
  <2>. QED
    BY Zenon, <2>2
<1>11. ASSUME ~crashed', NEW d \in Clients, Listed(d)' PROVE ToldOrSoon(d)'
  <2>1. PICK m \in 1..Len(listeners') : listeners'[m] = d
    BY Zenon, <1>11 DEF Listed
  <2>2. CASE m \notin 1..K
    <3>1. told'[d] = value'
      BY Zenon, <1>4, <2>1, <2>2
    <3>. QED
      BY Zenon, <3>1 DEF ToldOrSoon
  <2>3. CASE m \in 1..K
    <3>1. PICK i \in (1..n) \ Entries(c) : Others(c, i) = m /\ but[m] = listeners[i]
      BY Zenon, <1>3, <2>3
    <3>2. listeners[i] = d /\ i \in 1..n /\ d # c
      BY <1>4, <2>1, <2>3, <3>1 DEF Entries, n
    <3>3. ToldOrSoon(d)
      <4>1. Listed(d)
        BY Zenon, <3>2 DEF Listed, n
      <4>. QED
        BY Zenon, <4>1 DEF InformedInv
    <3>4. CASE told[d] = value
      <4>1. told'[d] = value'
        BY Zenon, <1>4, <3>4
      <4>. QED
        BY Zenon, <4>1 DEF ToldOrSoon
    <3>5. CASE \E e \in Clients : phase[e] = "setting"
      <4>1. \E e \in Clients : phase'[e] = "setting"
        BY Zenon, <1>1, <1>2, <3>5
      <4>. QED
        BY Zenon, <4>1 DEF ToldOrSoon
    <3>6. ASSUME NEW t \in Threads, Ahead(t, d) PROVE ToldOrSoon(d)'
      <4>1. PICK j \in 1..n : j > at[t] /\ listeners[j] = d
        BY Zenon, <3>6 DEF Ahead, n
      <4>2. j \notin Entries(c) /\ j \in (1..n) \ Entries(c)
        BY <3>2, <4>1 DEF Entries
      <4>3. Others(c, j) \in 1..K /\ but[Others(c, j)] = d
        BY Zenon, <1>3, <4>1, <4>2
      <4>4. at[t] \in 0..Len(listeners) /\ j \in 0..Len(listeners) /\ at[t] < j /\ at[t] <= j
        BY <1>1, <4>1 DEF n
      <4>5. Others(c, at[t]) < Others(c, j)
        BY Zenon, <1>1, <4>2, <4>4, OthersGrow
      <4>6. PICK q : q = Others(c, j)
        OBVIOUS
      <4>7. q \in 1..Len(listeners') /\ q > at'[t] /\ at'[t] # 0
        <5>1. at'[t] # 0 /\ at'[t] = Others(c, at[t])
          BY Zenon, <1>5, <1>9, <1>11, <3>6 DEF Ahead
        <5>. QED
          BY <1>3, <1>4, <1>5, <4>3, <4>5, <4>6, <5>1
      <4>8. listeners'[q] = d
        BY Zenon, <1>4, <4>3, <4>6
      <4>9. Ahead(t, d)'
        BY Zenon, <4>7, <4>8 DEF Ahead
      <4>. QED
        BY Zenon, <4>9 DEF ToldOrSoon, Ahead
    <3>. QED
      BY Zenon, <3>3, <3>4, <3>5, <3>6 DEF ToldOrSoon
  <2>. QED
    BY Zenon, <2>2, <2>3
<1>. QED
  BY Zenon, <1>2, <1>4, <1>6, <1>7, <1>10, <1>11 DEF InformedInv

\* A connection tells the listeners of its change.
LEMMA InformedNotify == ASSUME InformedInv, ~crashed, NEW c \in Clients, Notify(c) PROVE InformedInv'
<1>1. /\ phase[c] \in {"setting", "notifying"} /\ listeners' = listeners /\ value' = value
      /\ ComeTo(c, Following(at[c]))
      /\ \/ at'[c] # 0 /\ phase' = [phase EXCEPT ![c] = "notifying"]
         \/ at'[c] = 0 /\ phase' = [phase EXCEPT ![c] = "replying"]
  BY Zenon DEF Notify, Answer, Go
<1>2. c \in Threads /\ phase \in [Clients -> Phases] /\ at \in [Threads -> Nat]
  BY DEF Threads, InformedInv
<1>3. /\ phase' \in [Clients -> Phases]
      /\ \A d \in Clients : d # c => phase'[d] = phase[d]
      /\ at'[c] # 0 <=> phase'[c] = "notifying"
  BY <1>1, <1>2 DEF Phases
<1>4. \A d \in Clients : d # c => at'[d] = at[d]
  <2>1. at' = [at EXCEPT ![c] = Following(at[c])] /\ Clients \subseteq Threads
    BY <1>1 DEF ComeTo, Threads
  <2>. QED
    BY <1>2, <2>1
<1>5. \A d \in Clients : at'[d] # 0 <=> phase'[d] = "notifying"
  BY Zenon, <1>3, <1>4 DEF InformedInv
<1>6. at[c] # 0 => \A d \in Clients : phase[d] = "setting" => phase'[d] = "setting"
  <2>1. at[c] # 0 => phase[c] = "notifying"
    BY Zenon DEF InformedInv
  <2>2. at[c] # 0 => phase[c] # "setting"
    BY <2>1
  <2>. QED
    BY Zenon, <1>3, <2>2
<1>. QED
  BY Zenon, <1>1, <1>2, <1>3, <1>5, <1>6, InformedComes

\* The bus changes the value, and tells the listeners.
LEMMA InformedBus ==
    ASSUME InformedInv, ~crashed, BusAdvance \/ \E v \in BOOLEAN : BusChange(v)
    PROVE  InformedInv'
<1>1. /\ phase' = phase /\ listeners' = listeners /\ Bus \in Threads
      /\ ComeTo(Bus, Following(at[Bus]))
      /\ at[Bus] # 0 => value' = value
  <2>1. Bus \in Threads
    BY DEF Threads
  <2>2. CASE BusAdvance
    BY Zenon, <2>1, <2>2 DEF BusAdvance
  <2>3. CASE \E v \in BOOLEAN : BusChange(v)
    BY Zenon, <2>1, <2>3 DEF BusChange
  <2>. QED
    BY Zenon, <2>2, <2>3
<1>2. \A d \in Clients : at'[d] = at[d]
  <2>1. at' = [at EXCEPT ![Bus] = Following(at[Bus])] /\ Clients \subseteq Threads /\ Bus \notin Clients
    BY <1>1, XmlClientsConstants DEF ComeTo, Threads
  <2>. QED
    BY <2>1 DEF InformedInv
<1>3. phase' \in [Clients -> Phases] /\ \A d \in Clients : at'[d] # 0 <=> phase'[d] = "notifying"
  BY Zenon, <1>1, <1>2 DEF InformedInv
<1>. QED
  BY Zenon, <1>1, <1>3, InformedComes

\* A connection goes on, and tells nobody of a change.
LEMMA InformedPasses ==
    ASSUME InformedInv, ~crashed, NEW c \in Clients,
           \/ Accept(c) \/ TakeBuffered(c) \/ StartRead(c) \/ \E n \in 1..ReadSize : ReadPiece(c, n)
           \/ Replied(c) \/ Read(c) \/ Refuse(c) \/ Register(c) \/ Execute(c) \/ Executed(c)
           \/ DeleteServer(c) \/ Disconnect(c) \/ StartServer(c) \/ StartServerFails(c)
    PROVE  InformedInv'
<1>. DEFINE Places == {"idle", "reading", "serving", "executing", "joining", "sleeping", "replying"}
<1>1. phase[c] \in Places \cup {"absent"}
  BY DEF Accept, TakeBuffered, StartRead, ReadPiece, Replied, Read, Refuse, Register, Execute,
         Executed, DeleteServer, Disconnect, StartServer, StartServerFails, Serves
<1>2. phase[c] \in Phases /\ phase[c] # "notifying" /\ phase[c] \notin {"setting", "notifying"}
  BY <1>1 DEF Phases
<1>3. at' = at /\ value' = value
  BY Zenon DEF Accept, TakeBuffered, StartRead, ReadPiece, Replied, Read, Refuse, Register, Execute,
         Executed, DeleteServer, Disconnect, StartServer, StartServerFails, object
<1>4. \/ listeners' = listeners /\ told' = told
      \/ listeners' = Append(listeners, c) /\ told' = [told EXCEPT ![c] = value]
  BY Zenon DEF Accept, TakeBuffered, StartRead, ReadPiece, Replied, Read, Refuse, Register, Execute,
         Executed, DeleteServer, Disconnect, StartServer, StartServerFails, object
<1>5. phase' = phase \/ \E p \in Places : phase' = [phase EXCEPT ![c] = p]
  <2>1. /\ "idle" \in Places /\ "reading" \in Places /\ "serving" \in Places
        /\ "executing" \in Places /\ "joining" \in Places /\ "sleeping" \in Places
        /\ "replying" \in Places
    OBVIOUS
  <2>. HIDE DEF Places
  <2>2. CASE \/ Accept(c) \/ TakeBuffered(c) \/ StartRead(c) \/ \E n \in 1..ReadSize : ReadPiece(c, n)
    BY Zenon, <2>1, <2>2 DEF Accept, TakeBuffered, StartRead, ReadPiece, TakeUp, Go
  <2>3. CASE \/ Replied(c) \/ Read(c) \/ Refuse(c) \/ Register(c) \/ Execute(c) \/ Executed(c)
             \/ DeleteServer(c) \/ Disconnect(c) \/ StartServer(c) \/ StartServerFails(c)
    BY Zenon, <2>1, <2>3 DEF Replied, Read, Refuse, Register, Execute, Executed, DeleteServer,
         Disconnect, StartServer, StartServerFails, Answer, Go
  <2>. QED
    BY Zenon, <2>2, <2>3
<1>6. CASE phase' = phase
  <2>1. phase' = [phase EXCEPT ![c] = phase[c]]
    BY <1>6 DEF InformedInv
  <2>. QED
    BY Zenon, <1>2, <1>3, <1>4, <2>1, InformedQuiet
<1>7. ASSUME NEW p \in Places, phase' = [phase EXCEPT ![c] = p] PROVE InformedInv'
  <2>1. p \in Phases /\ p # "notifying"
    BY DEF Phases
  <2>. QED
    BY Zenon, <1>2, <1>3, <1>4, <1>7, <2>1, InformedQuiet
<1>. QED
  BY Zenon, <1>5, <1>6, <1>7

\* A connection leaves the listeners.
LEMMA InformedLeaves ==
    ASSUME InformedInv, ~crashed, NEW c \in Clients,
           Unregister(c) \/ RegisterAll(c) \/ ReadFails(c) \/ LeaveLoop(c)
    PROVE  InformedInv'
<1>1. phase[c] \notin {"setting", "notifying"} /\ value' = value /\ Erase(c)
  BY DEF Unregister, RegisterAll, ReadFails, LeaveLoop, Destroy, Unlist, Serves
<1>2. \/ listeners' = ListenersBut(c) /\ told' = told
      \/ listeners' = Append(ListenersBut(c), c) /\ told' = [told EXCEPT ![c] = value]
  BY Zenon DEF Unregister, RegisterAll, ReadFails, LeaveLoop, Destroy, Unlist
<1>3. PICK p \in {"replying", "gone"} : phase' = [phase EXCEPT ![c] = p]
  BY DEF Unregister, RegisterAll, ReadFails, LeaveLoop, Destroy, Answer, Go
<1>4. p \in Phases /\ p # "notifying"
  BY DEF Phases
<1>. QED
  BY Zenon, <1>1, <1>2, <1>3, <1>4, InformedErases

\* The invariant holds at first, and every step keeps it.
LEMMA InformedAtFirst == Init => InformedInv
<1>. SUFFICES ASSUME Init PROVE InformedInv
  OBVIOUS
<1>1. /\ phase = [c \in Clients |-> "absent"] /\ listeners = <<>>
      /\ at = [t \in Threads |-> 0] /\ told = [c \in Clients |-> FALSE]
  BY Zenon DEF Init
<1>2. /\ phase \in [Clients -> Phases] /\ listeners \in Seq(Clients) /\ Len(listeners) = 0
      /\ at \in [Threads -> Nat] /\ DOMAIN told = Clients
      /\ \A t \in Threads : at[t] = 0 /\ at[t] <= Len(listeners)
      /\ \A c \in Clients : phase[c] # "notifying"
      /\ 1..Len(listeners) = {}
  BY <1>1, EmptySeq DEF Phases
<1>3. \A c \in Clients : at[c] # 0 <=> phase[c] = "notifying"
  BY <1>2 DEF Threads
<1>4. \A c \in Clients : ~Listed(c)
  BY <1>2 DEF Listed
<1>. QED
  BY Zenon, <1>2, <1>3, <1>4 DEF InformedInv

\* Every step keeps it.
LEMMA InformedStepwise == InformedInv /\ [Next]_vars => InformedInv'
<1>1. ASSUME InformedInv, UNCHANGED vars PROVE InformedInv'
  <2>1. /\ phase' = phase /\ listeners' = listeners /\ at' = at /\ told' = told
        /\ value' = value /\ crashed' = crashed
    BY Zenon, <1>1 DEF vars, object
  <2>. QED
    BY Zenon, <1>1, <2>1, InformedUntouched
<1>2. ASSUME InformedInv, ~crashed, NEW c \in Clients,
             Send(c) \/ HangUp(c) \/ WaitForFirst(c) \/ \E i \in 1..MaxActions : ActionEnds(c, i)
      PROVE  InformedInv'
  <2>1. /\ phase' = phase /\ listeners' = listeners /\ at' = at /\ told' = told
        /\ value' = value /\ crashed' = crashed
    BY Zenon, <1>2 DEF Send, HangUp, WaitForFirst, ActionEnds, object
  <2>. QED
    BY Zenon, <1>2, <2>1, InformedUntouched
<1>3. ASSUME InformedInv, ~crashed, BusAdvance \/ \E v \in BOOLEAN : BusChange(v)
      PROVE  InformedInv'
  BY Zenon, <1>3, InformedBus
<1>4. ASSUME InformedInv, ~crashed, NEW c \in Clients,
             \/ Accept(c) \/ TakeBuffered(c) \/ StartRead(c)
             \/ \E n \in 1..ReadSize : ReadPiece(c, n)
             \/ Replied(c) \/ Read(c) \/ Refuse(c) \/ Register(c) \/ Execute(c) \/ Executed(c)
             \/ DeleteServer(c) \/ Disconnect(c) \/ StartServer(c) \/ StartServerFails(c)
      PROVE  InformedInv'
  BY Zenon, <1>4, InformedPasses
<1>5. ASSUME InformedInv, ~crashed, NEW c \in Clients,
             \/ Write(c) \/ Notify(c)
             \/ Unregister(c) \/ RegisterAll(c) \/ ReadFails(c) \/ LeaveLoop(c)
      PROVE  InformedInv'
  BY Zenon, <1>5, InformedWrite, InformedNotify, InformedLeaves
<1>. QED
  BY Zenon, <1>1, <1>2, <1>3, <1>4, <1>5 DEF Next, Run

-----------------------------------------------------------------------------
(***************************************************************************)
(* Requests are handled in the order they were made.                        *)
(***************************************************************************)
\* Where readmessage finds the end of a message.
LEMMA EndIs ==
    ASSUME NEW s \in Seq(Nat)
    PROVE  \/ EndIn(s) = 0 /\ NoEnd(s)
           \/ /\ EndIn(s) \in 1..Len(s) /\ s[EndIn(s)] = End
              /\ \A i \in 1..(EndIn(s) - 1) : s[i] # End
<1>. DEFINE I == {i \in 1..Len(s) : s[i] = End}
<1>1. EndIn(s) = IF I # {} THEN CHOOSE x \in I : \A y \in I : x <= y ELSE 0
  BY DEF EndIn, SelectInSeq, Min
<1>2. Len(s) \in Nat
  BY LenProperties
<1>3. CASE I = {}
  <2>1. EndIn(s) = 0
    BY Zenon, <1>1, <1>3
  <2>2. NoEnd(s)
    BY <1>3 DEF NoEnd
  <2>. QED
    BY Zenon, <2>1, <2>2
<1>4. CASE I # {}
  <2>1. I \in SUBSET Nat
    BY <1>2
  <2>. HIDE DEF I
  <2>2. \E x \in I : \A y \in I : x <= y
    BY Zenon, <1>4, <2>1, Least
  <2>3. EndIn(s) = CHOOSE x \in I : \A y \in I : x <= y
    BY Zenon, <1>1, <1>4
  <2>4. EndIn(s) \in I /\ \A y \in I : EndIn(s) <= y
    BY Zenon, <2>2, <2>3
  <2>5. EndIn(s) \in 1..Len(s) /\ s[EndIn(s)] = End
    BY <2>4 DEF I
  <2>6. ASSUME NEW i \in 1..(EndIn(s) - 1) PROVE s[i] # End
    <3>1. i \in 1..Len(s) /\ ~(EndIn(s) <= i)
      BY <1>2, <2>5
    <3>. QED
      BY <2>4, <3>1 DEF I
  <2>. QED
    BY Zenon, <2>5, <2>6
<1>. QED
  BY Zenon, <1>3, <1>4

\* The first message of a stream is the first request, whatever pieces it came
\* in, and behind its end the stream goes on.
LEMMA StreamTaken ==
    ASSUME NEW s \in Seq(Nat), NEW done \in Nat, NEW last \in Nat, last >= done,
           IsStream(s, done, last),
           NEW m \in Seq(Nat), NEW rest \in Seq(Nat), NoEnd(m),
           Len(s) = Len(m) + 1 + Len(rest),
           \A i \in 1..Len(m) : s[i] = m[i],
           s[Len(m) + 1] = End,
           \A i \in 1..Len(rest) : s[Len(m) + 1 + i] = rest[i]
    PROVE  m = <<done + 1>> /\ last >= done + 1 /\ IsStream(rest, done + 1, last)
<1>1. Len(m) \in Nat /\ Len(rest) \in Nat /\ Len(s) = 2 * (last - done)
  BY LenProperties DEF IsStream
<1>2. last >= done + 1 /\ 1 \in 1..(last - done)
  BY <1>1
<1>3. s[1] = done + 1 /\ s[2] = End
  <2>1. s[2 * 1 - 1] = done + 1 /\ s[2 * 1] = End
    BY <1>2 DEF IsStream
  <2>. QED
    BY <2>1
<1>4. Len(m) = 1
  <2>1. Len(m) # 0
    BY <1>3 DEF End
  <2>2. ASSUME 2 <= Len(m) PROVE FALSE
    <3>1. 2 \in 1..Len(m)
      BY <1>1, <2>2
    <3>2. m[2] # End /\ s[2] = m[2]
      BY Zenon, <3>1 DEF NoEnd
    <3>. QED
      BY Zenon, <1>3, <3>2
  <2>3. ASSUME NEW n \in Nat, n # 0, 2 <= n => FALSE PROVE n = 1
    BY <2>3
  <2>4. 2 <= Len(m) => FALSE
    BY Zenon, <2>2
  <2>. QED
    BY Zenon, <1>1, <2>1, <2>3, <2>4
<1>5. m[1] = done + 1
  BY <1>3, <1>4
<1>6. m = <<done + 1>>
  <2>1. <<done + 1>> \in Seq(Nat) /\ Len(<<done + 1>>) = 1 /\ <<done + 1>>[1] = done + 1
    OBVIOUS
  <2>. HIDE DEF IsStream
  <2>2. \A i \in 1..Len(m) : m[i] = <<done + 1>>[i]
    BY <1>4, <1>5, <2>1
  <2>. QED
    BY <1>4, <2>1, <2>2, SeqEqual
<1>7. Len(rest) = 2 * (last - (done + 1))
  BY <1>1, <1>4
<1>8. ASSUME NEW j \in 1..(last - (done + 1))
      PROVE  rest[2 * j - 1] = (done + 1) + j /\ rest[2 * j] = End
  <2>1. j + 1 \in 1..(last - done)
    BY <1>8
  <2>2. s[2 * (j + 1) - 1] = done + (j + 1) /\ s[2 * (j + 1)] = End
    BY <2>1 DEF IsStream
  <2>3. 2 * j - 1 \in 1..Len(rest) /\ 2 * j \in 1..Len(rest)
    BY <1>7
  <2>4. rest[2 * j - 1] = s[Len(m) + 1 + (2 * j - 1)] /\ rest[2 * j] = s[Len(m) + 1 + 2 * j]
    BY <2>3
  <2>5. Len(m) + 1 + (2 * j - 1) = 2 * (j + 1) - 1 /\ Len(m) + 1 + 2 * j = 2 * (j + 1)
        /\ done + (j + 1) = (done + 1) + j
    BY <1>4
  <2>. QED
    BY <2>2, <2>4, <2>5
<1>. QED
  BY <1>2, <1>6, <1>7, <1>8 DEF IsStream

\* A request that is sent goes to the end of the stream.
LEMMA StreamGrows ==
    ASSUME NEW s \in Seq(Nat), NEW done \in Nat, NEW last \in Nat, last >= done,
           IsStream(s, done, last)
    PROVE  IsStream(s \o <<last + 1, End>>, done, last + 1)
<1>. DEFINE more == <<last + 1, End>>
            new == s \o more
<1>1. more \in Seq(Nat) /\ Len(more) = 2 /\ more[1] = last + 1 /\ more[2] = End
  BY DEF End
<1>2. Len(s) \in Nat /\ Len(s) = 2 * (last - done)
  BY LenProperties DEF IsStream
<1>. HIDE DEF more
<1>3. /\ Len(new) = Len(s) + Len(more)
      /\ \A i \in 1..(Len(s) + Len(more)) : new[i] = IF i <= Len(s) THEN s[i] ELSE more[i - Len(s)]
  BY Zenon, <1>1, ConcatProperties
<1>. HIDE DEF new
<1>4. Len(new) = 2 * ((last + 1) - done)
  BY <1>1, <1>2, <1>3
<1>5. ASSUME NEW j \in 1..((last + 1) - done) PROVE new[2 * j - 1] = done + j /\ new[2 * j] = End
  <2>1. CASE j \in 1..(last - done)
    <3>1. s[2 * j - 1] = done + j /\ s[2 * j] = End
      BY <2>1 DEF IsStream
    <3>2. 2 * j - 1 \in 1..Len(s) /\ 2 * j \in 1..Len(s)
      BY <1>2, <2>1
    <3>3. new[2 * j - 1] = s[2 * j - 1] /\ new[2 * j] = s[2 * j]
      BY <1>1, <1>2, <1>3, <3>2
    <3>. QED
      BY <3>1, <3>3
  <2>2. CASE j = (last + 1) - done
    <3>1. 2 * j - 1 = Len(s) + 1 /\ 2 * j = Len(s) + 2 /\ done + j = last + 1
      BY <1>2, <2>2
    <3>2. new[Len(s) + 1] = more[1] /\ new[Len(s) + 2] = more[2]
      BY <1>1, <1>2, <1>3
    <3>. QED
      BY <1>1, <3>1, <3>2
  <2>. QED
    BY <1>5, <2>1, <2>2
<1>. QED
  BY <1>4, <1>5 DEF IsStream, new, more

\* A step turns one connection into this, and leaves the others alone.
Turns(c, p, k, h, i, m, b) ==
    /\ phase' = [phase EXCEPT ![c] = p]
    /\ sent' = [sent EXCEPT ![c] = k] /\ handled' = [handled EXCEPT ![c] = h]
    /\ inbox' = [inbox EXCEPT ![c] = i]
    /\ msg' = [msg EXCEPT ![c] = m] /\ msgbuf' = [msgbuf EXCEPT ![c] = b]

\* What keeps the invariant.
Flows(p, k, h, i, m, b) ==
    p # "gone" => /\ k >= h
                  /\ IsStream((IF p = "reading" THEN m ELSE b) \o i, h, k)
                  /\ p = "reading" => NoEnd(m)
                  /\ p = "serving" => m = <<h>>

\* Such a step keeps it.
LEMMA StreamChanges ==
    ASSUME StreamInv, NEW c \in Clients,
           NEW p \in Phases, NEW k \in Nat, NEW h \in Nat,
           NEW i \in Seq(Nat), NEW m \in Seq(Nat), NEW b \in Seq(Nat),
           Turns(c, p, k, h, i, m, b), Flows(p, k, h, i, m, b)
    PROVE  StreamInv'
<1>0. /\ phase' = [phase EXCEPT ![c] = p]
      /\ sent' = [sent EXCEPT ![c] = k] /\ handled' = [handled EXCEPT ![c] = h]
      /\ inbox' = [inbox EXCEPT ![c] = i]
      /\ msg' = [msg EXCEPT ![c] = m] /\ msgbuf' = [msgbuf EXCEPT ![c] = b]
  BY Zenon DEF Turns
<1>1. /\ phase \in [Clients -> Phases]
      /\ sent \in [Clients -> Nat] /\ handled \in [Clients -> Nat]
      /\ inbox \in [Clients -> Seq(Nat)] /\ msg \in [Clients -> Seq(Nat)]
      /\ msgbuf \in [Clients -> Seq(Nat)]
      /\ \A d \in Clients : phase[d] # "gone" => Stream(d)
  BY Zenon DEF StreamInv
<1>2. /\ phase' \in [Clients -> Phases]
      /\ sent' \in [Clients -> Nat] /\ handled' \in [Clients -> Nat]
  BY <1>0, <1>1
<1>3. /\ inbox' \in [Clients -> Seq(Nat)] /\ msg' \in [Clients -> Seq(Nat)]
      /\ msgbuf' \in [Clients -> Seq(Nat)]
  BY Zenon, <1>0, <1>1
<1>4. /\ phase'[c] = p /\ sent'[c] = k /\ handled'[c] = h
      /\ inbox'[c] = i /\ msg'[c] = m /\ msgbuf'[c] = b
  BY Zenon, <1>0, <1>1
<1>5. phase'[c] # "gone" => Stream(c)'
  BY Zenon, <1>4 DEF Flows, Stream, Pending
<1>6. ASSUME NEW d \in Clients, d # c, phase'[d] # "gone" PROVE Stream(d)'
  <2>1. /\ phase'[d] = phase[d] /\ sent'[d] = sent[d] /\ handled'[d] = handled[d]
        /\ inbox'[d] = inbox[d] /\ msg'[d] = msg[d] /\ msgbuf'[d] = msgbuf[d]
    BY Zenon, <1>0, <1>1, <1>6
  <2>. QED
    BY Zenon, <1>1, <1>6, <2>1 DEF Stream, Pending
<1>7. \A d \in Clients : phase'[d] # "gone" => Stream(d)'
  BY Zenon, <1>5, <1>6
<1>. QED
  BY Zenon, <1>2, <1>3, <1>7 DEF StreamInv

\* Steps that are about something else.
LEMMA StreamUntouched ==
    ASSUME StreamInv, phase' = phase, sent' = sent, handled' = handled, inbox' = inbox,
           msg' = msg, msgbuf' = msgbuf
    PROVE  StreamInv'
<1>1. \A c \in Clients : Stream(c) => Stream(c)'
  BY Zenon DEF Stream, Pending
<1>. QED
  BY Zenon, <1>1 DEF StreamInv

\* What is known of a connection that is there.
LEMMA StreamTypes ==
    ASSUME StreamInv, NEW c \in Clients
    PROVE  /\ phase[c] \in Phases /\ sent[c] \in Nat /\ handled[c] \in Nat
           /\ inbox[c] \in Seq(Nat) /\ msg[c] \in Seq(Nat) /\ msgbuf[c] \in Seq(Nat)
           /\ phase = [phase EXCEPT ![c] = phase[c]] /\ sent = [sent EXCEPT ![c] = sent[c]]
           /\ handled = [handled EXCEPT ![c] = handled[c]]
           /\ inbox = [inbox EXCEPT ![c] = inbox[c]]
           /\ msg = [msg EXCEPT ![c] = msg[c]]
           /\ msgbuf = [msgbuf EXCEPT ![c] = msgbuf[c]]
<1>1. /\ phase[c] \in Phases /\ sent[c] \in Nat /\ handled[c] \in Nat
      /\ inbox[c] \in Seq(Nat) /\ msg[c] \in Seq(Nat) /\ msgbuf[c] \in Seq(Nat)
  BY Zenon DEF StreamInv
<1>2. ASSUME NEW S, NEW f \in [Clients -> S] PROVE f = [f EXCEPT ![c] = f[c]]
  BY <1>2
<1>. QED
  BY Zenon, <1>1, <1>2 DEF StreamInv

\* A connection goes on without reading.
LEMMA StreamQuiet ==
    ASSUME StreamInv, NEW c \in Clients, NEW p \in Phases,
           phase' = [phase EXCEPT ![c] = p], p \notin {"reading", "serving"},
           phase[c] # "gone", phase[c] = "reading" => p = "gone",
           sent' = sent, handled' = handled, inbox' = inbox, msgbuf' = msgbuf,
           msg' = msg \/ msg' = [msg EXCEPT ![c] = <<>>]
    PROVE  StreamInv'
<1>1. p # "reading" /\ p # "serving" /\ <<>> \in Seq(Nat)
  BY EmptySeq
<1>2. PICK m \in Seq(Nat) : msg' = [msg EXCEPT ![c] = m]
  <2>1. CASE msg' = msg
    <3>1. msg' = [msg EXCEPT ![c] = msg[c]] /\ msg[c] \in Seq(Nat)
      BY Zenon, <2>1, StreamTypes
    <3>. QED
      BY Zenon, <3>1
  <2>. QED
    BY Zenon, <1>1, <2>1
<1>3. ASSUME p # "gone"
      PROVE  sent[c] >= handled[c] /\ IsStream(msgbuf[c] \o inbox[c], handled[c], sent[c])
  <2>1. Stream(c)
    BY Zenon DEF StreamInv
  <2>. QED
    BY Zenon, <1>3, <2>1 DEF Stream, Pending
<1>4. Turns(c, p, sent[c], handled[c], inbox[c], m, msgbuf[c])
  BY Zenon, <1>2, StreamTypes DEF Turns
<1>5. Flows(p, sent[c], handled[c], inbox[c], m, msgbuf[c])
  BY Zenon, <1>1, <1>3 DEF Flows
<1>6. /\ sent[c] \in Nat /\ handled[c] \in Nat
      /\ inbox[c] \in Seq(Nat) /\ msgbuf[c] \in Seq(Nat)
  BY Zenon, StreamTypes
<1>. QED
  BY Zenon, <1>4, <1>5, <1>6, StreamChanges

\* A request is sent.
LEMMA StreamSend == ASSUME StreamInv, NEW c \in Clients, Send(c) PROVE StreamInv'
<1>. DEFINE more == <<sent[c] + 1, End>>
<1>1. /\ sent' = [sent EXCEPT ![c] = sent[c] + 1]
      /\ inbox' = [inbox EXCEPT ![c] = inbox[c] \o more]
      /\ phase' = phase /\ handled' = handled /\ msg' = msg /\ msgbuf' = msgbuf
  BY Zenon DEF Send
<1>2. phase[c] # "gone"
  BY DEF Send, Live
<1>3. Stream(c)
  BY Zenon, <1>2 DEF StreamInv
<1>4. /\ phase[c] \in Phases /\ sent[c] \in Nat /\ handled[c] \in Nat
      /\ inbox[c] \in Seq(Nat) /\ msg[c] \in Seq(Nat) /\ msgbuf[c] \in Seq(Nat)
  BY Zenon, StreamTypes
<1>5. sent[c] + 1 \in Nat /\ more \in Seq(Nat)
  BY <1>4 DEF End
<1>6. Pending(c) \in Seq(Nat)
  BY Zenon, <1>4 DEF Pending
<1>7. sent[c] >= handled[c] /\ sent[c] + 1 >= handled[c]
  <2>1. sent[c] >= handled[c]
    BY Zenon, <1>3 DEF Stream
  <2>. QED
    BY <1>4, <2>1
<1>8. IsStream((Pending(c) \o inbox[c]) \o more, handled[c], sent[c] + 1)
  <2>1. IsStream(Pending(c) \o inbox[c], handled[c], sent[c])
    BY Zenon, <1>3 DEF Stream
  <2>2. Pending(c) \o inbox[c] \in Seq(Nat)
    BY Zenon, <1>4, <1>6, ConcatProperties
  <2>. QED
    BY Zenon, <1>4, <1>7, <2>1, <2>2, StreamGrows
<1>. HIDE DEF more
<1>9. IsStream(Pending(c) \o (inbox[c] \o more), handled[c], sent[c] + 1)
  <2>1. (Pending(c) \o inbox[c]) \o more = Pending(c) \o (inbox[c] \o more)
    <3>1. PICK x \in Seq(Nat), y \in Seq(Nat), z \in Seq(Nat) :
              x = Pending(c) /\ y = inbox[c] /\ z = more
      BY Zenon, <1>4, <1>5, <1>6
    <3>2. (x \o y) \o z = x \o (y \o z)
      BY ConcatAssociative
    <3>. QED
      BY Zenon, <3>1, <3>2
  <2>. QED
    BY Zenon, <1>8, <2>1
<1>10. inbox[c] \o more \in Seq(Nat)
  BY Zenon, <1>4, <1>5, ConcatProperties
<1>11. Turns(c, phase[c], sent[c] + 1, handled[c], inbox[c] \o more, msg[c], msgbuf[c])
  BY Zenon, <1>1, StreamTypes DEF Turns
<1>12. Flows(phase[c], sent[c] + 1, handled[c], inbox[c] \o more, msg[c], msgbuf[c])
  BY Zenon, <1>3, <1>7, <1>9 DEF Flows, Stream, Pending
<1>. QED
  BY Zenon, <1>4, <1>5, <1>10, <1>11, <1>12, StreamChanges

\* A sequence is a message, its end, and what is behind it in two pieces.
Cut(s, m, b, i) ==
    /\ Len(s) = Len(m) + 1 + (Len(b) + Len(i))
    /\ NoEnd(m) /\ s[Len(m) + 1] = End
    /\ \A j \in 1..Len(m) : s[j] = m[j]
    /\ \A j \in 1..Len(b) : s[Len(m) + 1 + j] = b[j]
    /\ \A j \in 1..Len(i) : s[Len(m) + 1 + Len(b) + j] = i[j]

\* A request is taken up: what was read of it is the request that is due.
LEMMA StreamTakesUp ==
    ASSUME StreamInv, NEW c \in Clients, phase[c] # "gone",
           NEW m \in Seq(Nat), NEW b \in Seq(Nat), NEW i \in Seq(Nat), TakeUp(c, m),
           sent' = sent, msgbuf' = [msgbuf EXCEPT ![c] = b], inbox' = [inbox EXCEPT ![c] = i],
           NEW s \in Seq(Nat), s = Pending(c) \o inbox[c], Cut(s, m, b, i)
    PROVE  StreamInv'
<1>0. /\ Len(s) = Len(m) + 1 + (Len(b) + Len(i))
      /\ NoEnd(m) /\ s[Len(m) + 1] = End
      /\ \A j \in 1..Len(m) : s[j] = m[j]
      /\ \A j \in 1..Len(b) : s[Len(m) + 1 + j] = b[j]
      /\ \A j \in 1..Len(i) : s[Len(m) + 1 + Len(b) + j] = i[j]
  BY Zenon DEF Cut
<1>1. /\ phase' = [phase EXCEPT ![c] = "serving"]
      /\ msg' = [msg EXCEPT ![c] = m] /\ handled' = [handled EXCEPT ![c] = handled[c] + 1]
  BY Zenon DEF TakeUp, Go
<1>2. sent[c] \in Nat /\ handled[c] \in Nat /\ sent' = [sent EXCEPT ![c] = sent[c]]
  BY Zenon, StreamTypes
<1>3. sent[c] >= handled[c] /\ IsStream(s, handled[c], sent[c])
  BY Zenon DEF StreamInv, Stream
<1>. DEFINE rest == b \o i
<1>4. /\ rest \in Seq(Nat) /\ Len(rest) = Len(b) + Len(i)
      /\ \A j \in 1..(Len(b) + Len(i)) : rest[j] = IF j <= Len(b) THEN b[j] ELSE i[j - Len(b)]
  BY Zenon, ConcatProperties
<1>. HIDE DEF rest
<1>5. Len(m) \in Nat /\ Len(b) \in Nat /\ Len(i) \in Nat
  BY LenProperties
<1>6. ASSUME NEW j \in 1..Len(rest) PROVE s[Len(m) + 1 + j] = rest[j]
  <2>0. j \in 1..(Len(b) + Len(i))
    BY Zenon, <1>4
  <2>1. CASE j <= Len(b)
    <3>1. j \in 1..Len(b)
      BY <1>5, <2>0, <2>1
    <3>2. s[Len(m) + 1 + j] = b[j]
      BY Zenon, <1>0, <3>1
    <3>3. rest[j] = b[j]
      BY Zenon, <1>4, <2>0, <2>1
    <3>. QED
      BY Zenon, <3>2, <3>3
  <2>2. CASE ~(j <= Len(b))
    <3>1. PICK q \in 1..Len(i) : j = Len(b) + q
      <4>1. j - Len(b) \in 1..Len(i) /\ j = Len(b) + (j - Len(b))
        BY <1>5, <2>0, <2>2
      <4>. QED
        BY Zenon, <4>1
    <3>2. rest[j] = i[q] /\ s[Len(m) + 1 + Len(b) + q] = i[q]
      <4>1. j - Len(b) = q
        BY <1>5, <3>1
      <4>. QED
        BY Zenon, <1>0, <1>4, <2>0, <2>2, <4>1
    <3>3. Len(m) + 1 + Len(b) + q = Len(m) + 1 + j
      BY <1>5, <3>1
    <3>. QED
      BY Zenon, <3>2, <3>3
  <2>. QED
    BY Zenon, <2>1, <2>2
<1>7. m = <<handled[c] + 1>> /\ sent[c] >= handled[c] + 1 /\ IsStream(rest, handled[c] + 1, sent[c])
  <2>1. Len(s) = Len(m) + 1 + Len(rest)
    BY Zenon, <1>0, <1>4
  <2>. QED
    BY Zenon, <1>0, <1>2, <1>3, <1>4, <1>6, <2>1, StreamTaken
<1>8. handled[c] + 1 \in Nat /\ "serving" \in Phases /\ "serving" # "reading"
  BY <1>2 DEF Phases
<1>9. Turns(c, "serving", sent[c], handled[c] + 1, i, m, b)
  BY Zenon, <1>1, <1>2 DEF Turns
<1>10. Flows("serving", sent[c], handled[c] + 1, i, m, b)
  BY Zenon, <1>7, <1>8 DEF Flows, rest
<1>. QED
  BY Zenon, <1>2, <1>8, <1>9, <1>10, StreamChanges

\* Pieces may be put together from either side.
LEMMA Regroup ==
    ASSUME NEW x \in Seq(Nat), NEW y \in Seq(Nat), NEW z \in Seq(Nat)
    PROVE  (x \o y) \o z = x \o (y \o z)
  BY ConcatAssociative

\* The two parts of a sequence.
LEMMA SplitAt ==
    ASSUME NEW a \in Seq(Nat), NEW n \in 0..Len(a)
    PROVE  /\ SubSeq(a, 1, n) \in Seq(Nat) /\ Len(SubSeq(a, 1, n)) = n
           /\ \A j \in 1..n : SubSeq(a, 1, n)[j] = a[j]
           /\ SubSeq(a, n + 1, Len(a)) \in Seq(Nat) /\ Len(SubSeq(a, n + 1, Len(a))) = Len(a) - n
           /\ \A j \in 1..(Len(a) - n) : SubSeq(a, n + 1, Len(a))[j] = a[n + j]
<1>1. PICK len \in Nat : len = Len(a)
  BY LenProperties
<1>2. n \in Nat /\ n <= len /\ \A j \in 1..len : a[j] \in Nat
  BY <1>1, ElementOfSeq
<1>3. /\ SubSeq(a, 1, n) \in Seq(Nat) /\ Len(SubSeq(a, 1, n)) = n
      /\ \A j \in 1..n : SubSeq(a, 1, n)[j] = a[j]
  <2>1. \A j \in 1..n : a[j] \in Nat
    BY <1>2
  <2>2. /\ SubSeq(a, 1, n) \in Seq(Nat)
        /\ Len(SubSeq(a, 1, n)) = IF 1 <= n THEN n - 1 + 1 ELSE 0
        /\ \A j \in 1..(n - 1 + 1) : SubSeq(a, 1, n)[j] = a[1 + j - 1]
    BY <1>2, <2>1, SubSeqProperties
  <2>3. n - 1 + 1 = n /\ (~(1 <= n) => n = 0) /\ \A j \in 1..n : 1 + j - 1 = j
    BY <1>2
  <2>. QED
    BY Zenon, <2>2, <2>3
<1>4. /\ SubSeq(a, n + 1, len) \in Seq(Nat) /\ Len(SubSeq(a, n + 1, len)) = len - n
      /\ \A j \in 1..(len - n) : SubSeq(a, n + 1, len)[j] = a[n + j]
  <2>1. \A j \in (n + 1)..len : a[j] \in Nat
    BY <1>2
  <2>2. /\ SubSeq(a, n + 1, len) \in Seq(Nat)
        /\ Len(SubSeq(a, n + 1, len)) = IF n + 1 <= len THEN len - (n + 1) + 1 ELSE 0
        /\ \A j \in 1..(len - (n + 1) + 1) : SubSeq(a, n + 1, len)[j] = a[(n + 1) + j - 1]
    BY <1>2, <2>1, SubSeqProperties
  <2>3. /\ len - (n + 1) + 1 = len - n /\ (~(n + 1 <= len) => len - n = 0)
        /\ \A j \in 1..(len - n) : (n + 1) + j - 1 = n + j
    BY <1>2
  <2>. QED
    BY Zenon, <2>2, <2>3
<1>. QED
  BY Zenon, <1>1, <1>3, <1>4

\* A request that was read before is taken up.
LEMMA StreamTakeBuffered ==
    ASSUME StreamInv, NEW c \in Clients, TakeBuffered(c) PROVE StreamInv'
<1>1. /\ phase[c] = "idle" /\ sent' = sent /\ inbox' = inbox
      /\ EndIn(msgbuf[c]) > 0
      /\ TakeUp(c, SubSeq(msgbuf[c], 1, EndIn(msgbuf[c]) - 1))
      /\ msgbuf' = [msgbuf EXCEPT ![c] = SubSeq(msgbuf[c], EndIn(msgbuf[c]) + 1, Len(msgbuf[c]))]
  BY Zenon DEF TakeBuffered, Buffered
<1>2. phase[c] # "gone" /\ phase[c] # "reading"
  BY <1>1
<1>3. PICK a \in Seq(Nat), i \in Seq(Nat) : a = msgbuf[c] /\ i = inbox[c]
  BY Zenon, StreamTypes
<1>4. PICK e \in 1..Len(a) : e = EndIn(a) /\ a[e] = End /\ \A j \in 1..(e - 1) : a[j] # End
  <2>1. EndIn(a) # 0
    BY <1>1, <1>3
  <2>. QED
    BY Zenon, <2>1, EndIs
<1>5. PICK la \in Nat, li \in Nat : la = Len(a) /\ li = Len(i)
  BY LenProperties
<1>6. e \in 0..Len(a) /\ e - 1 \in 0..Len(a) /\ (e - 1) + 1 = e
  BY <1>5
<1>7. PICK m \in Seq(Nat) : /\ m = SubSeq(a, 1, e - 1) /\ Len(m) = e - 1
                            /\ \A j \in 1..(e - 1) : m[j] = a[j]
  BY Zenon, <1>6, SplitAt
<1>8. PICK b \in Seq(Nat) : /\ b = SubSeq(a, e + 1, Len(a)) /\ Len(b) = la - e
                            /\ \A j \in 1..(la - e) : b[j] = a[e + j]
  BY Zenon, <1>5, <1>6, SplitAt
<1>9. PICK s \in Seq(Nat) :
         /\ s = a \o i /\ Len(s) = la + li
         /\ \A j \in 1..(la + li) : s[j] = IF j <= la THEN a[j] ELSE i[j - la]
  <2>1. PICK s \in Seq(Nat) : s = a \o i
    BY Zenon, ConcatProperties
  <2>2. /\ Len(s) = Len(a) + Len(i)
        /\ \A j \in 1..(Len(a) + Len(i)) : s[j] = IF j <= Len(a) THEN a[j] ELSE i[j - Len(a)]
    BY Zenon, <2>1, ConcatProperties
  <2>3. /\ Len(s) = la + li
        /\ \A j \in 1..(la + li) : s[j] = IF j <= la THEN a[j] ELSE i[j - la]
    BY Zenon, <1>5, <2>2
  <2>. QED
    BY Zenon, <2>1, <2>3
<1>10. TakeUp(c, m) /\ msgbuf' = [msgbuf EXCEPT ![c] = b] /\ inbox' = [inbox EXCEPT ![c] = i]
       /\ s = Pending(c) \o inbox[c]
  <2>1. TakeUp(c, m) /\ msgbuf' = [msgbuf EXCEPT ![c] = b]
    BY Zenon, <1>1, <1>3, <1>4, <1>7, <1>8
  <2>2. inbox' = [inbox EXCEPT ![c] = i]
    BY Zenon, <1>1, <1>3, StreamTypes
  <2>3. s = Pending(c) \o inbox[c]
    BY Zenon, <1>2, <1>3, <1>9 DEF Pending
  <2>. QED
    BY Zenon, <2>1, <2>2, <2>3
<1>11. NoEnd(m)
  BY <1>4, <1>7 DEF NoEnd
<1>12. /\ Len(s) = Len(m) + 1 + (Len(b) + Len(i))
       /\ \A j \in 1..Len(m) : s[j] = m[j]
       /\ s[Len(m) + 1] = End
  <2>1. Len(s) = Len(m) + 1 + (Len(b) + Len(i))
    <3>1. la + li = (e - 1) + 1 + ((la - e) + li)
      BY <1>5
    <3>. QED
      BY Zenon, <1>5, <1>7, <1>8, <1>9, <3>1
  <2>2. \A j \in 1..(e - 1) : j \in 1..(la + li) /\ j <= la
    BY <1>5, <1>6
  <2>3. \A j \in 1..(e - 1) : s[j] = m[j]
    BY Zenon, <1>7, <1>9, <2>2
  <2>4. e \in 1..(la + li) /\ e <= la
    BY <1>5
  <2>5. s[e] = End
    BY Zenon, <1>4, <1>9, <2>4
  <2>. QED
    BY Zenon, <1>6, <1>7, <2>1, <2>3, <2>5
<1>13. \A j \in 1..Len(b) : s[Len(m) + 1 + j] = b[j]
  <2>. SUFFICES ASSUME NEW j \in 1..(la - e) PROVE s[(e - 1) + 1 + j] = b[j]
    BY Zenon, <1>7, <1>8
  <2>1. e + j \in 1..(la + li) /\ e + j <= la /\ (e - 1) + 1 + j = e + j
    BY <1>5
  <2>2. s[e + j] = a[e + j]
    BY Zenon, <1>9, <2>1
  <2>. QED
    BY Zenon, <1>8, <2>1, <2>2
<1>14. \A j \in 1..Len(i) : s[Len(m) + 1 + Len(b) + j] = i[j]
  <2>. SUFFICES ASSUME NEW j \in 1..li PROVE s[(e - 1) + 1 + (la - e) + j] = i[j]
    BY Zenon, <1>5, <1>7, <1>8
  <2>1. /\ la + j \in 1..(la + li) /\ ~(la + j <= la) /\ (la + j) - la = j
        /\ (e - 1) + 1 + (la - e) + j = la + j
    BY <1>5
  <2>2. s[la + j] = i[j]
    BY Zenon, <1>9, <2>1
  <2>. QED
    BY Zenon, <2>1, <2>2
<1>. QED
  <2>1. Cut(s, m, b, i)
    BY Zenon, <1>11, <1>12, <1>13, <1>14 DEF Cut
  <2>. QED
    BY Zenon, <1>1, <1>2, <1>10, <2>1, StreamTakesUp

\* A connection begins to read behind what it has.
LEMMA StreamStartRead ==
    ASSUME StreamInv, NEW c \in Clients, StartRead(c) PROVE StreamInv'
<1>1. /\ phase[c] = "idle" /\ phase' = [phase EXCEPT ![c] = "reading"]
      /\ msg' = [msg EXCEPT ![c] = msgbuf[c]] /\ ~(EndIn(msgbuf[c]) > 0)
      /\ sent' = sent /\ inbox' = inbox /\ msgbuf' = msgbuf /\ handled' = handled
  BY Zenon DEF StartRead, Go, Buffered
<1>2. /\ phase[c] # "gone" /\ phase[c] # "reading"
      /\ "reading" \in Phases /\ "reading" # "serving"
  BY <1>1 DEF Phases
<1>3. /\ sent[c] \in Nat /\ handled[c] \in Nat
      /\ inbox[c] \in Seq(Nat) /\ msgbuf[c] \in Seq(Nat)
  BY Zenon, StreamTypes
<1>4. NoEnd(msgbuf[c])
  <2>1. PICK a \in Seq(Nat) : a = msgbuf[c]
    BY Zenon, <1>3
  <2>2. CASE EndIn(a) \in 1..Len(a)
    <3>1. EndIn(a) > 0
      BY <2>2
    <3>. QED
      BY Zenon, <1>1, <2>1, <3>1
  <2>. QED
    BY Zenon, <2>1, <2>2, EndIs
<1>5. Turns(c, "reading", sent[c], handled[c], inbox[c], msgbuf[c], msgbuf[c])
  BY Zenon, <1>1, StreamTypes DEF Turns
<1>6. Flows("reading", sent[c], handled[c], inbox[c], msgbuf[c], msgbuf[c])
  <2>1. Stream(c)
    BY Zenon, <1>2 DEF StreamInv
  <2>. QED
    BY Zenon, <1>2, <1>4, <2>1 DEF Flows, Stream, Pending
<1>. QED
  BY Zenon, <1>2, <1>3, <1>5, <1>6, StreamChanges

\* A piece that holds no end is put behind what was read.
LEMMA StreamReadsOn ==
    ASSUME StreamInv, NEW c \in Clients, NEW n \in 1..ReadSize, ReadPiece(c, n),
           EndIn(SubSeq(inbox[c], 1, n)) = 0
    PROVE  StreamInv'
<1>1. /\ phase[c] = "reading" /\ n <= Len(inbox[c]) /\ sent' = sent
      /\ inbox' = [inbox EXCEPT ![c] = SubSeq(inbox[c], n + 1, Len(inbox[c]))]
  BY Zenon DEF ReadPiece
<1>2. /\ phase' = phase /\ handled' = handled /\ msgbuf' = msgbuf
      /\ msg' = [msg EXCEPT ![c] = msg[c] \o SubSeq(inbox[c], 1, n)]
  <2>1. ~(EndIn(SubSeq(inbox[c], 1, n)) > 0)
    <3>1. \A x : x = 0 => ~(x > 0)
      OBVIOUS
    <3>. QED
      BY Zenon, <3>1
  <2>. QED
    BY Zenon, <2>1 DEF ReadPiece
<1>3. PICK x \in Seq(Nat), y \in Seq(Nat), b \in Seq(Nat) : x = msg[c] /\ y = inbox[c] /\ b = msgbuf[c]
  BY Zenon, StreamTypes
<1>4. n \in 0..Len(y) /\ n \in 1..Len(y)
  BY <1>1, <1>3, LenProperties, XmlClientsConstants
<1>5. PICK p \in Seq(Nat), r \in Seq(Nat) : p = SubSeq(y, 1, n) /\ r = SubSeq(y, n + 1, Len(y))
  BY Zenon, <1>4, SplitAt
<1>6. p \o r = y
  <2>1. 1 \in 1..(Len(y) + 1) /\ n \in (1 - 1)..Len(y) /\ Len(y) \in n..Len(y)
    BY <1>4, LenProperties
  <2>. QED
    BY <1>5, <2>1, ConcatAdjacentSubSeq, SubSeqFull
<1>7. (x \o p) \o r = x \o y
  <2>1. (x \o p) \o r = x \o (p \o r)
    BY Zenon, Regroup
  <2>. QED
    BY Zenon, <1>6, <2>1
<1>8. phase[c] # "gone" /\ phase[c] \in Phases /\ phase[c] # "serving"
  BY <1>1, StreamTypes
<1>9. NoEnd(x) /\ sent[c] >= handled[c] /\ IsStream(x \o y, handled[c], sent[c])
  <2>1. Stream(c)
    BY Zenon, <1>8 DEF StreamInv
  <2>. QED
    BY Zenon, <1>1, <1>3, <2>1 DEF Stream, Pending
<1>10. NoEnd(p)
  <2>1. EndIn(p) = 0
    BY Zenon, <1>3, <1>5
  <2>2. EndIn(p) \notin 1..Len(p)
    BY <2>1
  <2>. QED
    BY Zenon, <2>2, EndIs
<1>11. NoEnd(x \o p)
  <2>1. PICK lx \in Nat, lp \in Nat : lx = Len(x) /\ lp = Len(p)
    BY LenProperties
  <2>2. /\ Len(x \o p) = lx + lp
        /\ \A j \in 1..(lx + lp) : (x \o p)[j] = IF j <= lx THEN x[j] ELSE p[j - lx]
    <3>1. /\ Len(x \o p) = Len(x) + Len(p)
          /\ \A j \in 1..(Len(x) + Len(p)) : (x \o p)[j] = IF j <= Len(x) THEN x[j] ELSE p[j - Len(x)]
      BY Zenon, ConcatProperties
    <3>. QED
      BY Zenon, <2>1, <3>1
  <2>3. ASSUME NEW j \in 1..(lx + lp) PROVE (x \o p)[j] # End
    <3>1. CASE j <= lx
      <4>1. j \in 1..lx
        BY <3>1
      <4>. QED
        BY Zenon, <1>9, <2>1, <2>2, <3>1, <4>1 DEF NoEnd
    <3>2. CASE ~(j <= lx)
      <4>1. j - lx \in 1..lp
        BY <3>2
      <4>. QED
        BY Zenon, <1>10, <2>1, <2>2, <3>2, <4>1 DEF NoEnd
    <3>. QED
      BY Zenon, <3>1, <3>2
  <2>. QED
    BY Zenon, <2>2, <2>3 DEF NoEnd
<1>12. Turns(c, phase[c], sent[c], handled[c], r, x \o p, b)
  BY Zenon, <1>1, <1>2, <1>3, <1>5, StreamTypes DEF Turns
<1>13. Flows(phase[c], sent[c], handled[c], r, x \o p, b)
  BY Zenon, <1>1, <1>7, <1>8, <1>9, <1>11 DEF Flows
<1>14. sent[c] \in Nat /\ handled[c] \in Nat /\ x \o p \in Seq(Nat)
  BY Zenon, StreamTypes, ConcatProperties
<1>. QED
  BY Zenon, <1>8, <1>12, <1>13, <1>14, StreamChanges

\* What was read with the piece up to its end is a message; the rest of the
\* piece and what has not been read are behind it.
LEMMA PieceCuts ==
    ASSUME NEW x \in Seq(Nat), NoEnd(x), NEW y \in Seq(Nat), NEW n \in 1..Len(y),
           NEW p \in Seq(Nat), p = SubSeq(y, 1, n),
           NEW e \in 1..n, p[e] = End, \A j \in 1..(e - 1) : p[j] # End
    PROVE  Cut(x \o y, x \o SubSeq(p, 1, e - 1), SubSeq(p, e + 1, Len(p)), SubSeq(y, n + 1, Len(y)))
<1>1. PICK lx \in Nat, ly \in Nat : lx = Len(x) /\ ly = Len(y)
  BY LenProperties
<1>2. n \in 0..Len(y) /\ n \in 1..ly
  BY <1>1
<1>3. Len(p) = n /\ \A j \in 1..n : p[j] = y[j]
  BY Zenon, <1>2, SplitAt
<1>4. e \in 0..Len(p) /\ e - 1 \in 0..Len(p) /\ (e - 1) + 1 = e
  BY <1>2, <1>3
<1>5. PICK q \in Seq(Nat) : /\ q = SubSeq(p, 1, e - 1) /\ Len(q) = e - 1
                            /\ \A j \in 1..(e - 1) : q[j] = p[j]
  BY Zenon, <1>4, SplitAt
<1>6. PICK b \in Seq(Nat) : /\ b = SubSeq(p, e + 1, Len(p)) /\ Len(b) = n - e
                            /\ \A j \in 1..(n - e) : b[j] = p[e + j]
  <2>1. /\ SubSeq(p, e + 1, Len(p)) \in Seq(Nat) /\ Len(SubSeq(p, e + 1, Len(p))) = Len(p) - e
        /\ \A j \in 1..(Len(p) - e) : SubSeq(p, e + 1, Len(p))[j] = p[e + j]
    BY Zenon, <1>4, SplitAt
  <2>2. Len(p) - e = n - e
    BY Zenon, <1>3
  <2>. QED
    BY Zenon, <2>1, <2>2
<1>7. PICK r \in Seq(Nat) : /\ r = SubSeq(y, n + 1, Len(y)) /\ Len(r) = ly - n
                            /\ \A j \in 1..(ly - n) : r[j] = y[n + j]
  BY Zenon, <1>1, <1>2, SplitAt
<1>8. PICK s \in Seq(Nat) :
         /\ s = x \o y /\ Len(s) = lx + ly
         /\ \A j \in 1..(lx + ly) : s[j] = IF j <= lx THEN x[j] ELSE y[j - lx]
  <2>1. PICK s \in Seq(Nat) : s = x \o y
    BY Zenon, ConcatProperties
  <2>2. /\ Len(s) = Len(x) + Len(y)
        /\ \A j \in 1..(Len(x) + Len(y)) : s[j] = IF j <= Len(x) THEN x[j] ELSE y[j - Len(x)]
    BY Zenon, <2>1, ConcatProperties
  <2>3. /\ Len(s) = lx + ly
        /\ \A j \in 1..(lx + ly) : s[j] = IF j <= lx THEN x[j] ELSE y[j - lx]
    BY Zenon, <1>1, <2>2
  <2>. QED
    BY Zenon, <2>1, <2>3
<1>9. PICK m \in Seq(Nat) :
         /\ m = x \o q /\ Len(m) = lx + (e - 1)
         /\ \A j \in 1..(lx + (e - 1)) : m[j] = IF j <= lx THEN x[j] ELSE q[j - lx]
  <2>1. PICK m \in Seq(Nat) : m = x \o q
    BY Zenon, ConcatProperties
  <2>2. /\ Len(m) = Len(x) + Len(q)
        /\ \A j \in 1..(Len(x) + Len(q)) : m[j] = IF j <= Len(x) THEN x[j] ELSE q[j - Len(x)]
    BY Zenon, <2>1, ConcatProperties
  <2>3. /\ Len(m) = lx + (e - 1)
        /\ \A j \in 1..(lx + (e - 1)) : m[j] = IF j <= lx THEN x[j] ELSE q[j - lx]
    BY Zenon, <1>1, <1>5, <2>2
  <2>. QED
    BY Zenon, <2>1, <2>3
\* What the whole holds at the places of the unread part.
<1>10. ASSUME NEW k \in 1..ly PROVE s[lx + k] = y[k]
  <2>1. lx + k \in 1..(lx + ly) /\ ~(lx + k <= lx) /\ (lx + k) - lx = k
    OBVIOUS
  <2>. QED
    BY Zenon, <1>8, <2>1
<1>11. ASSUME NEW j \in 1..(lx + (e - 1)) PROVE s[j] = m[j] /\ m[j] # End
  <2>1. j \in 1..(lx + ly)
    BY <1>2
  <2>2. CASE j <= lx
    <3>1. j \in 1..lx
      BY <2>2
    <3>2. s[j] = x[j] /\ m[j] = x[j]
      BY Zenon, <1>8, <1>9, <2>1, <2>2
    <3>3. x[j] # End
      BY Zenon, <1>1, <3>1 DEF NoEnd
    <3>. QED
      BY Zenon, <3>2, <3>3
  <2>3. CASE ~(j <= lx)
    <3>1. j - lx \in 1..(e - 1) /\ j - lx \in 1..n
      BY <2>3
    <3>2. s[j] = y[j - lx] /\ m[j] = q[j - lx]
      BY Zenon, <1>8, <1>9, <2>1, <2>3
    <3>3. q[j - lx] = p[j - lx] /\ p[j - lx] = y[j - lx] /\ p[j - lx] # End
      BY Zenon, <1>3, <1>5, <3>1
    <3>. QED
      BY Zenon, <3>2, <3>3
  <2>. QED
    BY Zenon, <2>2, <2>3
<1>12. s[(lx + (e - 1)) + 1] = End
  <2>1. (lx + (e - 1)) + 1 = lx + e /\ e \in 1..ly
    BY <1>2
  <2>2. s[lx + e] = y[e] /\ y[e] = p[e]
    BY Zenon, <1>3, <1>10, <2>1
  <2>. QED
    BY Zenon, <2>1, <2>2
<1>13. ASSUME NEW j \in 1..(n - e) PROVE s[(lx + (e - 1)) + 1 + j] = b[j]
  <2>1. (lx + (e - 1)) + 1 + j = lx + (e + j) /\ e + j \in 1..ly /\ e + j \in 1..n
    BY <1>2
  <2>2. s[lx + (e + j)] = y[e + j] /\ b[j] = p[e + j] /\ p[e + j] = y[e + j]
    BY Zenon, <1>3, <1>6, <1>10, <2>1
  <2>. QED
    BY Zenon, <2>1, <2>2
<1>14. ASSUME NEW j \in 1..(ly - n) PROVE s[(lx + (e - 1)) + 1 + (n - e) + j] = r[j]
  <2>1. (lx + (e - 1)) + 1 + (n - e) + j = lx + (n + j) /\ n + j \in 1..ly
    BY <1>2
  <2>2. s[lx + (n + j)] = y[n + j] /\ r[j] = y[n + j]
    BY Zenon, <1>7, <1>10, <2>1
  <2>. QED
    BY Zenon, <2>1, <2>2
<1>15. Len(s) = Len(m) + 1 + (Len(b) + Len(r))
  <2>1. lx + ly = (lx + (e - 1)) + 1 + ((n - e) + (ly - n))
    BY <1>2
  <2>. QED
    BY Zenon, <1>6, <1>7, <1>8, <1>9, <2>1
<1>16. NoEnd(m)
  BY Zenon, <1>9, <1>11 DEF NoEnd
<1>17. /\ \A j \in 1..Len(m) : s[j] = m[j]
       /\ s[Len(m) + 1] = End
       /\ \A j \in 1..Len(b) : s[Len(m) + 1 + j] = b[j]
       /\ \A j \in 1..Len(r) : s[Len(m) + 1 + Len(b) + j] = r[j]
  <2>1. \A j \in 1..Len(m) : s[j] = m[j]
    BY Zenon, <1>9, <1>11
  <2>2. s[Len(m) + 1] = End
    BY Zenon, <1>9, <1>12
  <2>3. \A j \in 1..Len(b) : s[Len(m) + 1 + j] = b[j]
    BY Zenon, <1>6, <1>9, <1>13
  <2>4. \A j \in 1..Len(r) : s[Len(m) + 1 + Len(b) + j] = r[j]
    BY Zenon, <1>6, <1>7, <1>9, <1>14
  <2>. QED
    BY Zenon, <2>1, <2>2, <2>3, <2>4
<1>18. Cut(s, m, b, r)
  BY Zenon, <1>15, <1>16, <1>17 DEF Cut
<1>. QED
  BY Zenon, <1>5, <1>6, <1>7, <1>8, <1>9, <1>18

\* A piece with an end makes a message of what was read.
LEMMA StreamReadsEnd ==
    ASSUME StreamInv, NEW c \in Clients, NEW n \in 1..ReadSize, ReadPiece(c, n),
           EndIn(SubSeq(inbox[c], 1, n)) # 0
    PROVE  StreamInv'
<1>1. /\ phase[c] = "reading" /\ n <= Len(inbox[c]) /\ sent' = sent
      /\ inbox' = [inbox EXCEPT ![c] = SubSeq(inbox[c], n + 1, Len(inbox[c]))]
  BY Zenon DEF ReadPiece
<1>2. PICK x \in Seq(Nat), y \in Seq(Nat) : x = msg[c] /\ y = inbox[c]
  BY Zenon, StreamTypes
<1>3. n \in 0..Len(y) /\ n \in 1..Len(y)
  BY <1>1, <1>2, LenProperties, XmlClientsConstants
<1>4. PICK p \in Seq(Nat) : p = SubSeq(y, 1, n) /\ Len(p) = n
  BY Zenon, <1>3, SplitAt
<1>5. PICK e \in 1..n : e = EndIn(p) /\ p[e] = End /\ \A j \in 1..(e - 1) : p[j] # End
  <2>1. EndIn(p) # 0
    BY Zenon, <1>2, <1>4
  <2>. QED
    BY Zenon, <1>4, <2>1, EndIs
<1>6. /\ TakeUp(c, x \o SubSeq(p, 1, e - 1))
      /\ msgbuf' = [msgbuf EXCEPT ![c] = SubSeq(p, e + 1, Len(p))]
  <2>1. EndIn(SubSeq(inbox[c], 1, n)) > 0
    <3>1. e > 0
      BY <1>3, <1>5
    <3>. QED
      BY Zenon, <1>2, <1>4, <1>5, <3>1
  <2>2. /\ TakeUp(c, msg[c] \o SubSeq(SubSeq(inbox[c], 1, n), 1, EndIn(SubSeq(inbox[c], 1, n)) - 1))
        /\ msgbuf' = [msgbuf EXCEPT ![c] = Rest(SubSeq(inbox[c], 1, n))]
    BY Zenon, <2>1 DEF ReadPiece
  <2>. QED
    BY Zenon, <1>2, <1>4, <1>5, <2>2 DEF Rest
<1>7. phase[c] # "gone"
  BY <1>1
<1>8. NoEnd(x) /\ x \o y = Pending(c) \o inbox[c]
  BY Zenon, <1>1, <1>2, <1>7 DEF StreamInv, Stream, Pending
<1>9. /\ e \in 0..Len(p) /\ e - 1 \in 0..Len(p)
  BY <1>3, <1>4, <1>5
<1>10. /\ SubSeq(p, 1, e - 1) \in Seq(Nat) /\ SubSeq(p, e + 1, Len(p)) \in Seq(Nat)
       /\ SubSeq(y, n + 1, Len(y)) \in Seq(Nat)
  BY Zenon, <1>3, <1>9, SplitAt
<1>11. x \o y \in Seq(Nat) /\ x \o SubSeq(p, 1, e - 1) \in Seq(Nat)
  BY Zenon, <1>10, ConcatProperties
<1>12. Cut(x \o y, x \o SubSeq(p, 1, e - 1), SubSeq(p, e + 1, Len(p)), SubSeq(y, n + 1, Len(y)))
  BY Zenon, <1>3, <1>4, <1>5, <1>8, PieceCuts
<1>13. inbox' = [inbox EXCEPT ![c] = SubSeq(y, n + 1, Len(y))]
  BY Zenon, <1>1, <1>2
<1>. QED
  BY Zenon, <1>1, <1>6, <1>7, <1>8, <1>10, <1>11, <1>12, <1>13, StreamTakesUp

\* The other steps of a connection.
LEMMA StreamPasses ==
    ASSUME StreamInv, NEW c \in Clients,
           \/ Accept(c) \/ ReadFails(c) \/ LeaveLoop(c) \/ Replied(c)
           \/ Read(c) \/ Refuse(c) \/ Write(c) \/ Notify(c)
           \/ Register(c) \/ Unregister(c) \/ RegisterAll(c) \/ Execute(c) \/ Executed(c)
           \/ DeleteServer(c) \/ Disconnect(c) \/ StartServer(c) \/ StartServerFails(c)
    PROVE  StreamInv'
<1>. DEFINE Places == {"idle", "setting", "notifying", "executing", "joining", "sleeping", "replying"}
<1>1. sent' = sent /\ handled' = handled /\ inbox' = inbox /\ msgbuf' = msgbuf
      /\ (msg' = msg \/ msg' = [msg EXCEPT ![c] = <<>>])
  BY Zenon DEF Accept, ReadFails, LeaveLoop, Destroy, Replied, Read, Refuse, Write, Notify, Register,
     Unregister, RegisterAll, Execute, Executed, DeleteServer, Disconnect, StartServer,
     StartServerFails, socket
<1>2. CASE ReadFails(c) \/ LeaveLoop(c)
  <2>1. phase[c] # "gone" /\ phase' = [phase EXCEPT ![c] = "gone"] /\ "gone" \in Phases
        /\ "gone" \notin {"reading", "serving"}
    BY <1>2 DEF ReadFails, LeaveLoop, Destroy, Go, Phases
  <2>. QED
    BY Zenon, <1>1, <2>1, StreamQuiet
<1>3. CASE \/ Accept(c) \/ Replied(c)
           \/ Read(c) \/ Refuse(c) \/ Write(c) \/ Notify(c)
           \/ Register(c) \/ Unregister(c) \/ RegisterAll(c) \/ Execute(c) \/ Executed(c)
           \/ DeleteServer(c) \/ Disconnect(c) \/ StartServer(c) \/ StartServerFails(c)
  <2>1. phase[c] \in {"absent", "serving", "setting", "notifying", "executing", "joining",
                      "sleeping", "replying"}
    BY <1>3 DEF Accept, Replied, Read, Refuse, Write, Notify, Register, Unregister, RegisterAll,
         Execute, Executed, DeleteServer, Disconnect, StartServer, StartServerFails, Serves
  <2>2. phase[c] # "gone" /\ phase[c] # "reading"
    BY <2>1
  <2>3. (phase' = phase /\ msg' = msg) \/ \E p \in Places : phase' = [phase EXCEPT ![c] = p]
    <3>1. /\ "idle" \in Places /\ "setting" \in Places /\ "notifying" \in Places
          /\ "executing" \in Places /\ "joining" \in Places /\ "sleeping" \in Places
          /\ "replying" \in Places
      OBVIOUS
    <3>. HIDE DEF Places
    <3>. QED
      BY Zenon, <1>3, <3>1 DEF Accept, Replied, Read, Refuse, Write, Notify, Register, Unregister,
           RegisterAll, Execute, Executed, DeleteServer, Disconnect, StartServer,
           StartServerFails, Answer, Go, socket
  <2>4. CASE phase' = phase /\ msg' = msg
    BY Zenon, <1>1, <2>4, StreamUntouched
  <2>5. ASSUME NEW p \in Places, phase' = [phase EXCEPT ![c] = p] PROVE StreamInv'
    <3>1. p \in Phases /\ p \notin {"reading", "serving"}
      BY DEF Phases
    <3>. QED
      BY Zenon, <1>1, <2>2, <2>5, <3>1, StreamQuiet
  <2>. QED
    BY Zenon, <2>3, <2>4, <2>5
<1>. QED
  BY Zenon, <1>2, <1>3

\* The invariant holds at first.
LEMMA StreamAtFirst == Init => StreamInv
<1>. SUFFICES ASSUME Init PROVE StreamInv
  OBVIOUS
<1>1. /\ phase = [c \in Clients |-> "absent"] /\ sent = [c \in Clients |-> 0]
      /\ handled = [c \in Clients |-> 0] /\ inbox = [c \in Clients |-> <<>>]
      /\ msg = [c \in Clients |-> <<>>] /\ msgbuf = [c \in Clients |-> <<>>]
  BY Zenon DEF Init
<1>2. <<>> \in Seq(Nat) /\ <<>> \o <<>> = <<>> /\ Len(<<>>) = 0
  BY EmptySeq, ConcatEmptySeq
<1>3. /\ phase \in [Clients -> Phases] /\ sent \in [Clients -> Nat] /\ handled \in [Clients -> Nat]
      /\ inbox \in [Clients -> Seq(Nat)] /\ msg \in [Clients -> Seq(Nat)]
      /\ msgbuf \in [Clients -> Seq(Nat)]
  BY <1>1, <1>2 DEF Phases
<1>4. ASSUME NEW c \in Clients PROVE Stream(c)
  <2>1. /\ phase[c] = "absent" /\ sent[c] = 0 /\ handled[c] = 0
        /\ inbox[c] = <<>> /\ msg[c] = <<>> /\ msgbuf[c] = <<>>
    BY <1>1
  <2>2. IsStream(<<>>, 0, 0)
    BY <1>2 DEF IsStream
  <2>3. Pending(c) \o inbox[c] = <<>>
    BY Zenon, <1>2, <2>1 DEF Pending
  <2>4. phase[c] # "reading" /\ phase[c] # "serving" /\ sent[c] >= handled[c]
    BY <2>1
  <2>. QED
    BY Zenon, <2>1, <2>2, <2>3, <2>4 DEF Stream
<1>. QED
  BY Zenon, <1>3, <1>4 DEF StreamInv

\* Every step keeps it.
LEMMA StreamStepwise == StreamInv /\ [Next]_vars => StreamInv'
<1>1. ASSUME StreamInv, UNCHANGED vars PROVE StreamInv'
  <2>1. /\ phase' = phase /\ sent' = sent /\ handled' = handled /\ inbox' = inbox
        /\ msg' = msg /\ msgbuf' = msgbuf
    BY Zenon, <1>1 DEF vars, socket
  <2>. QED
    BY Zenon, <1>1, <2>1, StreamUntouched
<1>2. ASSUME StreamInv, NEW c \in Clients,
             HangUp(c) \/ WaitForFirst(c) \/ \E i \in 1..MaxActions : ActionEnds(c, i)
      PROVE  StreamInv'
  <2>1. /\ phase' = phase /\ sent' = sent /\ handled' = handled /\ inbox' = inbox
        /\ msg' = msg /\ msgbuf' = msgbuf
    BY Zenon, <1>2 DEF HangUp, WaitForFirst, ActionEnds, socket
  <2>. QED
    BY Zenon, <1>2, <2>1, StreamUntouched
<1>3. ASSUME StreamInv, BusAdvance \/ \E v \in BOOLEAN : BusChange(v) PROVE StreamInv'
  <2>1. /\ phase' = phase /\ sent' = sent /\ handled' = handled /\ inbox' = inbox
        /\ msg' = msg /\ msgbuf' = msgbuf
    BY Zenon, <1>3 DEF BusAdvance, BusChange, socket
  <2>. QED
    BY Zenon, <1>3, <2>1, StreamUntouched
<1>4. ASSUME StreamInv, NEW c \in Clients,
             \/ Send(c) \/ TakeBuffered(c) \/ StartRead(c)
             \/ \E n \in 1..ReadSize : ReadPiece(c, n)
      PROVE  StreamInv'
  BY Zenon, <1>4, StreamSend, StreamTakeBuffered, StreamStartRead, StreamReadsOn, StreamReadsEnd
<1>5. ASSUME StreamInv, NEW c \in Clients,
             \/ Accept(c) \/ ReadFails(c) \/ LeaveLoop(c) \/ Replied(c)
             \/ Read(c) \/ Refuse(c) \/ Write(c) \/ Notify(c)
             \/ Register(c) \/ Unregister(c) \/ RegisterAll(c) \/ Execute(c) \/ Executed(c)
             \/ DeleteServer(c) \/ Disconnect(c) \/ StartServer(c) \/ StartServerFails(c)
      PROVE  StreamInv'
  BY Zenon, <1>5, StreamPasses
<1>. QED
  BY Zenon, <1>1, <1>2, <1>3, <1>4, <1>5 DEF Next, Run

-----------------------------------------------------------------------------
\* A connection outlives its server without a pointer to it, and an object
\* without one to the connection, whichever threads replace the server and
\* whenever connections end (RemoveServer, ~ClientConnection).
THEOREM NothingDanglesEver == Spec => []NothingDangles
<1>1. LivesInv => NothingDangles
  BY DEF LivesInv
<1>. QED
  BY LivesAtFirst, LivesStepwise, <1>1, PTL DEF Spec

\* When no change is under way, every registered client was last notified with
\* the value the object has, whichever threads were in their loops at the same
\* time and however the list changed under them (onUpdate, onChange).
THEOREM InformedEver == Spec => []Informed
<1>1. InformedInv => Informed
  <2>. SUFFICES ASSUME InformedInv, ~crashed, \A t \in Threads : at[t] = 0,
                       \A c \in Clients : phase[c] # "setting",
                       NEW c \in ToSet(listeners)
                PROVE  told[c] = value
    BY DEF Informed
  <2>1. PICK i \in 1..Len(listeners) : listeners[i] = c
    BY Zenon, InSet DEF InformedInv
  <2>2. c \in Clients
    BY <2>1, ElementOfSeq DEF InformedInv
  <2>3. ToldOrSoon(c)
    BY Zenon, <2>1, <2>2 DEF InformedInv, Listed
  <2>. QED
    BY Zenon, <2>3 DEF ToldOrSoon, Ahead
<1>. QED
  BY InformedAtFirst, InformedStepwise, <1>1, PTL DEF Spec
\* In whatever pieces the socket gives what the clients send, the requests of a
\* client are handled one by one in the order they were made; and an execute
\* request is answered with success only if none of its actions was deleted
\* before it had ended (readmessage, Run).
THEOREM AnswersRightEver == Spec => []AnswersRight
<1>1. StreamInv => RequestsInOrder
  <2>. SUFFICES ASSUME StreamInv, NEW c \in Clients, phase[c] = "serving"
                PROVE  msg[c] = <<handled[c]>>
    BY Zenon DEF RequestsInOrder
  <2>1. phase[c] # "gone"
    OBVIOUS
  <2>. QED
    BY Zenon, <2>1 DEF StreamInv, Stream
<1>2. TruthInv => ExecuteTellsTruth
  <2>. SUFFICES ASSUME TruthInv, NEW c \in Clients, answer[c] = "success", killed[c]
                PROVE  FALSE
    BY Zenon DEF ExecuteTellsTruth
  <2>1. answer[c] # "none"
    OBVIOUS
  <2>2. phase[c] = "replying" /\ phase[c] # "executing"
    <3>1. phase[c] = "replying"
      BY Zenon, <2>1 DEF TruthInv, Truth
    <3>. QED
      BY <3>1
  <2>. QED
    BY Zenon, <2>2 DEF TruthInv, Truth
<1>3. StreamInv /\ TruthInv => AnswersRight
  BY Zenon, <1>1, <1>2 DEF AnswersRight
<1>. QED
  BY StreamAtFirst, StreamStepwise, TruthAtFirst, TruthStepwise, <1>3, PTL DEF Spec
=============================================================================
