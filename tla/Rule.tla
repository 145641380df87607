------------------------------- MODULE Rule -------------------------------
(***************************************************************************)
(* One automation rule (class Rule, src/src/ruleserver.cpp) and the code   *)
(* that runs it: evaluation on an object or timer change, initialisation   *)
(* by the configuration code and by the RuleInitializer thread,            *)
(* (de)activation, and forced execution of an action list.  Cancellation   *)
(* is the matter of module RuleLists.                                      *)
(*                                                                         *)
(* linknx runs on cooperative Pth threads: control changes hands only in   *)
(* the calls that may block.  Rule::evaluate and Rule::initialize block    *)
(* inside condition_m->evaluate() (an object that was never read sends a   *)
(* read request and waits), so both are two actions here, before and       *)
(* after the condition.  A caller is one such call in progress; a thread   *)
(* that dispatches telegrams while it waits can have several open at once. *)
(***************************************************************************)
EXTENDS Naturals

CONSTANTS
    Callers,       \* calls into the rule that can be in progress together
    Initializer,   \* the RuleInitializer thread, started once by main()
    InitModes      \* values of the init attribute used by the configurations

ASSUME RuleConstants ==
    /\ Initializer \notin Callers
    /\ InitModes \subseteq {"false", "true", "eval"}

VARIABLES
    created,       \* the Rule object exists and its condition is listening
    registered,    \* RuleServer::rulesMap_m holds the rule
    active,        \* flags_m & Active
    initMode,      \* flags_m & (InitEval | InitTrue)
    prevValue,     \* prevValue_m
    ready,         \* KnxConnection::isReady()
    initializer,   \* the RuleInitializer thread has run its loop
    pc,            \* where each activation waits
    ran            \* what the last step started: [by |-> cause, lists |-> lists]

Activations == Callers \cup {Initializer}

flags == <<active, initMode>>
life  == <<created, registered, ready, initializer>>
vars  == <<created, registered, active, initMode, prevValue, ready,
           initializer, pc, ran>>

Lists == {"OnTrue", "IfTrue", "OnFalse", "IfFalse"}

Stateless(b) == IF b THEN "IfTrue" ELSE "IfFalse"
Stateful(b)  == IF b THEN "OnTrue" ELSE "OnFalse"

Nothing == [by |-> "nobody", lists |-> {}]

TypeOK ==
    /\ created \in BOOLEAN
    /\ registered \in BOOLEAN
    /\ active \in BOOLEAN
    /\ initMode \in {"false", "true", "eval"}
    /\ prevValue \in BOOLEAN
    /\ ready \in BOOLEAN
    /\ initializer \in {"waiting", "done"}
    /\ pc \in [Activations -> {"idle", "evaluate", "initialize", "import"}]
    /\ ran \in [by : {"nobody", "evaluate", "initialize", "command"}, lists : SUBSET Lists]

Init ==
    /\ created = FALSE
    /\ registered = FALSE
    /\ active = TRUE
    /\ initMode = "false"
    /\ prevValue = FALSE
    /\ ready = FALSE
    /\ initializer = "waiting"
    /\ pc = [a \in Activations |-> "idle"]
    /\ ran = Nothing

-----------------------------------------------------------------------------
\* Rule::executeActions on every list of ls; pth_spawn does not switch threads.
Execute(cause, ls) == ran' = [by |-> cause, lists |-> ls]

\* A call that starts no action.
ExecuteNothing == ran' = Nothing

Goto(a, where) == pc' = [pc EXCEPT ![a] = where]

\* Mistake: the test of prevValue_m is dropped.
ConcludeEveryTime(cur) ==
    /\ Execute("evaluate", {Stateless(cur), Stateful(cur)})
    /\ prevValue' = cur

\* The code after the condition in Rule::evaluate.
Conclude(cur) ==
    /\ Execute("evaluate", {Stateless(cur)} \cup IF cur = prevValue THEN {} ELSE {Stateful(cur)})
    /\ prevValue' = cur

\* Rule::initialize up to the point where it may block in the condition.
Initialize(a, act, mode, waiting) ==
    \/ /\ ~act
       /\ ExecuteNothing
       /\ UNCHANGED <<prevValue, pc>>
    \/ /\ act
       /\ mode = "eval"
       /\ Goto(a, waiting)
       /\ ExecuteNothing
       /\ UNCHANGED prevValue
    \/ /\ act
       /\ mode # "eval"
       /\ prevValue' = (mode = "true")
       /\ Execute("initialize", {Stateless(prevValue')})
       /\ UNCHANGED pc

\* The code both importXml and updateXml end with.
InitializeOrPreset(a, act, mode, waiting) ==
    \/ ready /\ Initialize(a, act, mode, waiting)
    \/ /\ ~ready
       /\ prevValue' = (mode = "true")
       /\ ExecuteNothing
       /\ UNCHANGED pc

\* Rule::importXml for a new rule: the map insertion follows the return.
Import(a, act, mode) ==
    /\ ~created
    /\ pc[a] = "idle"
    /\ created' = TRUE
    /\ active' = act
    /\ initMode' = mode
    /\ InitializeOrPreset(a, act, mode, "import")
    /\ registered' = (pc'[a] = "idle")
    /\ UNCHANGED <<ready, initializer>>

\* Rule::updateXml with an active and an init attribute ("" leaves it alone).
Update(a, act, mode) ==
    /\ registered
    /\ pc[a] = "idle"
    /\ active' = act
    /\ \/ /\ mode = ""
          /\ ExecuteNothing
          /\ UNCHANGED <<initMode, prevValue, pc>>
       \/ /\ mode # ""
          /\ initMode' = mode
          /\ InitializeOrPreset(a, act, mode, "initialize")
    /\ UNCHANGED <<life>>

\* The condition of an initialisation has been evaluated.
InitializeEnd(a, cur) ==
    /\ pc[a] \in {"initialize", "import"}
    /\ Goto(a, "idle")
    /\ prevValue' = cur
    /\ Execute("initialize", {Stateless(cur)})
    /\ registered' = (registered \/ pc[a] = "import")
    /\ UNCHANGED <<flags, created, ready, initializer>>

\* Rule::evaluate, called by a change listener of the condition.
EvaluateBegin(a) ==
    /\ created
    /\ pc[a] = "idle"
    /\ active
    /\ Goto(a, "evaluate")
    /\ ExecuteNothing
    /\ UNCHANGED <<life, flags, prevValue>>

EvaluateEnd(a, cur) ==
    /\ pc[a] = "evaluate"
    /\ Goto(a, "idle")
    /\ Conclude(cur)
    /\ UNCHANGED <<life, flags>>

\* KnxConnection::Run opens the group socket; isReady_m is never reset.
ConnectionReady ==
    /\ ~ready
    /\ ready' = TRUE
    /\ ExecuteNothing
    /\ UNCHANGED <<created, registered, initializer, flags, prevValue, pc>>

\* Mistake: the rules are initialised without waiting for the connection.
RunInitializerAtOnce ==
    /\ initializer = "waiting"
    /\ initializer' = "done"
    /\ \/ registered /\ Initialize(Initializer, active, initMode, "initialize")
       \/ ~registered /\ ExecuteNothing /\ UNCHANGED <<prevValue, pc>>
    /\ UNCHANGED <<created, registered, ready, flags>>

\* RuleServer::initialize, once the poll of isReady() succeeds.
RunInitializer ==
    /\ ready
    /\ initializer = "waiting"
    /\ initializer' = "done"
    /\ \/ registered /\ Initialize(Initializer, active, initMode, "initialize")
       \/ ~registered /\ ExecuteNothing /\ UNCHANGED <<prevValue, pc>>
    /\ UNCHANGED <<created, registered, ready, flags>>

\* SetRuleActiveAction::Run.
SetActive(act) ==
    /\ registered
    /\ active # act
    /\ active' = act
    /\ ExecuteNothing
    /\ UNCHANGED <<life, initMode, prevValue, pc>>

\* StartActionlistAction::Run and the rule-actions element of an XML execute.
StartActionlist(b) ==
    /\ registered
    /\ Execute("command", {Stateful(b), Stateless(b)})
    /\ UNCHANGED <<life, flags, prevValue, pc>>

-----------------------------------------------------------------------------
Configure(a) ==
    \E act \in BOOLEAN :
        \/ \E mode \in InitModes : Import(a, act, mode)
        \/ \E mode \in InitModes \cup {""} : Update(a, act, mode)

Finish(a) == \E cur \in BOOLEAN : InitializeEnd(a, cur) \/ EvaluateEnd(a, cur)

Next ==
    \/ \E a \in Callers : Configure(a) \/ EvaluateBegin(a)
    \/ \E a \in Activations : Finish(a)
    \/ ConnectionReady
    \/ RunInitializer
    \/ \E act \in BOOLEAN : SetActive(act)
    \/ \E b \in BOOLEAN : StartActionlist(b)

Spec == Init /\ [][Next]_vars

\* Object::read bounds every wait inside a condition, and the RuleInitializer
\* thread polls isReady() once a second.
FairSpec ==
    /\ Spec
    /\ WF_vars(RunInitializer)
    /\ \A a \in Activations : WF_vars(Finish(a))

-----------------------------------------------------------------------------
Trigger == INSTANCE EdgeTrigger WITH level <- prevValue

\* However many evaluations, initialisations and commands overlap, the rule
\* behaves as an edge detector on the order in which they conclude: a stateful
\* list runs only on a change against the level remembered at that moment
\* (Rule::evaluate reads and writes prevValue_m after the condition returned).
ImplementsEdgeTrigger == Trigger!Spec

\* A rule configured before the bus was reachable is neither forgotten nor
\* initialised too early: if the connection gets ready, one of its stateless
\* lists runs after that, unless the rule is off (RuleServer::initialize).
EventuallyInitialised ==
    (registered /\ ~ready)
        ~> ([]~ready \/ ~active \/ (ready /\ ran.by \in {"initialize", "evaluate"}))
=============================================================================
