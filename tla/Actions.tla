------------------------------ MODULE Actions ------------------------------
(***************************************************************************)
(* What actions do between being started and being gone: the Run methods   *)
(* of the classes derived from Action (src/src/ruleserver.cpp), as the     *)
(* sub-actions of a repeat or a conditional action.  They share a lamp (a  *)
(* switching object) and a level (a number, such as that of a dimmer);     *)
(* clients and the bus change the level as well.  A cycle-on-off action    *)
(* listens to the level, which its stop condition is about.                *)
(*                                                                         *)
(* A run that sets an object is busy with the listeners of that object,    *)
(* one of which may block, before it goes on.                              *)
(***************************************************************************)
EXTENDS GroupAction, Integers

CONSTANTS
    Plans,        \* the classes of the sub-actions, one function per case
    Dims,         \* configurations of a dim-up action
    Levels,
    Foreign,      \* bound: the levels other clients and other objects provide
    HaltLevels,   \* the levels at which the stop condition is true
    CycleCount,   \* count of a cycle-on-off action
    UIntSize,     \* values of an unsigned int
    MaxChanges    \* bound: changes of the level from outside

ASSUME ActionsConstants ==
    /\ UIntSize \in Nat /\ Levels \subseteq 0..UIntSize - 1
    /\ HaltLevels \subseteq Levels /\ Foreign \subseteq Levels
    /\ CycleCount \in Nat /\ MaxChanges \in Nat
    /\ \A d \in Dims : d.start \in Levels /\ d.stop \in Levels /\ d.duration \in Nat

VARIABLES
    class,      \* of each sub-action, fixed by the configuration
    dim,        \* start, stop and duration of the dim-up actions
    textFits,   \* the text of a set-string action suits the type of its object
    pos,        \* how far the run of a sub-action has come
    lamp, level,
    running,    \* running_m of the cycle-on-off action
    telling,    \* the threads in the listener loop of the level, not yet done
    halted,     \* history: the stop condition was found true during this cycle
    changes,    \* changes from outside so far
    crashed     \* the program has ended: an exception nobody caught, or a signal

ownVars == <<class, dim, textFits, pos, lamp, level, running, telling, halted,
             changes, crashed>>
actionVars == <<groupVars, ownVars>>

Once == {"set-value", "copy-value", "toggle-value", "formula", "set-string",
         "send-sms", "send-email", "shell-cmd", "cancel"}

Someone == "someone"   \* whoever changes the level from outside
Done == UIntSize + 1   \* pos of a run with nothing left to do

ActionsTypeOK ==
    /\ GroupTypeOK
    /\ class \in [Subs -> Once \cup {"dim-up", "cycle-on-off"}]
    /\ pos \in [Subs -> 0..Done]
    /\ level \in Levels
    /\ <<lamp, running, halted, crashed, textFits>> \in BOOLEAN \X BOOLEAN \X BOOLEAN \X BOOLEAN \X BOOLEAN
    /\ telling \subseteq Subs \cup {Someone}
    /\ changes \in 0..MaxChanges

ActionsInit ==
    /\ GroupInit
    /\ class \in Plans
    /\ dim \in {d \in Dims : \/ d = CHOOSE e \in Dims : TRUE
                           \/ \E s \in Subs : class[s] \in {"dim-up"}}
    /\ textFits \in {TRUE} \cup {\A s \in Subs : class[s] # "set-string"}
    /\ pos = [s \in Subs |-> 0]
    /\ lamp = FALSE
    /\ level = CHOOSE v \in Levels : \A w \in Levels : v <= w
    /\ running = FALSE
    /\ telling = {}
    /\ halted = FALSE
    /\ changes = 0
    /\ crashed = FALSE

-----------------------------------------------------------------------------
Is(s, c) == class[s] = c

\* The next step of a run is its own, and no longer a delay's.
Working(s) == at[s][1] \in {"new", "timedOut"}

\* IntObject::setIntValue: listeners hear of a value that is another.
SetLevel(w, v) ==
    /\ level' = v
    /\ telling' = IF v = level THEN telling ELSE telling \cup {w}

KeepLevel == UNCHANGED <<level, telling>>
KeepCycle == UNCHANGED <<running, halted>>
KeepConfig == UNCHANGED <<class, dim, textFits, changes>>

\* CycleOnOffAction::onChange, reached by a listener loop.
CycleOnChange(w) ==
    /\ w \in telling
    /\ telling' = telling \ {w}
    /\ LET stops == running /\ level \in HaltLevels
       IN running' = (running /\ ~stops) /\ halted' = (halted \/ stops)
    /\ UNCHANGED <<groupVars, pos, lamp, level, crashed>> /\ KeepConfig

\* A client or the bus sets the level.
ChangeLevel(v) ==
    /\ changes < MaxChanges /\ changes' = changes + 1
    /\ Someone \notin telling
    /\ v # level
    /\ SetLevel(Someone, v)
    /\ UNCHANGED <<groupVars, class, dim, textFits, pos, lamp, crashed>> /\ KeepCycle

-----------------------------------------------------------------------------
\* Action::sleep before the action proper.  A cycle is running from then on.
Delays(s) ==
    /\ at[s][1] = "new"
    /\ RunSleeps(s, 1) /\ Idle
    /\ IF Is(s, "cycle-on-off") THEN running' = TRUE /\ halted' = FALSE ELSE KeepCycle
    /\ KeepLevel /\ KeepConfig
    /\ UNCHANGED <<pos, lamp, crashed>>

\* The record of a run ends with it.
Over(s) ==
    /\ pos' = [pos EXCEPT ![s] = 0]
    /\ halted' = (halted /\ ~Is(s, "cycle-on-off"))

\* The listeners have been told: the run sleeps, or is at its end.
Proceeds(s) ==
    /\ at[s][1] = "busy" /\ ~Is(s, "cancel")
    /\ s \notin telling
    /\ \/ pos[s] = Done /\ RunExits(s, 1) /\ Over(s)
       \/ pos[s] # Done /\ RunSleeps(s, 1) /\ UNCHANGED <<pos, halted>>
    /\ Idle /\ KeepLevel /\ KeepConfig
    /\ UNCHANGED <<lamp, running, crashed>>

\* A run that finds its semaphore raised returns, whatever its class is.
Stopped(s) ==
    /\ at[s][1] = "stopped"
    /\ RunExits(s, 1) /\ Over(s)
    /\ Idle /\ KeepLevel /\ KeepConfig
    /\ UNCHANGED <<lamp, running, crashed>>

Sleeping(s) ==
    /\ TimeOut(s, 1) /\ Idle
    /\ KeepLevel /\ KeepCycle /\ KeepConfig
    /\ UNCHANGED <<pos, lamp, crashed>>

-----------------------------------------------------------------------------
\* DimUpAction::Run.  At most two values a second are sent.
Up == dim.stop > dim.start
Way == IF Up THEN dim.stop - dim.start ELSE dim.start - dim.stop
Increment == ((Way * 500) \div dim.duration) + 1

\* The divisions by duration_m and by the difference.
Indivisible == dim.duration = 0 \/ (~Up /\ Way = 0)

\* Mistake: the index may fall below zero.
NextIndexWraps(i) ==
    IF Up THEN (i + Increment) % UIntSize
          ELSE (i + UIntSize - Increment) % UIntSize

\* The index behind the i-th value; a step below zero ends at the stop value.
NextIndex(i) ==
    IF Up THEN (i + Increment) % UIntSize
    ELSE IF i < Increment THEN dim.stop ELSE i - Increment

\* pos is one more than the value sent last, and Done after the last one.
DimIndex(s) == IF pos[s] = 0 THEN dim.start ELSE NextIndex(pos[s] - 1)

InLoop(i) == IF Up THEN i < dim.stop ELSE i > dim.stop

\* Mistake: the value it has sent itself counts as set back.
Touchy(s) ==
    pos[s] # 0 /\ (IF Up THEN level <= pos[s] - 1 ELSE level >= pos[s] - 1)

\* Someone has set the object back.
Overridden(s) ==
    pos[s] # 0 /\ (IF Up THEN level < pos[s] - 1 ELSE level > pos[s] - 1)

DimWrites(s) ==
    /\ Is(s, "dim-up") /\ Working(s)
    /\ ~Indivisible /\ ~Overridden(s)
    /\ RunWorks(s, 1) /\ Idle
    /\ LET i == DimIndex(s) IN
       IF InLoop(i) THEN SetLevel(s, i) /\ pos' = [pos EXCEPT ![s] = i + 1]
                    ELSE SetLevel(s, dim.stop) /\ pos' = [pos EXCEPT ![s] = Done]
    /\ KeepCycle /\ KeepConfig
    /\ UNCHANGED <<lamp, crashed>>

DimAborts(s) ==
    /\ Is(s, "dim-up") /\ at[s][1] = "timedOut"
    /\ Overridden(s)
    /\ RunExits(s, 1) /\ Over(s)
    /\ Idle /\ KeepLevel /\ KeepConfig
    /\ UNCHANGED <<lamp, running, crashed>>

-----------------------------------------------------------------------------
\* CycleOnOffAction::Run: on and off in turn, as long as it is running.
CycleSwitches(s) ==
    /\ Is(s, "cycle-on-off")
    /\ \/ at[s][1] = "new"
       \/ at[s][1] = "timedOut" /\ running
    /\ pos[s] < 2 * CycleCount
    /\ RunWorks(s, 1) /\ Idle
    /\ lamp' = (pos[s] % 2 = 0)
    /\ pos' = [pos EXCEPT ![s] = @ + 1]
    /\ running' = TRUE
    /\ halted' = (halted /\ at[s][1] # "new")
    /\ KeepLevel /\ KeepConfig
    /\ UNCHANGED crashed

CycleEnds(s) ==
    /\ Is(s, "cycle-on-off") /\ at[s][1] = "timedOut"
    /\ ~running \/ pos[s] = 2 * CycleCount
    /\ RunExits(s, 1) /\ Over(s)
    /\ running' = FALSE
    /\ Idle /\ KeepLevel /\ KeepConfig
    /\ UNCHANGED <<lamp, crashed>>

-----------------------------------------------------------------------------
\* The actions that do one thing after their delay.
DoesOnce(s, c) ==
    /\ Is(s, c) /\ Working(s)
    /\ pos' = [pos EXCEPT ![s] = Done]
    /\ KeepCycle /\ KeepConfig

SetsValue(s) ==
    /\ DoesOnce(s, "set-value")
    /\ RunWorks(s, 1) /\ Idle
    /\ SetLevel(s, dim.start)
    /\ UNCHANGED <<lamp, crashed>>

\* From another object of the same type, whose value is any.
CopiesValue(s) ==
    /\ DoesOnce(s, "copy-value")
    /\ RunWorks(s, 1) /\ Idle
    /\ \E v \in Foreign : SetLevel(s, v)
    /\ UNCHANGED <<lamp, crashed>>

TogglesValue(s) ==
    /\ DoesOnce(s, "toggle-value")
    /\ RunWorks(s, 1) /\ Idle
    /\ lamp' = ~lamp
    /\ KeepLevel /\ UNCHANGED crashed

\* The result for the values of two other objects is any.
Calculates(s) ==
    /\ DoesOnce(s, "formula")
    /\ RunWorks(s, 1) /\ Idle
    /\ \E v \in Foreign : SetLevel(s, v)
    /\ UNCHANGED <<lamp, crashed>>

\* The values of other objects are put into the text, which is parsed only now.
SetsString(s) ==
    /\ DoesOnce(s, "set-string")
    /\ textFits
    /\ RunWorks(s, 1) /\ Idle
    /\ \E v \in Foreign : SetLevel(s, v)
    /\ UNCHANGED <<lamp, crashed>>

\* A short message keeps the whole program waiting, so it is one step.
SendsSms(s) ==
    /\ DoesOnce(s, "send-sms")
    /\ RunWorks(s, 1) /\ Idle
    /\ KeepLevel /\ UNCHANGED <<lamp, crashed>>

\* So does the dialogue with the mail server.
SendsEmail(s) ==
    /\ DoesOnce(s, "send-email")
    /\ RunWorks(s, 1) /\ Idle
    /\ KeepLevel /\ UNCHANGED <<lamp, crashed>>

\* pth_system: the other threads run on while this one waits.
RunsShellCommand(s) ==
    /\ DoesOnce(s, "shell-cmd")
    /\ RunWorks(s, 1) /\ Idle
    /\ KeepLevel /\ UNCHANGED <<lamp, crashed>>

\* CancelAction::Run on the rule it belongs to, whose list is the group.
CancelsRule(s) ==
    /\ DoesOnce(s, "cancel")
    /\ IF tid[Group] = 0
       THEN Move(s, 1, "busy") /\ UNCHANGED raised
       ELSE /\ raised' = [raised EXCEPT ![Group] = TRUE]
            /\ at' = [at EXCEPT ![s][1] = "busy", ![Group] = Wake(Group)]
    /\ Idle /\ KeepLevel
    /\ UNCHANGED <<tid, stopping, lamp, crashed>>

\* The rest of Thread::Stop, and the end of the cancel action.
CancelReturns(s) ==
    /\ Is(s, "cancel") /\ at[s][1] = "busy"
    /\ tid' = [tid EXCEPT ![Group] = 0, ![s] = 0]
    /\ Move(s, 1, "gone")
    /\ Over(s)
    /\ Idle /\ KeepLevel /\ KeepConfig
    /\ UNCHANGED <<raised, stopping, lamp, running, crashed>>

\* ThreadWrapper catches nothing.
Crashes(s) ==
    /\ Working(s)
    /\ \/ Is(s, "dim-up") /\ Indivisible
       \/ Is(s, "set-string") /\ ~textFits
    /\ crashed' = TRUE
    /\ UNCHANGED <<groupVars, pos, lamp>> /\ KeepLevel /\ KeepCycle /\ KeepConfig

-----------------------------------------------------------------------------
SubStep(s) ==
    /\ ~crashed
    /\ \/ Delays(s) \/ Stopped(s) \/ Sleeping(s) \/ Proceeds(s)
       \/ DimWrites(s) \/ DimAborts(s)
       \/ CycleSwitches(s) \/ CycleEnds(s)
       \/ SetsValue(s) \/ CopiesValue(s) \/ TogglesValue(s) \/ Calculates(s)
       \/ SetsString(s) \/ SendsSms(s) \/ SendsEmail(s) \/ RunsShellCommand(s) \/ CancelsRule(s)
       \/ CancelReturns(s) \/ Crashes(s)

\* The steps of the group.
OwnStep(A) ==
    /\ A /\ ~crashed
    /\ KeepLevel /\ KeepCycle /\ KeepConfig
    /\ UNCHANGED <<pos, lamp, crashed>>

GroupStep ==
    \/ OwnStep(ExecuteGroup)
    \/ \E k \in Runs : OwnStep(GroupRun(k))
    \/ \E c \in Cancellers : OwnStep(StopGroup(c))

Listening(w) == ~crashed /\ CycleOnChange(w)

Outside == ~crashed /\ \E v \in Foreign : ChangeLevel(v)

ActionsNext ==
    \/ GroupStep
    \/ Outside
    \/ \E s \in Subs : SubStep(s)
    \/ \E w \in Subs \cup {Someone} : Listening(w)

\* Fairness: as in GroupSpec, and a listener that blocks returns.
ActionsSpec ==
    /\ ActionsInit
    /\ [][ActionsNext]_actionVars
    /\ \A k \in Runs : WF_actionVars(OwnStep(GroupRun(k)))
    /\ \A s \in Subs : WF_actionVars(SubStep(s))
    /\ \A c \in Cancellers : WF_actionVars(OwnStep(StopEnd(c) /\ Idle))
    /\ \A w \in Subs \cup {Someone} : WF_actionVars(Listening(w))

-----------------------------------------------------------------------------
\* A cycle whose stop condition was found true does not switch the object on
\* or off any more, whichever thread found it and however the run slept.
StaysHalted(s) ==
    Is(s, "cycle-on-off") /\ halted /\ halted' => pos'[s] \in {pos[s], 0}

OthersKeepLevel(s) ==
    \A t \in Subs \ {s} : class[t] \notin {"dim-up", "set-value", "copy-value", "formula", "set-string"}

\* A dim-up action reaches its second value, unless it is cancelled or
\* overridden: a run that leaves by itself, while nobody else has set the
\* object, leaves it at the stop value.
Completes(s) ==
    (/\ Is(s, "dim-up") /\ OthersKeepLevel(s) /\ changes = 0
     /\ at[s][1] \in {"busy", "timedOut"} /\ at'[s][1] = "gone")
        => level = dim.stop

\* Whoever sets the object back behind the start value while a dim-up action
\* is on its way has the last word: that run does not touch the level again.
Yields(s) ==
    (/\ Is(s, "dim-up") /\ pos[s] \notin {0, Done} /\ pos'[s] # 0
     /\ OthersKeepLevel(s) /\ changes' = changes
     /\ IF Up THEN level < dim.start ELSE level > dim.start)
        => level' = level

\* The loops of actions run their course, unless others interfere while they
\* sleep, and then heed it (DimUpAction::Run, CycleOnOffAction::onChange).
LoopsRunTheirCourse ==
    [][\A s \in Subs : StaysHalted(s) /\ Completes(s) /\ Yields(s)]_actionVars

\* Every execution comes to an end by itself: whatever is set or overridden in
\* the meantime, no loop runs for ever.
EveryExecutionEnds == Live(Group) ~> (~Live(Group) \/ crashed)
=============================================================================
