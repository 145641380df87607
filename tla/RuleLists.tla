----------------------------- MODULE RuleLists -----------------------------
(***************************************************************************)
(* The four action lists of a rule while they are executed and cancelled   *)
(* (Rule::executeActions, Rule::cancel and class ActionList,               *)
(* src/src/ruleserver.cpp), on the threads of module ActionThread.  When   *)
(* which list is executed is the matter of module Rule; here each may be   *)
(* executed at any time, while its actions still run and while they are    *)
(* being cancelled.                                                        *)
(***************************************************************************)
EXTENDS ActionThread, Functions

CONSTANT ListOf     \* the actions of each list, in their order

TriggerTypes == {"OnTrue", "IfTrue", "OnFalse", "IfFalse"}

\* Every action of the configuration is an element of one list.
ASSUME RuleListsConstants ==
    /\ ListOf \in [TriggerTypes -> Seq(Actions)]
    /\ \A t \in TriggerTypes : IsInjective(ListOf[t])
    /\ \A t, u \in TriggerTypes : t # u => Range(ListOf[t]) \cap Range(ListOf[u]) = {}

VARIABLES
    enabled,    \* flags_m & Active
    visiting,   \* where a cancel has got to in the order of the actions, or 0
    found,      \* history: the runs that the last cancel of a caller found and
                \* that neither ended nor were executed again since
    intact      \* history: since the action was last executed at rest, no run
                \* ended beside another, and none began inside a Stop

listVars == <<threadVars, enabled, visiting, found, intact>>

\* Mistake: one of the four lists is forgotten.
CancelOrderForgets == ListOf["OnTrue"] \o ListOf["IfTrue"] \o ListOf["OnFalse"]

\* The order in which Rule::cancel visits the actions.
CancelOrder == ListOf["OnTrue"] \o ListOf["IfTrue"] \o ListOf["OnFalse"] \o ListOf["IfFalse"]

Listed == UNION {Range(ListOf[t]) : t \in TriggerTypes}

ListsTypeOK ==
    /\ ThreadTypeOK
    /\ enabled \in BOOLEAN
    /\ visiting \in [Cancellers -> 0..Len(CancelOrder)]
    /\ found \in [Cancellers -> SUBSET (Actions \X Runs)]
    /\ intact \in [Actions -> BOOLEAN]
    /\ \A c \in Cancellers :
          stopping[c] = IF visiting[c] = 0 THEN {} ELSE {CancelOrder[visiting[c]]}

ListsInit ==
    /\ ThreadInit
    /\ enabled \in BOOLEAN
    /\ visiting = [c \in Cancellers |-> 0]
    /\ found = [c \in Cancellers |-> {}]
    /\ intact = [a \in Actions |-> TRUE]

-----------------------------------------------------------------------------
\* A run sees its semaphore raised now, or has seen it.
Told(a, k) == raised[a] \/ at[a][k] = "stopped"

\* An action executed at rest is intact, one executed inside a Stop is not.
IntactOnStart(a) ==
    Resting(a) \/ (intact[a] /\ \A c \in Cancellers : a \notin stopping[c])

\* Rule::executeActions: no switch of threads between the actions.
ExecuteList(t) ==
    /\ Start(Range(ListOf[t]), at)
    /\ found' = [c \in Cancellers |-> {r \in found[c] : r[1] \notin Range(ListOf[t])}]
    /\ intact' = [a \in Actions |->
                     IF a \in Range(ListOf[t]) THEN IntactOnStart(a) ELSE intact[a]]
    /\ UNCHANGED <<stopping, enabled, visiting>>

\* An action works, sleeps and is woken.
ActionGoesOn(a, k) ==
    /\ RunSleeps(a, k) \/ TimeOut(a, k) \/ RunWorks(a, k)
    /\ UNCHANGED <<enabled, visiting, found, intact>>

\* A run that ends takes the thread id of a younger run with it.
ActionEnds(a, k) ==
    /\ RunExits(a, k)
    /\ found' = [c \in Cancellers |-> found[c] \ {<<a, k>>}]
    /\ intact' = [intact EXCEPT ![a] = @ /\ \A j \in Runs \ {k} : ~Alive(a, j)]
    /\ UNCHANGED <<enabled, visiting>>

\* SetRuleActiveAction, or a new configuration.
SetEnabled(on) ==
    /\ enabled # on
    /\ enabled' = on
    /\ UNCHANGED <<threadVars, visiting, found, intact>>

-----------------------------------------------------------------------------
\* The first action behind the i-th whose thread is known, or 0.
NextKnown(i, ids) ==
    LET known == {j \in i + 1..Len(CancelOrder) : ids[CancelOrder[j]] # 0}
    IN IF known = {} THEN 0 ELSE CHOOSE j \in known : \A h \in known : j <= h

\* Action::cancel on the actions behind the i-th, up to the one whose Stop
\* raises a semaphore and thereby yields; those without a thread id are passed.
CancelBehind(c, i, ids) ==
    LET j == NextKnown(i, ids) IN
    /\ tid' = ids
    /\ visiting' = [visiting EXCEPT ![c] = j]
    /\ \/ /\ j = 0
          /\ stopping' = [stopping EXCEPT ![c] = {}]
          /\ UNCHANGED <<raised, at>>
       \/ /\ j # 0
          /\ stopping' = [stopping EXCEPT ![c] = {CancelOrder[j]}]
          /\ raised' = [raised EXCEPT ![CancelOrder[j]] = TRUE]
          /\ at' = [at EXCEPT ![CancelOrder[j]] = Wake(CancelOrder[j])]

\* Rule::cancel.
BeginCancel(c) ==
    /\ visiting[c] = 0
    /\ enabled
    /\ CancelBehind(c, 0, tid)
    /\ found' = [found EXCEPT ![c] = {r \in Listed \X Runs : Alive(r[1], r[2])}]
    /\ UNCHANGED <<enabled, intact>>

\* Rule::cancel of an inactive rule returns at once, and promises nothing.
CancelInactive(c) ==
    /\ visiting[c] = 0
    /\ ~enabled
    /\ found' = [found EXCEPT ![c] = {}]
    /\ UNCHANGED <<threadVars, enabled, visiting, intact>>

\* The rest of a Thread::Stop, which forgets the thread, and the walk goes on.
GoOnCancelling(c) ==
    /\ visiting[c] # 0
    /\ CancelBehind(c, visiting[c], [tid EXCEPT ![CancelOrder[visiting[c]]] = 0])
    /\ UNCHANGED <<enabled, found, intact>>

ListsNext ==
    \/ \E t \in TriggerTypes : ExecuteList(t)
    \/ \E a \in Actions, k \in Runs : ActionGoesOn(a, k) \/ ActionEnds(a, k)
    \/ \E on \in BOOLEAN : SetEnabled(on)
    \/ \E c \in Cancellers : BeginCancel(c) \/ CancelInactive(c) \/ GoOnCancelling(c)

ListsSpec == ListsInit /\ [][ListsNext]_listVars

-----------------------------------------------------------------------------
\* When the cancellation of an active rule has returned, every run it found is
\* over, told to stop or executed again, unless two runs of its action have
\* come into each other's way: one ended while the other ran (ThreadWrapper
\* clears tid), or began while Thread::Stop yielded (which clears tid behind).
CancelStops ==
    \A c \in Cancellers : visiting[c] = 0 =>
        \A r \in found[c] : intact[r[1]] => Told(r[1], r[2])
=============================================================================
