---------------------------- MODULE ConfigRules ----------------------------
(***************************************************************************)
(* Actions, conditions, time specifications and rules as they are read from *)
(* XML, kept and written to XML.                                            *)
(*                                                                          *)
(* All of them are trees.  A class says which attributes it has, which      *)
(* children it reads (how many it needs, and how many it looks at), and     *)
(* whether it or its children need a listener to tell of changes.  A node   *)
(* is what importXml has made of an element.                                *)
(***************************************************************************)
EXTENDS ConfigXml, SequencesExt

Many == 99      \* more children than any element has

Part(tag, least, most) == [tag |-> tag, least |-> least, most |-> most]
Class(rows, parts) == [rows |-> rows, parts |-> parts, listens |-> FALSE]
ListeningClass(rows, parts) == [Class(rows, parts) EXCEPT !.listens = TRUE]

(***************************************************************************)
(* Actions.                                                                 *)
(***************************************************************************)
Delayed(rows) == rows \cup {Optional("delay", "milliseconds", 0)}

DimUpAction ==
    Class(Delayed({Required("id", "UIntObject"), Required("start", "number"),
                   Required("stop", "number"),
                   Defaulted("duration", "milliseconds", 0)}), <<>>)

SetValueAction ==
    Class(Delayed({Required("id", "Object"), Required("value", "value")}), <<>>)

CopyValueAction ==
    Class(Delayed({Required("to", "Object"), Required("from", "Object")}), <<>>)

ToggleValueAction == Class(Delayed({Required("id", "SwitchingObject")}), <<>>)

FormulaAction ==
    Class(Delayed({Required("id", "Object"),
                   Optional("x", "ObjectOrNone", ""), Optional("y", "ObjectOrNone", ""),
                   Optional("a", "float", 1000000), Optional("b", "float", 1000000),
                   Optional("c", "float", 0),
                   Optional("m", "float", 1000000), Optional("n", "float", 1000000)}),
          <<>>)

SetStringAction ==
    Class(Delayed({Required("id", "Object"), Defaulted("value", "string", <<>>)}), <<>>)

SendReadRequestAction == Class(Delayed({Required("id", "Object")}), <<>>)

CycleOnOffAction ==
    Class(Delayed({Required("id", "SwitchingObject"),
                   Defaulted("on", "milliseconds", 0),
                   Defaulted("off", "milliseconds", 0),
                   Required("count", "number")}),
          <<Part("stopcondition", 0, 1)>>)

RepeatListAction ==
    Class(Delayed({Defaulted("period", "milliseconds", 0), Required("count", "number")}),
          <<Part("action", 0, Many)>>)

ConditionalAction ==
    Class(Delayed({}), <<Part("condition", 1, 1), Part("action", 0, Many)>>)

SendSmsAction ==
    Class(Delayed({Defaulted("id", "vartext", <<>>), Defaulted("value", "vartext", <<>>),
                   Optional("var", "true", FALSE)}), <<>>)

SendEmailAction ==
    Class(Delayed({Defaulted("to", "vartext", <<>>), Defaulted("subject", "vartext", <<>>),
                   Required("text", "vartext"), Optional("var", "true", FALSE)}), <<>>)

ShellCommandAction ==
    Class(Delayed({Defaulted("cmd", "vartext", <<>>), Optional("var", "true", FALSE)}), <<>>)

StartActionlistAction ==
    Class(Delayed({Required("rule-id", "text"), Defaulted("list", "list", TRUE)}), <<>>)

CancelAction == Class(Delayed({Required("rule-id", "text")}), <<>>)

SetRuleActiveAction ==
    Class(Delayed({Required("rule-id", "text"), Defaulted("active", "active", TRUE)}), <<>>)

TxAction ==
    Class(Delayed({Required("ioport", "ioport"), Defaulted("data", "data", <<>>),
                   Optional("hex", "notFalse", FALSE), Optional("var", "var", FALSE)}),
          <<>>)

LuaScriptAction == Class(Delayed({Required("text", "text")}), <<>>)

\* Action::create
Actions ==
    "dim-up" :> DimUpAction @@ "set-value" :> SetValueAction
 @@ "copy-value" :> CopyValueAction @@ "toggle-value" :> ToggleValueAction
 @@ "set-string" :> SetStringAction @@ "send-read-request" :> SendReadRequestAction
 @@ "cycle-on-off" :> CycleOnOffAction @@ "repeat" :> RepeatListAction
 @@ "conditional" :> ConditionalAction @@ "send-sms" :> SendSmsAction
 @@ "send-email" :> SendEmailAction @@ "shell-cmd" :> ShellCommandAction
 @@ "ioport-tx" :> TxAction @@ "script" :> LuaScriptAction
 @@ "start-actionlist" :> StartActionlistAction @@ "cancel" :> CancelAction
 @@ "set-rule-active" :> SetRuleActiveAction @@ "formula" :> FormulaAction

(***************************************************************************)
(* Conditions.                                                              *)
(***************************************************************************)
AndCondition == Class({}, <<Part("condition", 1, Many)>>)
OrCondition == Class({}, <<Part("condition", 1, Many)>>)
NotCondition == Class({}, <<Part("condition", 1, 1)>>)

ObjectConditionRows ==
    {Required("id", "Object"), Optional("op", "op", "eq"),
     Optional("value", "value", <<>>), Optional("trigger", "true", FALSE)}

ObjectCondition == Class(ObjectConditionRows, <<>>)

ObjectComparisonCondition ==
    Class({Required("id", "Object"), Required("id2", "Object"),
           Optional("op", "op", "eq"), Optional("trigger", "true", FALSE)}, <<>>)

ObjectSourceCondition ==
    Class(ObjectConditionRows \cup {Required("src", "individual")}, <<>>)

ObjectThresholdCondition ==
    ListeningClass({Required("id", "Object"), Optional("trigger", "true", FALSE),
                    Optional("delta-up", "delta", -1000000),
                    Optional("delta-low", "delta", -1000000)},
                   <<Part("resetcondition", 1, 1)>>)

TimerCondition ==
    Class({Optional("trigger", "true", FALSE), Optional("initval", "initval", "")},
          <<Part("at", 0, 1), Part("every", 0, 1),
            Part("until", 0, 1), Part("during", 0, 1)>>)

TimeCounterCondition ==
    ListeningClass({Optional("threshold", "seconds", 0),
                    Optional("reset-delay", "seconds", 0)},
                   <<Part("condition", 1, 1)>>)

RxCondition ==
    ListeningClass({Required("ioport", "ioport"), Defaulted("expected", "text", ""),
                    Optional("hex", "notFalse", FALSE),
                    Optional("regex", "notFalse", FALSE),
                    Optional("object0", "group", ""),
                    Optional("object1", "group", "")}, <<>>)

ConnectCondition == ListeningClass({Required("ioport", "ioport")}, <<>>)

LuaCondition == Class({Required("text", "text")}, <<>>)

\* Condition::create
Conditions ==
    "and" :> AndCondition @@ "or" :> OrCondition @@ "not" :> NotCondition
 @@ "object" :> ObjectCondition @@ "timer" :> TimerCondition
 @@ "object-compare" :> ObjectComparisonCondition
 @@ "object-src" :> ObjectSourceCondition
 @@ "threshold" :> ObjectThresholdCondition
 @@ "time-counter" :> TimeCounterCondition
 @@ "ioport-rx" :> RxCondition @@ "ioport-connect" :> ConnectCondition
 @@ "script" :> LuaCondition

(***************************************************************************)
(* The specifications of times.  A month is counted from 0 and a year from  *)
(* 1900 once they are read; "any" is -1, and no week day stands for all.    *)
(***************************************************************************)
DaySpecRows ==
    {Optional("year", "year", -1), Optional("month", "month", -1),
     Optional("day", "number", -1)}

TimeSpecRows ==
    DaySpecRows \cup
    {Optional("hour", "number", -1), Optional("min", "number", -1),
     Optional("wdays", "days", {}), Optional("exception", "exception", ""),
     Optional("offset", "offset", 0)}

PlainTimeSpec == Class(TimeSpecRows, <<>>)

VariableTimeSpec ==
    Class(TimeSpecRows \cup {Optional("time", "TimeObject", ""),
                             Optional("date", "DateObject", "")}, <<>>)

\* TimeSpec::create: every other type is a plain one, and is written as such.
TimeSpecType(type) ==
    IF type \in {"variable", "sunrise", "sunset", "noon"} THEN type ELSE ""

TimeSpecClass(type) == IF type = "variable" THEN VariableTimeSpec ELSE PlainTimeSpec

MonthDays(month, year) ==
    CASE month = 1 -> IF year = -1 \/ year % 4 = 0 THEN 29 ELSE 28
      [] month \in {3, 5, 8, 10} -> 30
      [] OTHER -> 31

\* TimeSpec::isValid: the time of the day is not looked at when the date is
\* complete.
TimeSpecValid(f) ==
    /\ f["month"] \in -1 .. 11
    /\ f["day"] = -1 \/ f["day"] \in 1 .. MonthDays(f["month"], f["year"])
    /\ \/ /\ f["hour"] \in -1 .. 23
          /\ f["min"] \in -1 .. 59
       \/ -1 \notin {f["day"], f["month"], f["year"]}

(***************************************************************************)
(* Reading and writing a tree.                                              *)
(***************************************************************************)
TypeOf(e) == IF Has(e, "type") THEN e.attrs["type"] ELSE ""

Kind(tag) == CASE tag = "action" -> "action"
               [] tag \in {"condition", "stopcondition", "resetcondition"} -> "condition"
               [] tag \in {"at", "until"} -> "time"
               [] tag \in {"every", "during"} -> "duration"

Duration == Class({Required("text", "interval")}, <<>>)

\* Whether there is such a class, and which one it is.
Creatable(tag, type) ==
    CASE Kind(tag) = "action" -> type \in DOMAIN Actions
      [] Kind(tag) = "condition" -> type \in DOMAIN Conditions
      [] OTHER -> TRUE

ClassOf(tag, type) ==
    CASE Kind(tag) = "action" -> Actions[type]
      [] Kind(tag) = "condition" -> Conditions[type]
      [] Kind(tag) = "time" -> TimeSpecClass(type)
      [] Kind(tag) = "duration" -> Duration

\* The children a class reads.
PartsRead(e, class) ==
    FlattenSeq([i \in 1 .. Len(class.parts) |->
        LET kids == Children(e, class.parts[i].tag)
        IN  SubSeq(kids, 1, IF Len(kids) < class.parts[i].most
                            THEN Len(kids) ELSE class.parts[i].most)])

\* What else a timer asks for: <at> or <every>, not both <until> and <during>,
\* and a period longer than the time of each period.
TimerAccepted(e) ==
    LET count(tag) == Len(Children(e, tag))
        seconds(tag) == ParseDuration(Head(Children(e, tag)).attrs["text"], FALSE)
    IN  /\ (count("at") = 0) # (count("every") = 0)
        /\ count("until") = 0 \/ count("during") = 0
        /\ (count("every") > 0 /\ count("during") > 0) =>
               seconds("every") > seconds("during")

\* A port a connect condition can wait for.
Connects(port) ==
    port.type = "serial" \/ (port.type = "tcp" /\ port.fields["permanent"])

SpecificallyAccepted(e, env) ==
    CASE Kind(e.tag) = "time" -> TimeSpecValid(Fields(DaySpecRows \cup TimeSpecRows, e, env))
      [] Kind(e.tag) = "condition" /\ TypeOf(e) = "timer" -> TimerAccepted(e)
      [] Kind(e.tag) = "condition" /\ TypeOf(e) = "ioport-connect" ->
            Connects(env.ports[e.attrs["ioport"]])
      [] Kind(e.tag) = "action" /\ TypeOf(e) = "copy-value" ->
            env.types[e.attrs["from"]] = env.types[e.attrs["to"]]
      [] OTHER -> TRUE

\* The condition of a conditional action has no listener, the stop condition
\* of a cycle has the action itself.
ListenerBelow(e, listener) ==
    CASE Kind(e.tag) = "action" -> TypeOf(e) = "cycle-on-off"
      [] OTHER -> listener

RECURSIVE Accepted(_, _, _), Imported(_, _), Exported(_)

AcceptedAs(class, e, env, listener) ==
    /\ class.listens => listener
    /\ Says(e, "trigger", "true") => listener
    /\ RowsAccepted(class.rows, e, env)
    /\ \A i \in 1 .. Len(class.parts) :
          Len(Children(e, class.parts[i].tag)) >= class.parts[i].least
    /\ \A part \in Range(PartsRead(e, class)) :
          Accepted(part, env, ListenerBelow(e, listener))
    /\ SpecificallyAccepted(e, env)

Accepted(e, env, listener) ==
    /\ Creatable(e.tag, TypeOf(e))
    /\ AcceptedAs(ClassOf(e.tag, TypeOf(e)), e, env, listener)

NodeType(e) == IF Kind(e.tag) = "time" THEN TimeSpecType(TypeOf(e)) ELSE TypeOf(e)

\* A timer keeps what is left of a period after its <during>, and no <during>
\* of zero seconds.
Seconds(parts, tag) ==
    LET found == SelectSeq(parts, LAMBDA p : p.tag = tag)
    IN  IF found = <<>> THEN 0 ELSE found[1].fields["text"]

Prolonged(parts, seconds) ==
    [i \in 1 .. Len(parts) |->
        IF parts[i].tag = "every" THEN [parts[i] EXCEPT !.fields["text"] = @ + seconds]
                                  ELSE parts[i]]

TimerParts(parts) ==
    SelectSeq(Prolonged(parts, 0 - Seconds(parts, "during")),
              LAMBDA p : p.tag # "during" \/ p.fields["text"] # 0)

ShownParts(node) ==
    IF node.type = "timer" THEN Prolonged(node.parts, Seconds(node.parts, "during"))
                           ELSE node.parts

ImportedAs(class, e, env) ==
    LET read == PartsRead(e, class)
        parts == [i \in 1 .. Len(read) |-> Imported(read[i], env)]
    IN  [tag |-> e.tag, type |-> NodeType(e),
         fields |-> Fields(class.rows, e, env),
         parts |-> IF TypeOf(e) = "timer" THEN TimerParts(parts) ELSE parts]

Imported(e, env) == ImportedAs(ClassOf(e.tag, TypeOf(e)), e, env)

ExportedWith(attrs, parts, node) ==
    Element(node.tag,
            IF Kind(node.tag) = "duration" \/ node.type = "" THEN attrs
            ELSE "type" :> node.type @@ attrs,
            [i \in 1 .. Len(parts) |-> Exported(parts[i])])

Exported(node) ==
    ExportedWith(Attributes(ClassOf(node.tag, node.type).rows, node.fields),
                 ShownParts(node), node)

(***************************************************************************)
(* What a tree points to, and where a rule gets into the lists of those     *)
(* that are told of a change.                                               *)
(***************************************************************************)
ObjectCodecs == {"Object", "ObjectOrNone", "UIntObject", "SwitchingObject",
                 "TimeObject", "DateObject"}

ObjectConditions == {"object", "object-compare", "object-src", "threshold"}

RECURSIVE Points(_), Triggers(_), Deregisters(_)

Own(node) ==
    {node.fields[r.attr] : r \in {r \in ClassOf(node.tag, node.type).rows :
                                     r.codec \in ObjectCodecs}} \ {""}

Points(node) == Own(node) \cup UNION {Points(node.parts[i]) : i \in 1 .. Len(node.parts)}

OfRule(node) == Kind(node.tag) = "condition" /\ node.type \in ObjectConditions

Triggers(node) ==
    (IF OfRule(node) /\ node.fields["trigger"] THEN Own(node) ELSE {})
        \cup UNION {Triggers(node.parts[i]) : i \in 1 .. Len(node.parts)}

\* The destructors take the rule out of the list of every object, whether it
\* was this condition that entered it or not.
Deregisters(node) ==
    (IF OfRule(node) THEN Own(node) ELSE {})
        \cup UNION {Deregisters(node.parts[i]) : i \in 1 .. Len(node.parts)}

(***************************************************************************)
(* Rules.                                                                   *)
(***************************************************************************)
ListTypes == <<"on-true", "if-true", "on-false", "if-false">>

Attr(e, name, missing) == IF Has(e, name) THEN e.attrs[name] ELSE missing

ListType(list) == Attr(list, "type", "on-true")

\* The actions of the element in their order, each with its list; a list of an
\* unknown type is passed over.
ActionsOf(e) ==
    LET lists == SelectSeq(Children(e, "actionlist"),
                           LAMBDA list : ListType(list) \in Range(ListTypes))
        entries(list) == [i \in 1 .. Len(Children(list, "action")) |->
                             [list |-> ListType(list), action |-> Children(list, "action")[i]]]
    IN  FlattenSeq([i \in 1 .. Len(lists) |-> entries(lists[i])])

Listed(entries, env) ==
    [type \in Range(ListTypes) |->
        LET own == SelectSeq(entries, LAMBDA entry : entry.list = type)
        IN  [i \in 1 .. Len(own) |-> Imported(own[i].action, env)]]

ActionAccepted(entry, env) == Accepted(entry.action, env, FALSE)

InitFlag(text, before) ==
    CASE text = "" -> before
      [] text \in {"eval", "true"} -> text
      [] OTHER -> "false"

RuleAccepted(e, env) ==
    /\ Len(Children(e, "condition")) > 0
    /\ Accepted(Children(e, "condition")[1], env, TRUE)
    /\ Len(Children(e, "actionlist")) > 0
    /\ \A i \in 1 .. Len(ActionsOf(e)) : ActionAccepted(ActionsOf(e)[i], env)

\* Rule::importXml
RuleImported(e, env) ==
    [active |-> ~Denies(e, "active"),
     description |-> Attr(e, "description", ""),
     init |-> InitFlag(Attr(e, "init", ""), "false"),
     condition |-> Imported(Children(e, "condition")[1], env),
     lists |-> Listed(ActionsOf(e), env)]

(***************************************************************************)
(* Rule::updateXml changes what the element mentions.  When the condition   *)
(* is refused, the action lists stay; when an action is, or a list without  *)
(* any, the lists are cleared already and hold the actions in front of it.  *)
(***************************************************************************)
ConditionAccepted(e, env) ==
    Children(e, "condition") # <<>> =>
        Accepted(Children(e, "condition")[1], env, TRUE)

ActionsTaken(e, env) ==
    LET lists == Children(e, "actionlist")
        emptyAt(i) == /\ ListType(lists[i]) \in Range(ListTypes)
                      /\ Children(lists[i], "action") = <<>>
        full == CHOOSE n \in 0 .. Len(lists) :
                    /\ \A i \in 1 .. n : ~emptyAt(i)
                    /\ n < Len(lists) => emptyAt(n + 1)
        entries == ActionsOf([e EXCEPT !.kids = SubSeq(lists, 1, full)])
        taken == CHOOSE n \in 0 .. Len(entries) :
                    /\ \A i \in 1 .. n : ActionAccepted(entries[i], env)
                    /\ n < Len(entries) => ~ActionAccepted(entries[n + 1], env)
    IN  SubSeq(entries, 1, taken)

\* A plausible slip: the lists are not cleared before the new actions come.
NewListsAdding(rule, e, env) ==
    [type \in DOMAIN rule.lists |->
        rule.lists[type] \o Listed(ActionsTaken(e, env), env)[type]]

NewLists(rule, e, env) == Listed(ActionsTaken(e, env), env)

RuleUpdated(rule, e, env) ==
    LET goesOn == ConditionAccepted(e, env)
    IN  [active |-> IF Attr(e, "active", "") = "" THEN rule.active ELSE ~Denies(e, "active"),
         description |-> Attr(e, "description", rule.description),
         init |-> InitFlag(Attr(e, "init", ""), rule.init),
         condition |-> IF Children(e, "condition") # <<>> /\ goesOn
                       THEN Imported(Children(e, "condition")[1], env)
                       ELSE rule.condition,
         lists |-> IF Children(e, "actionlist") # <<>> /\ goesOn
                   THEN NewLists(rule, e, env)
                   ELSE rule.lists]

\* Rule::exportXml: a list without actions is not written.
RuleExported(id, rule) ==
    LET full == SelectSeq(ListTypes, LAMBDA type : rule.lists[type] # <<>>)
        list(type) ==
            Element("actionlist",
                    IF type = "on-true" THEN <<>> ELSE "type" :> type,
                    [i \in 1 .. Len(rule.lists[type]) |-> Exported(rule.lists[type][i])])
    IN  Element("rule",
            "id" :> id @@ "init" :> rule.init
              @@ (IF rule.active THEN <<>> ELSE "active" :> "no")
              @@ (IF rule.description = "" THEN <<>> ELSE "description" :> rule.description),
            <<Exported(rule.condition)>> \o [i \in 1 .. Len(full) |-> list(full[i])])
=============================================================================
