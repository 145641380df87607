--------------------------- MODULE Configuration ---------------------------
(***************************************************************************)
(* The configuration of a running linknx: written by clients (<write>       *)
(* <config>), saved by them (<admin><save>), and loaded again when linknx   *)
(* is started from the file that was saved.                                 *)
(*                                                                          *)
(* What matters is that the three fit together: that a saved file can be    *)
(* loaded, that a restart brings back what was configured, and that writing *)
(* back what was read changes nothing.  The code does not keep this up      *)
(* everywhere; Tarnished and Unloadable name the exceptions.                *)
(***************************************************************************)
EXTENDS ConfigObjects

CONSTANTS
    Base,           \* the elements of the file linknx is first started with
    Writable,       \* the elements clients write
    MaxWrites       \* bound: elements written between two restarts

VARIABLES
    live,           \* the configuration in memory
    hears,          \* the objects that tell a rule of their changes
    replaced,       \* history: the triggers of the conditions a rule has lost
    leaked,         \* objects that something points to that nobody can delete
    file,           \* the elements of the configuration file
    saved,          \* what was live when the file was written: <<>> or one
    phase,          \* "running", "restarted" or "died"
    writes

vars == <<live, hears, replaced, leaked, file, saved, phase, writes>>

-----------------------------------------------------------------------------
Empty ==
    [services |-> [tag \in DOMAIN ServiceTable |->
                      IF tag = "location"
                      THEN [type |-> "", fields |-> [attr \in {"lon", "lat"} |-> 0]]
                      ELSE IF tag = "knxconnection"
                      THEN [type |-> "", fields |-> [attr \in {"url"} |-> ""]]
                      ELSE NoService],
     days |-> <<>>, ports |-> <<>>, objects |-> <<>>, rules |-> <<>>,
     logging |-> NewLogging]

Env(l) == [types |-> [id \in DOMAIN l.objects |-> l.objects[id].type], ports |-> l.ports]

Storage(l) == l.services["persistence"].type # ""

Id(e) == e.attrs["id"]
Deletes(e) == Says(e, "delete", "true")

ActionPoints(rule) ==
    UNION {UNION {Points(rule.lists[type][i]) : i \in 1 .. Len(rule.lists[type])} :
               type \in DOMAIN rule.lists}

RulePoints(rule) == Points(rule.condition) \cup ActionPoints(rule)

Pointed(l) == UNION {RulePoints(l.rules[r]) : r \in DOMAIN l.rules}

\* Mistake: only the conditions count the objects they point to.
InUseOfConditions(l, stray) ==
    UNION {Points(l.rules[r].condition) : r \in DOMAIN l.rules} \cup stray

InUse(l, stray) == Pointed(l) \cup stray

(***************************************************************************)
(* importXml of the object controller, the rule server, the services and    *)
(* the logging: whether an element is accepted, and what it leaves behind   *)
(* in either case.                                                          *)
(***************************************************************************)
Without(f, id) == [x \in DOMAIN f \ {id} |-> f[x]]

ObjectTaken(l, e, stray) ==
    IF Deletes(e) THEN Id(e) \in DOMAIN l.objects \ InUse(l, stray)
    ELSE /\ IF Has(e, "id") /\ Id(e) \in DOMAIN l.objects
            THEN ObjectChangeable(l.objects[Id(e)], e) ELSE ObjectCreatable(e)
         /\ InitAccepted(TypeName(TypeOf(e)), Attr(e, "init", <<>>), Storage(l))

ObjectsAfter(l, e, stray) ==
    CASE Deletes(e) /\ ObjectTaken(l, e, stray) -> Without(l.objects, Id(e))
      [] ~Deletes(e) /\ Id(e) \in DOMAIN l.objects /\ ObjectChangeable(l.objects[Id(e)], e) ->
            [l.objects EXCEPT ![Id(e)] = ObjectUpdated(@, e)]
      [] ~Deletes(e) /\ Id(e) \notin DOMAIN l.objects /\ ObjectTaken(l, e, stray) ->
            Id(e) :> ObjectUpdated(NewObject(TypeOf(e)), e) @@ l.objects
      [] OTHER -> l.objects

RuleTaken(l, e) ==
    CASE Id(e) \in DOMAIN l.rules /\ ~Deletes(e) ->
            /\ ConditionAccepted(e, Env(l))
            /\ LET lists == Children(e, "actionlist")
               IN  Len(ActionsTaken(e, Env(l))) = Len(ActionsOf([e EXCEPT !.kids = lists]))
      [] Id(e) \in DOMAIN l.rules /\ Deletes(e) -> TRUE
      [] OTHER -> ~Deletes(e) /\ RuleAccepted(e, Env(l))

RulesAfter(l, e) ==
    CASE Id(e) \in DOMAIN l.rules /\ ~Deletes(e) ->
            [l.rules EXCEPT ![Id(e)] = RuleUpdated(@, e, Env(l))]
      [] Id(e) \in DOMAIN l.rules /\ Deletes(e) -> Without(l.rules, Id(e))
      [] OTHER -> IF RuleTaken(l, e) THEN Id(e) :> RuleImported(e, Env(l)) @@ l.rules
                                     ELSE l.rules

PortTaken(l, e) ==
    CASE Deletes(e) -> Id(e) \in DOMAIN l.ports
      [] ~Deletes(e) /\ Id(e) \in DOMAIN l.ports ->
            PortAccepted(l.ports[Id(e)].type, e, Env(l))
      [] OTHER -> PortAccepted(PortType(e), e, Env(l))

PortsAfter(l, e) ==
    CASE ~PortTaken(l, e) -> l.ports
      [] PortTaken(l, e) /\ Deletes(e) -> Without(l.ports, Id(e))
      [] PortTaken(l, e) /\ ~Deletes(e) /\ Id(e) \in DOMAIN l.ports ->
            [l.ports EXCEPT ![Id(e)] = PortImported(@.type, e, Env(l))]
      [] OTHER -> Id(e) :> PortImported(PortType(e), e, Env(l)) @@ l.ports

DaysAfter(l, e) ==
    LET dates == Children(e, "date")
    IN  (IF Says(e, "clear", "true") THEN <<>> ELSE l.days)
            \o [i \in 1 .. Len(dates) |-> DayImported(dates[i], Env(l))]

Taken(l, e, stray) ==
    CASE e.tag = "object" -> ObjectTaken(l, e, stray)
      [] e.tag = "rule" -> RuleTaken(l, e)
      [] e.tag = "ioport" -> PortTaken(l, e)
      [] e.tag = "exceptiondays" -> TRUE
      [] e.tag = "logging" -> LoggingAccepted(e)
      [] e.tag \in DOMAIN ServiceTable -> ServiceAccepted(e, Env(l))

After(l, e, stray) ==
    CASE e.tag = "object" -> [l EXCEPT !.objects = ObjectsAfter(l, e, stray)]
      [] e.tag = "rule" -> [l EXCEPT !.rules = RulesAfter(l, e)]
      [] e.tag = "ioport" -> [l EXCEPT !.ports = PortsAfter(l, e)]
      [] e.tag = "exceptiondays" -> [l EXCEPT !.days = DaysAfter(l, e)]
      [] e.tag = "logging" -> [l EXCEPT !.logging = LoggingUpdated(@, e)]
      [] e.tag \in DOMAIN ServiceTable ->
            IF ServiceAccepted(e, Env(l))
            THEN [l EXCEPT !.services[e.tag] = ServiceImported(e, Env(l))] ELSE l

\* The actions of a deleted rule are never deleted, and neither is what was
\* made of a refused element: all that points to objects goes on doing so.
NamedBelow(e) ==
    LET RECURSIVE named(_)
        named(x) == {x.attrs[attr] : attr \in DOMAIN x.attrs
                                        \cap {"id", "id2", "from", "to", "x", "y"}}
                        \cup UNION {named(x.kids[i]) : i \in 1 .. Len(x.kids)}
    IN  UNION {named(e.kids[i]) : i \in 1 .. Len(e.kids)}

LeakedAfter(l, e, stray) ==
    CASE e.tag = "rule" /\ Deletes(e) /\ Id(e) \in DOMAIN l.rules ->
            stray \cup ActionPoints(l.rules[Id(e)])
      [] e.tag = "rule" /\ ~RuleTaken(l, e) -> stray \cup (NamedBelow(e) \cap DOMAIN l.objects)
      [] OTHER -> stray

ReplacesCondition(l, e, r) ==
    /\ r \in DOMAIN l.rules
    /\ e.tag = "rule" /\ Id(e) = r
    /\ Children(e, "condition") # <<>> /\ ConditionAccepted(e, Env(l))

\* Mistake: the old condition leaves the lists it is not in.
HeardAfterAll(l, e, new, h) ==
    [r \in DOMAIN new |->
        IF ReplacesCondition(l, e, r) THEN {}
        ELSE IF r \in DOMAIN l.rules THEN h[r] ELSE Triggers(new[r].condition)]

\* Rule::setCondition gets the new condition, which enters the rule into lists,
\* before it deletes the old one, which takes the rule out of lists.
HeardAfter(l, e, new, h) ==
    [r \in DOMAIN new |->
        CASE r \notin DOMAIN l.rules -> Triggers(new[r].condition)
          [] ReplacesCondition(l, e, r) ->
                (h[r] \cup Triggers(new[r].condition)) \ Deregisters(l.rules[r].condition)
          [] OTHER -> h[r]]

\* The triggers of all conditions a rule has had before its present one.
ReplacedAfter(l, e, new) ==
    [r \in DOMAIN new |->
        IF r \notin DOMAIN l.rules THEN {}
        ELSE replaced[r] \cup IF ReplacesCondition(l, e, r)
                              THEN Deregisters(l.rules[r].condition) ELSE {}]

-----------------------------------------------------------------------------
\* ClientConnection::Run, <admin><save>
FileOf(l) ==
    LET tags == SelectSeq(<<"smsgateway", "emailserver", "xmlserver", "knxconnection",
                            "location", "persistence">>,
                          LAMBDA tag : ~Absent(tag, l.services[tag]))
        elements(ids, export(_)) == [i \in 1 .. Len(ids) |-> export(ids[i])]
        service(tag) == ServiceExported(tag, l.services[tag])
        port(id) == PortExported(id, l.ports[id])
        object(id) == ObjectExported(id, l.objects[id])
        rule(id) == RuleExported(id, l.rules[id])
    IN  <<LoggingExported(l.logging)>>
            \o elements(tags, service)
            \o <<Element("exceptiondays", <<>>, elements(l.days, DayExported))>>
            \o elements(SetToSeq(DOMAIN l.ports), port)
            \o elements(SetToSeq(DOMAIN l.objects), object)
            \o elements(SetToSeq(DOMAIN l.rules), rule)

\* main: services, objects and rules in this order; the first element that is
\* refused ends the program.
Load(elements) ==
    LET step(acc, e) ==
            IF acc.ok /\ Taken(acc.live, e, {})
            THEN [ok |-> TRUE, live |-> After(acc.live, e, {})]
            ELSE [acc EXCEPT !.ok = FALSE]
    IN  FoldLeft(step, [ok |-> TRUE, live |-> Empty], elements)

Heard(l) == [r \in DOMAIN l.rules |-> Triggers(l.rules[r].condition)]

Init ==
    /\ file = Base
    /\ live = Load(Base).live
    /\ hears = Heard(live)
    /\ replaced = [r \in DOMAIN live.rules |-> {}]
    /\ leaked = {}
    /\ saved = <<>>
    /\ phase = "running"
    /\ writes = 0

Write(e) ==
    /\ phase # "died"
    /\ writes < MaxWrites
    /\ writes' = writes + 1
    /\ phase' = "running"
    /\ live' = After(live, e, leaked)
    /\ hears' = HeardAfter(live, e, live'.rules, hears)
    /\ replaced' = ReplacedAfter(live, e, live'.rules)
    /\ leaked' = LeakedAfter(live, e, leaked)
    /\ UNCHANGED <<file, saved>>

Save ==
    /\ phase = "running"
    /\ file' = FileOf(live)
    /\ saved' = <<live>>
    /\ UNCHANGED <<live, hears, replaced, leaked, phase, writes>>

Restart ==
    /\ phase = "running"
    /\ saved # <<>>
    /\ \E loaded \in {Load(file)} :
          IF loaded.ok
          THEN /\ phase' = "restarted"
               /\ live' = loaded.live
               /\ hears' = Heard(loaded.live)
               /\ replaced' = [r \in DOMAIN loaded.live.rules |-> {}]
          ELSE phase' = "died" /\ UNCHANGED <<live, hears, replaced>>
    /\ leaked' = {}
    /\ UNCHANGED <<file, saved, writes>>

Next == (\E e \in Writable : Write(e)) \/ Save \/ Restart

Spec == Init /\ [][Next]_vars

-----------------------------------------------------------------------------
(***************************************************************************)
(* The exceptions.                                                          *)
(***************************************************************************)
TarnishedField(row, fields, env) ==
    LET value == fields[row.attr]
    IN  CASE row.codec = "value" /\ value # <<>> -> ValueText(env.types[fields["id"]], value)
          [] row.codec \in {"float", "delta"} -> SixDigits(value)
          [] row.codec = "data" /\ fields["hex"] -> HexText(value)
          [] OTHER -> value

RECURSIVE TarnishedNode(_, _)

\* A percentage loses up to 0.4 % at every restart, a number keeps six digits,
\* a byte above 0x7f of a telegram is written with six more digits.
TarnishedNode(node, env) ==
    LET rows == ClassOf(node.tag, node.type).rows
    IN  [node EXCEPT
            !.fields = [attr \in DOMAIN @ |->
                           TarnishedField(CHOOSE r \in rows : r.attr = attr, node.fields, env)],
            !.parts = [i \in 1 .. Len(@) |-> TarnishedNode(@[i], env)]]

TarnishedRule(rule, env) ==
    [rule EXCEPT
        !.condition = TarnishedNode(@, env),
        !.lists = [type \in DOMAIN @ |->
                      [i \in 1 .. Len(@[type]) |-> TarnishedNode(@[type][i], env)]]]

\* The path of the log files and the names of the databases are written under
\* names that nobody reads.
TarnishedStorage(node) ==
    CASE node.type = "file" -> [node EXCEPT !.fields["logPath"] = node.fields["path"]]
      [] node.type = "influxdb" -> [node EXCEPT !.fields["db"] = "",
                                                !.fields["persist_db"] = ""]
      [] OTHER -> node

\* What a logging of another shape has left is not written.
TarnishedLogging(logging) ==
    CASE logging.config # "" -> [NewLogging EXCEPT !.config = logging.config]
      [] logging.config = "" /\ logging.output = "" ->
            [logging EXCEPT !.maxSize = -1, !.maxIndex = 0]
      [] OTHER -> [logging EXCEPT !.maxIndex = IF logging.maxSize > 0 THEN @ ELSE 0]

Tarnished(l) ==
    [l EXCEPT
        !.services["persistence"] = TarnishedStorage(@),
        !.services["location"].fields = [attr \in DOMAIN @ |-> SixDigits(@[attr])],
        !.logging = TarnishedLogging(@),
        !.rules = [r \in DOMAIN @ |-> TarnishedRule(@[r], Env(l))]]

RECURSIVE Below(_)
Below(node) == {node} \cup UNION {Below(node.parts[i]) : i \in 1 .. Len(node.parts)}

RuleNodes(rule) ==
    Below(rule.condition) \cup
    UNION {UNION {Below(rule.lists[type][i]) : i \in 1 .. Len(rule.lists[type])} :
               type \in DOMAIN rule.lists}

Actionless(rule) == \A type \in DOMAIN rule.lists : rule.lists[type] = <<>>

\* A text that is searched for objects names one that is gone: texts do not
\* count in the usage of an object.
NamesLostObject(node, l) ==
    \E r \in ClassOf(node.tag, node.type).rows :
        /\ \/ r.codec = "string"
           \/ r.codec \in {"vartext", "data"} /\ node.fields["var"]
        /\ ~VariablesKnown(node.fields[r.attr], Env(l))

NamesLostPort(node, l) ==
    /\ "ioport" \in DOMAIN node.fields
    /\ \/ node.fields["ioport"] \notin DOMAIN l.ports
       \/ node.type = "ioport-connect" /\ ~Connects(l.ports[node.fields["ioport"]])

Unloadable(l) ==
    \/ \E r \in DOMAIN l.rules :
          \/ Actionless(l.rules[r])
          \/ \E node \in RuleNodes(l.rules[r]) : NamesLostObject(node, l) \/ NamesLostPort(node, l)
    \/ \E id \in DOMAIN l.objects :
          ~InitAccepted(l.objects[id].type, l.objects[id].init, Storage(l))
    \/ l.logging.config = "" /\ l.logging.level \notin Levels

-----------------------------------------------------------------------------
\* Whatever was written, deleted or refused, all that a rule points to exists
\* and has the class it asked for (the references rules take on objects,
\* Object::decRefCount).
PointersHold ==
    /\ Pointed(live) \cup leaked \subseteq DOMAIN live.objects
    /\ \A r \in DOMAIN live.rules : \A node \in RuleNodes(live.rules[r]) :
          \A row \in ClassOf(node.tag, node.type).rows :
              (row.codec \in DOMAIN Classes /\ node.fields[row.attr] # "") =>
                  live.objects[node.fields[row.attr]].type \in Classes[row.codec]
    /\ DOMAIN hears = DOMAIN live.rules

\* What was saved can be loaded (<admin><save>, main), unless it is Unloadable,
\* and brings back what was configured, but for what is Tarnished.
RestartRestores ==
    /\ phase = "died" => Unloadable(saved[1])
    /\ phase = "restarted" => ~Unloadable(saved[1]) /\ live = Tarnished(saved[1])

\* A client that reads the configuration of an object, a rule, a service or a
\* port and writes it back changes nothing, but for what is Tarnished: an
\* update keeps or resets what the export left out as it should.
RewriteChangesNothing ==
    phase = "running" =>
        /\ \A id \in DOMAIN live.objects :
              ObjectUpdated(live.objects[id], ObjectExported(id, live.objects[id]))
                  = live.objects[id]
        /\ \A r \in DOMAIN live.rules :
              (~\E node \in RuleNodes(live.rules[r]) :
                      NamesLostObject(node, live) \/ NamesLostPort(node, live)) =>
                  RuleUpdated(live.rules[r], RuleExported(r, live.rules[r]), Env(live))
                      = TarnishedRule(live.rules[r], Env(live))
        /\ \A id \in DOMAIN live.ports :
              PortImported(live.ports[id].type, PortExported(id, live.ports[id]), Env(live))
                  = live.ports[id]

\* A rule hears of every object its condition is triggered by, but for those
\* that a condition it had before was triggered by as well ("Added support for
\* modify/delete of objects, rules or services via xml commands").
HearsTriggers ==
    \A r \in DOMAIN live.rules :
        Triggers(live.rules[r].condition) \subseteq hears[r] \cup replaced[r]
=============================================================================
