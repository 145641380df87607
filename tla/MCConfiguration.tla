-------------------------- MODULE MCConfiguration --------------------------
(***************************************************************************)
(* Elements that between them use every row of the tables: a clock, a light *)
(* and a dimmer in the first file, and what clients write.                  *)
(***************************************************************************)
EXTENDS Configuration

Leaf(tag, attrs) == Element(tag, attrs, <<>>)
Typed(tag, type, attrs) == Leaf(tag, "type" :> type @@ attrs)
Branch(tag, type, attrs, kids) == Element(tag, "type" :> type @@ attrs, kids)

Light == Element("object", "id" :> "light" @@ "type" :> "EIS1" @@ "gad" :> <<1, 2, 3>>
                             @@ "flags" :> {"c", "w", "r", "f"} @@ "log" :> "true",
                 <<Leaf("listener", "gad" :> <<1, 2, 4>> @@ "read" :> "true"),
                   Leaf("listener", "gad" :> <<1, 5>>)>>)
Dimmer == Leaf("object", "id" :> "dimmer" @@ "type" :> "5.001" @@ "init" :> <<29800, "%">>)
Time == Leaf("object", "id" :> "time" @@ "type" :> "10.001" @@ "init" :> <<"request">>)
Heat == Leaf("object", "id" :> "heat" @@ "type" :> "EIS5" @@ "precision" :> 500
                         @@ "gad" :> <<2049>> @@ "text" :> "Heating")

On == <<"on">>
Turn(id, value) == Typed("action", "set-value", "id" :> id @@ "value" :> value)
If(attrs) == Typed("condition", "object", "id" :> "light" @@ attrs)
Switched == If("value" :> On @@ "trigger" :> "true")

RuleOf(id, attrs, condition, actions) ==
    Element("rule", "id" :> id @@ attrs,
            <<condition, Element("actionlist", <<>>, actions)>>)

Doing(action) == RuleOf("r", <<>>, Switched, <<action>>)
When(condition) == RuleOf("r", <<>>, condition, <<Turn("light", <<"0">>)>>)

Storage1 == Typed("persistence", "file", "path" :> <<"var">> @@ "logPath" :> <<"log", "/">>)
Ip == Leaf("ioport", "id" :> "ip" @@ "type" :> "tcp" @@ "host" :> "h" @@ "port" :> 7
                       @@ "permanent" :> "yes")

MCBase ==
    <<Leaf("xmlserver", "type" :> "inet"), Storage1, Ip, Light, Dimmer, Time,
      RuleOf("r", "init" :> "eval", Switched, <<Turn("dimmer", <<29800, "%">>)>>)>>

\* One action of every class, in a rule that is there already.
ActionElements ==
    {Typed("action", "dim-up", "id" :> "dimmer" @@ "start" :> 1 @@ "stop" :> 255
               @@ "duration" :> <<90, "s">>),
     Typed("action", "copy-value", "from" :> "light" @@ "to" :> "light"
               @@ "delay" :> <<90, "ms">>),
     Typed("action", "copy-value", "from" :> "light" @@ "to" :> "dimmer"),
     Typed("action", "toggle-value", "id" :> "light" @@ "delay" :> <<120, "m">>),
     Typed("action", "toggle-value", "id" :> "dimmer"),
     Typed("action", "formula", "id" :> "dimmer" @@ "x" :> "light" @@ "a" :> 12345678),
     Typed("action", "set-string", "id" :> "dimmer"
               @@ "value" :> <<<<"text", "v">>, <<"var", "time">>>>),
     Typed("action", "send-read-request", "id" :> "light"),
     Branch("action", "cycle-on-off", "id" :> "light" @@ "on" :> <<1, "">> @@ "count" :> 3,
            <<Typed("stopcondition", "object", "id" :> "time" @@ "trigger" :> "true")>>),
     Branch("action", "repeat", "period" :> <<1, "d">> @@ "count" :> 2,
            <<Turn("light", <<"1">>), Turn("dimmer", <<100000, "%">>)>>),
     Branch("action", "conditional", <<>>, <<If("op" :> "lte"), Turn("light", On)>>),
     Branch("action", "conditional", <<>>, <<Switched, Turn("light", On)>>),
     Typed("action", "send-sms", "var" :> "true" @@ "id" :> <<<<"text", "1">>>>
               @@ "value" :> <<<<"var", "dimmer">>>>),
     Typed("action", "send-email", "to" :> <<<<"text", "me">>>>
               @@ "text" :> <<<<"var", "heat">>>>),
     Typed("action", "shell-cmd", "cmd" :> <<<<"text", "ls">>>> @@ "var" :> "false"),
     Typed("action", "ioport-tx", "ioport" :> "ip" @@ "hex" :> "true" @@ "data" :> <<27, 200>>),
     Typed("action", "ioport-tx", "ioport" :> "lan" @@ "data" :> <<>>),
     Typed("action", "start-actionlist", "rule-id" :> "r" @@ "list" :> "false"),
     Typed("action", "cancel", "rule-id" :> "r"),
     Typed("action", "set-rule-active", "rule-id" :> "r" @@ "active" :> "off"),
     Typed("action", "unheard-of", <<>>)}

At(attrs) == Leaf("at", attrs)

ConditionElements ==
    {Branch("condition", "and", <<>>, <<If("op" :> "ne" @@ "value" :> <<"0">>),
            Branch("condition", "not", <<>>, <<Switched>>)>>),
     Branch("condition", "or", <<>>, <<>>),
     Typed("condition", "object-compare", "id" :> "light" @@ "id2" :> "dimmer"
               @@ "trigger" :> "true" @@ "op" :> "lt"),
     Typed("condition", "object-src", "id" :> "dimmer" @@ "src" :> <<1, 1, 17>>
               @@ "value" :> <<50000, "%">>),
     Branch("condition", "threshold", "id" :> "dimmer" @@ "delta-up" :> 5000000,
            <<Typed("resetcondition", "object", "id" :> "light" @@ "trigger" :> "true")>>),
     Branch("condition", "timer", "trigger" :> "true" @@ "initval" :> "guess",
            <<At("hour" :> 7 @@ "min" :> 0 @@ "month" :> 1 @@ "year" :> 2024
                   @@ "wdays" :> {1, 5} @@ "exception" :> "yes" @@ "offset" :> <<-5, "m">>),
              Leaf("during", "text" :> <<90, "">>)>>),
     Branch("condition", "timer", <<>>, <<Leaf("every", "text" :> <<1, "m">>),
            Leaf("during", "text" :> <<40, "s">>)>>),
     Branch("condition", "timer", <<>>, <<At("type" :> "variable" @@ "time" :> "time")>>),
     Branch("condition", "timer", <<>>, <<At("day" :> 31 @@ "month" :> 4)>>),
     Branch("condition", "timer", <<>>, <<At("type" :> "sunset"),
            Leaf("until", "type" :> "constant" @@ "hour" :> 23)>>),
     Branch("condition", "time-counter", "threshold" :> <<1, "m">>, <<Switched>>),
     Typed("condition", "ioport-rx", "ioport" :> "ip" @@ "expected" :> "ok"
               @@ "regex" :> "true" @@ "object0" :> "light"),
     Typed("condition", "ioport-connect", "ioport" :> "ip")}

RuleElements ==
    {Doing(a) : a \in ActionElements} \cup {When(c) : c \in ConditionElements} \cup
    {Leaf("rule", "id" :> "r" @@ "delete" :> "true"),
     Leaf("rule", "id" :> "r" @@ "active" :> "no" @@ "description" :> "d" @@ "init" :> "true"),
     Element("rule", "id" :> "r", <<Element("actionlist", <<>>, <<>>)>>),
     Element("rule", "id" :> "r",
         <<Element("actionlist", "type" :> "on-false", <<Turn("light", On), Turn("lost", On)>>)>>),
     Element("rule", "id" :> "s", <<If(<<>>), Element("actionlist", "type" :> "unheard-of", <<>>),
         Element("actionlist", "type" :> "if-true", <<Turn("light", On)>>)>>),
     RuleOf("s", <<>>, If("id" :> "dimmer"), <<Turn("lost", On)>>)}

ObjectElements ==
    {Heat, Leaf("object", "id" :> "heat" @@ "type" :> "9.009"),
     Leaf("object", "id" :> "dimmer" @@ "type" :> "5.001" @@ "init" :> <<"persist">>),
     Leaf("object", "id" :> "dimmer" @@ "type" :> "5.001" @@ "init" :> <<"bad">>),
     Leaf("object", "id" :> "light" @@ "gad" :> <<>>),
     Leaf("object", "id" :> "light" @@ "type" :> "5.001"),
     Leaf("object", "id" :> "dimmer" @@ "delete" :> "true"),
     Leaf("object", "id" :> "time" @@ "delete" :> "true")}

ServiceElements ==
    {Typed("smsgateway", "clickatell", "user" :> "u" @@ "pass" :> "p" @@ "api_id" :> "a"),
     Typed("smsgateway", "freemobile", "user" :> "u" @@ "pass" :> "p"),
     Typed("emailserver", "smtp", "host" :> "h" @@ "from" :> "f" @@ "login" :> "l"),
     Typed("emailserver", "", <<>>), Typed("emailserver", "imap", <<>>),
     Typed("xmlserver", "unix", <<>>), Leaf("knxconnection", "url" :> "ip:"),
     Leaf("location", "lon" :> 23456789),
     Typed("persistence", "", <<>>), Typed("persistence", "file", "path" :> <<"p", "/">>),
     Typed("persistence", "influxdb", "uri" :> "u" @@ "db" :> "d" @@ "persist_db" :> "e"),
     Typed("persistence", "mysql", "db" :> "d" @@ "charset" :> "c"),
     Element("exceptiondays", <<>>, <<Leaf("date", "month" :> 12 @@ "day" :> 25)>>),
     Leaf("exceptiondays", "clear" :> "true"),
     Leaf("ioport", "id" :> "ip" @@ "delete" :> "true"),
     Leaf("ioport", "id" :> "ip" @@ "type" :> "udp" @@ "port" :> 9),
     Leaf("ioport", "id" :> "lan" @@ "port" :> 9 @@ "rxport" :> 10),
     Leaf("ioport", "id" :> "lan" @@ "type" :> "serial" @@ "dev" :> "tty" @@ "speed" :> 9600
              @@ "framing" :> <<7, "E", 2>> @@ "flow" :> "rts-cts" @@ "mode" :> "raw"
              @@ "timeout" :> <<2500, "ms">>),
     Leaf("logging", "output" :> "f" @@ "maxfilesize" :> 1 @@ "level" :> "INFO"),
     Leaf("logging", "format" :> "basic"), Leaf("logging", "config" :> "c"),
     Leaf("logging", "level" :> "LOUD")}

MCWritable == RuleElements \cup ObjectElements \cup ServiceElements
=============================================================================
