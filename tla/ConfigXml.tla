----------------------------- MODULE ConfigXml -----------------------------
(***************************************************************************)
(* What the readers and writers of the configuration share: XML elements,   *)
(* the texts of durations, addresses, numbers and values, and tables of     *)
(* attributes.                                                              *)
(*                                                                          *)
(* importXml and exportXml of every action, condition, object and service   *)
(* are written twice in the code, once reading an attribute, once writing   *)
(* it.  Here each class has one table, with one row per attribute that says *)
(* what both functions do with it: the conversion, what a missing attribute *)
(* means, and whether exportXml leaves the attribute out.  A row whose two  *)
(* sides do not fit is an error of the code.                                *)
(*                                                                          *)
(* A duration is written as <<>> or <<number, unit>>, an address as a       *)
(* sequence of numbers, a telegram as the sequence of its bytes, a text as  *)
(* a sequence of <<"text", ...>> and <<"var", object>>, for ${object}.      *)
(***************************************************************************)
EXTENDS Integers, Sequences, FiniteSets, TLC

Element(tag, attrs, kids) == [tag |-> tag, attrs |-> attrs, kids |-> kids]

Has(e, name) == name \in DOMAIN e.attrs
Says(e, name, text) == Has(e, name) /\ e.attrs[name] = text
Denies(e, name) == Has(e, name) /\ e.attrs[name] \in {"off", "false", "no"}

Children(e, tag) == SelectSeq(e.kids, LAMBDA kid : kid.tag = tag)

(***************************************************************************)
(* Durations: RuleServer::parseDuration and formatDuration.                 *)
(***************************************************************************)
SecondsOf == "d" :> 86400 @@ "h" :> 3600 @@ "m" :> 60 @@ "s" :> 1 @@ "" :> 1

DurationAccepted(text, allowNegative, useMilliseconds) ==
    \/ text = <<>>
    \/ /\ text[1] >= 0 \/ allowNegative
       /\ text[2] \in DOMAIN SecondsOf \/ (text[2] = "ms" /\ useMilliseconds)

ParseDuration(text, useMilliseconds) ==
    CASE text = <<>> -> 0
      [] text # <<>> /\ text[2] = "ms" -> text[1]
      [] OTHER -> text[1] * SecondsOf[text[2]]
                    * (IF useMilliseconds THEN 1000 ELSE 1)

\* A plausible slip: minutes are tried before the unit is known to be whole.
FormatDurationInMinutes(duration, useMilliseconds) ==
    LET scale == IF useMilliseconds THEN 1000 ELSE 1
    IN  CASE duration = 0 -> <<>>
          [] duration # 0 /\ duration % scale # 0 -> <<duration, "ms">>
          [] OTHER -> <<duration \div (60 * scale), "m">>

FormatDuration(duration, useMilliseconds) ==
    LET scale == IF useMilliseconds THEN 1000 ELSE 1
        fits(unit) == duration % (scale * SecondsOf[unit]) = 0
        in(unit) == <<duration \div (scale * SecondsOf[unit]), unit>>
    IN  CASE duration = 0 -> <<>>
          [] duration # 0 /\ duration % scale # 0 -> <<duration, "ms">>
          [] OTHER -> CASE fits("d") -> in("d")
                        [] ~fits("d") /\ fits("h") -> in("h")
                        [] ~fits("h") /\ fits("m") -> in("m")
                        [] OTHER -> in("")

(***************************************************************************)
(* Addresses.  A group address has two, three or one (hexadecimal) parts    *)
(* and is always written with three.                                        *)
(***************************************************************************)
ReadGroupAddr(text) ==
    CASE Len(text) = 3 -> (text[1] % 32) * 2048 + (text[2] % 8) * 256 + (text[3] % 256)
      [] Len(text) = 2 -> (text[1] % 32) * 2048 + (text[2] % 2048)
      [] Len(text) = 1 -> text[1] % 65536

WriteGroupAddr(addr) == <<addr \div 2048, (addr \div 256) % 8, addr % 256>>

ReadAddr(text) ==
    CASE Len(text) = 3 -> (text[1] % 16) * 4096 + (text[2] % 16) * 256 + (text[3] % 256)
      [] Len(text) = 1 -> text[1] % 65536

WriteAddr(addr) == <<addr \div 4096, (addr \div 256) % 16, addr % 256>>

(***************************************************************************)
(* Values: the texts of a switch, <<"on">>, and of a percentage in          *)
(* thousandths, <<29800, "%">>.  A percentage is kept as a byte, truncated  *)
(* when it is read, and written with three digits.                          *)
(***************************************************************************)
ScalingValue(text) == (text[1] * 255) \div 100000

ScalingText(byte) ==
    LET rounded(unit) == ((2 * byte * 100000 + 255 * unit) \div (510 * unit)) * unit
    IN  <<CASE byte = 255 -> 100000
            [] byte \in 26 .. 254 -> rounded(100)
            [] byte \in 3 .. 25 -> rounded(10)
            [] OTHER -> rounded(1), "%">>

ValueAccepted(type, text) ==
    CASE type = "1.001" -> text \in {<<"on">>, <<"off">>, <<"1">>, <<"0">>}
      [] type = "5.001" -> Len(text) = 2 /\ text[1] \in 0 .. 100000
      [] OTHER -> TRUE

\* The text of the value that is made of this text.
ValueText(type, text) ==
    CASE type = "1.001" /\ text = <<"1">> -> <<"on">>
      [] type = "1.001" /\ text = <<"0">> -> <<"off">>
      [] type = "5.001" -> ScalingText(ScalingValue(text))
      [] OTHER -> text

\* int(char) of a byte above 0x7f is negative: eight hexadecimal digits.
HexText(bytes) ==
    LET digits(i) == IF bytes[i] < 128 THEN <<bytes[i]>>
                     ELSE <<255, 255, 255, bytes[i]>>
        prefix[i \in 0 .. Len(bytes)] ==
            IF i = 0 THEN <<>> ELSE prefix[i - 1] \o digits(i)
    IN  prefix[Len(bytes)]

(***************************************************************************)
(* A row of a table.  Required attributes are refused when they are missing *)
(* and always written; optional ones stand for a value when they are        *)
(* missing, and are left out again when they have this value; defaulted     *)
(* ones have such a value too but are written nevertheless.                 *)
(***************************************************************************)
Row(attr, codec, required, missing, always) ==
    [attr |-> attr, codec |-> codec, required |-> required,
     missing |-> missing, always |-> always]

Required(attr, codec) == Row(attr, codec, TRUE, <<>>, TRUE)
Optional(attr, codec, missing) == Row(attr, codec, FALSE, missing, FALSE)
Defaulted(attr, codec, missing) == Row(attr, codec, FALSE, missing, TRUE)

\* The classes that a dynamic_cast asks for.
Classes ==
    "UIntObject" :> {"5.001", "5.xxx", "7.xxx"}
 @@ "SwitchingObject" :> {"1.001"}
 @@ "TimeObject" :> {"10.001"}
 @@ "DateObject" :> {"11.001"}

\* env: the types of the objects by their names, and the I/O ports.
KnownObject(text, classes, env) ==
    /\ text \in DOMAIN env.types
    /\ classes = {} \/ env.types[text] \in classes

Hexadecimal(e) == Has(e, "hex") /\ ~Says(e, "hex", "false")

\* Action::parseVarString, when it only checks.
Mentions(text) == {text[i][2] : i \in {i \in 1 .. Len(text) : text[i][1] = "var"}}

VariablesKnown(text, env) == Mentions(text) \subseteq DOMAIN env.types

TextAccepted(codec, text, e, env) ==
    CASE codec = "Object" -> KnownObject(text, {}, env)
      [] codec \in {"ObjectOrNone", "group"} -> text = "" \/ KnownObject(text, {}, env)
      [] codec \in DOMAIN Classes ->
            \/ KnownObject(text, Classes[codec], env)
            \/ text = "" /\ codec \in {"TimeObject", "DateObject"}
      [] codec = "ioport" -> text \in DOMAIN env.ports
      [] codec = "value" -> ValueAccepted(env.types[e.attrs["id"]], text)
      [] codec = "string" -> VariablesKnown(text, env)
      [] codec = "vartext" -> Says(e, "var", "true") => VariablesKnown(text, env)
      [] codec = "data" -> (Says(e, "var", "true") /\ ~Hexadecimal(e)) => VariablesKnown(text, env)
      [] codec = "seconds" -> DurationAccepted(text, FALSE, FALSE)
      [] codec = "interval" -> text # <<>> /\ DurationAccepted(text, FALSE, FALSE)
      [] codec = "offset" -> DurationAccepted(text, TRUE, FALSE)
      [] codec \in {"milliseconds", "tenths"} -> DurationAccepted(text, FALSE, TRUE)
      [] codec = "speed" -> text \in {300, 9600, 19200, 230400}
      [] codec = "framing" -> text \in (5 .. 8) \X {"E", "O", "N"} \X {1, 2}
      [] codec = "flow" -> text \in {"xon-xoff", "rts-cts", "none"}
      [] codec = "op" -> text \in {"", "eq", "lt", "gt", "ne", "lte", "gte"}
      [] OTHER -> TRUE

Decode(codec, text, e, env) ==
    CASE codec \in {"seconds", "offset", "interval"} -> ParseDuration(text, FALSE)
      [] codec = "milliseconds" -> ParseDuration(text, TRUE)
      [] codec = "tenths" -> ParseDuration(text, TRUE) \div 100
      [] codec = "mode" -> text = "raw"
      [] codec = "directory" -> IF text = <<>> \/ text[Len(text)] = "/" THEN text
                                ELSE Append(text, "/")
      [] codec = "individual" -> ReadAddr(text)
      [] codec = "value" -> ValueText(env.types[e.attrs["id"]], text)
      [] codec = "true" -> text = "true"
      [] codec = "var" -> text = "true" /\ ~Hexadecimal(e)
      [] codec = "group" -> IF Has(e, "regex") /\ ~Says(e, "regex", "false") THEN text ELSE ""
      [] codec = "permanent" -> text \in {"true", "yes"}
      [] codec = "active" -> text \notin {"off", "false", "no"}
      [] codec \in {"list", "notFalse"} -> text # "false"
      [] codec = "op" -> IF text = "" THEN "eq" ELSE text
      [] codec = "delta" -> IF text < 0 THEN -1000000 ELSE text
      [] codec = "month" -> IF text >= 0 THEN text - 1 ELSE text
      [] codec = "year" -> IF text >= 1900 THEN text - 1900 ELSE text
      [] codec = "exception" ->
            CASE text \in {"yes", "true"} -> "yes"
              [] text \in {"no", "false"} -> "no"
              [] OTHER -> ""
      [] OTHER -> text

\* A float, in millionths, with the six digits of a stream.
SixDigits(value) ==
    LET rounded(unit) == ((2 * value + unit) \div (2 * unit)) * unit
    IN  CASE value < 1000000 -> value
          [] value \in 1000000 .. 9999999 -> rounded(10)
          [] value \in 10000000 .. 99999999 -> rounded(100)
          [] OTHER -> rounded(1000)

Encode(codec, value, fields) ==
    CASE codec \in {"seconds", "offset", "interval"} -> FormatDuration(value, FALSE)
      [] codec = "milliseconds" -> FormatDuration(value, TRUE)
      [] codec = "tenths" -> FormatDuration(value * 100, TRUE)
      [] codec = "mode" -> IF value THEN "raw" ELSE "text"
      [] codec = "individual" -> WriteAddr(value)
      [] codec \in {"float", "delta"} -> SixDigits(value)
      [] codec = "data" -> IF fields["hex"] THEN HexText(value) ELSE value
      [] codec \in {"true", "var", "permanent", "list", "notFalse"} ->
            IF value THEN "true" ELSE "false"
      [] codec = "active" -> IF value THEN "yes" ELSE "no"
      [] codec = "month" -> value + 1
      [] codec = "year" -> value + 1900
      [] OTHER -> value

\* What importXml checks and makes of the attributes, and what exportXml writes.
RowsAccepted(rows, e, env) ==
    \A r \in rows : IF Has(e, r.attr)
                    THEN TextAccepted(r.codec, e.attrs[r.attr], e, env)
                    ELSE ~r.required

Fields(rows, e, env) ==
    [attr \in {r.attr : r \in rows} |->
        LET row == CHOOSE r \in rows : r.attr = attr
        IN  IF Has(e, attr) THEN Decode(row.codec, e.attrs[attr], e, env)
                            ELSE row.missing]

Attributes(rows, fields) ==
    [attr \in {r.attr : r \in {r \in rows : r.always \/ fields[r.attr] # r.missing}} |->
        LET row == CHOOSE r \in rows : r.attr = attr
        IN  Encode(row.codec, fields[attr], fields)]
=============================================================================
