----------------------------- MODULE BusObject -----------------------------
(***************************************************************************)
(* One group object in several installations: each has an object of the    *)
(* same type and group address with init="persist" and log="true" (class   *)
(* Object, src/src/objectcontroller.cpp).  The object is set by text       *)
(* (rules, XML clients) or by number (formula actions), or changed by a    *)
(* telegram of another device, and an installation may be restarted.       *)
(* Telegrams are delivered in the order of the bus, to all other           *)
(* installations at once.                                                  *)
(*                                                                         *)
(* The storage is a directory of files, a table, or a time series database *)
(* (src/src/persistentstorage.cpp).  The latter is sent texts that it can  *)
(* read as a number or a Boolean, or that are quoted since they have a     *)
(* colon; it refuses the others, and those that are something else than    *)
(* the text it has, which is logged and otherwise ignored.                 *)
(***************************************************************************)
EXTENDS Datapoints

CONSTANTS
    Sites,            \* the installations
    Types,            \* the types to choose from
    Texts(_),         \* texts written to an object of a type
    Numbers(_),       \* numbers set
    Telegrams(_),     \* data bytes other devices send
    Nows(_),          \* the times or dates that it may be
    Storages(_)       \* "file", "mysql", "mysqlLog", "influxdb", for a type

\* What the database takes the word of a switch for.
WordField(word) ==
    CASE word \in {"0", "1"} -> "number"
      [] word \in {"true", "false"} -> "boolean"
      [] OTHER -> "none"

Colour(t) == t.class = "int" /\ t.base = 16

\* The classes whose conversions need neither powers nor recursion: all but
\* floats of four bytes, integers of eight bytes and strings of Latin-1.
Plain(t) ==
    \/ t.class = "int" /\ t.bytes # 8
    \/ t.class \in {"float", "switch", "heatmode", "char", "scaling", "angle",
                    "step", "control", "time", "date"}
    \/ t.class = "string" /\ t.charset \in {"bytes", "ascii"}

\* The values that an object of such a type gets from the bus.
Values(t) ==
    CASE t.class = "int" ->
           IF t.signed THEN -(Power(t.bytes) \div 2)..(Power(t.bytes) \div 2 - 1)
           ELSE 0..(Power(t.bytes) - 1)
      [] t.class = "float" -> {v \in t.lo..t.hi : Kept(t, v) = v}
      [] t.class = "switch" -> 0..1
      [] t.class = "heatmode" -> 0..4
      [] t.class = "char" -> {c \in 0..255 : CharAccepts(t, c)}
      [] t.class \in {"scaling", "angle"} -> 0..255
      [] t.class = "step" -> (0..1) \X (0..7)
      [] t.class = "control" -> {1} \X (0..1)
      [] t.class = "time" -> (0..7) \X (0..23) \X (0..59) \X (0..59)
      [] t.class = "date" -> (90..189) \X (1..12) \X (1..31)
      [] t.class = "string" -> {v \in Seq(Nat \ {0}) : StringAccepts(t, v)}

\* Those that it may be set to, before they are rounded: what a switch with
\* control sends otherwise is received as something else.
Settable(t) ==
    CASE t.class = "control" -> {<<1, 1>>}
      [] t.class = "float" -> t.lo..t.hi
      [] OTHER -> Values(t)

\* Nothing checks what is set by number or received, nor the year of a date,
\* nor the text of a number of more than two bytes: that it is in the range of
\* the type is left to the configuration and the devices.
InRange(t) ==
    /\ t.class \in {"int", "date", "control", "string"} =>
         \A x \in Texts(t) : Accepts(t, x) => FromText(t, x) \in Settable(t)
    /\ \A n \in Numbers(t) : FromNumber(t, n) \in Settable(t)
    /\ \A b \in Telegrams(t) :
         /\ b \in Seq(0..255) /\ b # <<>>
         /\ t.class = "int" => Len(b) = t.bytes /\ \A i \in DOMAIN b : b[i] < Byte
         /\ t.class \in {"heatmode", "char", "float", "time", "date"} =>
              FromTelegram(t, b) \in Settable(t)
    /\ t.class \in {"time", "date"} => Nows(t) \subseteq Values(t)

\* The range of a type has zero in it, can be sent, and is not left by rounding.
Floats(t) ==
    /\ t.precision \in Nat
    /\ t.lo \in (-2048 * TwoTo(15))..0 /\ t.hi \in 0..(2047 * TwoTo(15))
    /\ {Kept(t, t.lo), Kept(t, t.hi)} \subseteq t.lo..t.hi

\* The words of a type are two, tell off from on and are no words of others,
\* and the database takes both for the same.
Words(t) ==
    /\ t.words = <<t.words[1], t.words[2]>> /\ t.words[1] # t.words[2]
    /\ t.class = "switch" => t.words[1] \notin {"1", "on"}
    /\ t.class \in {"switch", "control"} => WordField(t.words[1]) = WordField(t.words[2])
    /\ t.class = "step" => "stop" \notin {t.words[1], t.words[2]}

\* (Assumption: what the database makes of free texts, and of the last digits of
\* the numbers of eight bytes, is left out.)
ASSUME BusConstants ==
    \A t \in Types :
      /\ "influxdb" \in Storages(t) =>
            t.class # "string" /\ (t.class = "int" => t.bytes # 8)
      /\ t.class = "int" => /\ t.bytes \in {1, 2, 3, 4, 8} /\ t.signed \in BOOLEAN
                            /\ t.bytes # 8 => Values(t) \subseteq t.lo..t.hi
      /\ t.class = "float" => Floats(t)
      /\ t.class \in {"switch", "control", "step"} => Words(t)
      /\ t.class = "char" => t.hi \in {127, 255}
      /\ Plain(t) => InRange(t)

VARIABLES
    type,
    value,     \* value_m
    known,     \* init_m
    storage,   \* the class of the persistent storage
    stored,    \* the text it has: none or one
    logged     \* the text of the last entry of its log: none or one

busVars == <<type, value, known, storage, stored, logged>>

-----------------------------------------------------------------------------
\* The persistent storage.

Numeric == {"int", "float", "float32", "scaling", "angle"}

\* The text of a colour: two digits for each of its bytes.
HexDigits(v) == [i \in 1..2 * type.bytes |-> (v \div 16^(2 * type.bytes - i)) % 16]

LettersOf(v) == {i \in DOMAIN HexDigits(v) : HexDigits(v)[i] > 9}

\* An e between digits makes it a power of ten.
PowersOfTen(v) ==
    {i \in 2..(2 * type.bytes - 1) : LettersOf(v) = {i} /\ HexDigits(v)[i] = 14}

\* The digits of this power, which are those before the e and as many zeros as
\* those behind it say, are again those of a colour.
PowerRead(v, i) ==
    LET d == HexDigits(v)
        before == v \div 16^(Len(d) - i + 1)
        zeros == FoldLeft(LAMBDA n, c : 10 * n + c, 0, SubSeq(d, i + 1, Len(d)))
    IN  IF before = 0 THEN 0 ELSE before * 16^zeros

\* The characters 0 to 9, the colon, and those that stand for a Boolean: t, T,
\* f and F.
Digit == 48..57
Colon == 58
TrueFalse == {116, 84, 102, 70}

\* What the database takes a text for, which is quoted if it has a colon.
Field(x) ==
    CASE Colour(type) -> IF LettersOf(x) = {} \/ PowersOfTen(x) # {} THEN "number" ELSE "none"
      [] type.class \in Numeric /\ ~Colour(type) -> "number"
      [] type.class = "switch" -> WordField(x)
      [] type.class = "control" -> IF x[1] = 1 THEN WordField(type.words[x[2] + 1]) ELSE "none"
      [] type.class = "char" -> CASE x \in Digit -> "number"
                                  [] x \in TrueFalse -> "boolean"
                                  [] x = Colon -> "string"
                                  [] OTHER -> "none"
      [] type.class = "step" -> IF x[2] # 1 THEN "string" ELSE "none"
      [] type.class = "time" -> "string"
      [] OTHER -> "none"

\* It does not change what a field is.
Influx(old, x) ==
    /\ Field(x) # "none"
    /\ old # <<>> => Field(old[1]) = Field(x)

\* A database may be there for the log only, with no table for the texts.
Takes(old, x) ==
    CASE storage = "influxdb" -> Influx(old, x)
      [] storage = "mysqlLog" -> FALSE
      [] OTHER -> TRUE

\* PersistentStorage::write, and what remains if the text is not taken.
Written(old, x) == IF Takes(old, x) THEN <<x>> ELSE old

\* The text of a string in a file is read up to a byte 255, which only a string
\* of any bytes may have.
Remembered(x) ==
    IF storage = "file" /\ type.class = "string" /\ type.charset = "bytes"
    THEN Before(255, x) ELSE x

\* A file that is empty is as good as none.
ReadFile(x) ==
    IF type.class = "string" /\ Remembered(x) = <<>> THEN <<>> ELSE <<Remembered(x)>>

\* The text of a Boolean, which is no character.
NoCharacter == -1

\* The database writes a number or a Boolean in its own way.
ReadDatabase(x) ==
    IF type.class = "char" /\ x \in TrueFalse THEN <<NoCharacter>>
    ELSE IF Colour(type) /\ LettersOf(x) # {}
    THEN <<PowerRead(x, CHOOSE i \in PowersOfTen(x) : TRUE)>>
    ELSE <<x>>

\* PersistentStorage::read
Read(s) ==
    IF stored[s] = <<>> THEN <<>>
    ELSE CASE storage = "file" -> ReadFile(stored[s][1])
           [] storage = "influxdb" -> ReadDatabase(stored[s][1])
           [] OTHER -> stored[s]

\* The number in the text of a percentage or an angle is whole.
Whole(x) == x % 1000 = 0

\* A hundredth of a float of four bytes.
Cent == 10

\* InfluxdbPersistentStorage::writelog has a format for each class: Booleans for
\* switches, where no control counts as on; integers for the classes derived
\* from UIntObjectValue and IntObjectValue, percentages, angles, colours and
\* characters among them, which are refused if their text is no integer; two
\* decimals for floats.  Dates, steps and words are never accepted.
InfluxEntry(v) ==
    CASE type.class = "switch" -> <<type.words[v + 1]>>
      [] type.class = "control" -> <<<<1, IF ControlNumber(v) # 0 THEN 1 ELSE 0>>>>
      [] type.class \in {"scaling", "angle"} ->
           IF Whole(ToText(type, v)) THEN <<ToText(type, v)>> ELSE <<>>
      [] type.class = "int" -> IF Colour(type) /\ LettersOf(v) # {} THEN <<>> ELSE <<v>>
      [] type.class = "char" -> IF v \in Digit THEN <<v>> ELSE <<>>
      [] type.class = "float" -> <<v>>
      [] type.class = "float32" -> <<Rounded(v, Cent)>>
      [] type.class = "time" -> <<ToText(type, v)>>
      [] OTHER -> <<>>

\* Mistake: a percentage is logged as the byte it is sent as.
LogEntryRaw(v) ==
    IF storage = "influxdb" THEN InfluxEntry(v)
    ELSE <<IF type.class = "scaling" THEN v ELSE ToText(type, v)>>

\* What PersistentStorage::writelog adds to the log.
LogEntry(v) == IF storage = "influxdb" THEN InfluxEntry(v) ELSE <<ToText(type, v)>>

Logged(old, v) == IF LogEntry(v) = <<>> THEN old ELSE LogEntry(v)

-----------------------------------------------------------------------------
\* What an installation makes of a telegram.
Received(b) == Kept(type, FromTelegram(type, b))

\* The constructor of a string refuses what a telegram should not contain.
Taken(b) == type.class = "string" => StringAccepts(type, StringFromTelegram(b))

\* A device has sent a telegram to all installations.
BusInit ==
    /\ type \in Types
    /\ storage \in Storages(type)
    /\ \E b \in Telegrams(type) : Taken(b) /\ value = [s \in Sites |-> Received(b)]
    /\ known = [s \in Sites |-> TRUE]
    /\ stored = [s \in Sites |-> Written(<<>>, ToText(type, value[s]))]
    /\ logged = [s \in Sites |-> LogEntry(value[s])]

\* The objects in new change, or are known for the first time, and are
\* stored: set, forceUpdate and onUpdate.
Change(new) ==
    LET updated == {s \in DOMAIN new : new[s] # value[s] \/ ~known[s]}
    IN  /\ value' = [s \in Sites |-> IF s \in updated THEN new[s] ELSE value[s]]
        /\ known' = [s \in Sites |-> known[s] \/ s \in updated]
        /\ stored' = [s \in Sites |->
                        IF s \in updated THEN Written(stored[s], ToText(type, new[s]))
                        ELSE stored[s]]
        /\ logged' = [s \in Sites |->
                        IF s \in updated THEN Logged(logged[s], new[s]) ELSE logged[s]]
        /\ UNCHANGED <<type, storage>>

\* Object::setValue: a changed value is sent before the listeners and the
\* storage see it.
Set(s, v) ==
    /\ v # value[s] \/ ~known[s]
    /\ Change([r \in Sites |-> IF r = s THEN v ELSE Received(ToTelegram(type, v))])

SetByText(s, x) ==
    /\ Accepts(type, x)
    /\ Set(s, Kept(type, FromText(type, x)))

\* Object::setFloatValue
SetByNumber(s, n) == Set(s, Kept(type, FromNumber(type, n)))

\* The text "now" is the time, or the date, at which it is set.
SetToNow(s) ==
    /\ type.class = "time"
    /\ \E v \in Nows(type) : Set(s, v)

SetToToday(s) ==
    /\ type.class = "date"
    /\ \E v \in Nows(type) : Set(s, v)

\* Object::onWrite for a telegram of a device.
DeviceSends(b) ==
    /\ Taken(b)
    /\ Change([s \in Sites |-> Received(b)])

\* The value of the text that is read back, or the one of a new object.
Restored(s) ==
    IF Read(s) = <<>> THEN Initial(type) ELSE Kept(type, FromText(type, Read(s)[1]))

\* createObjectValue accepts the text that is read back.
Starts(s) == Read(s) # <<>> => Accepts(type, Read(s)[1])

\* Object::importXml after a restart; nothing is sent.
Restart(s) ==
    /\ Starts(s)
    /\ value' = [value EXCEPT ![s] = Restored(s)]
    /\ known' = [known EXCEPT ![s] = FALSE]
    /\ UNCHANGED <<type, storage, stored, logged>>

\* Nobody catches the exception for a telegram that is not taken: all
\* installations end, and are started again.
DeviceEndsAll(b) ==
    /\ ~Taken(b)
    /\ \A s \in Sites : Starts(s)
    /\ value' = [s \in Sites |-> Restored(s)]
    /\ known' = [s \in Sites |-> FALSE]
    /\ UNCHANGED <<type, storage, stored, logged>>

\* Object::read in Object::get: nobody answers, the restored value counts.
ReadTimesOut(s) ==
    /\ ~known[s]
    /\ known' = [known EXCEPT ![s] = TRUE]
    /\ UNCHANGED <<type, value, storage, stored, logged>>

BusNext ==
    \/ \E s \in Sites :
         \/ \E x \in Texts(type) : SetByText(s, x)
         \/ \E n \in Numbers(type) : SetByNumber(s, n)
         \/ SetToNow(s)
         \/ SetToToday(s)
         \/ Restart(s)
         \/ ReadTimesOut(s)
    \/ \E b \in Telegrams(type) : DeviceSends(b) \/ DeviceEndsAll(b)

BusSpec == BusInit /\ [][BusNext]_busVars

-----------------------------------------------------------------------------
\* The storage takes the text of any value of the type.
Keeps ==
    CASE storage = "influxdb" ->
           \/ type.class \in Numeric \cup {"time"} /\ ~Colour(type)
           \/ type.class \in {"switch", "control"} /\ WordField(type.words[1]) # "none"
      [] storage = "mysqlLog" -> FALSE
      [] OTHER -> TRUE

\* How far apart two values of a type may be: one step for a percentage or an
\* angle, whose text is shorter than its value; what a telegram and the
\* precision or the digits of the text round for a float; the weekday, which a
\* text does not have, for a time; what is transliterated, or lost in a file, for
\* a string.
Agree(a, b) ==
    CASE type.class \in {"scaling", "angle"} -> Abs(a - b) <= 1
      [] type.class = "float" ->
           IF type.precision = 0 THEN a = b
           ELSE \E v \in {a, b} : Abs(a - b) <= type.precision + TwoTo(Exponent(v))
      [] type.class = "float32" -> Abs(a - b) <= Float32Ulp(a) + Float32Shown(a)
      [] type.class = "time" -> Tail(a) = Tail(b)
      [] type.class = "string" ->
           Remembered(Encoded(type, a)) = Remembered(Encoded(type, b))
      [] OTHER -> Compare(type, a, b) = 0

\* Every installation knows the same value, however it was set, sent and
\* restored.  This is the agreement of doSend with doWrite and of toString
\* with createObjectValue, through the rounding of set.  A storage
\* loses what it does not take.
Agreement ==
    Keeps => \A r, s \in Sites : known[r] /\ known[s] => Agree(value[r], value[s])

\* The database takes for a Boolean the character that is stored, or for a power
\* of ten the colour.
Mistaken(s) ==
    /\ storage = "influxdb" /\ stored[s] # <<>>
    /\ \/ type.class = "char" /\ stored[s][1] \in TrueFalse
       \/ Colour(type) /\ LettersOf(stored[s][1]) # {}

\* What an installation stored is accepted when it starts again, and is the
\* value it had: importXml throws on a text the type does not accept.  It is not
\* when the database mistakes it for something else.
StorageAccepted ==
    \A s \in Sites : Mistaken(s) \/ (Starts(s) /\ (Keeps => Agree(value[s], Restored(s))))

\* The database logs two decimals of a float of four bytes, and stores so many
\* digits.
LogRounds(log, text) == 2 * Abs(log - text) <= Cent + Float32Shown(text)

\* The database refuses some of the texts of a class in one place and takes them
\* in the other: what is last there may be older.
LogLags == type.class \in {"scaling", "angle", "char"} \/ Colour(type)

\* The log and the storage tell the same of an object, as far as two decimals do.
\* This is the agreement of write with writelog, which in the time series database
\* has a format of its own for each class; there one of them misses some values of
\* percentages, angles, colours and characters.
LogTellsStored ==
    \A s \in Sites :
      \/ stored[s] = <<>> \/ logged[s] = <<>>
      \/ storage = "influxdb" /\ LogLags
      \/ storage = "influxdb" /\ type.class = "float32" /\ LogRounds(logged[s][1], stored[s][1])
      \/ logged[s] = stored[s]

IsNumber(v) ==
    /\ v # <<>> /\ \A i \in DOMAIN v : v[i] \in 48..57
    /\ v[1] = 48 => Len(v) = 1

\* A formula action copies an object into another of its type: set(double)
\* undoes toNumber.  It does not for a date on a 31st or after the 27th of
\* December, since the months are multiplied by 31 and the years by 400, nor
\* for a string that is no number.
CopiedByNumber ==
    \A s \in Sites :
      \/ type.class = "date" /\ (value[s][3] \in {0, 31} \/ (value[s][2] = 12 /\ value[s][3] > 27))
      \/ type.class = "string" /\ ~IsNumber(value[s])
      \/ Agree(value[s], Kept(type, FromNumber(type, ToNumber(type, value[s]))))

\* A comparison of an object with a text, as in an object condition, has the
\* order of the numbers, as in a threshold condition.  Steps are compared by
\* their size, which is not their number, and strings by their characters;
\* the weekday has no number.
OrderedByNumber ==
    \A s \in Sites : \A x \in Texts(type) :
      LET v == FromText(type, x)
      IN  \/ ~Accepts(type, x)
          \/ type.class \in {"step", "string"}
          \/ type.class = "time" /\ value[s][1] # 0
          \/ Compare(type, value[s], v) = Signum(ToNumber(type, value[s]) - ToNumber(type, v))

\* Numbers stand for the values they were made from, for those that calculate with
\* them and for those that compare them.
NumbersStandForValues == CopiedByNumber /\ OrderedByNumber
=============================================================================
