---------------------------- MODULE MCBusObject ----------------------------
EXTENDS BusObject, TLC

Symmetry == Permutations(Sites)

Class(c) == [class |-> c]

Char(hi) == [class |-> "char", hi |-> hi]

\* Hundredths; 9.xxx and 9.001, the latter with a precision of a tenth of a degree.
Float == TwoByteFloat(-67108864, 67076096, 0)
Temperature == TwoByteFloat(-27300, 67076000, 10)

OnOff == Switch("off", "on")
Bool == Switch("false", "true")

\* A percentage of which few values are received: the last one in the log of
\* the database may be any earlier one.
Coarse == [class |-> "scaling", coarse |-> TRUE]

\* Likewise a colour: 0, a digit, a letter, and e0 and e9, powers of ten.
CoarseColour == RGBW @@ [coarse |-> TRUE]
Colours == {0, 7, 12, 224, 233}

OnOffControl == Control("off", "on")
BoolControl == Control("false", "true")

Carried == {U8, U16, U32, RGB, RGBW, S8, S16, S32, OnOff, Bool, OnOffControl, BoolControl,
            Class("scaling"), Class("angle"), Class("heatmode"), Char(127),
            Dimming, Blinds, Time, Date, Float, Temperature, Float32,
            Variable, Latin1, Ascii, Coarse, CoarseColour}

\* The time series database for every format of its log.
StoragesOf(t) ==
    CASE t \in {S8, OnOff, Bool, OnOffControl, BoolControl, Char(127), Dimming, Time,
              Float, Float32} -> {"file", "influxdb"}
      [] t \in {Coarse, CoarseColour} -> {"influxdb"}
      [] t \in {Variable, Latin1} -> {"file", "mysql", "mysqlLog"}
      [] OTHER -> {"file"}

Times == (0..1) \X {0, 23} \X {0, 59} \X {0, 59}

Dates == {90, 99, 100, 124, 189} \X {1, 2, 12} \X {1, 27, 28, 30, 31}

Hundredths == {-67108864, -27300, -2049, -2048, -1, 0, 1, 49, 2047, 2049, 4095,
               4097, 30015, 262390, 67076096}

HundredthsOf(t) == {h \in Hundredths : h \in t.lo..t.hi}

Units == {-1025, -640, -63, -1, 0, 1, 64, 65, 127, 999, 1001, 4097}

\* Letters, e with acute, the euro sign, digits.
Strings == {<<>>, <<97>>, <<233, 97>>, <<8364>>, <<8364, 97>>, <<97, 97, 97>>, <<97, 98, 97, 98>>,
            <<48, 49>>, <<49, 50>>}

NowsOf(t) == IF t = Time THEN {<<7, 23, 59, 59>>} ELSE {<<124, 2, 29>>}

\* A switch with control is only ever set to "on" under control: the other
\* values are received as something else, see ControlFromTelegram.
TextsOf(t) ==
    CASE t = CoarseColour -> Colours
      [] t.class = "int" -> IF t.signed THEN t.lo..t.hi ELSE 0..(Byte^t.bytes - 1)
      [] t.class = "float" -> HundredthsOf(t)
      [] t.class = "switch" -> {"0", "on", "true", "false", "up"}
      [] t.class = "float32" -> Units
      [] t.class = "string" -> IF t = Variable THEN {x \in Strings : \A i \in DOMAIN x : x[i] < 255}
                               ELSE Strings
      [] t.class = "scaling" -> {0, 392, 34500, 34900, 50000, 99900, 100000}
      [] t.class = "angle" -> {0, 1406, 45000, 180000, 359900, 360000}
      [] t.class = "heatmode" -> 0..4
      [] t.class = "char" -> {0, 33, 53, 54, 58, 65, 116, t.hi}
      [] t.class = "step" -> {<<"stop", 1>>, <<"up", 0>>} \cup (ToSet(t.words) \X {1, 7})
      [] t.class = "control" -> {<<1, 1>>}
      [] t.class = "time" -> {Tail(v) : v \in Times}
      [] t.class = "date" -> Dates

NumbersOf(t) ==
    CASE t.class = "int" -> IF t.signed THEN {t.lo, -1, 0, t.hi} ELSE {0, 1, Byte^t.bytes - 1}
      [] t.class = "float" -> HundredthsOf(t)
      [] t.class = "switch" -> 0..2
      [] t.class = "float32" -> Units
      [] t.class = "string" -> {0, 7, 120}
      [] t.class \in {"scaling", "angle"} -> {0, 1, 128, 255}
      [] t.class = "heatmode" -> 0..4
      [] t.class = "char" -> {0, 65, t.hi}
      [] t.class = "step" -> -7..7
      [] t.class = "control" -> {1}
      [] t.class = "time" -> {3600 * v[2] + 60 * v[3] + v[4] : v \in Times}
      [] t.class = "date" -> {400 * v[1] + 31 * v[2] + v[3] : v \in {d \in Dates : d[3] < 28}}

TelegramsOf(t) ==
    CASE t = CoarseColour -> {BytesOf(4, v) : v \in Colours}
      [] t.class = "int" -> [1..t.bytes -> 0..(Byte - 1)]
      [] t.class = "float" -> {FloatTelegram(v) : v \in HundredthsOf(t)} \cup {<<7, 255>>, <<120, 1>>}
      [] t.class = "switch" -> {<<0>>, <<1>>, <<2>>}
      [] t.class = "float32" -> {Float32Telegram(v) : v \in Units}
      [] t.class = "string" -> {<<0, 0, 0>>, <<98, 0, 0>>, <<233, 0, 97>>, <<97, 98, 99>>, <<97, 255, 98>>, <<255, 97, 0>>}
      [] t.class \in {"scaling", "angle"} -> {<<b>> : b \in IF t = Coarse THEN {0, 51} ELSE 0..255}
      [] t.class = "heatmode" -> {<<b>> : b \in 0..4}
      [] t.class = "char" -> {<<65>>, <<t.hi>>}
      [] t.class = "step" -> {<<b>> : b \in 0..15}
      [] t.class = "control" -> {<<0>>, <<2>>, <<3>>}
      [] t.class = "time" -> {TimeTelegram(v) : v \in Times}
      [] t.class = "date" -> {DateTelegram(v) : v \in Dates}

=============================================================================
