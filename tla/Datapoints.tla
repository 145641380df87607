----------------------------- MODULE Datapoints -----------------------------
(***************************************************************************)
(* The values of the objects (src/src/objectcontroller.cpp and .h, the     *)
(* classes <Type>ObjectValue and <Type>Object): how a value is sent in a   *)
(* telegram, read from one, written as a text, read from one, and turned   *)
(* into a number and back, and how two values compare.                     *)
(*                                                                         *)
(* A type is a record whose class selects the definitions.  A text is what *)
(* its digits or words denote, not its characters: the decimals of an      *)
(* integer are the integer, those of a percentage are thousandths.  A      *)
(* telegram is the sequence of its data bytes; the short form, of six bits *)
(* in the second byte, carries the same value as a byte.                   *)
(***************************************************************************)
EXTENDS Integers, Sequences, FiniteSetsExt, SequencesExt

CONSTANTS
    Byte,     \* bound: the values of a byte of the wide integers, 256 in the
              \* code; the other types have bytes of eight bits
    Room,     \* bound: characters of a string of fixed length, 14 in the code
    Bits,     \* bound: bits of the significand of a float, 24 in the code
    Shown     \* bound: digits of the text of such a float, 8 in the code

ASSUME ByteEven == Byte \in Nat /\ Byte > 1 /\ Byte % 2 = 0

ASSUME StringsAndFloats ==
    /\ Room \in Nat /\ Bits \in Nat /\ Shown \in 1..4
    /\ 10^Shown > 2^Bits

Signum(n) == IF n > 0 THEN 1 ELSE IF n < 0 THEN -1 ELSE 0

Abs(n) == IF n < 0 THEN -n ELSE n

\* Integer division as C++ does it, towards zero.
Truncated(n, d) == Signum(n) * (Abs(n) \div d)

\* The order of the first components in which a and b differ.
Lexicographic(a, b) ==
    LET different == {i \in DOMAIN a : a[i] # b[i]}
    IN  IF different = {} THEN 0 ELSE Signum(a[Min(different)] - b[Min(different)])

-----------------------------------------------------------------------------
(* Integers of one to eight bytes, most significant byte first.            *)

\* width is the number of bytes the value has in memory, base that of its text.
Unsigned(n, hi) == [class |-> "int", bytes |-> n, width |-> 4, signed |-> FALSE, base |-> 10,
                    lo |-> 0, hi |-> hi]

Signed(n) == [class |-> "int", bytes |-> n, width |-> n, signed |-> TRUE, base |-> 10,
              lo |-> -(Byte^n \div 2), hi |-> Byte^n \div 2 - 1]

U8  == Unsigned(1, Byte - 1)
U16 == Unsigned(2, Byte^2 - 1)
\* A text of an unsigned number of 32 bits may be negative: it wraps.
U32 == [Unsigned(4, Byte^4 - 1) EXCEPT !.lo = -(Byte^4 - 1)]
RGB == [U32 EXCEPT !.bytes = 3, !.base = 16]
S8  == Signed(1)
S16 == Signed(2)
S32 == Signed(4)
S64 == Signed(8)
RGBW == [S64 EXCEPT !.bytes = 4, !.signed = FALSE, !.base = 16]

\* How many numbers there are of up to four bytes.
Power(n) ==
    CASE n = 1 -> Byte
      [] n = 2 -> Byte * Byte
      [] n = 3 -> Byte * (Byte * Byte)
      [] n = 4 -> Byte * (Byte * (Byte * Byte))

\* The last four bytes of a number; those of a negative one are as in the two's
\* complement.
LowBytes(v) ==
    LET v1 == v \div Byte
        v2 == v1 \div Byte
        v3 == v2 \div Byte
    IN  <<v3 % Byte, v2 % Byte, v1 % Byte, v % Byte>>

BytesOf(n, v) ==
    IF n = 8 THEN LowBytes(v \div Power(4)) \o LowBytes(v)
    ELSE SubSeq(LowBytes(v), 5 - n, 4)

\* The number of up to four bytes.
FromBytes(b) ==
    LET last(i) == IF i < Len(b) THEN b[Len(b) - i] ELSE 0
    IN  last(0) + Byte * (last(1) + Byte * (last(2) + Byte * last(3)))

TwosComplement(n, u) == IF u >= Power(n) \div 2 THEN u - Power(n) ELSE u

\* S64Object::doWrite: buf[6] << 24 is an int, and when it is negative its
\* sign fills the upper half.
LongFromBytes(b) ==
    LET high == TwosComplement(4, FromBytes(SubSeq(b, 1, 4)))
        low == TwosComplement(4, FromBytes(SubSeq(b, 5, 8)))
    IN  IF low < 0 THEN low ELSE high * Power(4) + low

IntFromTelegram(t, b) ==
    IF t.bytes = 8 THEN LongFromBytes(b)
    ELSE IF t.signed THEN TwosComplement(t.bytes, FromBytes(b))
    ELSE FromBytes(b)

IntFromText(t, x) == IF ~t.signed /\ t.width = 4 THEN x % Power(4) ELSE x

-----------------------------------------------------------------------------
(* Percentages and angles: a byte whose text has three or four digits.     *)

HalfEven(n, d) ==
    LET q == n \div d
        r == n % d
    IN  IF 2 * r > d \/ (2 * r = d /\ q % 2 = 1) THEN q + 1 ELSE q

\* The text of n/d thousandths has all digits of unit: it is below bound of them.
Unit(n, d, bound) ==
    CHOOSE u \in {1, 10, 100, 1000, 10000} :
      /\ n < d * u * bound
      /\ u > 1 => n >= d * (u \div 10) * bound

\* n/d thousandths, written with three digits if bound is 1000, or with four.
Digits(n, d, bound) ==
    LET unit == Unit(n, d, bound) IN HalfEven(n, d * unit) * unit

\* Mistake: two digits.
ScalingTextShort(v) == Digits(v * 100000, 255, 100)

ScalingText(v) == Digits(v * 100000, 255, 1000)

ScalingAccepts(x) == x \in Nat /\ x <= 100000

ScalingFromText(x) == (x * 255) \div 100000

AngleAccepts(x) == x \in Nat /\ x <= 360000

AngleText(v) == Digits(v * 360000, 256, 10000)

AngleFromText(x) == ((x * 256) \div 360000) % 256

-----------------------------------------------------------------------------
(* Other single bytes: a switch, a heating mode (its text for any unknown   *)
(* one is that of mode 4), a character, which may not be white space.      *)

\* A switch has words of its own for off and on, and is understood by those
\* of any other.
Switch(off, on) == [class |-> "switch", words |-> <<off, on>>]

SwitchAccepts(t, x) == x \in {"0", "off", "1", "on"} \cup ToSet(t.words)

SwitchFromText(t, x) == IF x \in {"1", "on", t.words[2]} THEN 1 ELSE 0

SwitchText(t, v) == t.words[v + 1]

SwitchCompare(a, b) == Signum(a - b)

SwitchFromTelegram(b) == IF b[1] # 0 THEN 1 ELSE 0

SwitchFromNumber(n) == IF n # 0 THEN 1 ELSE 0

HeatingModeText(v) == Min({v, 4})

CharAccepts(t, x) == x \in 0..t.hi /\ x \notin (9..13) \cup {32}

ByteTelegram(v) == <<v % 256>>

-----------------------------------------------------------------------------
(* Floating-point numbers of two bytes, in hundredths: eleven bits of      *)
(* mantissa with its sign, four of exponent.  type.precision, in           *)
(* hundredths, is 0 when the configuration gives none.                     *)

TwoByteFloat(lo, hi, precision) ==
    [class |-> "float", lo |-> lo, hi |-> hi, precision |-> precision]

\* The powers of two that an exponent of four bits stands for.
TwoTo(e) ==
    <<1, 2, 4, 8, 16, 32, 64, 128, 256, 512, 1024, 2048, 4096, 8192, 16384, 32768>>[e + 1]

\* The mantissa, which is truncated when it is halved, is not too big.
Fits(v, e) == Abs(v) \div TwoTo(e) <= (IF v < 0 THEN 2048 ELSE 2047)

\* Bound: numbers for which sixteen exponents suffice, as for the ranges of all
\* types.
Exponent(v) == CHOOSE e \in 0..15 : Fits(v, e) /\ \A k \in 0..(e - 1) : ~Fits(v, k)

Mantissa(v) == Truncated(v, TwoTo(Exponent(v)))

RoundToKnx(v) == Mantissa(v) * TwoTo(Exponent(v))

FloatTelegram(v) ==
    <<((Mantissa(v) \div 256) % 8) + Exponent(v) * 8 + (IF v < 0 THEN 128 ELSE 0),
      Mantissa(v) % 256>>

FloatFromTelegram(b) ==
    ((b[1] % 8) * 256 + b[2] - (IF b[1] >= 128 THEN 2048 ELSE 0)) * TwoTo((b[1] \div 8) % 16)

-----------------------------------------------------------------------------
(* Floating-point numbers of four bytes, in thousandths.  The object keeps  *)
(* a double; what is sent has fewer bits, and what is written fewer digits. *)

Float32 == [class |-> "float32"]

\* The number of factors that bring v below bound.
Scale(v, base, bound) ==
    CHOOSE e \in 0..31 : /\ Abs(v) < base^e * bound
                         /\ e > 0 => Abs(v) >= base^(e - 1) * bound

Rounded(v, unit) == Signum(v) * HalfEven(Abs(v), unit) * unit

Float32Ulp(v) == 2^Scale(v, 2, 2^Bits)

Float32Shown(v) == 10^Scale(v, 10, 10^Shown)

Float32Text(v) == Rounded(v, Float32Shown(v))

Float32Telegram(v) == <<Rounded(v, Float32Ulp(v))>>

-----------------------------------------------------------------------------
(* Strings: sequences of characters, those up to 255 being Latin-1.  A     *)
(* string of variable length is sent as it is, one of fixed length is      *)
(* filled up with zeros.                                                   *)

Variable == [class |-> "string", charset |-> "bytes"]
Latin1   == [class |-> "string", charset |-> "latin1"]
Ascii    == [class |-> "string", charset |-> "ascii"]

EuroSign == 8364

\* iconv has "EUR" for the euro sign, and a question mark for what it does
\* not know.
Transliterated(c) == IF c = EuroSign THEN <<69, 85, 82>> ELSE <<63>>

ToLatin1(x) ==
    FlattenSeq([i \in DOMAIN x |-> IF x[i] < 256 THEN <<x[i]>> ELSE Transliterated(x[i])])

Encoded(t, x) == IF t.charset = "latin1" THEN ToLatin1(x) ELSE x

StringAccepts(t, x) ==
    /\ t.charset # "bytes" => Len(Encoded(t, x)) <= Room
    /\ t.charset = "ascii" => \A i \in DOMAIN x : x[i] < 128

StringTelegram(t, v) ==
    LET b == Encoded(t, v)
    IN  b \o (IF t.charset = "bytes" THEN <<0>> ELSE [i \in 1..(Room - Len(b)) |-> 0])

\* What comes before the first of the bytes.
Before(byte, b) ==
    LET found == {i \in DOMAIN b : b[i] = byte}
    IN  IF found = {} THEN b ELSE SubSeq(b, 1, Min(found) - 1)

\* What follows the first zero is not read.
StringFromTelegram(b) == Before(0, b)

\* A string that is not a number counts as 0.
StringNumber(v) ==
    IF v # <<>> /\ \A i \in DOMAIN v : v[i] \in 48..57
    THEN FoldLeft(LAMBDA n, c : 10 * n + c - 48, 0, v)
    ELSE 0

StringFromNumber(n) ==
    LET digits == CHOOSE d \in 1..6 : n < 10^d /\ (d > 1 => n >= 10^(d - 1))
    IN  [i \in 1..digits |-> 48 + ((n \div 10^(digits - i)) % 10)]

StringCompare(a, b) ==
    LET common == Min({Len(a), Len(b)})
        different == {i \in 1..common : a[i] # b[i]}
    IN  IF different = {} THEN Signum(Len(a) - Len(b))
        ELSE Signum(a[Min(different)] - b[Min(different)])

-----------------------------------------------------------------------------
(* Steps <<direction, stepcode>>, switches with control <<control, value>>,*)
(* times <<weekday, hour, minute, second>> and dates <<year since 1900,    *)
(* month, day>>.                                                           *)

\* A text is a word and a step code, which is 1 when it is missing.
Dimming == [class |-> "step", words |-> <<"down", "up">>]
Blinds  == [class |-> "step", words |-> <<"open", "close">>]

StepAccepts(t, x) == x[1] \in ToSet(t.words) \cup {"stop"} /\ x[2] \in 1..7

StepFromText(t, x) ==
    IF x[1] = "stop" THEN <<0, 0>> ELSE <<IF x[1] = t.words[2] THEN 1 ELSE 0, x[2]>>

StepText(t, v) == IF v[2] = 0 THEN <<"stop", 1>> ELSE <<t.words[v[1] + 1], v[2]>>

StepTelegram(v) == <<8 * v[1] + (v[2] % 8)>>

\* A stop has no direction.
StepFromTelegram(b) ==
    LET code == b[1] % 8 IN <<IF code = 0 THEN 0 ELSE (b[1] \div 8) % 2, code>>

\* A bigger step code is a smaller step.
StepCompare(a, b) ==
    IF a[2] = 0 /\ b[2] = 0 THEN 0
    ELSE IF a[1] # b[1] THEN IF a[1] = 1 THEN 1 ELSE -1
    ELSE Signum(b[2] - a[2]) * (IF a[1] = 1 THEN 1 ELSE -1)

StepNumber(v) == IF v[1] = 1 THEN v[2] ELSE -v[2]

StepFromNumber(n) == IF n < 0 THEN <<0, -n>> ELSE <<1, n>>

\* Its words are written and read as those of a switch.
Control(off, on) == [class |-> "control", words |-> <<off, on>>]

\* The control bit is sent, but what is received is taken as a number that
\* is not 0, under control.
ControlTelegram(v) == <<2 * v[1] + v[2]>>

ControlFromTelegram(b) == <<1, IF b[1] # 0 THEN 1 ELSE 0>>

ControlFromNumber(n) == IF n < 0 THEN <<0, 0>> ELSE <<1, IF n # 0 THEN 1 ELSE 0>>

ControlText(v) == IF v[1] = 0 THEN <<0, 0>> ELSE v

ControlNumber(v) == IF v[1] = 1 THEN v[2] ELSE -1

\* Without control, the value does not count.
ControlCompare(a, b) == Lexicographic(ControlText(a), ControlText(b))

Time == [class |-> "time"]
Date == [class |-> "date"]

TimeAccepts(x) == x \in (0..23) \X (0..59) \X (0..59)

TimeFromText(x) == <<0>> \o x

TimeText(v) == Tail(v)

TimeCompare(a, b) == Lexicographic(a, b)

TimeTelegram(v) == <<(v[1] % 8) * 32 + (v[2] % 32), v[3], v[4]>>

TimeFromTelegram(b) == <<b[1] \div 32, b[1] % 32, b[2], b[3]>>

TimeNumber(v) == v[2] * 3600 + v[3] * 60 + v[4]

\* Neither a text nor a number has a weekday.
TimeFromNumber(n) == <<0, n \div 3600, (n % 3600) \div 60, n % 60>>

DateAccepts(x) == x \in (0..255) \X (1..12) \X (1..31)

DateText(v) == v

DateCompare(a, b) == Lexicographic(a, b)

DateTelegram(v) == <<v[3], v[2], IF v[1] \in 100..189 THEN v[1] - 100 ELSE v[1]>>

DateFromTelegram(b) == <<IF b[3] < 90 THEN b[3] + 100 ELSE b[3], b[2], b[1]>>

\* Mistake: a month of 31 days overlaps the next one.
DateNumberShort(v) == v[1] * 400 + v[2] * 30 + v[3]

DateNumber(v) == v[1] * 400 + v[2] * 31 + v[3]

DateFromNumber(n) == <<n \div 400, (n % 400) \div 31, (n % 400) % 31>>

-----------------------------------------------------------------------------
(* The definitions of the class of a type.                                 *)

\* createObjectValue accepts the text.
Accepts(t, x) ==
    /\ t.class \in {"int", "float"} => x \in t.lo..t.hi
    /\ t.class = "scaling" => ScalingAccepts(x)
    /\ t.class = "angle" => AngleAccepts(x)
    /\ t.class = "heatmode" => x \in 0..4
    /\ t.class = "char" => CharAccepts(t, x)
    /\ t.class = "switch" => SwitchAccepts(t, x)
    /\ t.class = "string" => StringAccepts(t, x)
    /\ t.class = "step" => StepAccepts(t, x)
    /\ t.class = "time" => TimeAccepts(x)
    /\ t.class = "date" => DateAccepts(x)

\* The value of an accepted text.
FromText(t, x) ==
    CASE t.class = "int" -> IntFromText(t, x)
      [] t.class = "scaling" -> ScalingFromText(x)
      [] t.class = "angle" -> AngleFromText(x)
      [] t.class = "switch" -> SwitchFromText(t, x)
      [] t.class = "step" -> StepFromText(t, x)
      [] t.class = "time" -> TimeFromText(x)
      [] OTHER -> x

\* toString; "stop" for any direction, "frost" for any mode above it.
ToText(t, v) ==
    CASE t.class = "scaling" -> ScalingText(v)
      [] t.class = "angle" -> AngleText(v)
      [] t.class = "heatmode" -> HeatingModeText(v)
      [] t.class = "switch" -> SwitchText(t, v)
      [] t.class = "float32" -> Float32Text(v)
      [] t.class = "step" -> StepText(t, v)
      [] t.class = "time" -> TimeText(v)
      [] t.class = "date" -> DateText(v)
      [] t.class = "control" -> ControlText(v)
      [] OTHER -> v

\* The data bytes that doSend puts into a telegram.
ToTelegram(t, v) ==
    CASE t.class = "int" -> BytesOf(t.bytes, v)
      [] t.class = "float" -> FloatTelegram(v)
      [] t.class = "float32" -> Float32Telegram(v)
      [] t.class = "string" -> StringTelegram(t, v)
      [] t.class = "step" -> StepTelegram(v)
      [] t.class = "control" -> ControlTelegram(v)
      [] t.class = "time" -> TimeTelegram(v)
      [] t.class = "date" -> DateTelegram(v)
      [] OTHER -> ByteTelegram(v)

\* What doWrite reads from a telegram.
FromTelegram(t, b) ==
    CASE t.class = "int" -> IntFromTelegram(t, b)
      [] t.class = "float" -> FloatFromTelegram(b)
      [] t.class = "switch" -> SwitchFromTelegram(b)
      [] t.class = "string" -> StringFromTelegram(b)
      [] t.class = "step" -> StepFromTelegram(b)
      [] t.class = "control" -> ControlFromTelegram(b)
      [] t.class = "time" -> TimeFromTelegram(b)
      [] t.class = "date" -> DateFromTelegram(b)
      [] OTHER -> b[1]

ToNumber(t, v) ==
    CASE t.class = "step" -> StepNumber(v)
      [] t.class = "control" -> ControlNumber(v)
      [] t.class = "time" -> TimeNumber(v)
      [] t.class = "date" -> DateNumber(v)
      [] t.class = "string" -> StringNumber(v)
      [] OTHER -> v

\* What set(double) keeps of a number that the type has.
FromNumber(t, n) ==
    CASE t.class = "switch" -> SwitchFromNumber(n)
      [] t.class = "step" -> StepFromNumber(n)
      [] t.class = "control" -> ControlFromNumber(n)
      [] t.class = "time" -> TimeFromNumber(n)
      [] t.class = "date" -> DateFromNumber(n)
      [] t.class = "string" -> StringFromNumber(n)
      [] OTHER -> n

\* Mistake: what a telegram cannot carry is kept.
KeptExactly(t, v) == v

\* What set keeps of a value: a two byte float is rounded to the nearest
\* multiple of the precision, a half away from zero, or, without a precision,
\* to what a telegram can carry.
Kept(t, v) ==
    IF t.class # "float" THEN v
    ELSE IF t.precision = 0 THEN RoundToKnx(v)
    ELSE Truncated(2 * v + Signum(v) * t.precision, 2 * t.precision) * t.precision

\* The value of a new object.
Initial(t) ==
    CASE t.class \in {"step", "control"} -> <<0, 0>>
      [] t.class = "time" -> <<0, 0, 0, 0>>
      [] t.class = "date" -> <<0, 0, 0>>
      [] t.class = "string" -> <<>>
      [] OTHER -> 0

\* ObjectValue::compare.
Compare(t, a, b) ==
    CASE t.class = "step" -> StepCompare(a, b)
      [] t.class = "control" -> ControlCompare(a, b)
      [] t.class = "switch" -> SwitchCompare(a, b)
      [] t.class = "time" -> TimeCompare(a, b)
      [] t.class = "date" -> DateCompare(a, b)
      [] t.class = "string" -> StringCompare(a, b)
      [] OTHER -> Signum(a - b)

=============================================================================
