----------------------------- MODULE MCCalendar -----------------------------
(* Three years of three months, days of four hours of two minutes. *)
EXTENDS Calendar

MCMonthDays == <<3, 2, 3>>
MCSummerBegins == <<1, 1, 1>>
MCSummerEnds == <<2, 2, 1>>
MCSun == [mo \in 0..2 |-> IF mo = 0 THEN <<1, 0>> ELSE <<2, mo - 1>>]

TimeSpec(kind, date, time, wdays, offset, exception) ==
    [kind |-> kind, year |-> date[1], month |-> date[2], day |-> date[3],
     hour |-> time[1], min |-> time[2], wdays |-> wdays, offset |-> offset,
     exception |-> exception]

AnyDate == <<Open, Open, Open>>
SomeDates == {Open, 1} \X {Open, 0, 1} \X {Open, 1, 2, 3}
SomeTimes == {Open, 0, 1, 3} \X {Open, 0, 1}
SomeWeekdays == {{0}, {1, 2}}

MCSpecs ==
    {TimeSpec("fixed", date, time, {}, 0, "dontcare") : date \in SomeDates, time \in SomeTimes}
    \cup {TimeSpec("fixed", date, time, {}, 0, exception) :
              date \in {AnyDate, <<Open, 1, Open>>, <<Open, Open, 3>>},
              time \in {<<Open, 1>>, <<0, 0>>, <<2, Open>>}, exception \in {"yes", "no"}}
    \cup {TimeSpec("fixed", date, time, wdays, 0, exception) :
              date \in {AnyDate, <<Open, 1, 1>>}, time \in {<<Open, 0>>, <<0, 1>>, <<1, Open>>},
              wdays \in SomeWeekdays, exception \in {"dontcare", "no"}}
    \cup {TimeSpec("fixed", date, time, {}, -1, "dontcare") :
              date \in {AnyDate, <<Open, 1, 1>>, <<1, 1, 1>>}, time \in {<<Open, 0>>, <<0, 0>>}}
    \cup {TimeSpec("variable", date, time, {}, 0, "dontcare") :
              date \in {AnyDate, <<Open, 1, Open>>}, time \in {<<Open, Open>>, <<1, Open>>}}
    \cup {TimeSpec("solar", AnyDate, <<Open, Open>>, {}, 0, exception) :
              exception \in {"dontcare", "no"}}

MCDayLists == {{}, {<<Open, 0, 3>>, <<Open, 1, 2>>}}

MCTimeValues == {[hour |-> 0, min |-> 1, wdays |-> {}], [hour |-> 2, min |-> 0, wdays |-> {1}]}
MCDateValues == {[year |-> 1, month |-> 1, day |-> 3], [year |-> 1, month |-> 2, day |-> 2]}
=============================================================================
