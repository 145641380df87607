------------------------------ MODULE Calendar ------------------------------
(***************************************************************************)
(* The search for the next occurrence of a time specification (classes     *)
(* DateTime, TimeSpec, VariableTimeSpec, SolarTimeSpec and ExceptionDays,  *)
(* and PeriodicTask::findNext), and an instantaneous PeriodicTask that     *)
(* uses it, in a calendar small enough to go through all of it: months of  *)
(* a few days, a leap day, a week of DaysPerWeek days, and a summer time   *)
(* that skips one hour and repeats another.                                *)
(*                                                                         *)
(* Times (time_t) are minutes since the start of year 0.  Fields are       *)
(* numbered 1 to 5 from Year to Minute; months and hours start at 0, days  *)
(* at 1; Open (-1) is a field left open.  A search that leaves the years of *)
(* the model ends in Beyond.                                               *)
(***************************************************************************)
EXTENDS Integers, Sequences, FiniteSets, FiniteSetsExt, SequencesExt

CONSTANTS
    LastYear,       \* bound: the clock stops at the end of this year
    MonthDays,      \* days of each month in a common year
    LeapMonth,      \* the month with a day more in odd years
    HoursPerDay, MinutesPerHour, DaysPerWeek,
    SummerBegins,   \* <<month, day, hour>>: this hour does not exist
    SummerEnds,     \* <<month, day, hour>>: this hour comes twice
    Sun,            \* [months -> <<hour, minute>>]: sunrise, without summer time
    Specs,          \* the time specifications
    DayLists,       \* the lists of exception days
    TimeValues, DateValues  \* the values of the objects of variable specs

Year == 1
Month == 2
Day == 3
Hour == 4
Minute == 5
Fields == Year..Minute
Open == -1
Never == 0
Beyond == -2

ASSUME CalendarConstants ==
    /\ LastYear \in Nat
    /\ MonthDays \in Seq(Nat \ {0})
    /\ LeapMonth \in 0..Len(MonthDays) - 1
    /\ {HoursPerDay, MinutesPerHour, DaysPerWeek} \subseteq Nat \ {0}

VARIABLES
    spec,       \* at_m
    days,       \* daysList_m of the exception days
    timeObject, dateObject, \* what a variable specification refers to
    now,
    live,       \* the task has been configured
    next        \* nextExecTime_m

vars == <<spec, days, timeObject, dateObject, now, live, next>>

-----------------------------------------------------------------------------
(* The calendar of the C library. *)

DaysOf(y, mo) == MonthDays[mo + 1] + IF mo = LeapMonth /\ y % 2 = 1 THEN 1 ELSE 0

LongestMonth == Max({DaysOf(1, mo) : mo \in 0..Len(MonthDays) - 1})

Sum(list) == FoldLeft(+, 0, list)

\* Days from the start of year 0 to the first of month mo of year y.
DaysBefore(y, mo) ==
    y * Sum(MonthDays) + y \div 2 + Sum(SubSeq(MonthDays, 1, mo))
        + IF mo > LeapMonth THEN y % 2 ELSE 0

IsDate(y, mo, d) == mo \in 0..Len(MonthDays) - 1 /\ d \in 1..DaysOf(y, mo)

\* All days of the model (and of the years a search may look ahead), in order.
DateList ==
    LET month(m) == LET y == (m - 1) \div Len(MonthDays)
                        mo == (m - 1) % Len(MonthDays)
                    IN [d \in 1..DaysOf(y, mo) |-> <<y, mo, d>>]
    IN FoldLeft(\o, <<>>, [m \in 1..(LastYear + 4) * Len(MonthDays) |-> month(m)])

\* The local time of the fields f, out of range or not, as a number.
LocalNumber(f) ==
    LET months == Len(MonthDays)
        first == DaysBefore(f[Year] + f[Month] \div months, f[Month] % months)
    IN ((first + f[Day] - 1) * HoursPerDay + f[Hour]) * MinutesPerHour + f[Minute]

MinutesPerDay == HoursPerDay * MinutesPerHour

FieldsOf(local) ==
    DateList[local \div MinutesPerDay + 1]
        \o << (local % MinutesPerDay) \div MinutesPerHour, local % MinutesPerHour >>

HourStart(y, at) == LocalNumber(<<y, at[1], at[2], at[3], 0>>)

Summer == UNION {HourStart(y, SummerBegins)..(HourStart(y, SummerEnds) - 1) :
                    y \in 0..LastYear + 2}

\* localtime
Local(t) == IF t \in Summer THEN t + MinutesPerHour ELSE t
FieldsAt(t) == FieldsOf(Local(t))
WeekdayAt(t) == (Local(t) \div MinutesPerDay) % DaysPerWeek

\* mktime with tm_isdst = isdst
TimeOfDst(f, isdst) == LocalNumber(f) - IF isdst THEN MinutesPerHour ELSE 0

\* mktime with tm_isdst = -1.  Of a local time that comes twice it takes the one
\* with the offset of its last conversion: the start of the search, then the day it found;
\* a local time that does not exist it takes to be an hour later (both as the
\* GNU C library does).
Chosen(local, asSummer, summer) ==
    IF asSummer \in Summer /\ (summer \/ local \in Summer) THEN asSummer ELSE local

TimeOf(f, summer) == Chosen(LocalNumber(f), LocalNumber(f) - MinutesPerHour, summer)

Horizon == LocalNumber(<<LastYear + 1, 0, 1, 0, 0>>) - 1

-----------------------------------------------------------------------------
(* class DateTime: fields, which of them are free, and weekdays.  Each step *)
(* of a search is an operator of what the step before has found.            *)

DateTime(f) == [f |-> f, free |-> Fields, weekdays |-> {}]

SetField(dt, i, value, fixes) ==
    LET free == IF fixes /\ (i > Day \/ dt.weekdays = {}) THEN dt.free \ {i} ELSE dt.free
        field(j) == CASE j = i -> value
                      [] j > i /\ j \in free -> IF j = Day THEN 1 ELSE 0
                      [] j < i \/ (j > i /\ j \notin free) -> dt.f[j]
    IN IF value = Open
       THEN [dt EXCEPT !.free = @ \cup {i}]
       ELSE [dt EXCEPT !.free = free,
                       !.f = <<field(1), field(2), field(3), field(4), field(5)>>]

\* Mistake: the field itself is increased, be it fixed or free.
TryIncreaseFixed(dt, current) ==
    [ok |-> TRUE, dt |-> SetField(dt, current, dt.f[current] + 1, FALSE)]

\* tryIncreaseClosestGreaterFreeField
TryIncrease(dt, current) ==
    LET free == {i \in dt.free : i <= current}
    IN IF free = {}
       THEN [ok |-> FALSE, dt |-> dt]
       ELSE [ok |-> TRUE, dt |-> SetField(dt, Max(free), dt.f[Max(free)] + 1, FALSE)]

\* tryResolveWithoutWeekdays from field i on, all fields before being equal
RECURSIVE CatchUp(_, _, _, _)
CatchUp(dt, current, i, to) ==
    CASE i > to \/ dt.f[i] > current.f[i] -> [ok |-> TRUE, dt |-> dt]
      [] i <= to /\ dt.f[i] = current.f[i] -> CatchUp(dt, current, i + 1, to)
      [] i <= to /\ dt.f[i] < current.f[i] /\ i \in dt.free ->
            CatchUp(SetField(dt, i, current.f[i], FALSE), current, i + 1, to)
      [] i <= to /\ dt.f[i] < current.f[i] /\ i \notin dt.free -> TryIncrease(dt, i)

ResolveWithoutWeekdays(dt, current, from, to) ==
    LET different == {i \in Fields : i < from /\ dt.f[i] # current.f[i]}
    IN IF different = {}
       THEN CatchUp(dt, current, from, to)
       ELSE [ok |-> dt.f[Min(different)] > current.f[Min(different)], dt |-> dt]

IsCompatibleWithWeekDays(dt, summer) ==
    dt.weekdays # {} => WeekdayAt(TimeOf(dt.f, summer)) \in dt.weekdays

RECURSIVE ResolveUnprojected(_, _, _, _, _)
\* tryResolveUnprojected: day after day, until the weekday complies
SkipToWeekday(caught, later, current, from, to, summer) ==
    CASE ~caught.ok \/ IsCompatibleWithWeekDays(caught.dt, summer) -> caught
      [] OTHER -> IF later.ok THEN ResolveUnprojected(later.dt, current, from, to, summer)
                              ELSE later

NextCaught(caught, current, from, to, summer) ==
    SkipToWeekday(caught, TryIncrease(caught.dt, Day), current, from, to, summer)

ResolveUnprojected(dt, current, from, to, summer) ==
    NextCaught(ResolveWithoutWeekdays(dt, current, from, to), current, from, to, summer)

\* projectOnActualCalendar: free fields take the value the calendar gives them,
\* up to the first fixed one that would have to change.
ProjectOn(dt, actual) ==
    LET different == {i \in Fields : dt.f[i] # actual[i]}
        stuck == different \ dt.free
        changed == {i \in different \cap dt.free : \A j \in stuck : i < j}
        freed == {i \in dt.free : \A j \in stuck : i < j}
        field(i) == IF i \in changed THEN actual[i] ELSE dt.f[i]
    IN [dt |-> [dt EXCEPT !.f = <<field(1), field(2), field(3), field(4), field(5)>>],
        result |-> CASE changed # {} -> "changed"
                     [] changed = {} /\ stuck = {} -> "succeeded"
                     [] changed = {} /\ stuck # {} /\ freed # {} -> "failed"
                     [] changed = {} /\ stuck # {} /\ freed = {} -> "impossible"]

RECURSIVE TryResolve(_, _, _, _, _)

\* tryResolve: from what projection has changed, the search begins again
\* tryResolve: begun again from what the projection has changed
IfUnchanged(projected, current, from, to, summer) ==
    IF projected.result = "changed" THEN TryResolve(projected.dt, current, from, to, summer)
                                    ELSE projected

IfResolved(resolved, current, from, to, summer) ==
    IF resolved.ok
    THEN IfUnchanged(ProjectOn(resolved.dt, FieldsAt(TimeOf(resolved.dt.f, summer))),
                     current, from, to, summer)
    ELSE [result |-> "impossible", dt |-> resolved.dt]

TryResolve(dt, current, from, to, summer) ==
    IF dt.f[Year] > LastYear + 2
    THEN [result |-> "beyond", dt |-> dt]
    ELSE IfResolved(ResolveUnprojected(dt, current, from, to, summer), current, from, to, summer)

-----------------------------------------------------------------------------
(* class TimeSpec and its subclasses: a specification is a record with the *)
(* fields kind, year, month, day, hour, min, wdays, offset and exception   *)
(* ("no", "yes" or "dontcare"); With adds the values of the objects a      *)
(* variable one refers to. *)

With(s, time, date) ==
    [kind |-> s.kind, year |-> s.year, month |-> s.month, day |-> s.day, hour |-> s.hour,
     min |-> s.min, wdays |-> s.wdays, offset |-> s.offset, exception |-> s.exception,
     time |-> time, date |-> date]

IsValid(s) ==
    CASE Open \notin {s.day, s.month, s.year} -> IsDate(s.year, s.month, s.day)
      [] Open \in {s.day, s.month, s.year} ->
            /\ s.month \in -1..Len(MonthDays) - 1
            /\ s.day = Open \/ s.day \in 1..(IF s.month = Open THEN LongestMonth
                                                             ELSE DaysOf(1, s.month))
            /\ s.hour \in -1..HoursPerDay - 1
            /\ s.min \in -1..MinutesPerHour - 1

Or(value, other) == IF value = Open THEN other ELSE value

\* SolarTimeSpec::getTime: the time of the sun is without summer time.
SunAt(mday, mon, year) ==
    FieldsAt(TimeOfDst(<<year, mon, mday>> \o Sun[mon], FALSE))

\* VariableTimeSpec and TimeSpec::getTime
GetTime(s, mday, mon, year) ==
    CASE s.kind = "fixed" -> [hour |-> s.hour, min |-> s.min]
      [] s.kind = "variable" -> [hour |-> Or(s.hour, s.time.hour),
                                 min |-> Or(s.min, s.time.min)]
      [] s.kind = "solar" -> LET f == SunAt(mday, mon, year)
                             IN [hour |-> f[Hour], min |-> f[Minute]]

\* SolarTimeSpec::getDay: the next day that complies, once the sun has passed.
SolarDayFrom(s, date, time, summer) ==
    LET sun == SetField(SetField(date, Hour, time.hour, TRUE), Minute, time.min, TRUE)
    IN IF TimeOf(sun.f, summer) < TimeOf(date.f, summer)
       THEN TryResolve(TryIncrease(sun, Day).dt, date, Year, Day, summer).dt
       ELSE sun

SolarDate(s, date, summer) ==
    SolarDayFrom(s, date, GetTime(s, date.f[Day], date.f[Month], date.f[Year]), summer)

SolarDay(s, current, summer) ==
    SolarDate(s, SetField(SetField(SetField(current, Year, s.year, TRUE),
                                   Month, s.month, TRUE), Day, s.day, TRUE), summer)

DayOf(dt, wdays) ==
    [year |-> dt.f[Year], month |-> dt.f[Month], day |-> dt.f[Day], wdays |-> wdays]

GetDay(s, current, summer) ==
    CASE s.kind = "fixed" ->
            [year |-> s.year, month |-> s.month, day |-> s.day, wdays |-> s.wdays]
      [] s.kind = "variable" ->
            [year |-> Or(s.year, s.date.year), month |-> Or(s.month, s.date.month),
             day |-> Or(s.day, s.date.day),
             wdays |-> IF s.wdays = {} THEN s.time.wdays ELSE s.wdays]
      [] s.kind = "solar" -> DayOf(SolarDay(s, current, summer), s.wdays)

\* ExceptionDays::isException
IsException(t) ==
    LET f == FieldsAt(t)
    IN \E d \in days : /\ d[1] \in {Open, f[Year]}
                       /\ d[2] \in {Open, f[Month]}
                       /\ d[3] \in {Open, f[Day]}

Excluded(s, t) ==
    \/ s.exception = "no" /\ IsException(t)
    \/ s.exception = "yes" /\ ~IsException(t)

\* goToNextDayAndFindNext starts the next search at the end of this day, with
\* the tm_isdst of the time it came from.
EndOfDayAt(t, f) ==
    TimeOfDst(<<f[Year], f[Month], f[Day], HoursPerDay - 1, MinutesPerHour - 1>>, t \in Summer)

EndOfDayOf(t) == EndOfDayAt(t, FieldsAt(t))

EndOfDay(dt, summer) == EndOfDayOf(TimeOf(dt.f, summer))

\* findNext: the day of the first occurrence after current, and its time
DayAsked(asked, current, summer) ==
    LET byDate == asked.wdays = {}
        date == SetField(SetField(SetField(current,
                    Year,  IF byDate THEN asked.year ELSE Open, TRUE),
                    Month, IF byDate THEN asked.month ELSE Open, TRUE),
                    Day,   IF byDate THEN asked.day ELSE Open, TRUE)
    IN TryResolve([date EXCEPT !.weekdays = asked.wdays], current, Year, Day, summer)

TargetDay(s, current, summer) == DayAsked(GetDay(s, current, summer), current, summer)

TimeAsked(time, dt, current, summer) ==
    TryResolve(SetField(SetField(dt, Hour, time.hour, TRUE), Minute, time.min, TRUE),
               current, Hour, Minute, summer)

TargetTime(s, dt, current, summer) ==
    TimeAsked(GetTime(s, dt.f[Day], dt.f[Month], dt.f[Year]), dt, current, summer)

RECURSIVE FindNext(_, _)

\* findNext, from the time t it has come to
FromTime(start, s, t) ==
    CASE t <= start -> Never
      [] t > start /\ Excluded(s, t) -> FindNext(EndOfDayOf(t), s)
      [] t > start /\ ~Excluded(s, t) ->
            IF t + s.offset <= start THEN FindNext(t, s) ELSE t + s.offset

GivenUp(result) == IF result = "beyond" THEN Beyond ELSE Never

FromResult(start, s, time, onDay) ==
    CASE time.result = "succeeded" -> FromTime(start, s, TimeOf(time.dt.f, onDay))
      [] time.result = "failed" -> FindNext(EndOfDay(time.dt, onDay), s)
      [] OTHER -> GivenUp(time.result)

\* goToNextDayAndFindNext, or the time on the day found
FromDay(start, s, day, onDay, current, summer) ==
    CASE day.result = "succeeded" ->
            FromResult(start, s, TargetTime(s, day.dt, current, onDay), onDay)
      [] day.result = "failed" -> FindNext(EndOfDay(day.dt, summer), s)
      [] OTHER -> GivenUp(day.result)

\* with the tm_isdst that the last conversion has left
OnDay(start, s, day, current, summer) ==
    FromDay(start, s, day, TimeOf(day.dt.f, summer) \in Summer, current, summer)

FromFields(start, s, current, summer) ==
    OnDay(start, s, TargetDay(s, current, summer), current, summer)

\* PeriodicTask::findNext
FindNext(start, s) ==
    CASE start >= Horizon -> Beyond
      [] start < Horizon /\ ~IsValid(s) -> Never
      [] start < Horizon /\ IsValid(s) ->
            FromFields(start, s, DateTime(FieldsAt(start + 1)), start + 1 \in Summer)

-----------------------------------------------------------------------------
At == With(spec, timeObject, dateObject)

(* An instantaneous PeriodicTask (during_m = 0), fired on time. *)

Init ==
    /\ spec \in Specs
    /\ days \in IF spec.exception = "dontcare" THEN {{}} ELSE DayLists
    /\ timeObject \in TimeValues
    /\ dateObject \in DateValues
    /\ spec.kind # "variable" =>
          /\ timeObject = CHOOSE v \in TimeValues : TRUE
          /\ dateObject = CHOOSE v \in DateValues : TRUE
    /\ now = 1
    /\ live = FALSE
    /\ next = Never

\* TimerCondition::importXml, ending in reschedule(0)
Create ==
    /\ ~live
    /\ live' = TRUE
    /\ next' = FindNext(now, At)
    /\ UNCHANGED <<spec, days, timeObject, dateObject, now>>

\* onTimer, then reschedule(now)
Fire ==
    /\ next = now
    /\ next' = FindNext(now, At)
    /\ UNCHANGED <<spec, days, timeObject, dateObject, now, live>>

\* Mistake: the task keeps its time when its object changes.
ObjectChangesUnnoticed ==
    /\ live
    /\ spec.kind = "variable"
    /\ next # now
    /\ timeObject' \in TimeValues
    /\ dateObject' \in DateValues
    /\ UNCHANGED <<spec, days, now, live, next>>

\* onChange: removeTask and reschedule(0)
ObjectChanges ==
    /\ live
    /\ spec.kind = "variable"
    /\ next # now
    /\ \E time \in TimeValues, date \in DateValues :
          /\ timeObject' = time
          /\ dateObject' = date
          /\ next' = FindNext(now, With(spec, time, date))
    /\ UNCHANGED <<spec, days, now, live>>

Tick ==
    /\ live
    /\ next # now
    /\ now < Horizon - 1
    /\ now' = now + 1
    /\ UNCHANGED <<spec, days, timeObject, dateObject, live, next>>

Next == Create \/ Fire \/ ObjectChanges \/ Tick

Spec == Init /\ [][Next]_vars

TypeOK ==
    /\ spec \in Specs
    /\ timeObject \in TimeValues
    /\ dateObject \in DateValues
    /\ now \in 1..Horizon
    /\ next \in Nat \cup {Beyond}

-----------------------------------------------------------------------------
(* What a specification means, said without any search. *)

\* The minute t of the clock complies with s, its offset left aside.
Matches(s, t) ==
    LET f == FieldsAt(t)
        day == GetDay(s, DateTime(f), FALSE)
        time == GetTime(s, f[Day], f[Month], f[Year])
        is(value, i) == value \in {Open, f[i]}
    IN /\ is(time.hour, Hour) /\ is(time.min, Minute)
       /\ IF s.kind = "solar"
          THEN s.wdays = {} \/ WeekdayAt(t) \in s.wdays
          ELSE IF day.wdays # {}
          THEN WeekdayAt(t) \in day.wdays
          ELSE is(day.year, Year) /\ is(day.month, Month) /\ is(day.day, Day)
       /\ ~Excluded(s, t)

\* When the day on which summer time begins is excluded, goToNextDayAndFindNext
\* arrives an hour into the next day, because 23:59 is converted with the
\* tm_isdst of the morning; what was due in this hour is missed.
LostHour(t) ==
    /\ spec.exception # "dontcare"
    /\ LET f == FieldsAt(t)
       IN f[Hour] = 0 /\ f[Month] = SummerBegins[1] /\ f[Day] = SummerBegins[2] + 1

\* The times that comply and are, on the clock, not before the one after `start'.
Upcoming(s, start) ==
    {t \in Nat \cap (start - MinutesPerHour)..Horizon - 1 :
        Local(t) >= Local(start + 1) /\ Matches(s, t) /\ ~LostHour(t)}

\* A negative offset may not reach back beyond the occurrence before: findNext
\* compares with the occurrence it has come to, not with where it started.
OffsetWithinPeriod == spec.offset < 0 => spec.min # Open

\* A solar specification is looked at without a date: findNext takes the first
\* day of the next month or year it complies with, and no other.
WithoutDate == spec.kind = "solar" =>
    /\ {spec.year, spec.month, spec.day} = {Open}
    /\ spec.wdays = {}

\* A timer for a minute of every hour of one day of the month.  When this was the
\* last day of a month, findNext goes from its last hour to the hour 24, projects
\* this to one month after another and, as hour and day stay, either overlooks the
\* next such day or never comes to an end.
HourlyOnDay ==
    spec.kind = "fixed" /\ spec.wdays = {} /\ spec.day # Open /\ spec.hour = Open /\ spec.min # Open

AfterMonthEnd(t) ==
    LET f == FieldsAt(t)
    IN /\ HourlyOnDay
       /\ f[Day] = spec.day /\ f[Day] = DaysOf(f[Year], f[Month])
       /\ f[Hour] = HoursPerDay - 1 /\ f[Minute] > spec.min

\* The second time the hour at the end of summer time passes.
Repeated(t) == t \notin Summer /\ \E u \in Summer : Local(u) = Local(t)

IsFirst(found, upcoming) ==
    \/ found > now /\ LostHour(found) /\ Matches(At, found)
    \/ upcoming = {} /\ (found \in {Never, Beyond} \/ found >= Horizon)
    \/ upcoming # {} /\ found > now /\ Local(found) = Min(upcoming)

\* Wherever the search starts, it finds the first local time that complies, and
\* answers "never" only if there is none: across ends of months, leap days,
\* weekdays, exception days, skipped and repeated hours (PeriodicTask::findNext).
\* A time before its offset is applied must come after the start.
FindsFirst ==
    live /\ IsValid(spec) /\ WithoutDate /\ ~Repeated(now + 1) /\ ~AfterMonthEnd(now + 1) =>
        IsFirst(FindNext(now, [At EXCEPT !.offset = 0]), {Local(t) : t \in Upcoming(At, now)})

\* A timer that is rescheduled whenever it fires, and whenever an object it
\* refers to changes, is due at every minute that complies, moved by its
\* offset (PeriodicTask::onTimer, onChange and reschedule).  A timer that was
\* told "never" is left to FindsFirst: in the hour that comes twice, this answer
\* may be wrong, and ends a timer with a month or a year for good.
Due(t) ==
    LET base == t - spec.offset
    IN base < Horizon /\ Matches(At, base) /\ ~Repeated(base) /\ ~LostHour(base)

NoneMissed ==
    [][(now' # now /\ next \notin {Never, Beyond} /\ ~HourlyOnDay /\ IsValid(spec) /\ WithoutDate /\ OffsetWithinPeriod /\ spec.offset <= 0
            /\ Due(now')) => next = now']_vars
=============================================================================
