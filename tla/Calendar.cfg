CONSTANTS
    LastYear = 2
    MonthDays <- MCMonthDays
    LeapMonth = 1
    HoursPerDay = 4
    MinutesPerHour = 2
    DaysPerWeek = 3
    SummerBegins <- MCSummerBegins
    SummerEnds <- MCSummerEnds
    Sun <- MCSun
    Specs <- MCSpecs
    DayLists <- MCDayLists
    TimeValues <- MCTimeValues
    DateValues <- MCDateValues
SPECIFICATION Spec
CHECK_DEADLOCK FALSE
INVARIANT FindsFirst
PROPERTY NoneMissed
