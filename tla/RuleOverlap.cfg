\* Two callers beside the RuleInitializer, every init mode, activation and
\* deactivation; an action in the first and one in the last list, up to two runs
\* of each, and a thread that cancels the rule.
SPECIFICATION BothSpec
CONSTANTS
    Callers = {c1, c2}
    Initializer = init
    InitModes = {"false", "true", "eval"}
    a1 = a1
    a2 = a2
    Actions = {a1, a2}
    Cancellers = {d1}
    MaxRuns = 2
    ListOf <- TwoLists
PROPERTY ImplementsEdgeTrigger
PROPERTY EventuallyInitialised
INVARIANT CancelStops
