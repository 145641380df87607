\* A repeat or a conditional action with two sub-actions, a thread that cancels
\* it, and changes of the level from outside.
SPECIFICATION ActionsSpec
CONSTANTS
    g = g
    s1 = s1
    s2 = s2
    Actions = {g, s1, s2}
    Cancellers = {c1}
    MaxRuns = 1
    Overlap = FALSE
    Group = g
    SubActions <- TwoSubActions
    Count = 2
    Plans <- AllPlans
    Dims <- SomeDims
    Levels = {0, 1, 2, 3, 4, 5}
    Foreign = {0, 5}
    HaltLevels = {2, 5}
    CycleCount = 2
    UIntSize = 16
    MaxChanges = 1
CHECK_DEADLOCK FALSE
INVARIANT GroupOutlivesSubActions
PROPERTY LoopsRunTheirCourse
PROPERTY EveryExecutionEnds
