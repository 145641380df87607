\* A threshold of three seconds, a reset after two seconds off, up to two
\* evaluations that wait a second and two changes the rule is not told of yet.
SPECIFICATION Spec
CONSTANTS
    Callers = {c1, c2}
    Threshold = 3
    ResetDelay = 2
    ReadLimit = 1
    Long = 3
    MaxTells = 2
    MaxTime = 15
SYMMETRY Symmetry
CHECK_DEADLOCK FALSE
INVARIANT NeverEarly
INVARIANT InTime
INVARIANT Pending
