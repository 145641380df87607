\* Two telegrams, one of them with a head that may arrive byte by byte, two
\* reads inside each other, two failures, one new URL.
SPECIFICATION Spec
CONSTANTS
    MaxTelegrams = 2
    MaxReads = 2
    MaxUnread = 3
    MaxTries = 2
    MaxSplits = 1
    MaxFailures = 2
    MaxImports = 1
CHECK_DEADLOCK FALSE
INVARIANT TelegramsInOrder
PROPERTY LinkRestored
PROPERTY StopReturns
