SPECIFICATION Spec
CONSTANTS
    Base <- MCBase
    Writable <- MCWritable
    MaxWrites = 2
CHECK_DEADLOCK FALSE
INVARIANT PointersHold
INVARIANT HearsTriggers
INVARIANT RestartRestores
INVARIANT RewriteChangesNothing
