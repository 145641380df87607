\* Two connections with two requests, two changes by the bus.
SPECIFICATION Spec
CONSTANTS
    c1 = c1
    c2 = c2
    Clients <- TwoClients
    Bus = bus
    Kinds <- SharedKinds
    Timeouts = {1}
    MaxActions = 2
    MaxRequests = 2
    MaxTelegrams = 2
    MaxFailures = 1
    ReadSize = 3
CHECK_DEADLOCK FALSE
INVARIANT AnswersRight
INVARIANT NothingDangles
INVARIANT Informed
PROPERTY Answered
