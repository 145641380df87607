\* Two clients that keep to the protocol, a rule and two addresses; one request
\* fails half-way.
SPECIFICATION Spec
CONSTANTS
    Objects = {o1, o2}
    Clients = {c1, c2}
    Rules = {r1}
    Addresses = {x, y}
    NoAddress = none
    NoObject = nothing
    Unchanged = unchanged
    MaxFailures = 1
    Polite = TRUE
    MaxCount = 2
SYMMETRY Symmetric
INVARIANT NoStaleAddress
INVARIANT EveryAddressReached
INVARIANT CountsPointers
INVARIANT NothingDangles
