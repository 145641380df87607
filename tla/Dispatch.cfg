\* All objects have values, or object a, the first operand of all rules, was
\* never read: conditions wait for it, and telegrams nest in these waits.
SPECIFICATION Spec
CONSTANTS
    a = a
    b = b
    both = both
    either = either
    rise = rise
    Objects = {a, b}
    Rules = {both, either, rise}
    Client = client
    Knx = knx
    Others = {t1, t2}
    Nobody = nobody
    Listeners <- PairListeners
    Operator <- PairOperator
    Operands <- PairOperands
    Deltas <- PairDeltas
    Persisted = {a, b}
    KnownChoices <- AllButFirst
    MaxCalls = 4
INVARIANT RulesSettled
INVARIANT StorageSettled
