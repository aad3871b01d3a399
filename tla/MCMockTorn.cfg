CONSTANTS
    t1 = t1  t2 = t2  c1 = c1  c2 = c2  w1 = w1  w2 = w2
    Turns = {t1, t2}
    Calls = {c1, c2}
    Paths = {"a"}
    Workers = {w1}
    Rpc = Rpc
    NoTurn = NoTurn
    NoCall = NoCall
    Plan <- MCPlan
    PathOf <- MCPathOf
    Checkpoint <- HeldBoth
    HookKinds = {}
    Ceiling = 2
    MaxStarts = 2
    MaxQueued = 0
    Faults = {"tear"}
CHECK_DEADLOCK FALSE
SPECIFICATION Spec
INVARIANTS JournalStaysReadable
