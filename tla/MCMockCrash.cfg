CONSTANTS
    t1 = t1  t2 = t2  c1 = c1  c2 = c2  w1 = w1  w2 = w2
    Turns = {t1, t2}
    Calls = {c1, c2}
    Paths = {"a"}
    Workers = {w1}
    Rpc = Rpc
    NoTurn = NoTurn
    NoCall = NoCall
    Plan <- OnePlan
    PathOf <- MCPathOf
    Checkpoint <- HeldBoth
    HookKinds = {"acceptance", "completion"}
    Ceiling = 1
    MaxStarts = 2
    MaxQueued = 1
    Faults = {"close", "hook"}
CHECK_DEADLOCK FALSE
SPECIFICATION Spec
INVARIANTS IndexMatchesJournal EffectsFollowJournal HookFiresOnce
