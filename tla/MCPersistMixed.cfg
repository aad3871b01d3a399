CONSTANTS
    m = m
    p = p
    s = s
    NoRun = NoRun
    Runs = {m, p, s}
    Kind <- MCKind
    Saves = {m, p}
    DefaultOutput = {m}
    Keeps = {s}
SPECIFICATION FairSpec
INVARIANTS TypeOK RootOutlivesEvidence SuiteCodeIsRecorded OneLinePerRun
PROPERTIES HistorySpec EveryRunEnds
