CONSTANTS
    Pids = {p1, p2, p3}
    MaxBirths = 2
    Recycle = FALSE
    Free = Free
    NoLeader = NoLeader
    ObservedSweep = ObservedSweep
CHECK_DEADLOCK FALSE
SPECIFICATION FairSpec
INVARIANTS TypeOK NoForeignSignal RegistryMeansOwn KillReachesObserved
PROPERTIES SurvivorsStayObserved ObservedProcessesDie
