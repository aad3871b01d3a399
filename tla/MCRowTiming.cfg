CONSTANTS
    recovering = recovering  shared1 = shared1  shared2 = shared2
    sr = sr  sc1 = sc1  sc2 = sc2
    m1 = m1  m2 = m2  o1 = o1  o2 = o2  o3 = o3
    NoTime = NoTime  NoBounds = NoBounds  NoClock = NoClock  NoDriver = NoDriver
    Rows = {recovering, shared1, shared2}
    Sessions = {sr, sc1, sc2}
    MainDrivers = {m1, m2}
    OtherDrivers = {o1, o2, o3}
    Collections <- MCCollections
    Work <- MCWork
    Recovering = {recovering}
    MaxTime = 3
    MaxTurns = 2
SYMMETRY MCSymmetry
CHECK_DEADLOCK FALSE
SPECIFICATION Spec
INVARIANTS TypeOK  
 
