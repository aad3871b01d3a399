CONSTANTS
    a1 = a1  a2 = a2  x1 = x1  c1 = c1  c2 = c2  h1 = h1  h2 = h2  b1 = b1
    r1 = r1  r2 = r2  r3 = r3
    Strangers = {x1}
    Checkpoints = {c1, c2}
    Hashes = {h1, h2}
    AnyHash = AnyHash
    NotSeen = NotSeen
    Barriers = {b1}
    NoBarrier = NoBarrier
    NoRequest = NoRequest
    MaxDrops = 0
    BarrierCheckpoint <- BarrierAtC1
    Tasks <- AllTasks
    Actors = {a1, a2}
    Script <- RaceScript
    BarrierActors <- RaceBarrierActors
    Inputs <- RaceInputs
    StorageGate = FALSE
CHECK_DEADLOCK FALSE
CONSTANT Requests = {r1, r2, r3}
SYMMETRY RequestSymmetry
SPECIFICATION Spec
INVARIANTS TypeOK SeenIsScriptPrefix HeldUntilReleased OneAdvancePerCheckpoint
PROPERTIES ReplaySpec
