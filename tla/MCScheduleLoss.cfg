CONSTANTS
    Rows <- LossRows
    Supported <- LossRows
    Resource = {}
    TopRows <- LossRows
    Actors <- LossActors
    Precollected = {}
    Controlled = {}
    Cancelled = {}
    Recovering = {}
    Collections = {}
    Leader <- NoLeaders
    Lenient = {}
    NoRow = NoRow
    NoCollection = NoCollection
    NoReport = NoReport
SPECIFICATION FairSpec
CHECK_DEADLOCK FALSE
INVARIANT CollectionDecidesEveryRow
