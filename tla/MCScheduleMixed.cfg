CONSTANTS
    Rows <- MixedRows
    Supported <- MixedSupport
    Resource = {20}
    TopRows <- MixedTop
    Actors <- MixedActors
    Precollected = {16}
    Controlled = {31}
    Cancelled = {36}
    Recovering = {35}
    Collections <- MixedCollections
    Leader <- MixedLeader
    Lenient <- MixedLenient
    NoRow = NoRow
    NoCollection = NoCollection
    NoReport = NoReport
SPECIFICATION FairSpec
CHECK_DEADLOCK FALSE
INVARIANTS OnlyMiscountsLoseRows FinalReportIsFounded DeadlineReportIsRight
PROPERTY EveryRunReports
