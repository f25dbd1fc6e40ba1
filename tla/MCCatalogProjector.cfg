SPECIFICATION FairSpec
CONSTANTS
    Docs <- MCDocs
    Consumers = {catalog, content}
    Catalog = catalog
    OutboxModes = {"durable", "rebuildable"}
    MaxGeneration = 3
    MaxPruneRows = 2
    MaxIndex = 3
    BatchLimits = {1, 2}
    PageSize = 1
    MaxCrashes = 1
    WritersDuringRebuild = FALSE
INVARIANTS
    TypeOK
    AppliedMeansIncluded
    ReplayIsContiguous
    ReplayReachesDesired
    ActiveIsNotUnderConstruction
PROPERTY
    EventuallyCaughtUp
