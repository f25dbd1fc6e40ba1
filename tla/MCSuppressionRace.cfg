SPECIFICATION Spec
CONSTANTS
    Docs <- MCDocs
    Consumers = {catalog, content}
    Catalog = catalog
    OutboxModes = {"rebuildable"}
    MaxGeneration = 3
    MaxPruneRows = 2
    MaxIndex = 2
    BatchLimits = {1, 2}
    PageSize = 1
    MaxCrashes = 1
    WritersDuringRebuild = TRUE
INVARIANT
    AppliedMeansIncluded
