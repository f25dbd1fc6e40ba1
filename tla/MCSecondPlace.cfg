SPECIFICATION ScanSpec
CONSTANTS
    Objects = {1, 2, 3, 4}
    Directories = {1, 2}
    Links = {1, 2, 3, 4}
    Names = {"r", "a", "b", "h"}
    Metas = {"m", "n"}
    ObjectSnapshots <- ScannedObjects
    Snapshots <- ScanSnapshots
    Callers = {"page"}
    DepthLimit = 3
    RefreshLimit = 3
    SweepLimit = 2
    MaxBatch = 3
    MaxGeneration = 11
INVARIANTS
    SecondPlaceIsScheduled
CHECK_DEADLOCK FALSE
