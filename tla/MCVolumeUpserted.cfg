SPECIFICATION ScannedSpec
CONSTANTS
    Objects = {1, 2, 3, 4}
    Directories = {1, 2}
    Links = {1, 2, 3, 4, 5}
    Names = {"r", "a", "b", "h"}
    Metas = {"m", "n"}
    ObjectSnapshots <- ChangedObjects
    Snapshots <- ChangeSnapshots
    Callers = {"changes", "snapshot"}
    DepthLimit = 3
    RefreshLimit = 1
    SweepLimit = 1
    MaxBatch = 1
    MaxGeneration = 7
INVARIANTS
    UpsertedVolumeIsScheduled
CHECK_DEADLOCK FALSE
