SPECIFICATION FairScheduler
CONSTANTS
    PressureWindows = 2
    RecoveryWindows = 3
    CooldownWindows = 2
    HoldWindows = 2
    StreakLimit = 4
    Pressures <- CalmOrCritical
    SearchKinds = {"catalog"}
    SearchWindows = 1
PROPERTIES
    ResumesWhenHealthy
    SteadyInputsSettle
