SPECIFICATION FairScheduler
CONSTANTS
    PressureWindows = 2
    RecoveryWindows = 5
    CooldownWindows = 3
    HoldWindows = 3
    StreakLimit = 6
    Pressures <- CalmOnAc
    SearchKinds = {}
    SearchWindows = 2
PROPERTIES
    SteadyConditionsSettle
