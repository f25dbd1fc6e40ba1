SPECIFICATION SchedulerSpec
CONSTANTS
    PressureWindows = 2
    RecoveryWindows = 5
    CooldownWindows = 3
    HoldWindows = 3
    StreakLimit = 6
    Pressures <- SomePressures
    SearchKinds = {"catalog", "content"}
    SearchWindows = 4
INVARIANTS
    SchedulerTypeOK
    PausedWhenUnsafe
    BoostHasItsReasons
PROPERTIES
    NoPassStartsUnderHold
    OutageRecoveryIsSlow
