-------------------------- MODULE ResourceGovernor --------------------------
(***************************************************************************)
(* crates/resource-governor: the policy that admits or pauses background   *)
(* work from resource observations, search activity and backlog.           *)
(*                                                                         *)
(* The governor is a value behind a mutex; its methods are functions from  *)
(* one governor to the next, so that a caller holding the lock can compose *)
(* several.  Measurements are abstracted to the side of their threshold    *)
(* they are on.  Reason codes and the transition counter are left out:     *)
(* nothing reads them but telemetry.                                       *)
(***************************************************************************)
EXTENDS Integers

CONSTANTS
    PressureWindows,  \* config.pressure_windows
    RecoveryWindows,  \* config.recovery_windows
    CooldownWindows,  \* config.cooldown_windows
    HoldWindows,      \* config.interactive_hold_windows
    StreakLimit,      \* where the streak counters saturate (255)
    Pressures         \* the SystemPressure observations that occur

Modes == {"Active", "Balanced", "IdleBoost", "Pressure", "Battery"}

Pressure == [memory : {"unknown", "ample", "low", "critical"}, \* available_memory_basis_points
             busy : BOOLEAN,                                   \* CPU or disk at its threshold
             power : {"Ac", "Battery", "Unknown"},
             saver : BOOLEAN]

ASSUME WindowsAssumption ==
    /\ StreakLimit \in Nat
    /\ PressureWindows \in 0..StreakLimit
    /\ RecoveryWindows \in 0..StreakLimit
    /\ CooldownWindows \in 0..StreakLimit
    /\ HoldWindows \in 0..StreakLimit
ASSUME PressuresAssumption == Pressures \subseteq Pressure

UnknownPressure == [memory |-> "unknown", busy |-> FALSE, power |-> "Unknown", saver |-> FALSE]

Governors ==
    [mode : Modes,
     pressure : Pressure,
     available : BOOLEAN,   \* resource_available
     recovering : BOOLEAN,  \* resource_recovery_required
     userActive : BOOLEAN,
     userIdle : BOOLEAN,
     backlog : BOOLEAN,     \* backlog_mutations > 0
     pressureStreak : 0..StreakLimit,
     recoveryStreak : 0..StreakLimit,
     cooldown : 0..StreakLimit,
     hold : 0..StreakLimit] \* interactive_remaining

NewGovernor ==
    [mode |-> "Balanced", pressure |-> UnknownPressure, available |-> TRUE, recovering |-> FALSE,
     userActive |-> FALSE, userIdle |-> FALSE, backlog |-> FALSE,
     pressureStreak |-> 0, recoveryStreak |-> 0, cooldown |-> 0, hold |-> 0]

-----------------------------------------------------------------------------
(* evaluate                                                                *)

Incremented(n) == IF n < StreakLimit THEN n + 1 ELSE n

\* Mutant: the subtraction does not saturate.
DecrementedBelowZero(n) == n - 1

Decremented(n) == IF n > 0 THEN n - 1 ELSE 0

\* A change of mode starts the cooldown.
Transition(g, mode) ==
    [g EXCEPT !.mode = mode, !.cooldown = IF g.mode = mode THEN @ ELSE CooldownWindows]

\* Mutant: the cooldown does not run down.
CountRecoveryOnly(g, countWindow) ==
    IF countWindow THEN [g EXCEPT !.recoveryStreak = Incremented(@)] ELSE g

\* A window that counts towards recovery.
CountRecovery(g, countWindow) ==
    IF countWindow
    THEN [g EXCEPT !.recoveryStreak = Incremented(@), !.cooldown = Decremented(@)]
    ELSE g

IsCritical(pressure) == pressure.memory = "critical"
IsPressured(pressure) == pressure.memory \in {"low", "critical"} \/ pressure.busy

\* Only healthy windows get here.
Relax(g, countWindow) ==
    LET counted == CountRecovery(g, countWindow)
        desired == IF g.userIdle /\ g.backlog /\ g.pressure.power = "Ac"
                   THEN "IdleBoost" ELSE "Balanced"
    IN  IF /\ g.mode # desired
           /\ counted.recoveryStreak >= RecoveryWindows
           /\ counted.cooldown = 0
        THEN [Transition(counted, desired) EXCEPT !.recoveryStreak = 0]
        ELSE counted

\* The pressure counter of this window; pressure ends a recovery.
NotePressure(g, countWindow) ==
    IF IsPressured(g.pressure)
    THEN [g EXCEPT !.pressureStreak = IF countWindow THEN Incremented(@) ELSE @,
                   !.recoveryStreak = 0]
    ELSE [g EXCEPT !.pressureStreak = 0]

\* Mutant: critical memory waits for the pressure windows like any other pressure.
SettleWithoutCritical(g, countWindow) ==
    LET noted == NotePressure(g, countWindow)
    IN  IF IsPressured(g.pressure) /\ noted.pressureStreak >= PressureWindows
        THEN Transition(noted, "Pressure")
        ELSE IF g.userActive \/ g.hold > 0
        THEN Transition([noted EXCEPT !.recoveryStreak = 0], "Active")
        ELSE IF g.pressure.saver \/ g.pressure.power = "Battery"
        THEN Transition(noted, "Battery")
        ELSE IF IsPressured(g.pressure)
        THEN noted
        ELSE Relax(noted, countWindow)

\* The part of evaluate that trusts the observation, in the order of its early returns.
Settle(g, countWindow) ==
    LET noted == NotePressure(g, countWindow)
    IN  IF IsCritical(g.pressure)
        THEN Transition(g, "Pressure")
        ELSE IF IsPressured(g.pressure) /\ noted.pressureStreak >= PressureWindows
        THEN Transition(noted, "Pressure")
        ELSE IF g.userActive \/ g.hold > 0
        THEN Transition([noted EXCEPT !.recoveryStreak = 0], "Active")
        ELSE IF g.pressure.saver \/ g.pressure.power = "Battery"
        THEN Transition(noted, "Battery")
        ELSE IF IsPressured(g.pressure)
        THEN noted
        ELSE Relax(noted, countWindow)

Evaluate(g, countWindow) ==
    LET counted == CountRecovery(g, countWindow)
    IN  IF ~g.available
        THEN Transition(g, "Pressure")
        ELSE IF ~g.recovering
        THEN Settle(g, countWindow)
        ELSE IF counted.recoveryStreak < RecoveryWindows
        THEN Transition(counted, "Pressure")
        ELSE Settle([Transition(counted, "Balanced")
                        EXCEPT !.recovering = FALSE, !.recoveryStreak = 0],
                    countWindow)

-----------------------------------------------------------------------------
(* The methods.                                                            *)

Trusted(g) == g.available /\ ~g.recovering

\* begin_interactive_request, and report_search_latency, which differs in the reason only.
HeldActive(g) ==
    LET held == [g EXCEPT !.hold = HoldWindows]
    IN  IF Trusted(g) THEN Transition(held, "Active") ELSE held

ReportSystemPressure(g, pressure) ==
    Evaluate([g EXCEPT !.pressure = pressure, !.available = TRUE, !.hold = Decremented(@)], TRUE)

\* Mutant: a failed snapshot does not restart the recovery.
ReportUnavailableKeepingStreak(g) ==
    Transition([g EXCEPT !.pressure = UnknownPressure, !.available = FALSE, !.recovering = TRUE,
                         !.userIdle = FALSE, !.pressureStreak = 0, !.hold = 0],
               "Pressure")

ReportResourceUnavailable(g) ==
    Transition([g EXCEPT !.pressure = UnknownPressure, !.available = FALSE, !.recovering = TRUE,
                         !.userIdle = FALSE, !.pressureStreak = 0, !.recoveryStreak = 0,
                         !.hold = 0],
               "Pressure")

ReportWorkload(g, active, idle, backlog) ==
    LET told == [g EXCEPT !.userActive = active, !.userIdle = idle, !.backlog = backlog]
    IN  IF active /\ Trusted(g)
        THEN Transition([told EXCEPT !.hold = HoldWindows], "Active")
        ELSE told

LeaveBoost(g) == [Transition(g, "Balanced") EXCEPT !.recoveryStreak = 0]

\* Mutant: an empty backlog waits for the next evaluation.
ReportBacklogOnly(g, backlog) == [g EXCEPT !.backlog = backlog]

\* Mutant: every backlog report ends boost.
ReportBacklogLeavingBoost(g, backlog) ==
    LET told == [g EXCEPT !.backlog = backlog]
    IN  IF g.mode = "IdleBoost" THEN LeaveBoost(told) ELSE told

ReportBacklog(g, backlog) ==
    LET told == [g EXCEPT !.backlog = backlog]
    IN  IF ~backlog /\ g.mode = "IdleBoost" THEN LeaveBoost(told) ELSE told

\* idle: the observed duration is known and long enough.
ReportUserIdleDuration(g, idle) ==
    LET told == [g EXCEPT !.userIdle = idle]
    IN  IF ~idle /\ g.mode = "IdleBoost" THEN LeaveBoost(told) ELSE Evaluate(told, FALSE)

AdvanceWindow(g) == Evaluate([g EXCEPT !.hold = Decremented(@)], TRUE)

\* budget(mode, energy_saver).background_paused
BackgroundPaused(g) ==
    \/ g.mode \in {"Active", "Pressure"}
    \/ g.mode = "Battery" /\ g.pressure.saver

-----------------------------------------------------------------------------
(* The governor under any caller.                                          *)

VARIABLE governor

GovernorInit == governor = NewGovernor

GovernorNext ==
    \/ governor' = HeldActive(governor)
    \/ governor' = ReportResourceUnavailable(governor)
    \/ governor' = AdvanceWindow(governor)
    \/ \E pressure \in Pressures : governor' = ReportSystemPressure(governor, pressure)
    \/ \E active, idle, backlog \in BOOLEAN :
            governor' = ReportWorkload(governor, active, idle, backlog)
    \/ \E backlog \in BOOLEAN : governor' = ReportBacklog(governor, backlog)
    \/ \E idle \in BOOLEAN : governor' = ReportUserIdleDuration(governor, idle)

GovernorSpec == GovernorInit /\ [][GovernorNext]_governor

GovernorTypeOK == governor \in Governors

Unsafe(g) == IsCritical(g.pressure) \/ g.pressure.saver \/ ~Trusted(g)

\* Background work is paused as long as the last observation found critical memory pressure or
\* energy saver on, or was missing, or the recovery from a missing one is under way: no order of
\* searches, workload, backlog and idle reports re-admits it (evaluate, budget).
PausedWhenUnsafe == Unsafe(governor) => BackgroundPaused(governor)

=============================================================================
