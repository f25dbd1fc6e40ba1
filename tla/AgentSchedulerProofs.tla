------------------------ MODULE AgentSchedulerProofs ------------------------
(***************************************************************************)
(* Proofs about ResourceGovernor and AgentScheduler, for every             *)
(* configuration of the windows and every set of observations.             *)
(***************************************************************************)
EXTENDS AgentScheduler, TLAPS

\* What evaluate leaves alone.
SameInputs(g, h) ==
    /\ h.pressure = g.pressure
    /\ h.available = g.available
    /\ h.userActive = g.userActive
    /\ h.userIdle = g.userIdle
    /\ h.backlog = g.backlog
    /\ h.hold = g.hold

-----------------------------------------------------------------------------
(* The operators of the policy are closed on governors.                    *)

\* The counters stay within their saturation bounds.
LEMMA Counters ==
    ASSUME NEW n \in 0..StreakLimit
    PROVE  /\ Incremented(n) \in 0..StreakLimit
           /\ Decremented(n) \in 0..StreakLimit
           /\ Incremented(n) <= n + 1
           /\ Decremented(n) >= n - 1
BY WindowsAssumption DEF Incremented, Decremented

\* transition sets the mode and the cooldown only.
LEMMA TransitionFacts ==
    ASSUME NEW g \in Governors, NEW mode \in Modes
    PROVE  /\ Transition(g, mode) \in Governors
           /\ Transition(g, mode).mode = mode
           /\ SameInputs(g, Transition(g, mode))
           /\ Transition(g, mode).recovering = g.recovering
           /\ Transition(g, mode).recoveryStreak = g.recoveryStreak
<1>1. CooldownWindows \in 0..StreakLimit
    BY WindowsAssumption
<1> QED
    BY <1>1 DEF Transition, Governors, SameInputs

\* Counting a window changes the recovery counters only.
LEMMA CountRecoveryFacts ==
    ASSUME NEW g \in Governors, NEW countWindow \in BOOLEAN
    PROVE  /\ CountRecovery(g, countWindow) \in Governors
           /\ CountRecovery(g, countWindow).mode = g.mode
           /\ SameInputs(g, CountRecovery(g, countWindow))
           /\ CountRecovery(g, countWindow).recovering = g.recovering
           /\ CountRecovery(g, countWindow).recoveryStreak <= g.recoveryStreak + 1
           /\ ~countWindow => CountRecovery(g, countWindow) = g
<1>1. g.recoveryStreak \in 0..StreakLimit /\ g.cooldown \in 0..StreakLimit
    BY DEF Governors
<1>2. /\ Incremented(g.recoveryStreak) \in 0..StreakLimit
      /\ Incremented(g.recoveryStreak) <= g.recoveryStreak + 1
      /\ Decremented(g.cooldown) \in 0..StreakLimit
    BY <1>1, Counters
<1>3. CASE countWindow
    <2> DEFINE counted == [g EXCEPT !.recoveryStreak = Incremented(@), !.cooldown = Decremented(@)]
    <2>1. CountRecovery(g, countWindow) = counted
        BY <1>3 DEF CountRecovery
    <2>2. /\ counted \in Governors
          /\ counted.mode = g.mode
          /\ SameInputs(g, counted)
          /\ counted.recovering = g.recovering
          /\ counted.recoveryStreak = Incremented(g.recoveryStreak)
        BY <1>1, <1>2 DEF Governors, SameInputs
    <2> HIDE DEF counted
    <2> QED
        BY <1>2, <1>3, <2>1, <2>2
<1>4. CASE ~countWindow
    <2>1. CountRecovery(g, countWindow) = g
        BY <1>4 DEF CountRecovery
    <2>2. g.recoveryStreak <= g.recoveryStreak + 1
        BY <1>1, WindowsAssumption
    <2> QED
        BY <2>1, <2>2 DEF SameInputs
<1> QED
    BY <1>3, <1>4

\* Noting the pressure of a window changes the streaks only.
LEMMA NotePressureFacts ==
    ASSUME NEW g \in Governors, NEW countWindow \in BOOLEAN
    PROVE  /\ NotePressure(g, countWindow) \in Governors
           /\ NotePressure(g, countWindow).mode = g.mode
           /\ SameInputs(g, NotePressure(g, countWindow))
           /\ NotePressure(g, countWindow).recovering = g.recovering
<1>1. g.pressureStreak \in 0..StreakLimit /\ 0 \in 0..StreakLimit
    BY WindowsAssumption DEF Governors
<1>2. Incremented(g.pressureStreak) \in 0..StreakLimit
    BY <1>1, Counters
<1> QED
    BY <1>1, <1>2 DEF NotePressure, Governors, SameInputs

\* Ending a streak leaves everything else alone.
LEMMA StreakReset ==
    ASSUME NEW g \in Governors
    PROVE  /\ [g EXCEPT !.recoveryStreak = 0] \in Governors
           /\ [g EXCEPT !.recoveryStreak = 0].mode = g.mode
           /\ SameInputs(g, [g EXCEPT !.recoveryStreak = 0])
           /\ [g EXCEPT !.recoveryStreak = 0].recovering = g.recovering
BY WindowsAssumption DEF Governors, SameInputs

\* The last part of evaluate keeps the inputs.
LEMMA RelaxFacts ==
    ASSUME NEW g \in Governors, NEW countWindow \in BOOLEAN
    PROVE  /\ Relax(g, countWindow) \in Governors
           /\ SameInputs(g, Relax(g, countWindow))
           /\ Relax(g, countWindow).recovering = g.recovering
<1> DEFINE counted == CountRecovery(g, countWindow)
           desired == IF g.userIdle /\ g.backlog /\ g.pressure.power = "Ac"
                      THEN "IdleBoost" ELSE "Balanced"
           relaxed == Transition(counted, desired)
<1>1. /\ counted \in Governors
      /\ SameInputs(g, counted)
      /\ counted.recovering = g.recovering
    BY CountRecoveryFacts
<1>2. desired \in Modes
    BY DEF Modes
<1>3. /\ relaxed \in Governors
      /\ SameInputs(counted, relaxed)
      /\ relaxed.recovering = counted.recovering
    <2> HIDE DEF counted, desired
    <2> QED  BY <1>1, <1>2, TransitionFacts
<1>4. /\ [relaxed EXCEPT !.recoveryStreak = 0] \in Governors
      /\ SameInputs(relaxed, [relaxed EXCEPT !.recoveryStreak = 0])
      /\ [relaxed EXCEPT !.recoveryStreak = 0].recovering = relaxed.recovering
    <2> HIDE DEF relaxed
    <2> QED  BY <1>3, StreakReset
<1>5. Relax(g, countWindow) \in {[relaxed EXCEPT !.recoveryStreak = 0], counted}
    BY DEF Relax
<1> HIDE DEF counted, desired, relaxed
<1> QED
    BY <1>1, <1>3, <1>4, <1>5 DEF SameInputs

\* The trusted part of evaluate: critical memory, the energy saver and a hold each pause.
LEMMA SettleFacts ==
    ASSUME NEW g \in Governors, NEW countWindow \in BOOLEAN
    PROVE  /\ Settle(g, countWindow) \in Governors
           /\ SameInputs(g, Settle(g, countWindow))
           /\ Settle(g, countWindow).recovering = g.recovering
           /\ IsCritical(g.pressure) => Settle(g, countWindow).mode = "Pressure"
           /\ g.hold > 0 => Settle(g, countWindow).mode \in {"Pressure", "Active"}
           /\ g.pressure.saver
                => Settle(g, countWindow).mode \in {"Pressure", "Active", "Battery"}
<1> DEFINE noted == NotePressure(g, countWindow)
           reset == [noted EXCEPT !.recoveryStreak = 0]
           settled == Settle(g, countWindow)
           Kept(h) == h \in Governors /\ SameInputs(g, h) /\ h.recovering = g.recovering
<1>1. Kept(noted)
    BY NotePressureFacts
<1>2. Kept(reset)
    <2>1. noted \in Governors
        BY <1>1
    <2>2. /\ reset \in Governors
          /\ SameInputs(noted, reset)
          /\ reset.recovering = noted.recovering
        <3> HIDE DEF noted
        <3> QED  BY <2>1, StreakReset
    <2> HIDE DEF noted, reset
    <2> QED  BY <1>1, <2>2 DEF SameInputs
<1>3. Kept(g)
    BY DEF SameInputs
<1> HIDE DEF noted, reset
<1>4. ASSUME NEW h, Kept(h), NEW mode \in Modes
      PROVE  Kept(Transition(h, mode)) /\ Transition(h, mode).mode = mode
    <2>1. h \in Governors
        BY <1>4
    <2>2. /\ Transition(h, mode) \in Governors
          /\ Transition(h, mode).mode = mode
          /\ SameInputs(h, Transition(h, mode))
          /\ Transition(h, mode).recovering = h.recovering
        BY <2>1, TransitionFacts
    <2> QED  BY <1>4, <2>2 DEF SameInputs
<1>5. Kept(Relax(noted, countWindow))
    <2>1. /\ Relax(noted, countWindow) \in Governors
          /\ SameInputs(noted, Relax(noted, countWindow))
          /\ Relax(noted, countWindow).recovering = noted.recovering
        BY <1>1, RelaxFacts
    <2> QED  BY <1>1, <2>1 DEF SameInputs
<1>6. {"Pressure", "Active", "Battery"} \subseteq Modes
    BY DEF Modes
<1>7. CASE IsCritical(g.pressure)
    <2>1. settled = Transition(g, "Pressure")
        BY <1>7 DEF Settle
    <2> HIDE DEF Kept, settled
    <2>2. Kept(settled) /\ settled.mode = "Pressure"
        BY <1>3, <1>4, <1>6, <2>1
    <2> QED  BY <2>2 DEF Kept, settled
<1>8. CASE ~IsCritical(g.pressure)
    <2>1. CASE IsPressured(g.pressure) /\ noted.pressureStreak >= PressureWindows
        <3>1. settled = Transition(noted, "Pressure")
            BY <1>8, <2>1 DEF Settle, noted
        <3> HIDE DEF Kept, settled
        <3>2. Kept(settled) /\ settled.mode = "Pressure"
            BY <1>1, <1>4, <1>6, <3>1
        <3> QED  BY <3>2, <1>8 DEF Kept, settled
    <2>2. CASE /\ ~(IsPressured(g.pressure) /\ noted.pressureStreak >= PressureWindows)
               /\ g.userActive \/ g.hold > 0
        <3>1. settled = Transition(reset, "Active")
            BY <1>8, <2>2 DEF Settle, noted, reset
        <3> HIDE DEF Kept, settled
        <3>2. Kept(settled) /\ settled.mode = "Active"
            BY <1>2, <1>4, <1>6, <3>1
        <3> QED  BY <3>2, <1>8 DEF Kept, settled
    <2>3. CASE /\ ~(IsPressured(g.pressure) /\ noted.pressureStreak >= PressureWindows)
               /\ ~(g.userActive \/ g.hold > 0)
               /\ g.pressure.saver \/ g.pressure.power = "Battery"
        <3>1. settled = Transition(noted, "Battery")
            BY <1>8, <2>3 DEF Settle, noted
        <3> HIDE DEF Kept, settled
        <3>2. Kept(settled) /\ settled.mode = "Battery"
            BY <1>1, <1>4, <1>6, <3>1
        <3> QED  BY <3>2, <2>3, <1>8 DEF Kept, settled
    <2>4. CASE /\ ~(IsPressured(g.pressure) /\ noted.pressureStreak >= PressureWindows)
               /\ ~(g.userActive \/ g.hold > 0)
               /\ ~(g.pressure.saver \/ g.pressure.power = "Battery")
        <3>1. settled \in {noted, Relax(noted, countWindow)}
            BY <1>8, <2>4 DEF Settle, noted
        <3> HIDE DEF Kept, settled
        <3>2. Kept(settled)
            BY <1>1, <1>5, <3>1
        <3> QED  BY <3>2, <2>4, <1>8 DEF Kept, settled
    <2> QED
        BY <2>1, <2>2, <2>3, <2>4
<1> QED
    BY <1>7, <1>8

\* What one evaluation promises: unsafe governors pause, a hold pauses, and a recovery ends only
\* when its streak is complete.
LEMMA EvaluateFacts ==
    ASSUME NEW g \in Governors, NEW countWindow \in BOOLEAN
    PROVE  /\ Evaluate(g, countWindow) \in Governors
           /\ SameInputs(g, Evaluate(g, countWindow))
           /\ Unsafe(Evaluate(g, countWindow)) => BackgroundPaused(Evaluate(g, countWindow))
           /\ g.hold > 0 => Evaluate(g, countWindow).mode \in {"Pressure", "Active"}
           /\ Evaluate(g, countWindow).recovering
                <=> g.recovering /\ ~(/\ g.available
                                      /\ CountRecovery(g, countWindow).recoveryStreak
                                            >= RecoveryWindows)
           /\ g.available /\ Evaluate(g, countWindow).recovering
                => /\ Evaluate(g, countWindow).mode = "Pressure"
                   /\ Evaluate(g, countWindow).recoveryStreak
                        = CountRecovery(g, countWindow).recoveryStreak
<1> DEFINE counted == CountRecovery(g, countWindow)
           balanced == Transition(counted, "Balanced")
           resumed == [balanced EXCEPT !.recovering = FALSE, !.recoveryStreak = 0]
           evaluated == Evaluate(g, countWindow)
<1>1. /\ counted \in Governors
      /\ SameInputs(g, counted)
      /\ counted.recovering = g.recovering
      /\ counted.recoveryStreak \in Int
      /\ RecoveryWindows \in Int
    BY CountRecoveryFacts, WindowsAssumption DEF Governors
<1>2. "Pressure" \in Modes /\ "Balanced" \in Modes
    BY DEF Modes
<1> HIDE DEF counted
<1>3. CASE ~g.available
    <2>1. evaluated = Transition(g, "Pressure")
        BY <1>3 DEF Evaluate
    <2>2. /\ evaluated \in Governors
          /\ evaluated.mode = "Pressure"
          /\ SameInputs(g, evaluated)
          /\ evaluated.recovering = g.recovering
        BY <1>2, <2>1, TransitionFacts
    <2> HIDE DEF evaluated
    <2> QED
        BY <1>3, <2>2 DEF SameInputs, BackgroundPaused, evaluated
<1>4. CASE g.available /\ ~g.recovering
    <2>1. evaluated = Settle(g, countWindow)
        BY <1>4 DEF Evaluate
    <2>2. /\ evaluated \in Governors
          /\ SameInputs(g, evaluated)
          /\ evaluated.recovering = g.recovering
          /\ IsCritical(g.pressure) => evaluated.mode = "Pressure"
          /\ g.hold > 0 => evaluated.mode \in {"Pressure", "Active"}
          /\ g.pressure.saver => evaluated.mode \in {"Pressure", "Active", "Battery"}
        BY <2>1, SettleFacts
    <2> HIDE DEF evaluated
    <2> QED
        BY <1>4, <2>2 DEF SameInputs, BackgroundPaused, Unsafe, Trusted, evaluated
<1>5. CASE g.available /\ g.recovering /\ counted.recoveryStreak < RecoveryWindows
    <2>1. evaluated = Transition(counted, "Pressure")
        BY <1>5 DEF Evaluate, counted
    <2>2. /\ evaluated \in Governors
          /\ evaluated.mode = "Pressure"
          /\ SameInputs(counted, evaluated)
          /\ evaluated.recovering = counted.recovering
          /\ evaluated.recoveryStreak = counted.recoveryStreak
        BY <1>1, <1>2, <2>1, TransitionFacts
    <2>3. SameInputs(g, evaluated)
        <3> HIDE DEF evaluated
        <3> QED  BY <1>1, <2>2 DEF SameInputs
    <2>4. ~(counted.recoveryStreak >= RecoveryWindows)
        BY <1>1, <1>5
    <2> HIDE DEF evaluated
    <2> QED
        BY <1>1, <1>5, <2>2, <2>3, <2>4 DEF BackgroundPaused, evaluated, counted
<1>6. CASE g.available /\ g.recovering /\ ~(counted.recoveryStreak < RecoveryWindows)
    <2>1. evaluated = Settle(resumed, countWindow)
        BY <1>6 DEF Evaluate, counted
    <2>2. balanced \in Governors /\ SameInputs(counted, balanced)
        BY <1>1, <1>2, TransitionFacts
    <2> HIDE DEF balanced
    <2>3. resumed \in Governors /\ SameInputs(balanced, resumed) /\ resumed.recovering = FALSE
        <3>1. 0 \in 0..StreakLimit
            BY WindowsAssumption
        <3>2. resumed \in Governors
            BY <2>2, <3>1 DEF Governors
        <3>3. SameInputs(balanced, resumed)
            BY <2>2 DEF Governors, SameInputs
        <3>4. resumed.recovering = FALSE
            BY <2>2 DEF Governors
        <3> QED  BY <3>2, <3>3, <3>4
    <2> HIDE DEF resumed
    <2>4. SameInputs(g, resumed)
        BY <1>1, <2>2, <2>3 DEF SameInputs
    <2>5. /\ evaluated \in Governors
          /\ SameInputs(resumed, evaluated)
          /\ evaluated.recovering = resumed.recovering
          /\ IsCritical(resumed.pressure) => evaluated.mode = "Pressure"
          /\ resumed.hold > 0 => evaluated.mode \in {"Pressure", "Active"}
          /\ resumed.pressure.saver => evaluated.mode \in {"Pressure", "Active", "Battery"}
        BY <2>1, <2>3, SettleFacts
    <2>6. counted.recoveryStreak >= RecoveryWindows
        BY <1>1, <1>6
    <2> HIDE DEF evaluated
    <2>7. SameInputs(g, evaluated)
        BY <2>4, <2>5 DEF SameInputs
    <2>8. /\ IsCritical(evaluated.pressure) => evaluated.mode = "Pressure"
          /\ g.hold > 0 => evaluated.mode \in {"Pressure", "Active"}
          /\ evaluated.pressure.saver => evaluated.mode \in {"Pressure", "Active", "Battery"}
          /\ Trusted(evaluated)
          /\ ~evaluated.recovering
        BY <1>6, <2>3, <2>4, <2>5 DEF SameInputs, Trusted
    <2>9. Unsafe(evaluated) => BackgroundPaused(evaluated)
        BY <2>8 DEF Unsafe, BackgroundPaused
    <2> QED
        BY <1>6, <2>5, <2>6, <2>7, <2>8, <2>9 DEF evaluated, counted
<1> QED
    BY <1>3, <1>4, <1>5, <1>6

-----------------------------------------------------------------------------
(* The methods keep the governor well formed and paused when unsafe.       *)

\* The inductive invariant of the governor under any caller.
SafeGovernor(g) == g \in Governors /\ (Unsafe(g) => BackgroundPaused(g))

\* A search announces itself or reports its latency.
LEMMA HeldActiveFacts ==
    ASSUME NEW g, SafeGovernor(g)
    PROVE  /\ SafeGovernor(HeldActive(g))
           /\ HeldActive(g).hold = HoldWindows
           /\ HeldActive(g).available = g.available
           /\ HeldActive(g).recovering = g.recovering
           /\ HeldActive(g).recoveryStreak = g.recoveryStreak
           /\ Trusted(g) => HeldActive(g).mode = "Active"
           /\ ~Trusted(g) => HeldActive(g).mode = g.mode
<1> DEFINE held == [g EXCEPT !.hold = HoldWindows]
<1>1. /\ held \in Governors
      /\ held.hold = HoldWindows
      /\ held.mode = g.mode
      /\ held.pressure = g.pressure
      /\ held.available = g.available
      /\ held.recovering = g.recovering
      /\ held.recoveryStreak = g.recoveryStreak
    BY WindowsAssumption DEF SafeGovernor, Governors
<1> HIDE DEF held
<1>2. CASE Trusted(g)
    <2>1. HeldActive(g) = Transition(held, "Active")
        BY <1>2 DEF HeldActive, held
    <2>2. "Active" \in Modes
        BY DEF Modes
    <2> QED
        BY <1>1, <1>2, <2>1, <2>2, TransitionFacts
        DEF SafeGovernor, BackgroundPaused, SameInputs
<1>3. CASE ~Trusted(g)
    <2>1. HeldActive(g) = held
        BY <1>3 DEF HeldActive, held
    <2> QED
        BY <1>1, <1>3, <2>1 DEF SafeGovernor, BackgroundPaused, Unsafe, Trusted
<1> QED
    BY <1>2, <1>3

\* A failed snapshot pauses and starts a recovery.
LEMMA UnavailableFacts ==
    ASSUME NEW g \in Governors
    PROVE  /\ SafeGovernor(ReportResourceUnavailable(g))
           /\ ~ReportResourceUnavailable(g).available
           /\ ReportResourceUnavailable(g).recovering
           /\ ReportResourceUnavailable(g).recoveryStreak = 0
           /\ ReportResourceUnavailable(g).mode = "Pressure"
<1> DEFINE lost == [g EXCEPT !.pressure = UnknownPressure, !.available = FALSE,
                             !.recovering = TRUE, !.userIdle = FALSE, !.pressureStreak = 0,
                             !.recoveryStreak = 0, !.hold = 0]
<1>1. UnknownPressure \in Pressure /\ "Pressure" \in Modes
    BY DEF UnknownPressure, Pressure, Modes
<1>2. /\ lost \in Governors
      /\ lost.available = FALSE
      /\ lost.recovering = TRUE
      /\ lost.recoveryStreak = 0
    <2>1. 0 \in 0..StreakLimit
        BY WindowsAssumption
    <2>2. lost \in Governors
        BY <1>1, <2>1 DEF Governors
    <2>3. lost.available = FALSE /\ lost.recovering = TRUE
        BY DEF Governors
    <2>4. lost.recoveryStreak = 0
        BY DEF Governors
    <2> QED  BY <2>2, <2>3, <2>4
<1>3. ReportResourceUnavailable(g) = Transition(lost, "Pressure")
    BY DEF ReportResourceUnavailable
<1> HIDE DEF lost
<1> QED
    BY <1>1, <1>2, <1>3, TransitionFacts DEF SafeGovernor, BackgroundPaused, SameInputs

\* A window with a valid observation: the hold runs down, and a recovery goes on until its streak
\* is complete.
LEMMA SystemPressureFacts ==
    ASSUME NEW g \in Governors, NEW pressure \in Pressure
    PROVE  LET r == ReportSystemPressure(g, pressure)
           IN  /\ SafeGovernor(r)
               /\ r.available
               /\ r.hold = Decremented(g.hold)
               /\ r.hold > 0 => r.mode \in {"Pressure", "Active"}
               /\ r.recovering
                    <=> g.recovering /\ ~(Incremented(g.recoveryStreak) >= RecoveryWindows)
               /\ r.recovering => /\ r.mode = "Pressure"
                                  /\ r.recoveryStreak = Incremented(g.recoveryStreak)
<1> DEFINE told == [g EXCEPT !.pressure = pressure, !.available = TRUE, !.hold = Decremented(@)]
           r == ReportSystemPressure(g, pressure)
<1>1. Decremented(g.hold) \in 0..StreakLimit
    BY Counters DEF Governors
<1>2. told \in Governors
    BY <1>1 DEF Governors
<1>3. told.available = TRUE /\ told.hold = Decremented(g.hold)
    BY DEF Governors
<1>4. told.recovering = g.recovering /\ told.recoveryStreak = g.recoveryStreak
    BY DEF Governors
<1>5. r = Evaluate(told, TRUE)
    BY DEF ReportSystemPressure
<1> HIDE DEF told, r
<1>6. CountRecovery(told, TRUE).recoveryStreak = Incremented(g.recoveryStreak)
    BY <1>2, <1>4 DEF CountRecovery, Governors
<1>7. /\ r \in Governors
      /\ SameInputs(told, r)
      /\ Unsafe(r) => BackgroundPaused(r)
      /\ told.hold > 0 => r.mode \in {"Pressure", "Active"}
      /\ r.recovering <=> told.recovering /\ ~(/\ told.available
                                               /\ CountRecovery(told, TRUE).recoveryStreak
                                                    >= RecoveryWindows)
      /\ told.available /\ r.recovering
            => /\ r.mode = "Pressure"
               /\ r.recoveryStreak = CountRecovery(told, TRUE).recoveryStreak
    BY <1>2, <1>5, EvaluateFacts
<1>8. r.available = told.available /\ r.hold = told.hold
    BY <1>7 DEF SameInputs
<1>9. r.hold > 0 => r.mode \in {"Pressure", "Active"}
    BY <1>7, <1>8
<1> QED
    BY <1>3, <1>4, <1>6, <1>7, <1>8, <1>9 DEF SafeGovernor, r

\* Leaving boost: possible only for a governor that is safe to run.
LEMMA LeaveBoostFacts ==
    ASSUME NEW g, SafeGovernor(g), g.mode = "IdleBoost"
    PROVE  /\ SafeGovernor(LeaveBoost(g))
           /\ Trusted(g)
           /\ LeaveBoost(g).mode = "Balanced"
           /\ SameInputs(g, LeaveBoost(g))
           /\ LeaveBoost(g).recovering = g.recovering
<1>1. ~Unsafe(g)
    BY DEF SafeGovernor, BackgroundPaused
<1>2. "Balanced" \in Modes
    BY DEF Modes
<1> DEFINE balanced == Transition(g, "Balanced")
<1>3. /\ balanced \in Governors
      /\ balanced.mode = "Balanced"
      /\ SameInputs(g, balanced)
      /\ balanced.recovering = g.recovering
    BY <1>2, TransitionFacts DEF SafeGovernor
<1> HIDE DEF balanced
<1>4. LeaveBoost(g) = [balanced EXCEPT !.recoveryStreak = 0]
    BY DEF LeaveBoost, balanced
<1>5. /\ LeaveBoost(g) \in Governors
      /\ LeaveBoost(g).mode = "Balanced"
      /\ SameInputs(balanced, LeaveBoost(g))
      /\ LeaveBoost(g).recovering = g.recovering
    BY <1>3, <1>4, StreakReset
<1>6. SameInputs(g, LeaveBoost(g))
    BY <1>3, <1>5 DEF SameInputs
<1> QED
    BY <1>1, <1>5, <1>6 DEF SafeGovernor, Unsafe, Trusted, SameInputs

\* A report that changes what is known of the workload only.
Told(g, h) ==
    /\ h \in Governors
    /\ h.mode = g.mode
    /\ h.pressure = g.pressure
    /\ h.available = g.available
    /\ h.recovering = g.recovering
    /\ h.recoveryStreak = g.recoveryStreak

\* Such a report keeps a safe governor safe.
LEMMA ToldIsSafe ==
    ASSUME NEW g, NEW h, SafeGovernor(g), Told(g, h)
    PROVE  SafeGovernor(h)
BY DEF SafeGovernor, Told, Unsafe, Trusted, BackgroundPaused

\* report_backlog: a recovery is not disturbed.
LEMMA BacklogFacts ==
    ASSUME NEW g, SafeGovernor(g), NEW backlog \in BOOLEAN
    PROVE  LET b == ReportBacklog(g, backlog)
           IN  /\ SafeGovernor(b)
               /\ b.hold = g.hold
               /\ b.available = g.available
               /\ b.recovering = g.recovering
               /\ BackgroundPaused(g) => b.mode = g.mode /\ b.pressure = g.pressure
               /\ ~Trusted(g) => b.recoveryStreak = g.recoveryStreak
<1> DEFINE told == [g EXCEPT !.backlog = backlog]
           b == ReportBacklog(g, backlog)
<1>1. Told(g, told) /\ told.hold = g.hold
    BY DEF Told, SafeGovernor, Governors
<1>2. SafeGovernor(told)
    BY <1>1, ToldIsSafe
<1>3. b = IF ~backlog /\ g.mode = "IdleBoost" THEN LeaveBoost(told) ELSE told
    BY DEF ReportBacklog
<1> HIDE DEF told, b
<1>4. CASE ~backlog /\ g.mode = "IdleBoost"
    <2>1. b = LeaveBoost(told) /\ told.mode = "IdleBoost"
        BY <1>1, <1>3, <1>4 DEF Told
    <2>2. /\ SafeGovernor(b)
          /\ Trusted(told)
          /\ SameInputs(told, b)
          /\ b.recovering = told.recovering
        BY <1>2, <2>1, LeaveBoostFacts
    <2>3. Trusted(g) /\ ~BackgroundPaused(g)
        BY <1>1, <1>4, <2>2 DEF Trusted, Told, BackgroundPaused
    <2> QED
        BY <1>1, <2>2, <2>3 DEF SameInputs, Told, b
<1>5. CASE ~(~backlog /\ g.mode = "IdleBoost")
    <2>1. b = told
        BY <1>3, <1>5
    <2> QED
        BY <1>1, <1>2, <2>1 DEF Told, b
<1> QED
    BY <1>4, <1>5

\* report_user_idle_duration: the evaluation that counts no window.
LEMMA IdleFacts ==
    ASSUME NEW g, SafeGovernor(g), NEW idle \in BOOLEAN
    PROVE  LET i == ReportUserIdleDuration(g, idle)
           IN  /\ SafeGovernor(i)
               /\ i.hold = g.hold
               /\ i.available = g.available
               /\ g.hold > 0 /\ g.mode # "IdleBoost" => i.mode \in {"Pressure", "Active"}
               /\ g.available
                    => (i.recovering <=> g.recovering /\ ~(g.recoveryStreak >= RecoveryWindows))
               /\ g.available /\ i.recovering
                    => i.mode = "Pressure" /\ i.recoveryStreak = g.recoveryStreak
<1> DEFINE told == [g EXCEPT !.userIdle = idle]
           i == ReportUserIdleDuration(g, idle)
<1>1. Told(g, told) /\ told.hold = g.hold
    BY DEF Told, SafeGovernor, Governors
<1>2. SafeGovernor(told)
    BY <1>1, ToldIsSafe
<1>3. i = IF ~idle /\ g.mode = "IdleBoost" THEN LeaveBoost(told) ELSE Evaluate(told, FALSE)
    BY DEF ReportUserIdleDuration
<1> HIDE DEF told, i
<1>4. CASE ~idle /\ g.mode = "IdleBoost"
    <2>1. i = LeaveBoost(told) /\ told.mode = "IdleBoost"
        BY <1>1, <1>3, <1>4 DEF Told
    <2>2. /\ SafeGovernor(i)
          /\ Trusted(told)
          /\ SameInputs(told, i)
          /\ i.recovering = told.recovering
        BY <1>2, <2>1, LeaveBoostFacts
    <2>3. ~g.recovering /\ ~i.recovering
        BY <1>1, <2>2 DEF Trusted, Told
    <2> QED
        BY <1>1, <1>4, <2>2, <2>3 DEF SameInputs, Told, i
<1>5. CASE ~(~idle /\ g.mode = "IdleBoost")
    <2>1. i = Evaluate(told, FALSE)
        BY <1>3, <1>5
    <2>2. told \in Governors
        BY <1>1 DEF Told
    <2>3. CountRecovery(told, FALSE) = told
        BY DEF CountRecovery
    <2>4. /\ i \in Governors
          /\ SameInputs(told, i)
          /\ Unsafe(i) => BackgroundPaused(i)
          /\ told.hold > 0 => i.mode \in {"Pressure", "Active"}
          /\ i.recovering <=> told.recovering /\ ~(/\ told.available
                                                   /\ told.recoveryStreak >= RecoveryWindows)
          /\ told.available /\ i.recovering
                => i.mode = "Pressure" /\ i.recoveryStreak = told.recoveryStreak
        BY <2>1, <2>2, <2>3, EvaluateFacts
    <2>5. i.hold = g.hold /\ i.available = g.available
        BY <1>1, <2>4 DEF SameInputs, Told
    <2> QED
        BY <1>1, <2>4, <2>5 DEF Told, SafeGovernor, i
<1> QED
    BY <1>4, <1>5

\* advance_window evaluates without an observation.
LEMMA AdvanceIsSafe ==
    ASSUME NEW g \in Governors
    PROVE  SafeGovernor(AdvanceWindow(g))
<1> DEFINE told == [g EXCEPT !.hold = Decremented(@)]
<1>1. Decremented(g.hold) \in 0..StreakLimit
    BY Counters DEF Governors
<1>2. told \in Governors
    BY <1>1 DEF Governors
<1>3. AdvanceWindow(g) = Evaluate(told, TRUE)
    BY DEF AdvanceWindow
<1> HIDE DEF told
<1> QED
    BY <1>2, <1>3, EvaluateFacts DEF SafeGovernor

\* report_workload: an active user pauses, if the observations can be trusted.
LEMMA WorkloadIsSafe ==
    ASSUME NEW g, SafeGovernor(g),
           NEW active \in BOOLEAN, NEW idle \in BOOLEAN, NEW backlog \in BOOLEAN
    PROVE  SafeGovernor(ReportWorkload(g, active, idle, backlog))
<1> DEFINE told == [g EXCEPT !.userActive = active, !.userIdle = idle, !.backlog = backlog]
           held == [told EXCEPT !.hold = HoldWindows]
<1>1. Told(g, told)
    <2>1. told \in Governors
        BY DEF SafeGovernor, Governors
    <2>2. told.mode = g.mode /\ told.pressure = g.pressure /\ told.available = g.available
        BY DEF SafeGovernor, Governors
    <2>3. told.recovering = g.recovering /\ told.recoveryStreak = g.recoveryStreak
        BY DEF SafeGovernor, Governors
    <2> QED  BY <2>1, <2>2, <2>3 DEF Told
<1>2. ReportWorkload(g, active, idle, backlog)
        = IF active /\ Trusted(g) THEN Transition(held, "Active") ELSE told
    BY DEF ReportWorkload
<1> HIDE DEF told
<1>3. held \in Governors
    BY <1>1, WindowsAssumption DEF Told, Governors
<1> HIDE DEF held
<1>4. "Active" \in Modes
    BY DEF Modes
<1>5. SafeGovernor(Transition(held, "Active"))
    BY <1>3, <1>4, TransitionFacts DEF SafeGovernor, BackgroundPaused
<1>6. SafeGovernor(told)
    BY <1>1, ToldIsSafe
<1> QED
    BY <1>2, <1>5, <1>6

\* A new governor is safe: nothing has been observed, and nothing is missing.
LEMMA NewIsSafe == SafeGovernor(NewGovernor)
<1>1. UnknownPressure \in Pressure /\ "Balanced" \in Modes /\ 0 \in 0..StreakLimit
    BY WindowsAssumption DEF UnknownPressure, Pressure, Modes
<1>2. NewGovernor \in Governors
    BY <1>1 DEF NewGovernor, Governors
<1>3. ~Unsafe(NewGovernor)
    BY DEF NewGovernor, UnknownPressure, Unsafe, IsCritical, Trusted
<1> QED
    BY <1>2, <1>3 DEF SafeGovernor

-----------------------------------------------------------------------------
(* The governor under any caller.                                          *)

\* Every method keeps the governor safe.
LEMMA GovernorStep ==
    ASSUME SafeGovernor(governor), [GovernorNext]_governor
    PROVE  SafeGovernor(governor')
<1>0. governor \in Governors /\ Pressures \subseteq Pressure
    BY PressuresAssumption DEF SafeGovernor
<1>1. CASE governor' = HeldActive(governor)
    BY <1>1, HeldActiveFacts
<1>2. CASE governor' = ReportResourceUnavailable(governor)
    BY <1>0, <1>2, UnavailableFacts
<1>3. CASE governor' = AdvanceWindow(governor)
    BY <1>0, <1>3, AdvanceIsSafe
<1>4. CASE \E pressure \in Pressures : governor' = ReportSystemPressure(governor, pressure)
    BY <1>0, <1>4, SystemPressureFacts
<1>5. CASE \E active, idle, backlog \in BOOLEAN :
                governor' = ReportWorkload(governor, active, idle, backlog)
    BY <1>5, WorkloadIsSafe
<1>6. CASE \E backlog \in BOOLEAN : governor' = ReportBacklog(governor, backlog)
    BY <1>6, BacklogFacts
<1>7. CASE \E idle \in BOOLEAN : governor' = ReportUserIdleDuration(governor, idle)
    BY <1>7, IdleFacts
<1>8. CASE UNCHANGED governor
    BY <1>8
<1> QED
    BY <1>1, <1>2, <1>3, <1>4, <1>5, <1>6, <1>7, <1>8 DEF GovernorNext

\* Under any order of the eight methods the counters stay in range and the mode is one of the five.
THEOREM GovernorTypeCorrect == GovernorSpec => []GovernorTypeOK
<1>1. GovernorInit => SafeGovernor(governor)
    BY NewIsSafe DEF GovernorInit
<1>2. SafeGovernor(governor) /\ [GovernorNext]_governor => SafeGovernor(governor)'
    BY GovernorStep
<1>3. SafeGovernor(governor) => GovernorTypeOK
    BY DEF SafeGovernor, GovernorTypeOK
<1> QED
    BY <1>1, <1>2, <1>3, PTL DEF GovernorSpec

\* Whatever the configuration and the order of the calls, no governor admits background work under
\* critical memory, energy saver, or missing or recovering telemetry (evaluate, budget).
THEOREM UnsafeIsPaused == GovernorSpec => []PausedWhenUnsafe
<1>1. GovernorInit => SafeGovernor(governor)
    BY NewIsSafe DEF GovernorInit
<1>2. SafeGovernor(governor) /\ [GovernorNext]_governor => SafeGovernor(governor)'
    BY GovernorStep
<1>3. SafeGovernor(governor) => PausedWhenUnsafe
    BY DEF SafeGovernor, PausedWhenUnsafe
<1> QED
    BY <1>1, <1>2, <1>3, PTL DEF GovernorSpec

-----------------------------------------------------------------------------
(* The scheduler and request threads.                                      *)

\* The three reports of one window, under one lock.
LEMMA ObservationFacts ==
    ASSUME NEW g, SafeGovernor(g), NEW backlog \in BOOLEAN, NEW pressure \in Pressure,
           NEW idle \in BOOLEAN
    PROVE  LET o == ResourceObservation(g, backlog, pressure, idle)
           IN  /\ SafeGovernor(o)
               /\ o.available
               /\ o.hold = Decremented(g.hold)
               /\ o.hold > 0 => o.mode \in {"Pressure", "Active"}
               /\ o.recovering
                    <=> g.recovering /\ ~(Incremented(g.recoveryStreak) >= RecoveryWindows)
               /\ o.recovering => /\ o.mode = "Pressure"
                                  /\ o.recoveryStreak = Incremented(g.recoveryStreak)
<1> DEFINE b == ReportBacklog(g, backlog)
           r == ReportSystemPressure(b, pressure)
           o == ResourceObservation(g, backlog, pressure, idle)
<1>1. /\ SafeGovernor(b)
      /\ b.hold = g.hold
      /\ b.recovering = g.recovering
      /\ ~Trusted(g) => b.recoveryStreak = g.recoveryStreak
    BY BacklogFacts
<1>2. b \in Governors
    BY <1>1 DEF SafeGovernor
<1> HIDE DEF b
<1>3. /\ SafeGovernor(r)
      /\ r.available
      /\ r.hold = Decremented(b.hold)
      /\ r.hold > 0 => r.mode \in {"Pressure", "Active"}
      /\ r.recovering <=> b.recovering /\ ~(Incremented(b.recoveryStreak) >= RecoveryWindows)
      /\ r.recovering => r.mode = "Pressure" /\ r.recoveryStreak = Incremented(b.recoveryStreak)
    BY <1>2, SystemPressureFacts
<1>4. o = ReportUserIdleDuration(r, idle)
    BY DEF ResourceObservation, b
<1> HIDE DEF r, o
<1>5. /\ SafeGovernor(o)
      /\ o.hold = r.hold
      /\ o.available = r.available
      /\ r.hold > 0 /\ r.mode # "IdleBoost" => o.mode \in {"Pressure", "Active"}
      /\ r.available
            => (o.recovering <=> r.recovering /\ ~(r.recoveryStreak >= RecoveryWindows))
      /\ r.available /\ o.recovering
            => o.mode = "Pressure" /\ o.recoveryStreak = r.recoveryStreak
    <2>1. SafeGovernor(r)
        BY <1>3
    <2> QED
        BY <1>4, <2>1, IdleFacts
<1>6. g.recovering => b.recoveryStreak = g.recoveryStreak
    BY <1>1 DEF Trusted
<1>7. o.recovering <=> g.recovering /\ ~(Incremented(g.recoveryStreak) >= RecoveryWindows)
    BY <1>1, <1>3, <1>5, <1>6
<1>8. o.recovering => o.mode = "Pressure" /\ o.recoveryStreak = Incremented(g.recoveryStreak)
    BY <1>1, <1>3, <1>5, <1>6
<1>9. o.hold > 0 => o.mode \in {"Pressure", "Active"}
    BY <1>3, <1>5
<1> QED
    BY <1>1, <1>3, <1>5, <1>7, <1>8, <1>9 DEF o

\* The inductive invariant: a recovery is visible as pressure, and its streak never runs ahead of
\* the snapshots really reported since the failure.
RecoveryIsCounted ==
    /\ ~governor.available => governor.recovering
    /\ governor.recovering => /\ governor.mode = "Pressure"
                              /\ governor.recoveryStreak <= validRun

SchedulerInv == SchedulerTypeOK /\ SafeGovernor(governor) /\ RecoveryIsCounted

\* Initially nothing is missing.
LEMMA SchedulerStart == SchedulerInit => SchedulerInv
<1> SUFFICES ASSUME SchedulerInit PROVE SchedulerInv
    OBVIOUS
<1>1. SafeGovernor(governor)
    BY NewIsSafe DEF SchedulerInit, GovernorInit
<1>2. SchedulerTypeOK
    <2>1. governor \in Governors /\ pending \in SUBSET Backlogs /\ step \in Steps /\ admitted \in BOOLEAN
        BY <1>1 DEF SchedulerInit, SafeGovernor, Steps
    <2>2. seen \in {"some", "none", "error"} /\ search \in {"none", "catalog", "content"}
        BY DEF SchedulerInit
    <2>3. elapsed \in 0..SearchWindows /\ validRun \in 0..StreakLimit /\ calmRun \in 0..StreakLimit
        BY WindowsAssumption, SearchAssumption DEF SchedulerInit
    <2> QED
        BY <2>1, <2>2, <2>3 DEF SchedulerTypeOK
<1>3. governor.available = TRUE /\ governor.recovering = FALSE
    BY DEF SchedulerInit, GovernorInit, NewGovernor
<1> QED
    BY <1>1, <1>2, <1>3 DEF SchedulerInv, RecoveryIsCounted

\* A report of one window keeps the types of what it writes.
LEMMA ReportTypes ==
    ASSUME SchedulerTypeOK, NEW g, SafeGovernor(g), Report(g), TurnPasses,
           validRun' \in 0..StreakLimit, calmRun' \in 0..StreakLimit
    PROVE  SchedulerTypeOK' /\ SafeGovernor(governor)'
<1>1. governor' = g /\ g \in Governors
    BY DEF Report, SafeGovernor
<1>2. elapsed' \in 0..SearchWindows
    BY SearchAssumption DEF TurnPasses, SchedulerTypeOK
<1>3. admitted' \in BOOLEAN
    BY DEF Report
<1>4. step' \in Steps /\ UNCHANGED <<pending, seen, search>>
    BY DEF Report, Steps
<1> QED
    BY <1>1, <1>2, <1>3, <1>4 DEF SchedulerTypeOK

\* The governor after the report of a valid window.
LEMMA ReportObservationKeeps ==
    ASSUME SchedulerInv, NEW pressure \in Pressures, NEW idle \in BOOLEAN,
           ReportObservation(pressure, idle)
    PROVE  SchedulerInv' /\ (~Trusted(governor) /\ Trusted(governor)' => validRun' >= RecoveryWindows)
<1> DEFINE backlog == seen = "some"
           o == ResourceObservation(governor, backlog, pressure, idle)
<1>1. SafeGovernor(governor) /\ pressure \in Pressure /\ backlog \in BOOLEAN
    BY PressuresAssumption DEF SchedulerInv
<1> HIDE DEF backlog
<1>2. /\ SafeGovernor(o)
      /\ o.available
      /\ o.recovering
            <=> governor.recovering /\ ~(Incremented(governor.recoveryStreak) >= RecoveryWindows)
      /\ o.recovering => /\ o.mode = "Pressure"
                         /\ o.recoveryStreak = Incremented(governor.recoveryStreak)
    BY <1>1, ObservationFacts
<1> HIDE DEF o
<1>3. Report(o) /\ TurnPasses
    BY DEF ReportObservation, o, backlog
<1>4. governor' = o
    BY <1>3 DEF Report
<1>5. /\ validRun \in 0..StreakLimit
      /\ calmRun \in 0..StreakLimit
      /\ governor.recoveryStreak \in 0..StreakLimit
    BY DEF SchedulerInv, SchedulerTypeOK, Governors
<1>6. validRun' = Incremented(validRun) /\ calmRun' \in {0, Incremented(calmRun)}
    BY DEF ReportObservation
<1>7. validRun' \in 0..StreakLimit /\ calmRun' \in 0..StreakLimit
    BY <1>5, <1>6, Counters, WindowsAssumption
<1>8. SchedulerTypeOK' /\ SafeGovernor(governor)'
    BY <1>2, <1>3, <1>7, ReportTypes DEF SchedulerInv
<1>9. governor.recovering => Incremented(governor.recoveryStreak) <= validRun'
    <2>1. governor.recovering => governor.recoveryStreak <= validRun
        BY DEF SchedulerInv, RecoveryIsCounted
    <2> QED
        BY <1>5, <1>6, <2>1, WindowsAssumption DEF Incremented
<1>10. RecoveryIsCounted'
    BY <1>2, <1>4, <1>9 DEF RecoveryIsCounted
<1>11. ASSUME ~Trusted(governor), Trusted(governor)' PROVE validRun' >= RecoveryWindows
    <2>1. governor.recovering
        BY <1>11 DEF Trusted, SchedulerInv, RecoveryIsCounted
    <2>2. ~o.recovering
        BY <1>4, <1>11 DEF Trusted
    <2>3. Incremented(governor.recoveryStreak) >= RecoveryWindows
        BY <1>2, <2>1, <2>2
    <2>4. Incremented(governor.recoveryStreak) \in 0..StreakLimit
        BY <1>5, Counters
    <2> QED
        BY <1>7, <1>9, <2>1, <2>3, <2>4, WindowsAssumption
<1> QED
    BY <1>8, <1>10, <1>11 DEF SchedulerInv

\* A step that neither starts nor ends a recovery.
RecoveryKept ==
    /\ SafeGovernor(governor')
    /\ governor'.available = governor.available
    /\ governor'.recovering = governor.recovering
    /\ governor.recovering => /\ governor'.mode = governor.mode
                              /\ governor'.recoveryStreak = governor.recoveryStreak
    /\ validRun' = validRun

\* Such a step keeps the invariant, if the types are kept.
LEMMA KeptRecovery ==
    ASSUME SchedulerInv, RecoveryKept, SchedulerTypeOK'
    PROVE  SchedulerInv' /\ (Trusted(governor)' <=> Trusted(governor))
BY DEF SchedulerInv, RecoveryKept, RecoveryIsCounted, Trusted

\* An announced search, or its latency report, is such a step.
LEMMA HeldKeepsRecovery ==
    ASSUME SchedulerInv, governor' \in {governor, HeldActive(governor)}, validRun' = validRun
    PROVE  RecoveryKept
<1>1. SafeGovernor(governor)
    BY DEF SchedulerInv
<1>2. CASE governor' = governor
    BY <1>1, <1>2 DEF RecoveryKept
<1>3. CASE governor' = HeldActive(governor)
    <2>1. governor.recovering => ~Trusted(governor)
        BY DEF Trusted
    <2> QED
        BY <1>1, <1>3, <2>1, HeldActiveFacts DEF RecoveryKept
<1> QED
    BY <1>2, <1>3

\* So is the backlog report of the catalog pass.
LEMMA BacklogKeepsRecovery ==
    ASSUME SchedulerInv, governor' \in {governor, ReportBacklog(governor, "catalog" \in pending)},
           validRun' = validRun
    PROVE  RecoveryKept
<1>1. SafeGovernor(governor) /\ ("catalog" \in pending) \in BOOLEAN
    BY DEF SchedulerInv
<1>2. CASE governor' = governor
    BY <1>1, <1>2 DEF RecoveryKept
<1>3. CASE governor' = ReportBacklog(governor, "catalog" \in pending)
    <2>1. governor.recovering => ~Trusted(governor) /\ BackgroundPaused(governor)
        BY DEF Trusted, SchedulerInv, RecoveryIsCounted, BackgroundPaused
    <2>2. /\ SafeGovernor(governor')
          /\ governor'.available = governor.available
          /\ governor'.recovering = governor.recovering
          /\ BackgroundPaused(governor) => governor'.mode = governor.mode
          /\ ~Trusted(governor) => governor'.recoveryStreak = governor.recoveryStreak
        BY <1>1, <1>3, BacklogFacts
    <2> QED
        BY <2>1, <2>2 DEF RecoveryKept
<1> QED
    BY <1>2, <1>3

\* Every step keeps the invariant, and a recovery ends only with enough valid snapshots.
LEMMA SchedulerStep ==
    ASSUME SchedulerInv, [SchedulerNext]_schedulerVars
    PROVE  /\ SchedulerInv'
           /\ ~Trusted(governor) /\ Trusted(governor)' => validRun' >= RecoveryWindows
<1> USE DEF schedulerVars
<1>1. SchedulerTypeOK /\ SafeGovernor(governor)
    BY DEF SchedulerInv
<1>2. CASE RecoveryKept /\ SchedulerTypeOK'
    BY <1>2, KeptRecovery
<1>3. ASSUME NEW pressure \in Pressures, NEW idle \in BOOLEAN, ReportObservation(pressure, idle)
      PROVE  /\ SchedulerInv'
             /\ ~Trusted(governor) /\ Trusted(governor)' => validRun' >= RecoveryWindows
    BY <1>3, ReportObservationKeeps
<1>4. CASE ReportOutage
    <2> DEFINE g == ReportResourceUnavailable(governor)
    <2>1. /\ SafeGovernor(g)
          /\ ~g.available
          /\ g.recovering
          /\ g.recoveryStreak = 0
          /\ g.mode = "Pressure"
        BY <1>1, UnavailableFacts DEF SafeGovernor
    <2> HIDE DEF g
    <2>2. Report(g) /\ TurnPasses /\ validRun' = 0 /\ calmRun' = 0 /\ governor' = g
        BY <1>4 DEF ReportOutage, Report, g
    <2>3. SchedulerTypeOK' /\ SafeGovernor(governor)'
        BY <1>1, <2>1, <2>2, ReportTypes, WindowsAssumption
    <2> QED
        BY <2>1, <2>2, <2>3 DEF SchedulerInv, RecoveryIsCounted, Trusted
<1>5. CASE ReportNothing
    <2>1. /\ Report(governor)
          /\ TurnPasses
          /\ validRun' = validRun
          /\ calmRun' = calmRun
          /\ governor' = governor
        BY <1>5 DEF ReportNothing, Report
    <2>2. validRun' \in 0..StreakLimit /\ calmRun' \in 0..StreakLimit
        BY <1>1, <2>1 DEF SchedulerTypeOK
    <2>3. SchedulerTypeOK'
        BY <1>1, <2>1, <2>2, ReportTypes
    <2>4. RecoveryKept
        BY <2>1, HeldKeepsRecovery
    <2> QED
        BY <1>2, <2>3, <2>4
<1>6. CASE ReadBacklog \/ Observe \/ CheckBacklog \/ EndPass \/ OtherIngest
           \/ UNCHANGED schedulerVars
    <2>1. governor' = governor /\ validRun' = validRun
        BY <1>6 DEF ReadBacklog, Observe, CheckBacklog, EndPass, OtherIngest
    <2>2. UNCHANGED <<search, elapsed, calmRun, admitted>>
        BY <1>6 DEF ReadBacklog, Observe, CheckBacklog, EndPass, OtherIngest
    <2>3. pending' \in SUBSET Backlogs /\ seen' \in {"some", "none", "error"}
        <3>1. EmptiedBy(step) \subseteq Backlogs /\ LeftBy(step) \subseteq Backlogs
            BY DEF EmptiedBy, LeftBy, Backlogs
        <3> QED
            BY <1>1, <1>6, <3>1
            DEF ReadBacklog, Observe, CheckBacklog, EndPass, OtherIngest, SchedulerTypeOK
    <2>4. step' \in Steps
        <3>1. CASE EndPass
            <4>1. step \in Passes
                BY <3>1 DEF EndPass
            <4>2. step' \in {"content", "storage", "backlog"}
                BY <3>1, <4>1 DEF EndPass, Passes
            <4> QED  BY <4>2 DEF Steps
        <3> QED
            BY <1>1, <1>6, <3>1
            DEF ReadBacklog, Observe, CheckBacklog, OtherIngest, SchedulerTypeOK, Steps
    <2>5. SchedulerTypeOK'
        BY <1>1, <2>1, <2>2, <2>3, <2>4 DEF SchedulerTypeOK
    <2>6. RecoveryKept
        BY <2>1, HeldKeepsRecovery
    <2> QED
        BY <1>2, <2>5, <2>6
<1>7. CASE AdmitCatalog \/ AdmitContent \/ AdmitStorage
    <2>1. governor' \in {governor, ReportBacklog(governor, "catalog" \in pending)} /\ validRun' = validRun
        BY <1>7 DEF AdmitCatalog, AdmitContent, AdmitStorage, Admit
    <2>2. UNCHANGED <<pending, seen, admitted, search, elapsed, calmRun>>
        BY <1>7 DEF AdmitCatalog, AdmitContent, AdmitStorage, Admit
    <2>3. step' \in Steps
        BY <1>7 DEF AdmitCatalog, AdmitContent, AdmitStorage, Admit, Steps, Passes
    <2>4. RecoveryKept
        BY <2>1, BacklogKeepsRecovery
    <2>5. SchedulerTypeOK'
        BY <1>1, <2>1, <2>2, <2>3, <2>4 DEF SchedulerTypeOK, RecoveryKept, SafeGovernor
    <2> QED
        BY <1>2, <2>4, <2>5
<1>8. ASSUME EndSearch \/ \E kind \in SearchKinds : BeginSearch(kind)
      PROVE  RecoveryKept /\ SchedulerTypeOK'
    <2>1. governor' \in {governor, HeldActive(governor)} /\ validRun' = validRun
        BY <1>8 DEF EndSearch, BeginSearch
    <2>2. UNCHANGED <<pending, step, seen, admitted, calmRun>>
        BY <1>8 DEF EndSearch, BeginSearch
    <2>3. search' \in {"none", "catalog", "content"} /\ elapsed' = 0
        BY <1>8, SearchAssumption DEF EndSearch, BeginSearch
    <2>4. RecoveryKept
        BY <2>1, HeldKeepsRecovery
    <2>5. governor' \in Governors /\ elapsed' \in 0..SearchWindows
        BY <2>3, <2>4, SearchAssumption DEF RecoveryKept, SafeGovernor
    <2> QED
        BY <1>1, <2>1, <2>2, <2>3, <2>4, <2>5 DEF SchedulerTypeOK
<1> QED
    BY <1>2, <1>3, <1>4, <1>5, <1>6, <1>7, <1>8 DEF SchedulerNext, Scheduler

\* The scheduler's state stays well formed.
THEOREM SchedulerTypeCorrect == SchedulerSpec => []SchedulerTypeOK
<1>1. SchedulerInv /\ [SchedulerNext]_schedulerVars => SchedulerInv'
    BY SchedulerStep
<1>2. SchedulerInv => SchedulerTypeOK
    BY DEF SchedulerInv
<1> QED
    BY SchedulerStart, <1>1, <1>2, PTL DEF SchedulerSpec

\* After a failed snapshot, trust returns only with RecoveryWindows consecutive valid ones, for
\* every configuration (report_resource_unavailable, evaluate).
THEOREM OutageRecoveryStaysSlow == SchedulerSpec => OutageRecoveryIsSlow
<1>1. SchedulerInv /\ [SchedulerNext]_schedulerVars => SchedulerInv'
    BY SchedulerStep
<1>2. SchedulerInv /\ [SchedulerNext]_schedulerVars
        => [~Trusted(governor) /\ Trusted(governor') => validRun' >= RecoveryWindows]_schedulerVars
    BY SchedulerStep
<1> QED
    BY SchedulerStart, <1>1, <1>2, PTL DEF SchedulerSpec, OutageRecoveryIsSlow

-----------------------------------------------------------------------------
(* The windows in which a catalog search is protected.                     *)

\* A catalog search that neither the hold nor a recovery can have outlived yet.
YoungSearch == search = "catalog" /\ elapsed < HoldWindows /\ elapsed < RecoveryWindows

\* Either what is left of the hold covers the rest of its windows, or an outage has begun a recovery
\* that is not older than the search.
SearchIsCovered ==
    YoungSearch =>
        /\ governor.mode \in {"Active", "Pressure"}
        /\ \/ governor.hold + elapsed >= HoldWindows
           \/ governor.recovering /\ governor.recoveryStreak <= elapsed

\* A report during a search keeps it covered.
LEMMA ReportKeepsCover ==
    ASSUME SchedulerInv, SearchIsCovered,
           NEW pressure \in Pressures, NEW idle \in BOOLEAN, ReportObservation(pressure, idle)
    PROVE  SearchIsCovered'
<1> DEFINE backlog == seen = "some"
           o == ResourceObservation(governor, backlog, pressure, idle)
<1>1. SafeGovernor(governor) /\ pressure \in Pressure /\ backlog \in BOOLEAN
    BY PressuresAssumption DEF SchedulerInv
<1>2. governor' = o /\ search' = search
    BY DEF ReportObservation, Report
<1> HIDE DEF backlog
<1>3. /\ o.hold = Decremented(governor.hold)
      /\ o.hold > 0 => o.mode \in {"Pressure", "Active"}
      /\ o.recovering
            <=> governor.recovering /\ ~(Incremented(governor.recoveryStreak) >= RecoveryWindows)
      /\ o.recovering => /\ o.mode = "Pressure"
                         /\ o.recoveryStreak = Incremented(governor.recoveryStreak)
    BY <1>1, ObservationFacts
<1> HIDE DEF o
<1>4. SUFFICES ASSUME YoungSearch'
               PROVE  /\ o.mode \in {"Active", "Pressure"}
                      /\ \/ o.hold + elapsed' >= HoldWindows
                         \/ o.recovering /\ o.recoveryStreak <= elapsed'
    BY <1>2 DEF SearchIsCovered
<1>5. /\ search = "catalog" /\ elapsed \in Nat /\ elapsed' = elapsed + 1
      /\ elapsed' < HoldWindows /\ elapsed' < RecoveryWindows
    BY <1>2, <1>4, SearchAssumption
    DEF YoungSearch, ReportObservation, TurnPasses, SchedulerInv, SchedulerTypeOK
<1>y. YoungSearch
    BY <1>5, WindowsAssumption DEF YoungSearch
<1>6. governor.hold \in 0..StreakLimit /\ governor.recoveryStreak \in 0..StreakLimit
    BY DEF SchedulerInv, SchedulerTypeOK, Governors
<1>7. CASE governor.hold + elapsed >= HoldWindows
    <2>1. o.hold \in 0..StreakLimit /\ o.hold >= governor.hold - 1
        BY <1>3, <1>6, Counters
    <2>2. o.hold + elapsed' >= HoldWindows
        BY <1>5, <1>6, <1>7, <2>1, WindowsAssumption
    <2>3. o.hold > 0
        BY <1>5, <2>1, <2>2, WindowsAssumption
    <2> QED
        BY <1>3, <2>2, <2>3
<1>8. CASE governor.recovering /\ governor.recoveryStreak <= elapsed
    <2>1. /\ Incremented(governor.recoveryStreak) \in 0..StreakLimit
          /\ Incremented(governor.recoveryStreak) <= governor.recoveryStreak + 1
        BY <1>6, Counters
    <2>2. Incremented(governor.recoveryStreak) <= elapsed'
        BY <1>5, <1>6, <1>8, <2>1, WindowsAssumption
    <2>3. ~(Incremented(governor.recoveryStreak) >= RecoveryWindows)
        BY <1>5, <2>1, <2>2, WindowsAssumption
    <2> QED
        BY <1>3, <1>8, <2>2, <2>3
<1> QED
    BY <1>y, <1>7, <1>8 DEF SearchIsCovered

\* Every step keeps a search covered.
LEMMA CoverStep ==
    ASSUME SchedulerInv, SearchIsCovered, [SchedulerNext]_schedulerVars
    PROVE  SearchIsCovered'
<1>1. /\ SafeGovernor(governor)
      /\ governor \in Governors
      /\ ("catalog" \in pending) \in BOOLEAN
      /\ elapsed \in Nat
      /\ governor.hold \in Nat
      /\ HoldWindows \in Nat
    BY SearchAssumption, WindowsAssumption DEF SchedulerInv, SchedulerTypeOK, Governors
<1>2. ASSUME NEW pressure \in Pressures, NEW idle \in BOOLEAN, ReportObservation(pressure, idle)
      PROVE  SearchIsCovered'
    BY <1>2, ReportKeepsCover
<1>3. CASE ReportOutage
    <2>1. governor' = ReportResourceUnavailable(governor) /\ search' = search /\ elapsed' \in Nat
        BY <1>1, <1>3 DEF ReportOutage, Report, TurnPasses
    <2>2. /\ governor'.recovering
          /\ governor'.recoveryStreak = 0
          /\ governor'.mode = "Pressure"
        BY <1>1, <2>1, UnavailableFacts
    <2> QED
        BY <2>1, <2>2 DEF SearchIsCovered
<1>4. CASE ReportNothing
    <2>1. governor' = governor /\ search' = search /\ elapsed' \in {0, elapsed + 1}
        BY <1>4 DEF ReportNothing, Report, TurnPasses
    <2>2. search = "catalog" => elapsed' = elapsed + 1
        BY <1>4 DEF ReportNothing, TurnPasses
    <2>3. governor.recoveryStreak \in Nat /\ RecoveryWindows \in Nat
        BY <1>1, WindowsAssumption DEF Governors
    <2>4. YoungSearch' => YoungSearch /\ elapsed' = elapsed + 1
        BY <1>1, <2>1, <2>2, <2>3 DEF YoungSearch
    <2> QED
        BY <1>1, <2>1, <2>3, <2>4 DEF SearchIsCovered
<1>5. CASE ReadBacklog \/ Observe \/ CheckBacklog \/ EndPass \/ OtherIngest
           \/ UNCHANGED schedulerVars
    <2>1. governor' = governor /\ search' = search /\ elapsed' = elapsed
        BY <1>5 DEF ReadBacklog, Observe, CheckBacklog, EndPass, OtherIngest, schedulerVars
    <2> QED
        BY <2>1 DEF SearchIsCovered, YoungSearch
<1>6. CASE AdmitCatalog \/ AdmitContent \/ AdmitStorage
    <2>1. /\ governor' \in {governor, ReportBacklog(governor, "catalog" \in pending)}
          /\ search' = search
          /\ elapsed' = elapsed
        BY <1>6 DEF AdmitCatalog, AdmitContent, AdmitStorage, Admit
    <2>2. CASE governor' = governor
        BY <2>1, <2>2 DEF SearchIsCovered, YoungSearch
    <2>3. CASE governor' = ReportBacklog(governor, "catalog" \in pending)
        <3>1. /\ governor'.hold = governor.hold
              /\ governor'.recovering = governor.recovering
              /\ BackgroundPaused(governor) => governor'.mode = governor.mode
              /\ ~Trusted(governor) => governor'.recoveryStreak = governor.recoveryStreak
            BY <1>1, <2>3, BacklogFacts
        <3>2. YoungSearch => BackgroundPaused(governor)
            BY DEF SearchIsCovered, BackgroundPaused
        <3>3. governor.recovering => ~Trusted(governor)
            BY DEF Trusted
        <3> QED
            BY <2>1, <3>1, <3>2, <3>3 DEF SearchIsCovered, YoungSearch
    <2> QED
        BY <2>1, <2>2, <2>3
<1>7. ASSUME NEW kind \in SearchKinds, BeginSearch(kind)
      PROVE  SearchIsCovered'
    <2>1. SUFFICES ASSUME kind = "catalog" PROVE SearchIsCovered'
        BY <1>7 DEF BeginSearch, SearchIsCovered, YoungSearch
    <2>2. elapsed' = 0 /\ governor' = HeldActive(governor)
        BY <1>7, <2>1 DEF BeginSearch
    <2>3. /\ governor'.hold = HoldWindows
          /\ Trusted(governor) => governor'.mode = "Active"
          /\ ~Trusted(governor) => governor'.mode = governor.mode
        BY <1>1, <2>2, HeldActiveFacts
    <2>4. ~Trusted(governor) => governor.mode = "Pressure"
        BY DEF Trusted, SchedulerInv, RecoveryIsCounted
    <2> QED
        BY <1>1, <2>2, <2>3, <2>4 DEF SearchIsCovered
<1>8. CASE EndSearch
    BY <1>8 DEF EndSearch, SearchIsCovered, YoungSearch
<1> QED
    BY <1>2, <1>3, <1>4, <1>5, <1>6, <1>7, <1>8 DEF SchedulerNext, Scheduler

\* A pass that starts was admitted by a governor that does not pause.
LEMMA PassIsAdmitted ==
    ASSUME [SchedulerNext]_schedulerVars, step' \in Passes, step \notin Passes
    PROVE  ~BackgroundPaused(governor') /\ search' = search /\ elapsed' = elapsed
<1>1. CASE AdmitCatalog \/ AdmitContent \/ AdmitStorage
    BY <1>1 DEF AdmitCatalog, AdmitContent, AdmitStorage, Admit, Passes
<1>2. CASE ReadBacklog \/ Observe \/ CheckBacklog \/ OtherIngest \/ UNCHANGED schedulerVars
    BY <1>2 DEF ReadBacklog, Observe, CheckBacklog, OtherIngest, Passes, schedulerVars
<1>3. CASE EndPass
    BY <1>3 DEF EndPass
<1>4. ASSUME NEW g, Report(g) PROVE FALSE
    BY <1>4 DEF Report, Passes
<1>5. CASE EndSearch \/ \E kind \in SearchKinds : BeginSearch(kind)
    BY <1>5 DEF EndSearch, BeginSearch
<1> QED
    BY <1>1, <1>2, <1>3, <1>4, <1>5
    DEF SchedulerNext, Scheduler, ReportObservation, ReportOutage, ReportNothing

\* Under every configuration, content searches and searches of any length included, no background
\* pass starts in the first windows of a catalog search, as many as the hold has or, if it has fewer,
\* the recovery, whatever outages, pressure and failures come in between
\* (begin_interactive_request, maintain_projection_inner).
THEOREM SearchesAreProtected == SchedulerSpec => NoPassStartsUnderHold
<1>1. SchedulerInit => SchedulerInv /\ SearchIsCovered
    BY SchedulerStart DEF SchedulerInit, SearchIsCovered, YoungSearch
<1>2. SchedulerInv /\ SearchIsCovered /\ [SchedulerNext]_schedulerVars
        => SchedulerInv' /\ SearchIsCovered'
    BY SchedulerStep, CoverStep
<1>3. SchedulerInv /\ SearchIsCovered /\ [SchedulerNext]_schedulerVars
        => [step' \in Passes /\ step \notin Passes /\ search = "catalog"
                => elapsed >= HoldWindows \/ elapsed >= RecoveryWindows]_schedulerVars
    <2> SUFFICES ASSUME SchedulerInv, SearchIsCovered, [SchedulerNext]_schedulerVars,
                        step' \in Passes, step \notin Passes, search = "catalog"
                 PROVE  elapsed >= HoldWindows \/ elapsed >= RecoveryWindows
        OBVIOUS
    <2>1. ~BackgroundPaused(governor') /\ search' = search /\ elapsed' = elapsed
        BY PassIsAdmitted
    <2>2. SearchIsCovered'
        BY CoverStep
    <2>3. ~YoungSearch
        BY <2>1, <2>2 DEF SearchIsCovered, YoungSearch, BackgroundPaused
    <2>4. elapsed \in Nat /\ HoldWindows \in Nat /\ RecoveryWindows \in Nat
        BY SearchAssumption, WindowsAssumption DEF SchedulerInv, SchedulerTypeOK
    <2> QED
        BY <2>3, <2>4 DEF YoungSearch
<1> QED
    BY <1>1, <1>2, <1>3, PTL DEF SchedulerSpec, NoPassStartsUnderHold

=============================================================================
