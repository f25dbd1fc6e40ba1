--------------------------- MODULE AgentScheduler ---------------------------
(***************************************************************************)
(* The background thread of the Agent (spawn_scheduler) and the thread     *)
(* that serves requests, sharing one ResourceGovernor behind its mutex.    *)
(*                                                                         *)
(* Each turn of the scheduler reads the backlog, reports one resource      *)
(* window, lets the observer ingest, and runs the catalog, content and     *)
(* storage passes, each of which asks the governor for itself.  The server *)
(* answers one request at a time.  What a pass does is abstracted to which *)
(* part of the backlog it may empty.                                       *)
(***************************************************************************)
EXTENDS ResourceGovernor

CONSTANTS
    SearchKinds,    \* the searches clients make: "catalog", "content"
    SearchWindows   \* bound: turns of the scheduler during one search

ASSUME SearchAssumption ==
    /\ SearchKinds \subseteq {"catalog", "content"}
    /\ SearchWindows \in Nat

VARIABLES
    pending,    \* the parts of the durable backlog that are not empty
    step,       \* where the scheduler thread is
    seen,       \* the backlog it read: "some", "none", "error"
    admitted,   \* the decision it keeps from its last report allows background work
    search,     \* the request being served: "none", "catalog", "content"
    elapsed,    \* turns of the scheduler since the search began
    validRun,   \* history: windows reported since the last failed snapshot, saturated
    calmRun     \* history: consecutive windows without pressure, saturated

schedulerVars == <<governor, pending, step, seen, admitted, search, elapsed, validRun, calmRun>>

\* "catalog": outbox rows and path refreshes the catalog has not seen; "other": content to
\* project, consumed outbox rows to prune, legacy payloads to compact.
Backlogs == {"catalog", "other"}

Passes == {"runCatalog", "runContent", "runStorage"}
Steps == {"backlog", "report", "observe", "check", "catalog", "content", "storage"} \cup Passes

SchedulerInit ==
    /\ GovernorInit
    /\ pending \in SUBSET Backlogs
    /\ step = "backlog"
    /\ seen = "none"
    /\ admitted = FALSE
    /\ search = "none"
    /\ elapsed = 0
    /\ validRun = 0
    /\ calmRun = 0

-----------------------------------------------------------------------------
(* The scheduler thread.                                                   *)

\* projection_backlog, read before the snapshot.
ReadBacklog ==
    /\ step = "backlog"
    /\ seen' \in {IF pending # {} THEN "some" ELSE "none", "error"}
    /\ step' = "report"
    /\ UNCHANGED <<governor, pending, admitted, search, elapsed, validRun, calmRun>>

\* The decision that a report returns is used for the observer and the delay.
Report(g) ==
    /\ step = "report"
    /\ governor' = g
    /\ admitted' = ~BackgroundPaused(g)
    /\ step' = "observe"
    /\ UNCHANGED <<pending, seen, search>>

TurnPasses ==
    /\ search = "none" \/ elapsed < SearchWindows
    /\ elapsed' = IF search = "none" THEN 0 ELSE elapsed + 1

\* report_resource_observation: three reports under one lock.
ResourceObservation(g, backlog, pressure, idle) ==
    ReportUserIdleDuration(ReportSystemPressure(ReportBacklog(g, backlog), pressure), idle)

ReportObservation(pressure, idle) ==
    /\ seen # "error"
    /\ Report(ResourceObservation(governor, seen = "some", pressure, idle))
    /\ TurnPasses
    /\ validRun' = Incremented(validRun)
    /\ calmRun' = IF IsPressured(pressure) THEN 0 ELSE Incremented(calmRun)

\* snapshot() failed.
ReportOutage ==
    /\ Report(ReportResourceUnavailable(governor))
    /\ TurnPasses
    /\ validRun' = 0
    /\ calmRun' = 0

\* The backlog could not be read: the decision is the one before.
ReportNothing ==
    /\ seen = "error"
    /\ Report(governor)
    /\ TurnPasses
    /\ UNCHANGED <<validRun, calmRun>>

\* BrokerObservationController::step may commit changes.
Observe ==
    /\ step = "observe"
    /\ \E committed \in SUBSET (IF admitted THEN Backlogs ELSE {}) :
            pending' = pending \cup committed
    /\ step' = "check"
    /\ UNCHANGED <<governor, seen, admitted, search, elapsed, validRun, calmRun>>

CheckBacklog ==
    /\ step = "check"
    /\ \/ step' = IF pending # {} THEN "catalog" ELSE "backlog"
       \/ step' = "backlog"  \* projection_backlog failed
    /\ UNCHANGED <<governor, pending, seen, admitted, search, elapsed, validRun, calmRun>>

\* Mutant: the passes rely on the decision of the report.
AdmitByReport(g, pass, next) ==
    /\ governor' = g
    /\ step' \in {IF admitted THEN pass ELSE next, "backlog"}
    /\ UNCHANGED <<pending, seen, admitted, search, elapsed, validRun, calmRun>>

\* A pass looks at the decision under the lock, before it starts.  An error ends the turn.
Admit(g, pass, next) ==
    /\ governor' = g
    /\ step' \in {IF BackgroundPaused(g) THEN next ELSE pass, "backlog"}
    /\ UNCHANGED <<pending, seen, admitted, search, elapsed, validRun, calmRun>>

\* maintain_projection_inner(false) reports the backlog of the catalog only.
AdmitCatalog ==
    /\ step = "catalog"
    /\ \/ Admit(ReportBacklog(governor, "catalog" \in pending), "runCatalog", "content")
       \/ /\ step' = "backlog"  \* the graph could not be read
          /\ UNCHANGED <<governor, pending, seen, admitted, search, elapsed, validRun, calmRun>>

AdmitContent == step = "content" /\ Admit(governor, "runContent", "storage")
AdmitStorage == step = "storage" /\ Admit(governor, "runStorage", "backlog")

\* What a pass may finish, and what it may leave for the others: rows the catalog has consumed
\* become rows to prune.
EmptiedBy(pass) == IF pass = "runCatalog" THEN {"catalog"} ELSE {"other"}
LeftBy(pass) == IF pass = "runStorage" THEN {} ELSE {"other"}

\* A pass ends, or fails and ends the turn.
EndPass ==
    /\ step \in Passes
    /\ \E emptied \in SUBSET EmptiedBy(step), left \in SUBSET LeftBy(step) :
            pending' = (pending \ emptied) \cup left
    /\ step' \in {[pass \in Passes |->
                    CASE pass = "runCatalog" -> "content"
                      [] pass = "runContent" -> "storage"
                      [] pass = "runStorage" -> "backlog"][step], "backlog"}
    /\ UNCHANGED <<governor, seen, admitted, search, elapsed, validRun, calmRun>>

-----------------------------------------------------------------------------
(* The request thread and other processes.                                 *)

\* search_impl announces itself; content_search_impl does not.
BeginSearch(kind) ==
    /\ search = "none"
    /\ search' = kind
    /\ elapsed' = 0
    /\ governor' = IF kind = "catalog" THEN HeldActive(governor) ELSE governor
    /\ UNCHANGED <<pending, step, seen, admitted, validRun, calmRun>>

\* A catalog search that succeeds reports its latency; one that fails reports nothing.
EndSearch ==
    /\ search # "none"
    /\ governor' \in {governor, IF search = "catalog" THEN HeldActive(governor) ELSE governor}
    /\ search' = "none"
    /\ elapsed' = 0
    /\ UNCHANGED <<pending, step, seen, admitted, validRun, calmRun>>

\* Another process commits to the graph.
OtherIngest ==
    /\ \E committed \in SUBSET Backlogs : pending' = pending \cup committed
    /\ UNCHANGED <<governor, step, seen, admitted, search, elapsed, validRun, calmRun>>

Scheduler ==
    \/ ReadBacklog
    \/ \E pressure \in Pressures, idle \in BOOLEAN : ReportObservation(pressure, idle)
    \/ ReportOutage \/ ReportNothing
    \/ Observe \/ CheckBacklog
    \/ AdmitCatalog \/ AdmitContent \/ AdmitStorage \/ EndPass

SchedulerNext ==
    \/ Scheduler
    \/ \E kind \in SearchKinds : BeginSearch(kind)
    \/ EndSearch
    \/ OtherIngest

SchedulerSpec == SchedulerInit /\ [][SchedulerNext]_schedulerVars

\* The thread loops until the process stops, and a request ends by its deadline.
FairScheduler ==
    SchedulerSpec /\ WF_schedulerVars(Scheduler) /\ WF_schedulerVars(EndSearch)

-----------------------------------------------------------------------------
(* Properties.                                                             *)

SchedulerTypeOK ==
    /\ governor \in Governors
    /\ pending \in SUBSET Backlogs
    /\ step \in Steps
    /\ seen \in {"some", "none", "error"}
    /\ admitted \in BOOLEAN
    /\ search \in {"none", "catalog", "content"}
    /\ elapsed \in 0..SearchWindows
    /\ validRun \in 0..StreakLimit
    /\ calmRun \in 0..StreakLimit

\* No catalog, content or storage pass is admitted in the windows that protect a catalog search: from
\* the announcement in search_impl, the search is under its hold or, when an outage has cleared the
\* hold, under the recovery from the outage.  A search that lasts longer, as its deadline lets it,
\* and a content search have no such protection.
NoPassStartsUnderHold ==
    [][step' \in Passes /\ step \notin Passes /\ search = "catalog"
        => elapsed >= HoldWindows \/ elapsed >= RecoveryWindows]_schedulerVars

\* "Foreground search pauses projection" (RESOURCE-GOVERNOR.md:121), for as long as it lasts.
NoPassStartsDuringSearch ==
    [][step' \in Passes /\ step \notin Passes => search = "none"]_schedulerVars

\* After a snapshot failed, background work resumes only when RecoveryWindows consecutive
\* snapshots have been reported, whatever searches and pressure come in between.
OutageRecoveryIsSlow ==
    [][~Trusted(governor) /\ Trusted(governor') => validRun' >= RecoveryWindows]_schedulerVars

\* Pressure is left for more work only after RecoveryWindows consecutive windows without it.
RelaxationIsEarned ==
    [][governor.mode = "Pressure" /\ governor'.mode \in {"Balanced", "IdleBoost"}
        => calmRun' >= RecoveryWindows]_schedulerVars

\* Elevated work is never admitted without an idle user and a backlog: both are given up in the
\* same critical section that learns otherwise.
BoostHasItsReasons ==
    governor.mode = "IdleBoost" => governor.userIdle /\ governor.backlog

\* Elevated work is admitted on external power only.
BoostHasPower == governor.mode = "IdleBoost" => governor.pressure.power = "Ac"

Healthy ==
    /\ governor.available
    /\ ~IsPressured(governor.pressure)
    /\ ~governor.pressure.saver
    /\ search = "none"
    /\ seen # "error"

\* Once searches end, snapshots arrive and show no pressure, background work is admitted for good.
ResumesWhenHealthy == <>[]Healthy => <>[]~BackgroundPaused(governor)

Inputs == <<governor.pressure, governor.available, governor.userIdle, search, seen>>

\* Once what the policy is told stops changing, so does the mode.
SteadyInputsSettle ==
    <>[][UNCHANGED <<Inputs, governor.backlog>>]_schedulerVars
        => <>[][UNCHANGED governor.mode]_schedulerVars

\* Steady conditions do not oscillate: once the machine, the user, the searches and the durable
\* backlog stop changing, so does the mode.
SteadyConditionsSettle ==
    <>[][UNCHANGED <<Inputs, pending>>]_schedulerVars
        => <>[][UNCHANGED governor.mode]_schedulerVars

=============================================================================
