# LocalSearch: TLA+ models, checks and proofs

LocalSearch keeps a durable graph of a machine's files in SQLite, projects it into disposable
Tantivy indexes, and answers searches from them. This directory holds TLA+ modules of the parts where
order, crashes and concurrency matter, TLC configurations for small instances, and TLAPS proofs
for all instances. `PROJECT.json` maps every definition to the lines it models.

## The system

| Part | Source | Talks to |
|---|---|---|
| USN provider | `crates/windows-fs` | reads a volume's journal or crawls it, emits filesystem events |
| Broker service, client | `crates/fs-service`, `broker-api`, `broker-client` | runs the provider in a privileged process; pages scans and changes over a pipe |
| Observation controller | `crates/agent/src/observation.rs` | one step at a time: scan page, incremental batch, or sweep, into the graph |
| Filesystem graph | `crates/filesystem-graph` | objects, links, desired documents, refresh jobs, outbox, consumer checkpoints |
| Catalog worker | `crates/catalog-index` | replays the outbox into a Tantivy generation, or rebuilds one |
| Content index | `crates/content-index` | a second consumer, with generations and a command line of its own |
| Agent | `crates/agent` | the scheduler thread that runs the above, the request thread that answers searches |
| Resource governor | `crates/resource-governor`, `windows-resources` | decides whether background work may run |
| Clients | `crates/local-transport`, `agent-api`, `desktop`, `mcp-adapter` | named pipe, wire contract, desktop window, MCP server |

The remaining crates (`substring-spike`, `catalog-spike`, `benchmark-data`, `ux-fixture`) are
experiments and measurement programs.

## Modules

| Module | Models | State |
|---|---|---|
| `ProjectionOutbox` | the projection half of `store.rs`: desired documents, outbox, consumer checkpoints, pruning | `desired`, `log`, `pruned`, `checkpoint`, `generation` |
| `CatalogProjector` | `ProjectionWorker::run`, `recover`, `rebuild`, statement by statement, composed with `ProjectionOutbox` | the locals of `run`, the committed and the staged documents, the generation directories |
| `FilesystemGraph` | the graph half of `store.rs` for one volume: batches, scans, sweeps, refresh jobs | committed rows `graph`, rows of the open transaction `work`, `documents`, `session`, `checkpoint`, `batch` |
| `ResourceGovernor` | every method of the governor, as functions from one governor to the next | `governor` |
| `AgentScheduler` | `spawn_scheduler` and the searches of the request thread around the governor's mutex | where the scheduler is, what it read, the search being served |
| `MC*` | instances for TLC | |
| `*Proofs` | theorems of the module they extend | |

**Grain.** One SQLite transaction is atomic, because other connections cannot see inside it; in
`FilesystemGraph` the mutations of a batch are nevertheless separate steps on `work`, so that an
error or crash in any of them (`Rollback`) is covered. A Tantivy commit is atomic. Between two
statements of the catalog worker, other processes may commit. Each lock section of the governor's mutex is
one step of `AgentScheduler`.

**Data.** A catalog document in `CatalogProjector` is the number of the transaction that wrote it;
in `FilesystemGraph` it is its object, path and availability. Names, metadata and snapshots are
members of small sets. Measurements in the governor are the side of the threshold they are on. Reason codes,
telemetry and budgets other than "paused" are left out.

**Writers during a rebuild.** `CatalogProjector` takes a constant `WritersDuringRebuild` that says
whether other processes commit while a generation is rebuilt. The code does not exclude it. The run
`projector` uses the quiet value and says nothing about the other, under which a property fails
(`rebuild_race`, `suppression_race`); the safety theorems need the quiet value.

**Neglected documents.** A transaction of `FilesystemGraph` writes the documents of the links it
touches. The documents below a directory that changed its place, and all documents of a volume that
changed its state, are left to the refresh jobs. The model restricts neither what a provider reports
nor when a snapshot arrives, and then the jobs do not reach everything. The history variable
`neglected` records each stale document that no job will reach together with the reason,
computed when a transaction leaves it behind:

| Cause | When | Shown by |
|---|---|---|
| `lateParent` | a directory gets its first link when its children are already linked | `child_first` |
| `secondPlace` | a directory has several links before or after the transaction; no path goes through it meanwhile | `second_place` |
| `movedInRefresh` | a directory moves while a job for it is past part of the links | `rename_twice` |
| `volumeUpserted` | a batch upserts a volume that was not online, without a refresh | `volume_upserted` |

`StaleDocumentsAreAccountedFor` states that a stale document is scheduled or neglected for one of these
causes, and `DocumentsConverge` that every document outside `neglected` converges. So an ordinary rename or
removal, a hard link, a re-creation, a volume transition, a crash or an abandoned scan never loses
a document by itself, nor does the sweep of a directory's only link. Each violation run removes one cause from the list and shows that the code does leave such
documents behind. The one `UpsertVolume` mutation outside a scan is the first of a snapshot
(`ingest_snapshot`) or of a batch of a folder workspace (`apply_scoped_batch`). A folder has a
volume identity of its own (`scoped_volume_id`) that never leaves `Online`, so `volumeUpserted`
comes from `ingest_snapshot` alone, which `ux-fixture` calls that way.

## Runs

Runs that pass:

| Run | Question | Instance |
|---|---|---|
| `projector` | does the checkpoint ever claim more than the active generation holds, and does the worker catch up? | 2 documents, 3 changes, 3 generations, 1 crash, 2 consumers, batches of 1 and 2, no writers during a rebuild |
| `graph_changes` | incremental batches and snapshots on a scanned volume; do documents converge? | root, directory at two places, file, hard link; batches of one mutation, refresh pages of one link |
| `graph_scan` | the first scan, and reconciliation after a journal gap | an empty store, or the same volume with the directory renamed in the gap under its old or a new link, and a file that took another's place; batches and refresh pages of 3, sweeps of 2 |
| `scheduler_safety` | scheduler and request thread interleaved around the governor | default windows, five observations, catalog and content searches of up to four windows against a hold of three |
| `scheduler_liveness` | does work resume, does the mode settle? | shorter windows (2/3/2/2), calm and critical memory |

Runs that end in a violation, each a disagreement between the code and a sentence of its docs or
comments, quoted under `findings`:

| Run | What happens |
|---|---|
| `rebuild_race` | a batch committed between a rebuild's last page and its read of the outbox position is acknowledged without being indexed |
| `suppression_race` | a rebuildable batch suppresses its history while a consumer is rebuilding and not yet registered |
| `rename_twice` | a directory that moves again during its refresh leaves descendants with the old path |
| `child_first` | a child committed before its directory is linked never gets a document |
| `second_place` | a directory renamed in a journal gap is scanned under a new link; its children lose their documents while it has two places, and the sweep of the old link brings none back |
| `volume_upserted` | a snapshot puts an offline volume online, and documents it does not touch stay offline |
| `boost_flaps` | with only content or storage work pending, boost and balanced alternate for ever |

Five more disagreements show after a small change to an existing configuration. They have no
run of their own; TLC reports each within seconds:

| Change | Property violated | What happens |
|---|---|---|
| `MCRebuildRace.cfg`, check | `ReplayIsContiguous` | rows after the position a rebuild registers at are already pruned (`docs/INDEX-CONSISTENCY.md:73`) |
| `MCAgentScheduler.cfg`, `Pressures <- CalmOnAc`, `SearchKinds = {"catalog"}`, check | `NoPassStartsDuringSearch` | a search outlasts its hold of three windows and a pass starts beside it (`docs/RESOURCE-GOVERNOR.md:121`) |
| `MCAgentScheduler.cfg`, `Pressures <- CalmOnAc`, `SearchKinds = {"content"}`, check | `NoPassStartsDuringSearch` | content searches do not announce themselves (same line) |
| `MCAgentScheduler.cfg`, `Pressures <- CalmOrCritical`, check | `RelaxationIsEarned` | critical memory does not restart the count of healthy windows (`resource-governor/src/lib.rs:157`) |
| `MCAgentScheduler.cfg`, `Pressures <- PowerUnknown`, check | `BoostHasPower` | boost goes on when the power source becomes unknown (`docs/RESOURCE-GOVERNOR.md:98`) |

**Bounds.** `MaxGeneration`, `MaxIndex`, `MaxCrashes`, `MaxBatch` and `SearchWindows` cap counters
in the guards. Three changes of two documents let a row be applied, pruned and replayed while another
is pending; page and sweep limits of one to three make full and short pages both occur; three levels
of path let a directory move above a file. The streak limit replaces 255 by a value above every
window. Graph runs may stop at the generation bound, so they do not check deadlock; the others do.

**Fairness.** `CatalogProjector`: while the governor admits work, the scheduler calls `run` again
after every return, so a worker that can step does (weak). `FilesystemGraph`: one thread alternates observation steps with
maintenance, which drains the refresh queues; batches come between refresh transactions and do not
displace them (strong fairness of the two refreshes, weak of ending a transaction).
`AgentScheduler`: the thread loops until the process stops, and a request ends by its deadline
(weak). No fairness is assumed of writers, users or failures.

## Proofs

For every value of the constants that satisfies the named assumptions:

| Module | Theorems | Inductive invariant |
|---|---|---|
| `CatalogProjectorProofs` | `TypeCorrect`; `AppliedIsIncluded` and `ReplayIsSafe` without writers during a rebuild | `IInv`: the four safety properties and `LocalsMeaning`, what each local of `run` stands for at each statement (the staged documents hold the mutations through `cursor`, a rebuild has paged all documents up to it). The properties alone say nothing of a batch that is half applied |
| `FilesystemGraphProofs` | `TypeCorrect`, `LinksStayLive`, `DocumentsStayMatched`, `ScanMarkerStaysOwned`, `ActivationStaysExact` | the properties for the committed and for the transaction's rows, which links a batch has touched, and for each phase of a scan which stamps the rows carry: while links are swept, a link stamped by the scan is an observed one; once objects are swept every link left is an observed one |
| `AgentSchedulerProofs` | `GovernorTypeCorrect`, `UnsafeIsPaused`, `SchedulerTypeCorrect`, `OutageRecoveryStaysSlow`, `SearchesAreProtected` | `SafeGovernor`, one lemma per method; `RecoveryIsCounted`: a recovery's streak never runs ahead of the snapshots reported; `SearchIsCovered`: a catalog search younger than the hold and the recovery is covered by what is left of the hold, or by a recovery that is not older than the search |

Only model-checked: liveness (`EventuallyCaughtUp`, `DocumentsConverge`, `ResumesWhenHealthy`,
`SteadyInputsSettle`), which is beyond the prover; `StaleDocumentsAreAccountedFor`, which depends on
what path resolution, a recursion over the links, computes; `BoostHasItsReasons`.
`GovernorTypeCorrect` and `UnsafeIsPaused` are about any order of the governor's methods
(`GovernorSpec`), the runs about the orders in which the Agent's threads call them.

## Not modelled, and the plan

In this order:

1. **Observation and broker**: the controller's own state (active scan, discovery, round robin),
   scan workers behind bounded queues, paging, cancellation, the limit on active scans, request
   identities and the replay window; restarts of either process. Properties: no scan slot is lost,
   every page reaches the graph once or the scan is restarted, observation resumes after a restart.
2. **USN provider**: the crawl that races with changes, the journal cursor, rename pairing.
   Composed with `FilesystemGraph` it decides which of the causes of neglect a provider really
   produces.
3. **Content generations**: build, activate, recover, collect, with a crash between any two file
   writes; the durable projection; the command line's reset and compaction beside a running Agent.
4. **Searchable view**: an abstract specification of what searches may see of the graph,
   implemented by `CatalogProjector` and the Agent's cached reader.
5. **Clients**: pipe transport (deadline, disconnect, answer), the desktop client's superseded
   searches, the MCP handshake.
6. **More proofs**: typing and safety of 1 to 3, the refinement of 4, and `BoostHasItsReasons`.

Without state, or only an operating-system interface, and therefore left out: the API contract and
core types, the resource counters, the service wrapper, the spikes, benchmarks and fixtures.
Legacy payload compaction, statistics and the integrity audit of the store change nothing the
models see.
