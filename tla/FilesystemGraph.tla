--------------------------- MODULE FilesystemGraph ---------------------------
(***************************************************************************)
(* The graph half of the SQLite store of crates/filesystem-graph, for one  *)
(* volume: file objects, the namespace links that name them, the catalog   *)
(* documents derived from both, the durable queues that refresh documents  *)
(* after a directory or the whole volume changed, and the observation scan *)
(* session that replaces the contents of a volume page by page.            *)
(*                                                                         *)
(* A batch is a SQLite transaction: `work' holds the rows the transaction  *)
(* has written, `graph' the committed ones, and Rollback is both the error *)
(* return of a mutation and a crash.  The other operations are one         *)
(* transaction each.  What projection consumers see of a document change   *)
(* is the subject of ProjectionOutbox.                                     *)
(***************************************************************************)
EXTENDS Integers, Sequences, FiniteSets

CONSTANTS
    Objects,       \* file_id values, positive integers (their SQL order)
    Directories,   \* the objects of kind Directory
    Links,         \* file_link_id values, positive integers (their SQL order)
    Names,         \* link names
    Metas,         \* what a document shows of its object: size, times, hidden, availability
    ObjectSnapshots, \* the object observations the providers can make
    Snapshots,     \* the link observations the providers can make
    Callers,       \* which kinds of batches are applied: "changes", "snapshot", "page"
    DepthLimit,    \* depth limit of path resolution (512 in build_catalog_document)
    RefreshLimit,  \* maximum_links of one refresh transaction
    SweepLimit,    \* maximum_rows of one finalization transaction
    MaxBatch,      \* bound: mutations in one batch
    MaxGeneration  \* bound: generations of the volume in one behaviour

Root == 0  \* parent_key of a link at the provider root

\* The changes that leave documents stale with no job to refresh them, see Neglects.
Causes == {
    "lateParent",     \* a directory gets its first link after links that name it as their parent
    "secondPlace",    \* a directory is, or was, linked at two places
    "movedInRefresh", \* a directory changes its place while its path refresh is under way
             \* a scan removes or replaces the only link of a directory
    "volumeUpserted"  \* a volume that was not online is upserted
}

ASSUME IdentityAssumption ==
    /\ Objects \subseteq Nat \ {Root}
    /\ Links \subseteq Nat \ {0}
    /\ IsFiniteSet(Links)
    /\ IsFiniteSet(Objects)
ASSUME SnapshotsAssumption ==
    /\ Snapshots \subseteq [id : Links, object : Objects, parent : Objects \cup {Root},
                            name : Names, boundary : BOOLEAN]
    /\ ObjectSnapshots \subseteq [object : Objects, meta : Metas]
    /\ Directories \subseteq Objects
    /\ Callers \subseteq {"changes", "snapshot", "page"}
ASSUME LimitsAssumption ==
    /\ DepthLimit \in Nat \ {0}
    /\ RefreshLimit \in Nat \ {0}
    /\ SweepLimit \in Nat \ {0}
    /\ MaxBatch \in Nat
    /\ MaxGeneration \in Nat

VARIABLES
    generation, \* graph_volumes.generation
    graph,      \* the committed rows, see Rows
    documents,  \* graph_catalog_documents: link -> document, without the version
    session,    \* graph_volume_observation_sessions: [phase, scan]
    checkpoint, \* graph_provider_checkpoints: whose position the volume's checkpoint is
    work,       \* the rows as the open transaction sees them
    batch,      \* the open transaction: [kind, size, affected, seen]
    observed,   \* history: the links the pages of the running scan have observed
    neglected   \* history: the stale documents that no job will reach, and why: [cause, link]

vars == <<generation, graph, documents, session, checkpoint, work, batch, observed, neglected>>

-----------------------------------------------------------------------------
(* The tables.                                                             *)

ObjectRow == [meta : Metas, tombstoned : BOOLEAN, seenAt : Nat]
LinkRow == [object : Objects, parent : Objects \cup {Root}, name : Names,
            boundary : BOOLEAN, seenAt : Nat]
Availabilities == {"own", "Offline", "Unknown"}
VolumeStates == {"Online", "Offline", "NeedsReconciliation"}

\* A table is a function whose domain holds the keys of its rows.
IsTable(table, Keys, Row) == DOMAIN table \subseteq Keys /\ table \in [DOMAIN table -> Row]
Put(table, key, row) ==
    [k \in DOMAIN table \cup {key} |-> IF k = key THEN row ELSE table[k]]
Delete(table, keys) == [k \in DOMAIN table \ keys |-> table[k]]

\* pathJobs: the pending graph_path_refresh_jobs in job_id order.  volumeJob: the cursor of the
\* pending graph_volume_projection_refresh_jobs row, or NoJob.
NoJob == -1
NoVolume == "absent"

NoSession == [phase |-> "none", scan |-> 0]
NoBatch == [kind |-> "none", size |-> 0, affected |-> {}, seen |-> {}]

EmptyTable == [k \in {} |-> 0]
NoRows == [state |-> NoVolume, objects |-> EmptyTable, links |-> EmptyTable,
           pathJobs |-> <<>>, volumeJob |-> NoJob]

LinksOf(rows, object) == {l \in DOMAIN rows.links : rows.links[l].object = object}

Init ==
    /\ generation = 0
    /\ graph = NoRows
    /\ documents = EmptyTable
    /\ session = NoSession
    /\ checkpoint = "none"
    /\ work = NoRows
    /\ batch = NoBatch
    /\ observed = {}
    /\ neglected = {}

-----------------------------------------------------------------------------
(* Documents: a pure function of the rows.                                 *)

Unresolved == <<>>

\* resolve_path_connection climbs from a link to the root.  It gives up at a parent with no link
\* or several (load_only_link_for_object), at a traversal boundary above the target, at the depth
\* limit, and so in a cycle, which it also detects.
ResolvePath(rows, link) ==
    LET Only(object) == CHOOSE u \in LinksOf(rows, object) : TRUE
        Passable(object) == /\ Cardinality(LinksOf(rows, object)) = 1
                            /\ ~rows.links[Only(object)].boundary
        walk[depth \in 0..DepthLimit, l \in DOMAIN rows.links] ==
            LET row == rows.links[l]
                above == IF depth > 0 /\ row.parent # Root /\ Passable(row.parent)
                         THEN walk[depth - 1, Only(row.parent)]
                         ELSE Unresolved
            IN  IF depth > 0 /\ (row.parent = Root \/ above # Unresolved)
                THEN Append(above, row.name)
                ELSE Unresolved
    IN  walk[DepthLimit, link]

EffectiveAvailability(state) ==
    CASE state = "Online" -> "own"
      [] state = "Offline" -> "Offline"
      [] OTHER -> "Unknown"

BuildCatalogDocument(rows, l) ==
    [object |-> rows.links[l].object,
     path |-> ResolvePath(rows, l),
     meta |-> rows.objects[rows.links[l].object].meta,
     availability |-> EffectiveAvailability(rows.state)]

\* load_object_metadata finds no row: the one error of build_catalog_document that aborts the
\* transaction instead of deleting the document.
MetadataMissing(rows, l) ==
    /\ l \in DOMAIN rows.links
    /\ \/ rows.links[l].object \notin DOMAIN rows.objects
       \/ rows.objects[rows.links[l].object].tombstoned

HasDocument(rows, l) == l \in DOMAIN rows.links /\ ResolvePath(rows, l) # Unresolved

\* sync_catalog_projection for every link of a set: write the document, or delete it when its
\* link is gone or has no path.
SyncCatalogProjection(rows, docs, links) ==
    [l \in (DOMAIN docs \ links) \cup {k \in links : HasDocument(rows, k)} |->
        IF l \in links THEN BuildCatalogDocument(rows, l) ELSE docs[l]]

-----------------------------------------------------------------------------
(* Mutations of the rows inside a transaction.                             *)

\* Mutant: the unique index of pending jobs per directory is not consulted.
EnqueueRefreshAgain(rows, object) ==
    [rows EXCEPT !.pathJobs = Append(@, [root |-> object, cursor |-> 0])]

\* Mutant: any pending job is taken for the directory's own.
EnqueueRefreshUnlessBusy(rows, object) ==
    IF rows.pathJobs # <<>>
    THEN rows
    ELSE [rows EXCEPT !.pathJobs = Append(@, [root |-> object, cursor |-> 0])]

\* INSERT OR IGNORE: a pending job of the directory stays as it is, its cursor included.
EnqueueRefresh(rows, object) ==
    IF \E i \in DOMAIN rows.pathJobs : rows.pathJobs[i].root = object
    THEN rows
    ELSE [rows EXCEPT !.pathJobs = Append(@, [root |-> object, cursor |-> 0])]

\* Mutant: a pending job keeps its cursor.
EnqueueVolumeRefreshKeepingCursor(rows) ==
    [rows EXCEPT !.volumeJob = IF @ = NoJob THEN 0 ELSE @]

\* A pending or completed job restarts from the beginning.
EnqueueVolumeProjectionRefresh(rows) == [rows EXCEPT !.volumeJob = 0]

SetVolumeState(rows, state) ==
    EnqueueVolumeProjectionRefresh([rows EXCEPT !.state = state])

\* upsert_volume does not enqueue a refresh.
UpsertVolume(rows) == [rows EXCEPT !.state = "Online"]

UpsertObject(rows, object, meta, seenAt) ==
    [rows EXCEPT !.objects =
        Put(@, object, [meta |-> meta, tombstoned |-> FALSE, seenAt |-> seenAt])]

\* Mutant: the other hard links of the object are not counted.
RemoveLinksAndObjects(rows, gone) ==
    [rows EXCEPT
        !.links = Delete(rows.links, gone),
        !.objects = [o \in DOMAIN rows.objects |->
            [rows.objects[o] EXCEPT !.tombstoned = @ \/ LinksOf(rows, o) \cap gone # {}]]]

\* remove_link_internal without the refresh, for a set of links: an object that loses its last
\* link is tombstoned.
RemoveLinks(rows, gone) ==
    [rows EXCEPT
        !.links = Delete(rows.links, gone),
        !.objects = [o \in DOMAIN rows.objects |->
            [rows.objects[o] EXCEPT !.tombstoned =
                @ \/ (LinksOf(rows, o) # {} /\ LinksOf(rows, o) \subseteq gone)]]]

RemoveLink(rows, link, object) ==
    IF link \notin DOMAIN rows.links
    THEN rows
    ELSE LET kept == RemoveLinks(rows, {link})
         IN  IF object \in Directories THEN EnqueueRefresh(kept, object) ELSE kept
RemoveLinkAccepted(rows, link, object) ==
    link \in DOMAIN rows.links => rows.links[link].object = object

TombstoneObject(rows, object) == [rows EXCEPT !.objects[object].tombstoned = TRUE]
TombstoneAccepted(rows, object) ==
    object \in DOMAIN rows.objects /\ LinksOf(rows, object) = {}

\* stale_observation_link_conflicts: while a scan runs, the links it has not observed that hold
\* the identity or the name of an observed one.
StaleConflicts(rows, s) ==
    {l \in DOMAIN rows.links :
        /\ session.phase = "Scanning"
        /\ rows.links[l].seenAt < session.scan
        /\ IF l = s.id
           THEN rows.links[l].object # s.object
           ELSE rows.links[l].parent = s.parent /\ rows.links[l].name = s.name}

WithoutConflicts(rows, s) == RemoveLinks(rows, StaleConflicts(rows, s))

\* The object must have a row; a link identity keeps its object; names are unique in a directory.
UpsertLinkAccepted(rows, s) ==
    LET links == WithoutConflicts(rows, s).links
    IN  /\ s.object \in DOMAIN rows.objects
        /\ s.id \in DOMAIN links => links[s.id].object = s.object
        /\ \A l \in DOMAIN links \ {s.id} :
                links[l].parent # s.parent \/ links[l].name # s.name

\* An existing link takes another place.
Moves(rows, s) ==
    /\ s.id \in DOMAIN rows.links
    /\ rows.links[s.id].parent # s.parent \/ rows.links[s.id].name # s.name

UpsertLink(rows, s, seenAt) ==
    LET kept == WithoutConflicts(rows, s)
        queued == IF Moves(kept, s) /\ s.object \in Directories
                  THEN EnqueueRefresh(kept, s.object)
                  ELSE kept
    IN  [queued EXCEPT
            !.links = Put(@, s.id, [object |-> s.object, parent |-> s.parent, name |-> s.name,
                                    boundary |-> s.boundary, seenAt |-> seenAt]),
            !.objects[s.object].tombstoned = FALSE]

-----------------------------------------------------------------------------
(* The history of neglected documents.  A transaction writes the documents *)
(* of the links it touches; those below a directory that changed its place *)
(* and those of a volume that changed its state are left to the jobs.      *)

\* What sync_catalog_projection would leave for the link is what is there.
FreshIn(rows, docs, l) ==
    IF HasDocument(rows, l)
    THEN l \in DOMAIN docs /\ docs[l] = BuildCatalogDocument(rows, l)
    ELSE l \notin DOMAIN docs

\* The refresh queues still reach the link.
ScheduledIn(rows, docs, l) ==
    \/ \E i \in DOMAIN rows.pathJobs : rows.pathJobs[i].cursor < l
    \/ rows.volumeJob # NoJob /\ rows.volumeJob < l /\ l \in DOMAIN docs

\* The links whose paths go through the directory.
Below(rows, directory) ==
    LET Children(objects) == {l \in DOMAIN rows.links : rows.links[l].parent \in objects}
        reached[depth \in 0..DepthLimit] ==
            IF depth = 0
            THEN {directory}
            ELSE LET above == reached[depth - 1]
                 IN  above \cup {rows.links[l].object : l \in Children(above)}
    IN  Children(reached[DepthLimit])

PlacesOf(rows, object) ==
    {<<rows.links[l].parent, rows.links[l].name>> : l \in LinksOf(rows, object)}

\* A transaction that leaves these rows gives the directory other places for this cause.  Renaming,
\* removing or sweeping the one link of a directory is no cause.
MovesFor(cause, rows, directory) ==
    LET was == LinksOf(graph, directory)
        is == LinksOf(rows, directory)
        second == Cardinality(was) > 1 \/ Cardinality(is) > 1
    IN  /\ PlacesOf(graph, directory) # PlacesOf(rows, directory)
        /\ \/ cause = "secondPlace" /\ second
           \/ cause = "lateParent" /\ was = {}
           \/ /\ cause = "movedInRefresh"
              /\ \E i \in DOMAIN rows.pathJobs :
                    rows.pathJobs[i].root = directory /\ rows.pathJobs[i].cursor > 0

\* A batch brings the volume back, and only the availability of the document says otherwise.
UpsertedAround(rows, docs, l) ==
    /\ batch # NoBatch
    /\ graph.state # "Online" /\ rows.state = "Online"
    /\ l \in DOMAIN docs
    /\ docs[l] = [BuildCatalogDocument(rows, l) EXCEPT !.availability = docs[l].availability]

\* The transaction that leaves these rows and documents leaves this document stale for this cause.
Neglects(cause, rows, docs, l) ==
    \/ \E d \in Directories : l \in Below(rows, d) /\ MovesFor(cause, rows, d)
    \/ cause = "volumeUpserted" /\ UpsertedAround(rows, docs, l)

\* The neglected documents after a transaction that leaves these rows and documents.
NeglectedAfter(rows, docs) ==
    LET left == {l \in DOMAIN rows.links : ~ScheduledIn(rows, docs, l) /\ ~FreshIn(rows, docs, l)}
    IN  {n \in [cause : Causes, link : left] :
            n \in neglected \/ Neglects(n.cause, rows, docs, n.link)}

-----------------------------------------------------------------------------
(* apply_batch: incremental changes, or one page of the running scan.      *)

Idle == batch = NoBatch

\* The Agent handles a session before it reads changes, reads them after a checkpoint, and reads none
\* while the volume needs reconciliation.
BeginChanges ==
    /\ "changes" \in Callers
    /\ Idle
    /\ session = NoSession
    /\ checkpoint # "none"
    /\ graph.state # "NeedsReconciliation"
    /\ generation < MaxGeneration
    /\ batch' = [NoBatch EXCEPT !.kind = "changes"]
    /\ UNCHANGED <<generation, graph, documents, session, checkpoint, work, observed, neglected>>

\* ingest_snapshot and the batches of a folder workspace (apply_scoped_batch): whatever the state of
\* the volume, the first mutation upserts it.  A folder has a volume identity of its own
\* (scoped_volume_id) and so no session.
BeginSnapshot ==
    /\ "snapshot" \in Callers
    /\ Idle
    /\ session = NoSession
    /\ generation < MaxGeneration
    /\ work' = UpsertVolume(graph)
    /\ batch' = [NoBatch EXCEPT !.kind = "changes"]
    /\ UNCHANGED <<generation, graph, documents, session, checkpoint, observed, neglected>>

\* apply_observation_scan_page; a page without events opens no transaction.
BeginPage ==
    /\ "page" \in Callers
    /\ Idle
    /\ session.phase = "Scanning"
    /\ generation < MaxGeneration
    /\ batch' = [NoBatch EXCEPT !.kind = "page"]
    /\ UNCHANGED <<generation, graph, documents, session, checkpoint, work, observed, neglected>>

\* One iteration of the mutation loop: collect_affected_links, then apply_mutation.
Mutate(rows, links, seen) ==
    /\ batch.size < MaxBatch
    /\ work' = rows
    /\ batch' = [batch EXCEPT !.size = @ + 1, !.affected = @ \cup links, !.seen = @ \cup seen]
    /\ UNCHANGED <<generation, graph, documents, session, checkpoint, observed, neglected>>

\* Mutant: the links that make room for the observed one are forgotten.
LinksAffectedByLinkOnly(rows, s) == {s.id}

LinksAffectedByLink(rows, s) == {s.id} \cup StaleConflicts(rows, s)
LinksAffectedByTombstone(rows, object) ==
    LinksOf(rows, object) \cup {l \in DOMAIN documents : documents[l].object = object}

ObserveObject(s) ==
    /\ batch.kind \in {"changes", "page"}
    /\ Mutate(UpsertObject(work, s.object, s.meta, generation + 1), LinksOf(work, s.object), {})

ObserveLink(s) ==
    /\ batch.kind \in {"changes", "page"}
    /\ UpsertLinkAccepted(work, s)
    /\ Mutate(UpsertLink(work, s, generation + 1), LinksAffectedByLink(work, s), {s.id})

LinkRemoved(link, object) ==
    /\ batch.kind = "changes"
    /\ RemoveLinkAccepted(work, link, object)
    /\ Mutate(RemoveLink(work, link, object), {link}, {})

ObjectRemoved(object) ==
    /\ batch.kind = "changes"
    /\ TombstoneAccepted(work, object)
    /\ Mutate(TombstoneObject(work, object), LinksAffectedByTombstone(work, object), {})

\* SetVolumeState and RequireReconciliation
VolumeChanged(state) ==
    /\ batch.kind = "changes"
    /\ work.state # NoVolume
    /\ Mutate(SetVolumeState(work, state), {}, {})

\* The affected documents, the rows, the generation and the checkpoint commit together.
Commit ==
    /\ ~Idle
    /\ batch.kind = "page" => batch.size > 0
    /\ work.state # NoVolume
    /\ \A l \in batch.affected : ~MetadataMissing(work, l)
    /\ generation' = generation + 1
    /\ graph' = work
    /\ documents' = SyncCatalogProjection(work, documents, batch.affected)
    /\ neglected' = NeglectedAfter(work, documents')
    /\ checkpoint' = IF batch.kind = "page" THEN "scanMarker" ELSE "provider"
    /\ observed' = IF batch.kind = "page" THEN observed \cup batch.seen ELSE observed
    /\ batch' = NoBatch
    /\ UNCHANGED <<session, work>>

\* A mutation is refused, a statement fails, or the process dies.
Rollback ==
    /\ ~Idle
    /\ work' = graph
    /\ batch' = NoBatch
    /\ UNCHANGED <<generation, graph, documents, session, checkpoint, observed, neglected>>

-----------------------------------------------------------------------------
(* The observation scan session.                                           *)

\* A single-transaction operation leaves rows and documents behind and sees no batch of another.
Write(rows, docs) ==
    /\ Idle
    /\ graph' = rows
    /\ work' = rows
    /\ documents' = docs
    /\ neglected' = NeglectedAfter(rows, docs)
    /\ UNCHANGED batch

\* Mutant: a session that is already there keeps the generation of its first scan.
ScanGenerationOfFirstScan ==
    IF session.phase = "Scanning" THEN session.scan ELSE generation + 1

ScanGeneration == generation + 1

\* begin_observation_scan, which supersedes the scan of a session that never completed.
BeginObservationScan ==
    /\ \/ session.phase = "Scanning"
       \/ session = NoSession /\ checkpoint = "none"
       \/ session = NoSession /\ graph.state = "NeedsReconciliation"
    /\ generation < MaxGeneration
    /\ Write(SetVolumeState(UpsertVolume(graph), "NeedsReconciliation"), documents)
    /\ generation' = generation + 1
    /\ session' = [phase |-> "Scanning", scan |-> ScanGeneration]
    /\ observed' = {}
    /\ UNCHANGED checkpoint

\* The last page of the broker scan carries the provider checkpoint.
StageObservationCheckpoint ==
    /\ Idle
    /\ session.phase = "Scanning"
    /\ session' = [session EXCEPT !.phase = "SweepingLinks"]
    /\ UNCHANGED <<generation, graph, documents, checkpoint, work, batch, observed, neglected>>

\* The first `limit' keys of a set in SQL order: ORDER BY seenAt, key LIMIT limit.
Earlier(table, k, l) ==
    \/ table[k].seenAt < table[l].seenAt
    \/ table[k].seenAt = table[l].seenAt /\ k < l
OldestRows(table, keys, limit) ==
    {l \in keys : Cardinality({k \in keys : Earlier(table, k, l)}) < limit}

StaleLinks == {l \in DOMAIN graph.links : graph.links[l].seenAt < session.scan}
\* Mutant: an object is stale although the scan observed a link of it.
StaleObjectsLinkedOrNot ==
    {o \in DOMAIN graph.objects :
        ~graph.objects[o].tombstoned /\ graph.objects[o].seenAt < session.scan}

StaleObjects ==
    {o \in DOMAIN graph.objects :
        /\ ~graph.objects[o].tombstoned
        /\ graph.objects[o].seenAt < session.scan
        /\ LinksOf(graph, o) = {}}

\* Mutant: a page that takes all but one stale row ends the phase too.
SweepIsAlmostShort(stale) == Cardinality(stale) <= SweepLimit + 1

\* The query returned fewer rows than its limit: nothing stale is left after this page.
SweepIsShort(stale) == Cardinality(stale) < SweepLimit

\* finalize_observation_scan, phase 1
SweepStaleLinks ==
    LET page == OldestRows(graph.links, StaleLinks, SweepLimit)
        rows == RemoveLinks(graph, page)
    IN  /\ session.phase = "SweepingLinks"
        /\ generation < MaxGeneration
        /\ Write(rows, SyncCatalogProjection(rows, documents, page))
        /\ session' = IF SweepIsShort(StaleLinks)
                      THEN [session EXCEPT !.phase = "SweepingObjects"]
                      ELSE session
        /\ generation' = generation + 1
        /\ UNCHANGED <<checkpoint, observed>>

TombstoneObjects(rows, gone) ==
    [rows EXCEPT !.objects = [o \in DOMAIN rows.objects |->
        [rows.objects[o] EXCEPT !.tombstoned = @ \/ o \in gone]]]

\* Mutant: the staged checkpoint is not written.
CheckpointLeftBehind == checkpoint' = checkpoint

\* activate_observation_checkpoint: the staged checkpoint becomes the volume's.
ActivateCheckpoint == checkpoint' = "provider"

\* finalize_observation_scan, phase 2; the terminal page activates the checkpoint.
SweepStaleObjects ==
    LET page == OldestRows(graph.objects, StaleObjects, SweepLimit)
        rows == TombstoneObjects(graph, page)
    IN  /\ session.phase = "SweepingObjects"
        /\ generation < MaxGeneration
        /\ generation' = generation + 1
        /\ UNCHANGED observed
        /\ \/ /\ SweepIsShort(StaleObjects)
              /\ Write(SetVolumeState(rows, "Online"), documents)
              /\ ActivateCheckpoint
              /\ session' = NoSession
           \/ /\ ~SweepIsShort(StaleObjects)
              /\ Write(rows, documents)
              /\ UNCHANGED <<checkpoint, session>>

-----------------------------------------------------------------------------
(* The durable refresh queues.                                             *)

\* Mutant: the link at the cursor is read again.
PageFrom(links, cursor) ==
    {l \in links : l >= cursor /\
        Cardinality({k \in links : cursor <= k /\ k <= l}) <= RefreshLimit}

\* "WHERE file_link_id > cursor ORDER BY file_link_id LIMIT RefreshLimit"
PageAfter(links, cursor) ==
    {l \in links : l > cursor /\
        Cardinality({k \in links : cursor < k /\ k <= l}) <= RefreshLimit}

\* The last link of a page that reached the limit; a shorter page completes its job.
EndsFullPage(page, l) ==
    /\ Cardinality(page) >= RefreshLimit
    /\ l \in page
    /\ \A k \in page : k <= l
IsShortPage(page) == Cardinality(page) < RefreshLimit

\* refresh_projection_paths: one page over all links, for the oldest pending job.
RefreshProjectionPaths ==
    LET page == PageAfter(DOMAIN graph.links, Head(graph.pathJobs).cursor)
        docs == SyncCatalogProjection(graph, documents, page)
    IN  /\ graph.pathJobs # <<>>
        /\ \A l \in page : ~MetadataMissing(graph, l)
        /\ \/ \E l \in Links :
                /\ EndsFullPage(page, l)
                /\ Write([graph EXCEPT !.pathJobs[1].cursor = l], docs)
           \/ IsShortPage(page) /\ Write([graph EXCEPT !.pathJobs = Tail(@)], docs)
        /\ UNCHANGED <<generation, session, checkpoint, observed>>

\* refresh_volume_projection: one page over the existing documents.
RefreshVolumeProjection ==
    LET page == PageAfter(DOMAIN documents, graph.volumeJob)
        docs == SyncCatalogProjection(graph, documents, page)
    IN  /\ graph.volumeJob # NoJob
        /\ \A l \in page : ~MetadataMissing(graph, l)
        /\ \/ \E l \in Links :
                /\ EndsFullPage(page, l)
                /\ Write([graph EXCEPT !.volumeJob = l], docs)
           \/ IsShortPage(page) /\ Write([graph EXCEPT !.volumeJob = NoJob], docs)
        /\ UNCHANGED <<generation, session, checkpoint, observed>>

-----------------------------------------------------------------------------

Mutation ==
    \/ \E s \in ObjectSnapshots : ObserveObject(s)
    \/ \E s \in Snapshots : ObserveLink(s)
    \/ \E s \in Snapshots : LinkRemoved(s.id, s.object)
    \/ \E o \in Objects : ObjectRemoved(o)
    \/ \E state \in VolumeStates : VolumeChanged(state)

Next ==
    \/ BeginChanges \/ BeginSnapshot \/ BeginPage \/ Mutation \/ Commit \/ Rollback
    \/ BeginObservationScan \/ StageObservationCheckpoint
    \/ SweepStaleLinks \/ SweepStaleObjects
    \/ RefreshProjectionPaths \/ RefreshVolumeProjection

Spec == Init /\ [][Next]_vars

\* One thread of the Agent alternates observation steps and maintenance, which runs the refresh
\* queues until they are empty or its budget is spent (maintain_projection_inner): batches, even
\* ones that keep failing, come between refresh transactions but do not displace them.
Fairness ==
    /\ SF_vars(RefreshProjectionPaths)
    /\ SF_vars(RefreshVolumeProjection)
    /\ WF_vars(Commit \/ Rollback)

FairSpec == Spec /\ Fairness

-----------------------------------------------------------------------------
(* Properties.                                                             *)

RowsTypeOK(rows) ==
    /\ rows = [state |-> rows.state, objects |-> rows.objects, links |-> rows.links,
                pathJobs |-> rows.pathJobs, volumeJob |-> rows.volumeJob]
    /\ rows.state \in VolumeStates \cup {NoVolume}
    /\ IsTable(rows.objects, Objects, ObjectRow)
    /\ IsTable(rows.links, Links, LinkRow)
    /\ rows.pathJobs \in Seq([root : Directories, cursor : Nat])
    /\ rows.volumeJob \in Int
    /\ \A l, k \in DOMAIN rows.links :
            /\ rows.links[l].parent = rows.links[k].parent
            /\ rows.links[l].name = rows.links[k].name
            => l = k
    /\ \A i, j \in DOMAIN rows.pathJobs :
            rows.pathJobs[i].root = rows.pathJobs[j].root => i = j

\* The variables have their types, and the rows keep the unique indexes of migrations.rs: a name
\* occurs once in a directory, and a directory has at most one pending path refresh job.
TypeOK ==
    /\ generation \in Nat
    /\ RowsTypeOK(graph)
    /\ RowsTypeOK(work)
    /\ DOMAIN documents \subseteq Links
    /\ session \in [phase : {"none", "Scanning", "SweepingLinks", "SweepingObjects"}, scan : Nat]
    /\ checkpoint \in {"none", "scanMarker", "provider"}
    /\ batch \in [kind : {"none", "changes", "page"}, size : Nat,
                  affected : SUBSET Links, seen : SUBSET Links]
    /\ observed \subseteq Links
    /\ neglected \subseteq [cause : Causes, link : Links]

ObjectsAreLive(rows) ==
    \A l \in DOMAIN rows.links :
        /\ rows.links[l].object \in DOMAIN rows.objects
        /\ ~rows.objects[rows.links[l].object].tombstoned

\* A committed link always names an object that has a row and is not tombstoned, whatever mix of
\* hard-link removals, re-observations, conflict evictions and sweeps came before.  Otherwise
\* load_object_metadata fails and aborts every later transaction that touches the link.
LinksHaveLiveObjects == ObjectsAreLive(graph)

\* A catalog document belongs to a link that exists and to the object the link names now, also
\* after a scan gave the link identity to another object: the joins of
\* desired_catalog_document_connection drop or mislabel any other document.
DocumentsMatchLinks ==
    \A l \in DOMAIN documents :
        /\ l \in DOMAIN graph.links
        /\ documents[l].object = graph.links[l].object

\* Outside a scan, a stale or missing document is one that a pending refresh job has yet to reach,
\* or one that was neglected for one of these causes.
StaleOnlyFor(causes) ==
    session = NoSession =>
        \A l \in DOMAIN graph.links :
            \/ ScheduledIn(graph, documents, l)
            \/ FreshIn(graph, documents, l)
            \/ \E cause \in causes : [cause |-> cause, link |-> l] \in neglected

\* Whatever the providers report, renames, removals, hard links, metadata and the transitions of a
\* volume never leave a stale document that no job will reach: deferring the descendants of a
\* directory and the documents of a volume to the queues of refresh_projection_paths and
\* refresh_volume_projection loses none of them, except below a directory that was linked late, at
\* two places or again during its refresh, and on a volume upserted when it was not online.
StaleDocumentsAreAccountedFor == StaleOnlyFor(Causes)

\* "Allowing descendants to converge in bounded restart-safe steps" (store.rs:1121), also when a
\* directory moves while its refresh is under way.
SecondMoveIsScheduled == StaleOnlyFor(Causes \ {"movedInRefresh"})

\* "Unresolved records remain explicit and are retried" (FS-IDENTITY.md:23), also below a directory
\* that is linked after them.
LateParentIsScheduled == StaleOnlyFor(Causes \ {"lateParent"})

\* "Unresolved records remain explicit and are retried after the enumeration pass" (FS-IDENTITY.md:23),
\* also the children of a directory that is seen at its new place before its old link is removed.
SecondPlaceIsScheduled == StaleOnlyFor(Causes \ {"secondPlace"})

\* "Every desired document eventually reflects the latest volume state" (store.rs:1223), also the
\* state that upsert_volume sets.
UpsertedVolumeIsScheduled == StaleOnlyFor(Causes \ {"volumeUpserted"})

\* The marker that a scan page commits in place of a provider position is the volume's checkpoint
\* only while the scan session is there: BrokerObservationController::step would hand it to
\* read_changes otherwise.
ScanMarkerHasSession == checkpoint = "scanMarker" => session # NoSession

\* When the terminal sweep closes the session and makes the checkpoint authoritative, the links of
\* the volume are exactly those that this scan observed: nothing of an abandoned scan or of the
\* state before survives, and no observation is swept.
ActivationIsExact ==
    [][session # NoSession /\ session' = NoSession => DOMAIN graph'.links = observed]_vars

\* Once the changes stop, the bounded refresh transactions bring every document that was not
\* neglected to the state the rows describe.
DocumentsConverge ==
    <>[](session = NoSession =>
            \A l \in DOMAIN graph.links :
                FreshIn(graph, documents, l) \/ \E n \in neglected : n.link = l)

=============================================================================
