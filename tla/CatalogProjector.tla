-------------------------- MODULE CatalogProjector --------------------------
(***************************************************************************)
(* ProjectionWorker of crates/catalog-index: recovery, full rebuild and    *)
(* incremental replay of the outbox into disposable Tantivy generations.   *)
(*                                                                         *)
(* One worker runs at a time (the Agent holds projection_writer), but the  *)
(* SQLite store is shared: other processes (the folder-sync command, the   *)
(* load fixture, a second consumer) commit between any two of the worker's *)
(* statements.  A crash, or an error return of run, may happen between any *)
(* two statements; it drops the uncommitted Tantivy writer.                *)
(***************************************************************************)
EXTENDS ProjectionOutbox

CONSTANTS
    Catalog,          \* consumer_id of the catalog worker (CATALOG_SCHEMA_ID)
    MaxIndex,         \* bound: Tantivy generation directories
    BatchLimits,      \* maximum_batch_mutations values the governor hands out
    PageSize,         \* rebuild_page_size
    MaxCrashes,       \* bound: crashes and failed runs
    WritersDuringRebuild \* whether other processes commit while a generation is rebuilt

ASSUME CatalogAssumption == Catalog \in Consumers
ASSUME ProjectorBounds ==
    /\ MaxIndex \in Nat \ {0}
    /\ BatchLimits \subseteq Nat \ {0}
    /\ PageSize \in Nat \ {0}
    /\ MaxCrashes \in Nat
    /\ WritersDuringRebuild \in BOOLEAN

VARIABLES
    index,     \* committed documents of every generation directory
    made,      \* generation directories that exist
    broken,    \* existing generations CatalogIndex::open rejects
    pc,        \* where run is
    target,    \* the generation run writes
    staged,    \* documents of the open writer: last commit plus uncommitted operations
    cursor,    \* rebuild: last document id paged; replay: last row applied
    batchEnd,  \* replay: last sequence of the batch in memory
    sequence,  \* rebuild: the value latest_outbox_sequence returned
    crashes

projectorVars == <<index, made, broken, pc, target, staged, cursor, batchEnd, sequence, crashes>>
vars == <<storeVars, projectorVars>>

Index == 1..MaxIndex
Empty == [d \in Docs |-> Absent]
Rebuilding == {"paging", "built", "sequenced"}
Steps == {"idle", "loop", "applying", "committed"} \cup Rebuilding

TypeOK ==
    /\ StoreTypeOK
    /\ index \in [Index -> [Docs -> Nat]]
    /\ made \subseteq Index
    /\ broken \subseteq made
    /\ pc \in Steps
    /\ target \in Nat
    /\ staged \in [Docs -> Nat]
    /\ cursor \in Nat
    /\ batchEnd \in Nat
    /\ sequence \in Nat
    /\ crashes \in 0..MaxCrashes

Init ==
    /\ StoreInit
    /\ index = [g \in Index |-> Empty]
    /\ made = {}
    /\ broken = {}
    /\ pc = "idle"
    /\ target = 0
    /\ staged = Empty
    /\ cursor = 0
    /\ batchEnd = 0
    /\ sequence = 0
    /\ crashes = 0

Position == checkpoint[Catalog]

\* CatalogIndex::open succeeds: the directory exists and is intact.
Openable(g) == g \in made \ broken

\* The locals of run: nothing is open between runs and at the head of the replay loop.
NothingOpen ==
    /\ staged' = Empty
    /\ cursor' = 0
    /\ batchEnd' = 0
    /\ sequence' = 0

\* run returns.
ReturnFromRun == pc' = "idle" /\ target' = 0 /\ NothingOpen
HeadOfLoop(g) == pc' = "loop" /\ target' = g /\ NothingOpen

-----------------------------------------------------------------------------
(* recover and rebuild                                                     *)

\* recover finds the checkpoint and opens its generation.
OpenActive ==
    /\ pc = "idle"
    /\ Registered(Catalog)
    /\ Openable(Position.gen)
    /\ HeadOfLoop(Position.gen)
    /\ UNCHANGED <<storeVars, index, made, broken, crashes>>

\* next_unused_generation: the first directory name not taken, from minimum on.
NextUnusedGeneration(minimum) ==
    {g \in Index : g >= minimum /\ g \notin made /\ \A h \in minimum..(g - 1) : h \in made}

BeginGeneration(minimum) ==
    /\ \E g \in NextUnusedGeneration(minimum) :
        /\ target' = g
        /\ made' = made \cup {g}
        /\ index' = [index EXCEPT ![g] = Empty]
    /\ pc' = "paging"
    /\ staged' = Empty
    /\ cursor' = 0
    /\ UNCHANGED <<storeVars, broken, batchEnd, sequence, crashes>>

\* Mutant: a lost directory's name is taken again.
StartRebuildInPlace ==
    /\ pc = "idle"
    /\ ~(Registered(Catalog) /\ Openable(Position.gen))
    /\ BeginGeneration(IF Registered(Catalog) THEN Position.gen ELSE 1)

\* No checkpoint, or a generation that does not open: CatalogIndex::create, an empty generation.
StartRebuild ==
    /\ pc = "idle"
    /\ ~(Registered(Catalog) /\ Openable(Position.gen))
    /\ BeginGeneration(IF Registered(Catalog) THEN Position.gen + 1 ELSE 1)

Page(through) ==
    [d \in Docs |-> IF d \in DesiredAfter(cursor) /\ d <= through THEN desired[d] ELSE staged[d]]

\* A full page: its last document becomes the cursor.
ReadFullPage ==
    /\ pc = "paging"
    /\ \E last \in Docs :
        /\ PageEndsAt(cursor, PageSize, last)
        /\ staged' = Page(last)
        /\ cursor' = last
    /\ UNCHANGED <<storeVars, index, made, broken, pc, target, batchEnd, sequence, crashes>>

\* A page shorter than the limit ends the loop; the whole generation is one Tantivy commit.
ReadShortPageAndCommit ==
    /\ pc = "paging"
    /\ PageIsShort(cursor, PageSize)
    /\ staged' = [d \in Docs |-> IF d \in DesiredAfter(cursor) THEN desired[d] ELSE staged[d]]
    /\ index' = [index EXCEPT ![target] = staged']
    /\ pc' = "built"
    /\ UNCHANGED <<storeVars, made, broken, target, cursor, batchEnd, sequence, crashes>>

\* latest_outbox_sequence is read after the commit.
ReadLatest ==
    /\ pc = "built"
    /\ sequence' = LatestOutboxSequence
    /\ pc' = "sequenced"
    /\ UNCHANGED <<storeVars, index, made, broken, target, staged, cursor, batchEnd, crashes>>

\* The acknowledgement activates the generation.  (A refused one is an error return: Crash.)
ActivateRebuild ==
    /\ pc = "sequenced"
    /\ AcknowledgeProjection(Catalog, sequence, target)
    /\ HeadOfLoop(target)
    /\ UNCHANGED <<index, made, broken, crashes>>

-----------------------------------------------------------------------------
(* the replay loop of run                                                  *)

\* The batch is read after the durable checkpoint; validate() asks only that the sequences of
\* the batch are consecutive among themselves.
ReadBatch ==
    /\ pc = "loop"
    /\ \E limit \in BatchLimits :
        LET batch == ReadOutbox(Position.last, limit)
        IN  /\ batch.from < batch.through
            /\ cursor' = batch.from
            /\ batchEnd' = batch.through
    /\ staged' = index[target]
    /\ pc' = "applying"
    /\ UNCHANGED <<storeVars, index, made, broken, target, sequence, crashes>>

\* writer.apply: delete the document id, then add the row's document.
ApplyRow ==
    /\ pc = "applying"
    /\ cursor < batchEnd
    /\ cursor' = cursor + 1
    /\ staged' = [staged EXCEPT ![log[cursor + 1].doc] = log[cursor + 1].version]
    /\ UNCHANGED <<storeVars, index, made, broken, pc, target, batchEnd, sequence, crashes>>

CommitBatch ==
    /\ pc = "applying"
    /\ cursor = batchEnd
    /\ index' = [index EXCEPT ![target] = staged]
    /\ pc' = "committed"
    /\ UNCHANGED <<storeVars, made, broken, target, staged, cursor, batchEnd, sequence, crashes>>

\* Mutant: the newest sequence is acknowledged instead of the batch's last one.
AcknowledgeLatest ==
    /\ pc = "committed"
    /\ AcknowledgeProjection(Catalog, LatestOutboxSequence, target)
    /\ HeadOfLoop(target) \/ ReturnFromRun
    /\ UNCHANGED <<index, made, broken, crashes>>

\* Mutant: the acknowledgement is forgotten.
NoAcknowledgement ==
    /\ pc = "committed"
    /\ HeadOfLoop(target) \/ ReturnFromRun
    /\ UNCHANGED <<storeVars, index, made, broken, crashes>>

\* After the acknowledgement the batch budget or the time budget may end the run.
AcknowledgeBatch ==
    /\ pc = "committed"
    /\ AcknowledgeProjection(Catalog, batchEnd, target)
    /\ HeadOfLoop(target) \/ ReturnFromRun
    /\ UNCHANGED <<index, made, broken, crashes>>

\* An empty batch ends the run.
EndRun ==
    /\ pc = "loop"
    /\ \E limit \in BatchLimits :
        LET batch == ReadOutbox(Position.last, limit) IN batch.from >= batch.through
    /\ ReturnFromRun
    /\ UNCHANGED <<storeVars, index, made, broken, crashes>>

-----------------------------------------------------------------------------
(* environment                                                             *)

Crash ==
    /\ pc # "idle"
    /\ crashes < MaxCrashes
    /\ crashes' = crashes + 1
    /\ ReturnFromRun
    /\ UNCHANGED <<storeVars, index, made, broken>>

\* The active directory is damaged or deleted while no worker has it open.
LoseActive ==
    /\ pc = "idle"
    /\ Registered(Catalog)
    /\ Openable(Position.gen)
    \* leaves a directory name for every retry
    /\ Cardinality({g \in Index \ made : g > Position.gen}) > MaxCrashes - crashes
    /\ \/ broken' = broken \cup {Position.gen} /\ made' = made
       \/ made' = made \ {Position.gen} /\ broken' = broken
    /\ UNCHANGED <<storeVars, index, pc, target, staged, cursor, batchEnd, sequence, crashes>>

WritersAdmitted == WritersDuringRebuild \/ pc \notin Rebuilding

\* Another consumer registers at, or advances to, a sequence it has applied to its own index.
OtherConsumer ==
    \E c \in Consumers \ {Catalog} :
        \/ \E s \in 0..Len(log) : checkpoint[c].last # s /\ AcknowledgeProjection(c, s, 1)
        \/ ResetProjectionConsumer(c)

OtherProcess ==
    /\ WritersAdmitted
    /\ \/ Ingest
       \/ OtherConsumer
       \/ \E allow \in BOOLEAN : PruneRebuildableOutboxBounded(allow)
    /\ UNCHANGED projectorVars

Worker ==
    \/ OpenActive \/ StartRebuild \/ ReadFullPage \/ ReadShortPageAndCommit
    \/ ReadLatest \/ ActivateRebuild
    \/ ReadBatch \/ ApplyRow \/ CommitBatch \/ AcknowledgeBatch \/ EndRun

Next == Worker \/ Crash \/ LoseActive \/ OtherProcess

Spec == Init /\ [][Next]_vars

\* The scheduler thread calls run again after every return, so a worker that can step does.
FairSpec == Spec /\ WF_vars(Worker)

-----------------------------------------------------------------------------
(* properties                                                              *)

\* A set of documents that holds every mutation through sequence from: a document no later row
\* mentions is exactly the desired one.
Includes(documents, from) ==
    \A d \in Docs :
        (\A s \in (from + 1)..Len(log) : log[s].doc # d) => documents[d] = desired[d]

\* acknowledge_projection(sequence, generation) promises that the generation holds every
\* mutation through the sequence.  Crashes between commit and acknowledgement, replays with
\* other batch limits and rebuilds all have to preserve it.
AppliedMeansIncluded ==
    Registered(Catalog) /\ Openable(Position.gen) => Includes(index[Position.gen], Position.last)

\* Outbox maintenance never deletes a row the catalog worker has still to read, so replay
\* continues at the sequence after its checkpoint.
ReplayIsContiguous == Registered(Catalog) => pruned <= Position.last

\* The rows past the checkpoint end in the desired state: replaying them is enough.
ReplayReachesDesired ==
    Registered(Catalog) =>
        \A s \in (Position.last + 1)..Len(log) :
            (\A t \in (s + 1)..Len(log) : log[t].doc # log[s].doc)
                => desired[log[s].doc] = log[s].version

\* A rebuild never builds in the directory the checkpoint names, even when that directory has
\* vanished: after a crash a half-built generation must not pass for the active one.
ActiveIsNotUnderConstruction ==
    pc \in Rebuilding /\ Registered(Catalog) => target # Position.gen

CaughtUp ==
    /\ Registered(Catalog)
    /\ Openable(Position.gen)
    /\ Position.last = Len(log)
    /\ index[Position.gen] = desired

\* Once the writers, crashes and disk losses (all bounded) stop, repeated runs of the worker
\* bring the active generation to the desired state and it stays there.
EventuallyCaughtUp == <>[]CaughtUp

=============================================================================
