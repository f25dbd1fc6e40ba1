-------------------------- MODULE ProjectionOutbox --------------------------
(***************************************************************************)
(* The projection half of the SQLite store of crates/filesystem-graph:     *)
(* the desired catalog state, the transactional outbox that records every  *)
(* change of it, and the checkpoints of the materialized-index consumers.  *)
(*                                                                         *)
(* A catalog document is abstracted to the number of the transaction that  *)
(* wrote it, 0 standing for "no document".  How a filesystem mutation      *)
(* turns into document changes is the subject of FilesystemGraph; here a   *)
(* committed transaction changes one document, the finest grain at which   *)
(* the connections of other processes can observe the store.               *)
(***************************************************************************)
EXTENDS Integers, Sequences, FiniteSets

CONSTANTS
    Docs,          \* document identities, a set of positive integers (their SQL order)
    Consumers,     \* consumer_id values of graph_projection_consumers
    OutboxModes,   \* the ProjectionOutboxMode values the ingesting processes use
    MaxGeneration, \* bound: document-changing transactions in one behaviour
    MaxPruneRows   \* maximum_rows of one outbox maintenance transaction

ASSUME DocsAssumption == Docs \subseteq Nat \ {0}
ASSUME ModesAssumption == OutboxModes \subseteq {"durable", "rebuildable"}
ASSUME BoundsAssumption == MaxGeneration \in Nat /\ MaxPruneRows \in Nat \ {0}

VARIABLES
    generation,  \* the document-changing transactions so far
    desired,     \* graph_catalog_documents: document -> version, 0 when absent
    log,         \* every outbox row ever appended; its length is the sqlite_sequence mark
    pruned,      \* rows 1..pruned of log have been deleted from graph_projection_outbox
    checkpoint   \* graph_projection_consumers: [last, gen], last = -1 when not registered

storeVars == <<generation, desired, log, pruned, checkpoint>>

Absent == 0
Row == [doc : Docs, version : Nat]
Unregistered == [last |-> -1, gen |-> 0]

StoreTypeOK ==
    /\ generation \in Nat
    /\ desired \in [Docs -> Nat]
    /\ log \in Seq(Row)
    /\ pruned \in Nat
    /\ checkpoint \in [Consumers -> [last : Int, gen : Nat]]

StoreInit ==
    /\ generation = 0
    /\ desired = [d \in Docs |-> Absent]
    /\ log = <<>>
    /\ pruned = 0
    /\ checkpoint = [c \in Consumers |-> Unregistered]

-----------------------------------------------------------------------------
(* Reads.                                                                  *)

Registered(c) == checkpoint[c].last >= 0
ProjectionConsumersExist == \E c \in Consumers : Registered(c)

\* The rows of graph_projection_outbox.
OutboxRows == (pruned + 1)..Len(log)

\* Mutant: only the checkpoints are consulted.
LatestOutboxSequenceFromCheckpoints ==
    LET seen == {checkpoint[c].last : c \in Consumers}
    IN  CHOOSE s \in seen : \A t \in seen : t <= s

\* max(outbox rows, consumer checkpoints, sqlite_sequence)
LatestOutboxSequence ==
    LET seen == {0, Len(log)} \cup OutboxRows
                  \cup {checkpoint[c].last : c \in Consumers}
    IN  CHOOSE s \in seen : \A t \in seen : t <= s

\* "SELECT ... WHERE sequence > after ORDER BY sequence LIMIT limit": the rows after .from
\* through .through, none when they are equal.
ReadOutbox(after, limit) ==
    LET from == IF pruned > after THEN pruned ELSE after
    IN  [from |-> from,
         through |-> IF from + limit < Len(log) THEN from + limit ELSE Len(log)]

\* "SELECT ... WHERE document_id > after ORDER BY document_id"
DesiredAfter(after) == {d \in Docs : d > after /\ desired[d] # Absent}

\* The same with "LIMIT limit": the limit is reached at document last, or not at all.
PageEndsAt(after, limit, last) ==
    /\ last \in DesiredAfter(after)
    /\ Cardinality({d \in DesiredAfter(after) : d <= last}) = limit
PageIsShort(after, limit) == Cardinality(DesiredAfter(after)) < limit

-----------------------------------------------------------------------------
(* Transactions.                                                           *)

\* One document of a batch: an upsert writes the new generation, a delete is recorded only when
\* a document was there (delete_catalog_projection reads it first).
ChangeDocument(d, version) ==
    /\ generation < MaxGeneration
    /\ version \in {generation + 1, Absent}
    /\ desired[d] # version
    /\ generation' = generation + 1
    /\ desired' = [desired EXCEPT ![d] = version]

\* apply_batch: desired state and outbox row commit in the same transaction.
ApplyBatch(d, version) ==
    /\ ChangeDocument(d, version)
    /\ log' = Append(log, [doc |-> d, version |-> version])
    /\ UNCHANGED <<pruned, checkpoint>>

\* Mutant: history is suppressed without looking for consumers.
ApplyRebuildableBatchUnchecked(d, version) ==
    /\ ChangeDocument(d, version)
    /\ UNCHANGED <<log, pruned, checkpoint>>

\* apply_rebuildable_batch: refused once any consumer is registered, records no outbox row.
ApplyRebuildableBatch(d, version) ==
    /\ ~ProjectionConsumersExist
    /\ ChangeDocument(d, version)
    /\ UNCHANGED <<log, pruned, checkpoint>>

Ingest ==
    \E d \in Docs, version \in {generation + 1, Absent} :
        \/ "durable" \in OutboxModes /\ ApplyBatch(d, version)
        \/ "rebuildable" \in OutboxModes /\ ApplyRebuildableBatch(d, version)

\* acknowledge_projection refuses a sequence beyond the outbox or behind the checkpoint.
AcknowledgeAccepted(c, sequence) ==
    sequence <= LatestOutboxSequence /\ sequence >= checkpoint[c].last

AcknowledgeProjection(c, sequence, index) ==
    /\ AcknowledgeAccepted(c, sequence)
    /\ checkpoint' = [checkpoint EXCEPT ![c] = [last |-> sequence, gen |-> index]]
    /\ UNCHANGED <<generation, desired, log, pruned>>

ResetProjectionConsumer(c) ==
    /\ Registered(c)
    /\ checkpoint' = [checkpoint EXCEPT ![c] = Unregistered]
    /\ UNCHANGED <<generation, desired, log, pruned>>

\* Mutant: rows are safe once one consumer acknowledged them.
SafeThroughAnyConsumer(allowWithoutConsumers) ==
    {s \in 0..Len(log) :
        IF ProjectionConsumersExist
        THEN \E c \in Consumers : Registered(c) /\ s <= checkpoint[c].last
        ELSE allowWithoutConsumers}

\* The oldest registered checkpoint; without consumers the whole log, if the caller allows it.
SafeThrough(allowWithoutConsumers) ==
    {s \in 0..Len(log) :
        IF ProjectionConsumersExist
        THEN \A c \in Consumers : Registered(c) => s <= checkpoint[c].last
        ELSE allowWithoutConsumers}

\* Deletes the oldest rows at or below the safe cursor, at most MaxPruneRows of them.
PruneRebuildableOutboxBounded(allowWithoutConsumers) ==
    /\ \E s \in SafeThrough(allowWithoutConsumers) :
        /\ pruned < s
        /\ s <= pruned + MaxPruneRows
        /\ s + 1 \in SafeThrough(allowWithoutConsumers) => s = pruned + MaxPruneRows
        /\ pruned' = s
    /\ UNCHANGED <<generation, desired, log, checkpoint>>

=============================================================================
