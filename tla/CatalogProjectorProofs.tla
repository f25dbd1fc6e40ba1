----------------------- MODULE CatalogProjectorProofs -----------------------
(***************************************************************************)
(* Type correctness and the safety of the catalog projector, for any       *)
(* documents, consumers, batch limits, page size and numbers of crashes.   *)
(***************************************************************************)
EXTENDS CatalogProjector, TLAPS

USE DEF Absent, Index, Rebuilding, Steps

\* No cursor into the outbox lies beyond its newest row.
CursorsWithinLog ==
    /\ pruned <= Len(log)
    /\ \A c \in Consumers : checkpoint[c].last <= Len(log)

\* The replay loop runs with a checkpoint and with rows that exist.
LoopHasRows ==
    /\ pc # "idle" => target \in Index
    /\ pc = "loop" => Registered(Catalog)
    /\ pc = "applying" => batchEnd <= Len(log)

TypeInv == TypeOK /\ CursorsWithinLog /\ LoopHasRows

\* What the locals of run stand for at each of its statements.
LocalsMeaning ==
    /\ pc # "idle" => target \in Index /\ Openable(target)
    /\ pc \in {"loop", "applying", "committed"} => Registered(Catalog) /\ target = Position.gen
    /\ pc \in {"applying", "committed"} =>
        /\ Position.last <= cursor
        /\ cursor <= batchEnd
        /\ batchEnd <= Len(log)
        /\ Includes(staged, cursor)
    /\ pc = "committed" => cursor = batchEnd /\ index[target] = staged
    /\ pc = "paging" => \A d \in Docs : staged[d] = IF d <= cursor THEN desired[d] ELSE Absent
    /\ pc \in {"built", "sequenced"} => index[target] = desired
    /\ pc = "sequenced" => sequence = Len(log)

\* The inductive invariant.
IInv ==
    /\ TypeInv
    /\ AppliedMeansIncluded
    /\ ReplayIsContiguous
    /\ ReplayReachesDesired
    /\ ActiveIsNotUnderConstruction
    /\ LocalsMeaning

-----------------------------------------------------------------------------
(* Lemmas about the store.                                                 *)

\* latest_outbox_sequence returns the AUTOINCREMENT mark: no row and no checkpoint is beyond it.
LEMMA LatestIsLength ==
    ASSUME StoreTypeOK, CursorsWithinLog
    PROVE  LatestOutboxSequence = Len(log)
<1> DEFINE seen == {0, Len(log)} \cup OutboxRows \cup {checkpoint[c].last : c \in Consumers}
<1>1. Len(log) \in Nat
    BY DEF StoreTypeOK
<1>2. \A t \in seen : t \in Int /\ t <= Len(log)
    BY <1>1 DEF StoreTypeOK, CursorsWithinLog, OutboxRows
<1>3. Len(log) \in seen
    OBVIOUS
<1>4. \A s \in seen : (\A t \in seen : t <= s) => s = Len(log)
    BY <1>1, <1>2, <1>3
<1>5. LatestOutboxSequence = CHOOSE s \in seen : \A t \in seen : t <= s
    BY DEF LatestOutboxSequence
<1> QED
    BY <1>2, <1>3, <1>4, <1>5

\* A durable batch appends one row; an earlier row keeps its place.
LEMMA DurableBatch ==
    ASSUME StoreTypeOK, NEW d \in Docs, NEW version \in Nat, ApplyBatch(d, version)
    PROVE  /\ Len(log') = Len(log) + 1
           /\ log'[Len(log) + 1] = [doc |-> d, version |-> version]
           /\ \A s \in 1..Len(log) : log'[s] = log[s]
           /\ desired' = [desired EXCEPT ![d] = version]
           /\ log' \in Seq(Row)
    BY DEF StoreTypeOK, ApplyBatch, ChangeDocument, Row

\* Every transaction of another process keeps the store well typed and moves no cursor of the
\* catalog worker; only a consumer-free store accepts a batch without a row.
LEMMA StoreStep ==
    ASSUME StoreTypeOK, CursorsWithinLog,
           Ingest \/ OtherConsumer \/ \E allow \in BOOLEAN : PruneRebuildableOutboxBounded(allow)
    PROVE  /\ StoreTypeOK'
           /\ CursorsWithinLog'
           /\ Len(log') >= Len(log)
           /\ checkpoint'[Catalog] = checkpoint[Catalog]
<1> USE CatalogAssumption
<1> DEFINE Goal == /\ StoreTypeOK'
                   /\ CursorsWithinLog'
                   /\ Len(log') >= Len(log)
                   /\ checkpoint'[Catalog] = checkpoint[Catalog]
<1>1. Len(log) \in Nat
    BY DEF StoreTypeOK
<1>2. ASSUME NEW d \in Docs, NEW version \in {generation + 1, Absent}, ApplyBatch(d, version)
      PROVE  Goal
    <2>1. version \in Nat
        BY <1>2 DEF StoreTypeOK
    <2>2. /\ Len(log') = Len(log) + 1
          /\ log' \in Seq(Row)
          /\ desired' = [desired EXCEPT ![d] = version]
        BY <1>2, <2>1, DurableBatch
    <2>3. StoreTypeOK'
        BY <1>2, <2>1, <2>2 DEF StoreTypeOK, ApplyBatch, ChangeDocument
    <2>4. CursorsWithinLog'
        BY <1>1, <1>2, <2>2 DEF StoreTypeOK, CursorsWithinLog, ApplyBatch
    <2> QED
        BY <1>1, <1>2, <2>2, <2>3, <2>4 DEF ApplyBatch
<1>3. ASSUME NEW d \in Docs, NEW version \in {generation + 1, Absent},
             ApplyRebuildableBatch(d, version)
      PROVE  Goal
    BY <1>1, <1>3 DEF StoreTypeOK, CursorsWithinLog, ApplyRebuildableBatch, ChangeDocument
<1>4. ASSUME NEW c \in Consumers \ {Catalog}, NEW s \in 0..Len(log), AcknowledgeProjection(c, s, 1)
      PROVE  Goal
    BY <1>1, <1>4 DEF StoreTypeOK, CursorsWithinLog, AcknowledgeProjection
<1>5. ASSUME NEW c \in Consumers \ {Catalog}, ResetProjectionConsumer(c)
      PROVE  Goal
    BY <1>1, <1>5 DEF StoreTypeOK, CursorsWithinLog, ResetProjectionConsumer, Unregistered
<1>6. ASSUME NEW allow \in BOOLEAN, PruneRebuildableOutboxBounded(allow)
      PROVE  Goal
    BY <1>1, <1>6
    DEF StoreTypeOK, CursorsWithinLog, PruneRebuildableOutboxBounded, SafeThrough
<1> QED
    BY <1>2, <1>3, <1>4, <1>5, <1>6 DEF Ingest, OtherConsumer

-----------------------------------------------------------------------------
(* Type correctness.                                                       *)

LEMMA TypeInit == Init => TypeInv
    BY CatalogAssumption, ProjectorBounds
    DEF TypeInv, LoopHasRows, Init, StoreInit, TypeOK, StoreTypeOK, CursorsWithinLog, Empty, Unregistered, Row

LEMMA TypeStep == TypeInv /\ [Next]_vars => TypeInv'
<1> SUFFICES ASSUME TypeInv, [Next]_vars
             PROVE  TypeInv'
    OBVIOUS
<1> USE CatalogAssumption, ProjectorBounds DEF TypeInv, LoopHasRows, Registered, Position
<1>1. Len(log) \in Nat /\ LatestOutboxSequence = Len(log)
    BY LatestIsLength DEF TypeOK, StoreTypeOK
<1>2. Empty \in [Docs -> Nat]
    BY DEF Empty
<1>3. CASE OpenActive
    BY <1>2, <1>3
    DEF OpenActive, Openable, HeadOfLoop, NothingOpen, TypeOK, StoreTypeOK, CursorsWithinLog, storeVars
<1>4. CASE StartRebuild
    BY <1>2, <1>4
    DEF StartRebuild, BeginGeneration, NextUnusedGeneration, TypeOK, StoreTypeOK,
        CursorsWithinLog, storeVars
<1>5. CASE ReadFullPage
    BY <1>5, DocsAssumption
    DEF ReadFullPage, Page, TypeOK, StoreTypeOK, CursorsWithinLog, storeVars
<1>6. CASE ReadShortPageAndCommit
    BY <1>6
    DEF ReadShortPageAndCommit, TypeOK, StoreTypeOK, CursorsWithinLog, storeVars
<1>7. CASE ReadLatest
    BY <1>1, <1>7 DEF ReadLatest, TypeOK, StoreTypeOK, CursorsWithinLog, storeVars
<1>8. CASE ActivateRebuild
    <2>1. target \in Nat /\ target \in Index /\ sequence \in Nat /\ sequence <= Len(log)
        BY <1>1, <1>8
        DEF ActivateRebuild, AcknowledgeProjection, AcknowledgeAccepted, TypeOK
    <2>2. checkpoint' = [checkpoint EXCEPT ![Catalog] = [last |-> sequence, gen |-> target]]
        BY <1>8 DEF ActivateRebuild, AcknowledgeProjection
    <2>3. StoreTypeOK' /\ CursorsWithinLog'
        BY <1>8, <2>1, <2>2
        DEF ActivateRebuild, AcknowledgeProjection, TypeOK, StoreTypeOK, CursorsWithinLog
    <2>4. LoopHasRows'
        BY <1>8, <2>1, <2>2
        DEF ActivateRebuild, HeadOfLoop, NothingOpen, TypeOK, StoreTypeOK
    <2> QED
        BY <1>2, <1>8, <2>3, <2>4 DEF ActivateRebuild, HeadOfLoop, NothingOpen, TypeOK
<1>9. CASE ReadBatch
    <2>1. PICK limit \in BatchLimits : /\ cursor' = ReadOutbox(Position.last, limit).from
                                       /\ batchEnd' = ReadOutbox(Position.last, limit).through
        BY <1>9 DEF ReadBatch
    <2>2. Position.last \in Nat /\ pruned \in Nat /\ limit \in Nat
        BY <1>9 DEF ReadBatch, TypeOK, StoreTypeOK
    <2>3. cursor' \in Nat /\ batchEnd' \in Nat /\ batchEnd' <= Len(log)
        BY <1>1, <2>1, <2>2 DEF ReadOutbox
    <2>4. staged' \in [Docs -> Nat]
        <3>1. target \in Index
            BY <1>9 DEF ReadBatch
        <3> QED
            BY <1>9, <3>1 DEF ReadBatch, TypeOK
    <2> QED
        BY <1>9, <2>3, <2>4 DEF ReadBatch, TypeOK, StoreTypeOK, CursorsWithinLog, storeVars
<1>10. CASE ApplyRow
    <2>1. cursor + 1 \in 1..Len(log)
        BY <1>1, <1>10 DEF ApplyRow, TypeOK
    <2>2. log[cursor + 1] \in Row
        BY <2>1 DEF TypeOK, StoreTypeOK
    <2>3. staged' \in [Docs -> Nat]
        BY <1>10, <2>2 DEF ApplyRow, TypeOK, Row
    <2> QED
        <3>1. cursor' \in Nat
            BY <1>10 DEF ApplyRow, TypeOK
        <3>2. StoreTypeOK' /\ CursorsWithinLog'
            BY <1>10 DEF ApplyRow, TypeOK, StoreTypeOK, CursorsWithinLog, storeVars
        <3> QED
            BY <1>10, <2>3, <3>1, <3>2 DEF ApplyRow, TypeOK, storeVars
<1>11. CASE CommitBatch
    BY <1>11
    DEF CommitBatch, TypeOK, StoreTypeOK, CursorsWithinLog, storeVars
<1>12. CASE AcknowledgeBatch
    <2>1. target \in Nat /\ target \in Index /\ batchEnd \in Nat /\ batchEnd <= Len(log)
        BY <1>1, <1>12
        DEF AcknowledgeBatch, AcknowledgeProjection, AcknowledgeAccepted, TypeOK
    <2>2. checkpoint' = [checkpoint EXCEPT ![Catalog] = [last |-> batchEnd, gen |-> target]]
        BY <1>12 DEF AcknowledgeBatch, AcknowledgeProjection
    <2>3. StoreTypeOK' /\ CursorsWithinLog'
        BY <1>12, <2>1, <2>2
        DEF AcknowledgeBatch, AcknowledgeProjection, TypeOK, StoreTypeOK, CursorsWithinLog
    <2>4. Registered(Catalog)'
        BY <2>1, <2>2 DEF TypeOK, StoreTypeOK
    <2>5. LoopHasRows'
        BY <1>12, <2>1, <2>4 DEF AcknowledgeBatch, HeadOfLoop, ReturnFromRun
    <2> QED
        BY <1>2, <1>12, <2>3, <2>5
        DEF AcknowledgeBatch, HeadOfLoop, ReturnFromRun, NothingOpen, TypeOK
<1>13. CASE EndRun
    BY <1>2, <1>13
    DEF EndRun, ReturnFromRun, NothingOpen, TypeOK, StoreTypeOK, CursorsWithinLog, storeVars
<1>14. CASE Crash
    BY <1>2, <1>14
    DEF Crash, ReturnFromRun, NothingOpen, TypeOK, StoreTypeOK, CursorsWithinLog, storeVars
<1>15. CASE LoseActive
    BY <1>15
    DEF LoseActive, Openable, TypeOK, StoreTypeOK, CursorsWithinLog, storeVars
<1>16. CASE OtherProcess
    <2>1. StoreTypeOK' /\ CursorsWithinLog' /\ Len(log') >= Len(log) /\ Position' = Position
        BY <1>16, StoreStep DEF OtherProcess, TypeOK
    <2>2. Len(log') \in Nat
        BY <2>1 DEF StoreTypeOK
    <2>3. LoopHasRows'
        BY <1>1, <1>16, <2>1, <2>2 DEF OtherProcess, projectorVars, TypeOK
    <2> QED
        BY <1>16, <2>1, <2>3 DEF OtherProcess, projectorVars, TypeOK
<1>17. CASE UNCHANGED vars
    BY <1>17
    DEF vars, projectorVars, storeVars, TypeOK, StoreTypeOK, CursorsWithinLog
<1> QED
    BY <1>3, <1>4, <1>5, <1>6, <1>7, <1>8, <1>9, <1>10, <1>11, <1>12, <1>13, <1>14, <1>15,
       <1>16, <1>17
    DEF Next, Worker

\* Every variable of store and worker keeps its type: in particular the sequence a rebuild
\* acknowledges and the cursor a replay starts from are natural numbers, whatever the
\* interleaving with other processes.
THEOREM TypeCorrect == Spec => []TypeOK
<1>1. Init => TypeInv
    BY TypeInit
<1>2. TypeInv /\ [Next]_vars => TypeInv'
    BY TypeStep
<1> QED
    BY <1>1, <1>2, PTL DEF Spec, TypeInv

-----------------------------------------------------------------------------
(* Safety of replay and rebuild.                                           *)

\* A durable batch leaves a set of documents that includes every mutation through a sequence
\* just that: the one document it changes now has a later row.
LEMMA IncludesAfterBatch ==
    ASSUME StoreTypeOK, NEW d \in Docs, NEW version \in Nat, ApplyBatch(d, version),
           NEW documents \in [Docs -> Nat], NEW from \in Nat, from <= Len(log),
           Includes(documents, from)
    PROVE  \A e \in Docs :
               (\A s \in (from + 1)..Len(log') : log'[s].doc # e) => documents[e] = desired'[e]
<1> SUFFICES ASSUME NEW e \in Docs, \A s \in (from + 1)..Len(log') : log'[s].doc # e
             PROVE  documents[e] = desired'[e]
    OBVIOUS
<1>1. /\ Len(log) \in Nat
      /\ Len(log') = Len(log) + 1
      /\ log'[Len(log) + 1] = [doc |-> d, version |-> version]
      /\ \A s \in 1..Len(log) : log'[s] = log[s]
      /\ desired' = [desired EXCEPT ![d] = version]
    BY DurableBatch DEF StoreTypeOK
<1>2. e # d
    <2>1. Len(log) + 1 \in (from + 1)..Len(log')
        BY <1>1
    <2> QED
        BY <1>1, <2>1
<1>3. \A s \in (from + 1)..Len(log) : log[s].doc # e
    <2> SUFFICES ASSUME NEW s \in (from + 1)..Len(log) PROVE log[s].doc # e
        OBVIOUS
    <2>1. s \in 1..Len(log) /\ s \in (from + 1)..Len(log')
        BY <1>1
    <2> QED
        BY <1>1, <2>1
<1> QED
    BY <1>1, <1>2, <1>3 DEF Includes, StoreTypeOK

\* A durable batch keeps the rows past a checkpoint sufficient: its own row is the last of its
\* document and carries the desired version.
LEMMA ReplayAfterBatch ==
    ASSUME TypeOK, NEW d \in Docs, NEW version \in Nat, ApplyBatch(d, version),
           Registered(Catalog), ReplayReachesDesired
    PROVE  ReplayReachesDesired'
<1> USE CatalogAssumption DEF TypeOK, StoreTypeOK
<1> SUFFICES ASSUME NEW s \in (Position'.last + 1)..Len(log'),
                    \A t \in (s + 1)..Len(log') : log'[t].doc # log'[s].doc
             PROVE  desired'[log'[s].doc] = log'[s].version
    BY DEF ReplayReachesDesired
<1>1. /\ Len(log) \in Nat
      /\ Len(log') = Len(log) + 1
      /\ log'[Len(log) + 1] = [doc |-> d, version |-> version]
      /\ \A r \in 1..Len(log) : log'[r] = log[r]
      /\ desired' = [desired EXCEPT ![d] = version]
    BY DurableBatch
<1>2. Position' = Position /\ Position.last \in Nat
    BY DEF ApplyBatch, Position, Registered
<1>3. CASE s = Len(log) + 1
    BY <1>1, <1>3
<1>4. CASE s # Len(log) + 1
    <2>1. s \in 1..Len(log) /\ s \in (Position.last + 1)..Len(log)
        BY <1>1, <1>2, <1>4
    <2>2. log'[s].doc # d
        <3>1. Len(log) + 1 \in (s + 1)..Len(log')
            BY <1>1, <2>1
        <3> QED
            BY <1>1, <3>1
    <2>3. \A t \in (s + 1)..Len(log) : log[t].doc # log[s].doc
        <3> SUFFICES ASSUME NEW t \in (s + 1)..Len(log) PROVE log[t].doc # log[s].doc
            OBVIOUS
        <3>1. t \in (s + 1)..Len(log') /\ t \in 1..Len(log)
            BY <1>1, <2>1
        <3> QED
            BY <1>1, <2>1, <3>1
    <2>4. desired[log[s].doc] = log[s].version
        BY <2>1, <2>3 DEF ReplayReachesDesired
    <2>5. log[s].doc \in Docs
        <3>1. log[s] \in Row
            BY <2>1
        <3> QED
            BY <3>1 DEF Row
    <2> QED
        BY <1>1, <2>1, <2>2, <2>4, <2>5
<1> QED
    BY <1>3, <1>4

LEMMA SafetyInit == Init => IInv
    BY TypeInit, CatalogAssumption
    DEF Init, StoreInit, IInv, AppliedMeansIncluded, ReplayIsContiguous, ReplayReachesDesired,
        ActiveIsNotUnderConstruction, LocalsMeaning, Registered, Unregistered

\* The conjuncts of the invariant, with the types spelled out for the steps below.
LEMMA Conjuncts ==
    ASSUME IInv
    PROVE  /\ TypeOK /\ CursorsWithinLog /\ LoopHasRows /\ AppliedMeansIncluded
           /\ ReplayIsContiguous /\ ReplayReachesDesired /\ ActiveIsNotUnderConstruction
           /\ LocalsMeaning
    BY DEF IInv, TypeInv

LEMMA Types ==
    ASSUME IInv
    PROVE  /\ StoreTypeOK /\ generation \in Nat
           /\ Len(log) \in Nat /\ pruned \in Nat /\ cursor \in Nat /\ batchEnd \in Nat
           /\ target \in Nat /\ sequence \in Nat
           /\ staged \in [Docs -> Nat] /\ desired \in [Docs -> Nat]
           /\ index \in [Index -> [Docs -> Nat]]
           /\ log \in Seq(Row) /\ made \subseteq Index /\ broken \subseteq made
           /\ Position.gen \in Nat /\ Position.last \in Int /\ Position.last <= Len(log)
           /\ Registered(Catalog) <=> Position.last >= 0
<1>1. TypeOK /\ CursorsWithinLog
    BY Conjuncts
<1>2. checkpoint[Catalog] \in [last : Int, gen : Nat]
    BY <1>1, CatalogAssumption DEF TypeOK, StoreTypeOK
<1>3. /\ Position.gen \in Nat /\ Position.last \in Int /\ Position.last <= Len(log)
      /\ Registered(Catalog) <=> Position.last >= 0
    BY <1>1, <1>2, CatalogAssumption DEF CursorsWithinLog, Position, Registered
<1> QED
    BY <1>1, <1>3 DEF TypeOK, StoreTypeOK

LEMMA LatestInReach == IInv => LatestOutboxSequence = Len(log)
    BY LatestIsLength, Conjuncts DEF TypeOK

\* A transaction of another process, between two statements of a run that is not rebuilding.
LEMMA SafetyOtherProcess ==
    ASSUME ~WritersDuringRebuild, IInv, TypeInv', OtherProcess
    PROVE  IInv'
<1>i. /\ TypeOK /\ CursorsWithinLog /\ LoopHasRows /\ AppliedMeansIncluded
      /\ ReplayIsContiguous /\ ReplayReachesDesired /\ ActiveIsNotUnderConstruction
      /\ LocalsMeaning
    BY Conjuncts
<1>t. /\ StoreTypeOK /\ generation \in Nat
      /\ Len(log) \in Nat /\ pruned \in Nat /\ cursor \in Nat /\ batchEnd \in Nat
      /\ target \in Nat /\ sequence \in Nat
      /\ staged \in [Docs -> Nat] /\ desired \in [Docs -> Nat]
      /\ index \in [Index -> [Docs -> Nat]]
      /\ log \in Seq(Row) /\ made \subseteq Index /\ broken \subseteq made
      /\ Position.gen \in Nat /\ Position.last \in Int /\ Position.last <= Len(log)
      /\ Registered(Catalog) <=> Position.last >= 0
    BY Types
<1> USE <1>i, <1>t, CatalogAssumption
<1>1. /\ pc \notin Rebuilding
      /\ UNCHANGED projectorVars
      /\ Ingest \/ OtherConsumer \/ \E allow \in BOOLEAN : PruneRebuildableOutboxBounded(allow)
    BY DEF OtherProcess, WritersAdmitted
<1>2. Position' = Position /\ Len(log') >= Len(log) /\ Len(log) \in Nat /\ Len(log') \in Nat
    BY <1>1, StoreStep DEF Position, StoreTypeOK
<1>3. Registered(Catalog)' <=> Registered(Catalog)
    BY <1>2 DEF Registered, Position
<1>4. Registered(Catalog) => Position.last \in Nat /\ Position.last <= Len(log)
    BY DEF Registered, Position, StoreTypeOK, CursorsWithinLog
<1>5. ActiveIsNotUnderConstruction'
    BY <1>1, <1>2, <1>3 DEF ActiveIsNotUnderConstruction, projectorVars
<1>6. ReplayIsContiguous'
    <2>1. CASE \E allow \in BOOLEAN : PruneRebuildableOutboxBounded(allow)
        BY <1>2, <1>3, <2>1
        DEF PruneRebuildableOutboxBounded, SafeThrough, ProjectionConsumersExist,
            ReplayIsContiguous, Position
    <2>2. CASE Ingest \/ OtherConsumer
        BY <1>2, <1>3, <2>2
        DEF Ingest, ApplyBatch, ApplyRebuildableBatch, OtherConsumer, AcknowledgeProjection,
            ResetProjectionConsumer, ReplayIsContiguous
    <2> QED
        BY <1>1, <2>1, <2>2
<1>7. CASE ~Registered(Catalog)
    <2>1. pc = "idle" /\ pc' = "idle"
        BY <1>1, <1>7 DEF LocalsMeaning, TypeOK, projectorVars
    <2>2. AppliedMeansIncluded' /\ ReplayReachesDesired'
        BY <1>3, <1>7 DEF AppliedMeansIncluded, ReplayReachesDesired
    <2>3. LocalsMeaning'
        BY <2>1 DEF LocalsMeaning
    <2> QED
        BY <1>5, <1>6, <2>2, <2>3 DEF IInv
<1>8. CASE Registered(Catalog) /\ desired' = desired /\ log' = log
    <2>1. AppliedMeansIncluded' /\ ReplayReachesDesired'
        BY <1>1, <1>2, <1>3, <1>8
        DEF AppliedMeansIncluded, ReplayReachesDesired, Includes, Openable, projectorVars
    <2>2. LocalsMeaning'
        BY <1>1, <1>2, <1>3, <1>8 DEF LocalsMeaning, Includes, Openable, projectorVars
    <2> QED
        BY <1>5, <1>6, <2>1, <2>2 DEF IInv
<1>9. ASSUME Registered(Catalog), NEW d \in Docs, NEW version \in {generation + 1, Absent},
             ApplyBatch(d, version)
      PROVE  IInv'
    <2>1. version \in Nat
        BY DEF StoreTypeOK
    <2>2. ReplayReachesDesired'
        BY <1>9, <2>1, ReplayAfterBatch
    <2>3. AppliedMeansIncluded'
        <3> SUFFICES ASSUME Openable(Position.gen)
                     PROVE  Includes(index[Position.gen], Position.last)'
            BY <1>1, <1>2, <1>3 DEF AppliedMeansIncluded, Openable, projectorVars
        <3>1. index[Position.gen] \in [Docs -> Nat]
            BY DEF Openable
        <3>2. Includes(index[Position.gen], Position.last)
            BY <1>9 DEF AppliedMeansIncluded
        <3>3. \A e \in Docs :
                 (\A s \in (Position.last + 1)..Len(log') : log'[s].doc # e)
                     => index[Position.gen][e] = desired'[e]
            BY <1>4, <1>9, <2>1, <3>1, <3>2, IncludesAfterBatch
        <3> QED
            BY <1>1, <1>2, <3>3 DEF Includes, projectorVars
    <2>4. pc \in {"applying", "committed"} => Includes(staged, cursor)'
        <3> SUFFICES ASSUME pc \in {"applying", "committed"}
                     PROVE  Includes(staged, cursor)'
            OBVIOUS
        <3>1. Includes(staged, cursor) /\ cursor <= Len(log)
            BY <1>2 DEF LocalsMeaning
        <3>2. \A e \in Docs :
                 (\A s \in (cursor + 1)..Len(log') : log'[s].doc # e) => staged[e] = desired'[e]
            BY <1>9, <2>1, <3>1, IncludesAfterBatch
        <3> QED
            BY <1>1, <3>2 DEF Includes, projectorVars
    <2>5. LocalsMeaning'
        BY <1>1, <1>2, <1>3, <1>9, <2>4 DEF LocalsMeaning, Openable, projectorVars
    <2> QED
        BY <1>5, <1>6, <2>2, <2>3, <2>5 DEF IInv
<1>10. CASE Registered(Catalog) /\ Ingest
    BY <1>9, <1>10 DEF Ingest, ApplyRebuildableBatch, ProjectionConsumersExist
<1>11. CASE Registered(Catalog) /\ ~Ingest
    BY <1>1, <1>8, <1>11
    DEF OtherConsumer, AcknowledgeProjection, ResetProjectionConsumer,
        PruneRebuildableOutboxBounded
<1> QED
    BY <1>7, <1>10, <1>11

\* recover and rebuild: the store does not change until the generation is acknowledged.
LEMMA SafetyRebuild ==
    ASSUME IInv, TypeInv',
           StartRebuild \/ ReadFullPage \/ ReadShortPageAndCommit \/ ReadLatest \/ ActivateRebuild
    PROVE  IInv'
<1>i. /\ TypeOK /\ CursorsWithinLog /\ LoopHasRows /\ AppliedMeansIncluded
      /\ ReplayIsContiguous /\ ReplayReachesDesired /\ ActiveIsNotUnderConstruction
      /\ LocalsMeaning
    BY Conjuncts
<1>t. /\ StoreTypeOK /\ generation \in Nat
      /\ Len(log) \in Nat /\ pruned \in Nat /\ cursor \in Nat /\ batchEnd \in Nat
      /\ target \in Nat /\ sequence \in Nat
      /\ staged \in [Docs -> Nat] /\ desired \in [Docs -> Nat]
      /\ index \in [Index -> [Docs -> Nat]]
      /\ log \in Seq(Row) /\ made \subseteq Index /\ broken \subseteq made
      /\ Position.gen \in Nat /\ Position.last \in Int /\ Position.last <= Len(log)
      /\ Registered(Catalog) <=> Position.last >= 0
    BY Types
<1> USE <1>i, <1>t, CatalogAssumption
<1>1. Len(log) \in Nat /\ LatestOutboxSequence = Len(log)
    BY LatestInReach
<1>2. CASE StartRebuild
    <2>1. PICK g \in NextUnusedGeneration(IF Registered(Catalog) THEN Position.gen + 1 ELSE 1) :
              /\ target' = g
              /\ made' = made \cup {g}
              /\ index' = [index EXCEPT ![g] = Empty]
        BY <1>2 DEF StartRebuild, BeginGeneration
    <2>2. g \in Index /\ g \notin made /\ (Registered(Catalog) => g # Position.gen)
        BY <2>1 DEF NextUnusedGeneration, Position, StoreTypeOK
    <2>3. UNCHANGED <<storeVars, broken, batchEnd, sequence, crashes>> /\ pc' = "paging"
          /\ staged' = Empty /\ cursor' = 0
        BY <1>2 DEF StartRebuild, BeginGeneration
    <2>4. AppliedMeansIncluded' /\ ReplayIsContiguous' /\ ReplayReachesDesired'
        BY <2>1, <2>2, <2>3
        DEF AppliedMeansIncluded, ReplayIsContiguous, ReplayReachesDesired, Includes, Registered,
            Position, Openable, storeVars
    <2>5. ActiveIsNotUnderConstruction'
        BY <2>1, <2>2, <2>3 DEF ActiveIsNotUnderConstruction, Registered, Position, storeVars
    <2>6. LocalsMeaning'
        BY <2>1, <2>2, <2>3, DocsAssumption DEF LocalsMeaning, Openable, Empty, storeVars
    <2> QED
        BY <2>4, <2>5, <2>6 DEF IInv
<1>3. CASE ReadFullPage
    <2>1. PICK last \in Docs : staged' = Page(last) /\ cursor' = last /\ last > cursor
        BY <1>3 DEF ReadFullPage, PageEndsAt, DesiredAfter
    <2>2. \A d \in Docs : staged'[d] = IF d <= cursor' THEN desired[d] ELSE Absent
        BY <1>3, <2>1, DocsAssumption DEF ReadFullPage, Page, DesiredAfter, LocalsMeaning
    <2>3. AppliedMeansIncluded' /\ ReplayIsContiguous' /\ ReplayReachesDesired'
        BY <1>3
        DEF ReadFullPage, AppliedMeansIncluded, ReplayIsContiguous, ReplayReachesDesired,
            Includes, Registered, Position, Openable, storeVars
    <2>4. ActiveIsNotUnderConstruction'
        BY <1>3 DEF ReadFullPage, ActiveIsNotUnderConstruction, Registered, Position, storeVars
    <2>5. LocalsMeaning'
        BY <1>3, <2>2 DEF ReadFullPage, LocalsMeaning, Openable, storeVars
    <2> QED
        BY <2>3, <2>4, <2>5 DEF IInv
<1>4. CASE ReadShortPageAndCommit
    <2>1. staged' = desired
        BY <1>4, DocsAssumption DEF ReadShortPageAndCommit, DesiredAfter, LocalsMeaning, StoreTypeOK
    <2>2. target \in Index /\ (Registered(Catalog) => target # Position.gen)
        BY <1>4 DEF ReadShortPageAndCommit, LocalsMeaning, ActiveIsNotUnderConstruction
    <2>3. AppliedMeansIncluded' /\ ReplayIsContiguous' /\ ReplayReachesDesired'
        BY <1>4, <2>2
        DEF ReadShortPageAndCommit, AppliedMeansIncluded, ReplayIsContiguous,
            ReplayReachesDesired, Includes, Registered, Position, Openable, storeVars
    <2>4. ActiveIsNotUnderConstruction'
        BY <1>4
        DEF ReadShortPageAndCommit, ActiveIsNotUnderConstruction, Registered, Position, storeVars
    <2>5. LocalsMeaning'
        BY <1>4, <2>1, <2>2 DEF ReadShortPageAndCommit, LocalsMeaning, Openable, storeVars
    <2> QED
        BY <2>3, <2>4, <2>5 DEF IInv
<1>5. CASE ReadLatest
    <2>1. AppliedMeansIncluded' /\ ReplayIsContiguous' /\ ReplayReachesDesired'
        BY <1>5
        DEF ReadLatest, AppliedMeansIncluded, ReplayIsContiguous, ReplayReachesDesired,
            Includes, Registered, Position, Openable, storeVars
    <2>2. ActiveIsNotUnderConstruction'
        BY <1>5 DEF ReadLatest, ActiveIsNotUnderConstruction, Registered, Position, storeVars
    <2>3. LocalsMeaning'
        BY <1>1, <1>5 DEF ReadLatest, LocalsMeaning, Openable, storeVars
    <2> QED
        BY <2>1, <2>2, <2>3 DEF IInv
<1>6. CASE ActivateRebuild
    <2>1. /\ Position' = [last |-> Len(log), gen |-> target]
          /\ target \in Index /\ Openable(target) /\ index[target] = desired
          /\ UNCHANGED <<desired, log, pruned, index, made, broken>>
          /\ pc' = "loop" /\ target' = target
        BY <1>6
        DEF ActivateRebuild, AcknowledgeProjection, HeadOfLoop, LocalsMeaning, Position,
            StoreTypeOK
    <2>2. AppliedMeansIncluded'
        BY <2>1 DEF AppliedMeansIncluded, Includes
    <2>3. ReplayIsContiguous' /\ ReplayReachesDesired'
        BY <1>1, <2>1 DEF ReplayIsContiguous, ReplayReachesDesired, CursorsWithinLog
    <2>4. ActiveIsNotUnderConstruction'
        BY <2>1 DEF ActiveIsNotUnderConstruction
    <2>5. LocalsMeaning'
        BY <1>1, <2>1 DEF LocalsMeaning, Openable, Registered, Position
    <2> QED
        BY <2>2, <2>3, <2>4, <2>5 DEF IInv
<1> QED
    BY <1>2, <1>3, <1>4, <1>5, <1>6

\* The replay loop: apply row by row, commit, acknowledge.
LEMMA SafetyReplay ==
    ASSUME IInv, TypeInv', ReadBatch \/ ApplyRow \/ CommitBatch \/ AcknowledgeBatch
    PROVE  IInv'
<1>i. /\ TypeOK /\ CursorsWithinLog /\ LoopHasRows /\ AppliedMeansIncluded
      /\ ReplayIsContiguous /\ ReplayReachesDesired /\ ActiveIsNotUnderConstruction
      /\ LocalsMeaning
    BY Conjuncts
<1>t. /\ StoreTypeOK /\ generation \in Nat
      /\ Len(log) \in Nat /\ pruned \in Nat /\ cursor \in Nat /\ batchEnd \in Nat
      /\ target \in Nat /\ sequence \in Nat
      /\ staged \in [Docs -> Nat] /\ desired \in [Docs -> Nat]
      /\ index \in [Index -> [Docs -> Nat]]
      /\ log \in Seq(Row) /\ made \subseteq Index /\ broken \subseteq made
      /\ Position.gen \in Nat /\ Position.last \in Int /\ Position.last <= Len(log)
      /\ Registered(Catalog) <=> Position.last >= 0
    BY Types
<1> USE <1>i, <1>t, CatalogAssumption
<1>1. Len(log) \in Nat /\ LatestOutboxSequence = Len(log)
    BY LatestInReach
<1>2. CASE ReadBatch
    <2>1. PICK limit \in BatchLimits : /\ cursor' = ReadOutbox(Position.last, limit).from
                                       /\ batchEnd' = ReadOutbox(Position.last, limit).through
                                       /\ cursor' < batchEnd'
        BY <1>2 DEF ReadBatch
    <2>2. /\ Registered(Catalog) /\ target = Position.gen /\ Openable(target)
          /\ Position.last \in Nat /\ pruned \in Nat
        BY <1>2 DEF ReadBatch, LocalsMeaning
    <2>3. cursor' = Position.last
        BY <2>1, <2>2 DEF ReadOutbox, ReplayIsContiguous
    <2>4. batchEnd' \in Nat /\ batchEnd' <= Len(log)
        BY <2>1, <2>2 DEF ReadOutbox
    <2>5. Position.last <= batchEnd'
        BY <2>1, <2>2, <2>3, <2>4
    <2>6. AppliedMeansIncluded' /\ ReplayIsContiguous' /\ ReplayReachesDesired'
          /\ ActiveIsNotUnderConstruction'
        BY <1>2
        DEF ReadBatch, AppliedMeansIncluded, ReplayIsContiguous, ReplayReachesDesired, Includes,
            ActiveIsNotUnderConstruction, Registered, Position, Openable, storeVars
    <2>7. Includes(staged, cursor)'
        <3>1. Includes(staged', Position.last)
            BY <1>2, <2>2 DEF ReadBatch, AppliedMeansIncluded
        <3> QED
            BY <1>2, <2>3, <3>1 DEF ReadBatch, Includes, storeVars
    <2>8. LocalsMeaning'
        <3>1. Position' = Position /\ Registered(Catalog)'
            BY <1>2, <2>2 DEF ReadBatch, Registered, Position, storeVars
        <3>2. UNCHANGED <<log, target, made, broken>> /\ pc' = "applying"
            BY <1>2 DEF ReadBatch, storeVars
        <3> QED
            BY <2>2, <2>3, <2>4, <2>5, <2>7, <3>1, <3>2 DEF LocalsMeaning, Openable
    <2> QED
        BY <2>6, <2>8 DEF IInv
<1>3. CASE ApplyRow
    <2>1. /\ cursor + 1 \in 1..Len(log)
          /\ cursor + 1 \in (Position.last + 1)..Len(log)
          /\ Includes(staged, cursor) /\ Registered(Catalog)
        BY <1>3 DEF ApplyRow, LocalsMeaning
    <2> DEFINE row == log[cursor + 1]
    <2>2. row \in Row
        <3>1. log \in Seq(Row)
            BY DEF StoreTypeOK
        <3> HIDE DEF IInv
        <3> QED
            BY <2>1, <3>1
    <2>3. staged' = [staged EXCEPT ![row.doc] = row.version]
          /\ cursor' = cursor + 1
          /\ UNCHANGED <<storeVars, index, made, broken, pc, target, batchEnd>>
        BY <1>3 DEF ApplyRow
    <2>4. Includes(staged', cursor + 1)
        <3> SUFFICES ASSUME NEW d \in Docs,
                            \A s \in (cursor + 1 + 1)..Len(log) : log[s].doc # d
                     PROVE  staged'[d] = desired[d]
            BY DEF Includes
        <3>1. CASE d = row.doc
            <4>1. desired[row.doc] = row.version
                BY <2>1, <3>1 DEF ReplayReachesDesired
            <4> QED
                BY <2>3, <3>1, <4>1
        <3>2. CASE d # row.doc
            <4>1. \A s \in (cursor + 1)..Len(log) : log[s].doc # d
                BY <1>1, <3>2
            <4> QED
                BY <2>1, <2>3, <3>2, <4>1 DEF Includes
        <3> QED
            BY <3>1, <3>2
    <2>5. AppliedMeansIncluded' /\ ReplayIsContiguous' /\ ReplayReachesDesired'
          /\ ActiveIsNotUnderConstruction'
        BY <2>3
        DEF AppliedMeansIncluded, ReplayIsContiguous, ReplayReachesDesired, Includes,
            ActiveIsNotUnderConstruction, Registered, Position, Openable, storeVars
    <2>6. Includes(staged, cursor)'
        BY <2>3, <2>4 DEF Includes, storeVars
    <2>7. LocalsMeaning'
        <3>1. Position' = Position /\ Registered(Catalog)'
            BY <2>1, <2>3 DEF Registered, Position, storeVars
        <3>2. /\ UNCHANGED <<log, target, made, broken, batchEnd>>
              /\ pc = "applying" /\ pc' = "applying" /\ cursor + 1 <= batchEnd
            BY <1>3 DEF ApplyRow, storeVars
        <3> QED
            BY <2>3, <2>6, <3>1, <3>2 DEF LocalsMeaning, Openable
    <2> QED
        BY <2>5, <2>7 DEF IInv
<1>4. CASE CommitBatch
    <2>1. /\ Includes(staged, cursor) /\ target = Position.gen /\ target \in Index
          /\ Registered(Catalog) /\ Position.last \in Nat /\ Position.last <= cursor
        BY <1>4 DEF CommitBatch, LocalsMeaning
    <2>2. Includes(staged, Position.last)
        <3>1. (cursor + 1)..Len(log) \subseteq (Position.last + 1)..Len(log)
            BY <1>1, <2>1
        <3> QED
            BY <2>1, <3>1 DEF Includes
    <2>3. AppliedMeansIncluded'
        BY <1>4, <2>1, <2>2
        DEF CommitBatch, AppliedMeansIncluded, Includes, Registered, Position, Openable,
            storeVars
    <2>4. ReplayIsContiguous' /\ ReplayReachesDesired' /\ ActiveIsNotUnderConstruction'
        BY <1>4
        DEF CommitBatch, ReplayIsContiguous, ReplayReachesDesired, ActiveIsNotUnderConstruction,
            Registered, Position, storeVars
    <2>5. LocalsMeaning'
        BY <1>4, <2>1
        DEF CommitBatch, LocalsMeaning, Includes, Registered, Position, Openable, storeVars
    <2> QED
        BY <2>3, <2>4, <2>5 DEF IInv
<1>5. CASE AcknowledgeBatch
    <2>1. /\ Position' = [last |-> batchEnd, gen |-> target]
          /\ target \in Index /\ Openable(target) /\ Includes(index[target], batchEnd)
          /\ target = Position.gen /\ Registered(Catalog)
          /\ Position.last \in Nat /\ Position.last <= batchEnd
          /\ UNCHANGED <<desired, log, pruned, index, made, broken>>
          /\ pc' = "idle" \/ (pc' = "loop" /\ target' = target)
        <3>1. pc = "committed" /\ UNCHANGED <<desired, log, pruned, index, made, broken>>
            BY <1>5 DEF AcknowledgeBatch, AcknowledgeProjection
        <3>2. Position' = [last |-> batchEnd, gen |-> target]
            BY <1>5 DEF AcknowledgeBatch, AcknowledgeProjection, Position, StoreTypeOK
        <3>3. pc' = "idle" \/ (pc' = "loop" /\ target' = target)
            BY <1>5 DEF AcknowledgeBatch, HeadOfLoop, ReturnFromRun
        <3> QED
            BY <3>1, <3>2, <3>3 DEF LocalsMeaning
    <2>2. AppliedMeansIncluded'
        BY <2>1 DEF AppliedMeansIncluded, Includes
    <2>3. ReplayIsContiguous'
        <3>1. pruned \in Nat /\ pruned <= Position.last /\ Position'.last = batchEnd
            BY <2>1 DEF ReplayIsContiguous, StoreTypeOK
        <3> QED
            BY <2>1, <3>1 DEF ReplayIsContiguous
    <2>4. ReplayReachesDesired'
        <3>1. (batchEnd + 1)..Len(log) \subseteq (Position.last + 1)..Len(log)
            BY <1>1, <2>1
        <3>2. Position'.last = batchEnd
            BY <2>1
        <3> QED
            BY <2>1, <3>1, <3>2 DEF ReplayReachesDesired
    <2>5. ActiveIsNotUnderConstruction'
        BY <2>1 DEF ActiveIsNotUnderConstruction
    <2>6. LocalsMeaning'
        <3>1. Registered(Catalog)' /\ Position'.gen = target
            BY <2>1 DEF Registered, Position
        <3> QED
            BY <2>1, <3>1 DEF LocalsMeaning, Openable
    <2> QED
        BY <2>2, <2>3, <2>4, <2>5, <2>6 DEF IInv
<1> QED
    BY <1>2, <1>3, <1>4, <1>5

\* The start and the end of a run, a crash, and the loss of a directory.
LEMMA SafetyRunBoundary ==
    ASSUME IInv, TypeInv', OpenActive \/ EndRun \/ Crash \/ LoseActive
    PROVE  IInv'
<1>i. /\ TypeOK /\ CursorsWithinLog /\ LoopHasRows /\ AppliedMeansIncluded
      /\ ReplayIsContiguous /\ ReplayReachesDesired /\ ActiveIsNotUnderConstruction
      /\ LocalsMeaning
    BY Conjuncts
<1>t. /\ StoreTypeOK /\ generation \in Nat
      /\ Len(log) \in Nat /\ pruned \in Nat /\ cursor \in Nat /\ batchEnd \in Nat
      /\ target \in Nat /\ sequence \in Nat
      /\ staged \in [Docs -> Nat] /\ desired \in [Docs -> Nat]
      /\ index \in [Index -> [Docs -> Nat]]
      /\ log \in Seq(Row) /\ made \subseteq Index /\ broken \subseteq made
      /\ Position.gen \in Nat /\ Position.last \in Int /\ Position.last <= Len(log)
      /\ Registered(Catalog) <=> Position.last >= 0
    BY Types
<1> USE <1>i, <1>t, CatalogAssumption
<1>1. UNCHANGED <<storeVars, index>>
    BY DEF OpenActive, EndRun, Crash, LoseActive
<1>2. ReplayIsContiguous' /\ ReplayReachesDesired'
    BY <1>1 DEF ReplayIsContiguous, ReplayReachesDesired, Registered, Position, storeVars
<1>3. AppliedMeansIncluded'
    BY <1>1
    DEF AppliedMeansIncluded, OpenActive, EndRun, Crash, LoseActive, Includes, Registered,
        Position, Openable, storeVars
<1>4. LocalsMeaning' /\ ActiveIsNotUnderConstruction'
    BY <1>1
    DEF LocalsMeaning, ActiveIsNotUnderConstruction, OpenActive, EndRun, Crash, LoseActive,
        HeadOfLoop, ReturnFromRun, Registered, Position, Openable, storeVars
<1> QED
    BY <1>2, <1>3, <1>4 DEF IInv

LEMMA SafetyStep == ~WritersDuringRebuild /\ IInv /\ [Next]_vars => IInv'
<1> SUFFICES ASSUME ~WritersDuringRebuild, IInv, [Next]_vars
             PROVE  IInv'
    OBVIOUS
<1>1. TypeInv'
    BY TypeStep DEF IInv
<1>2. CASE UNCHANGED vars
    BY <1>1, <1>2
    DEF vars, storeVars, projectorVars, IInv, AppliedMeansIncluded, ReplayIsContiguous,
        ReplayReachesDesired, ActiveIsNotUnderConstruction, LocalsMeaning, Includes, Registered,
        Position, Openable
<1>3. CASE Next
    BY <1>1, <1>3, SafetyOtherProcess, SafetyRebuild, SafetyReplay, SafetyRunBoundary
    DEF Next, Worker
<1> QED
    BY <1>2, <1>3

\* When no other process commits during a rebuild, the catalog checkpoint means what it says in
\* every reachable state: the active generation includes every mutation through the
\* acknowledged sequence, whatever crashes, replays, batch limits, prunes and disk losses.
THEOREM AppliedIsIncluded == ~WritersDuringRebuild => (Spec => []AppliedMeansIncluded)
<1> SUFFICES ASSUME ~WritersDuringRebuild
             PROVE  Spec => []AppliedMeansIncluded
    OBVIOUS
<1>1. Init => IInv
    BY SafetyInit
<1>2. IInv /\ [Next]_vars => IInv'
    BY SafetyStep
<1>3. IInv => AppliedMeansIncluded
    BY DEF IInv
<1> QED
    BY <1>1, <1>2, <1>3, PTL DEF Spec

\* Under the same condition the rows the worker still needs are never pruned and suffice: the
\* replay that starts at the checkpoint is contiguous and ends in the desired documents.
THEOREM ReplayIsSafe ==
    ~WritersDuringRebuild => (Spec => [](ReplayIsContiguous /\ ReplayReachesDesired))
<1> SUFFICES ASSUME ~WritersDuringRebuild
             PROVE  Spec => [](ReplayIsContiguous /\ ReplayReachesDesired)
    OBVIOUS
<1>1. Init => IInv
    BY SafetyInit
<1>2. IInv /\ [Next]_vars => IInv'
    BY SafetyStep
<1>3. IInv => ReplayIsContiguous /\ ReplayReachesDesired
    BY DEF IInv
<1> QED
    BY <1>1, <1>2, <1>3, PTL DEF Spec

=============================================================================
