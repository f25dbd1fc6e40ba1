----------------------- MODULE FilesystemGraphProofs -----------------------
(***************************************************************************)
(* Machine-checked proofs about FilesystemGraph, for every volume, batch   *)
(* size and page limit, and whatever the providers report.                 *)
(***************************************************************************)
EXTENDS FilesystemGraph, FiniteSetTheorems, TLAPS

-----------------------------------------------------------------------------
(* The inductive invariant.                                                *)

\* Each kind of transaction goes with its state of the session, and without a transaction there is
\* nothing uncommitted.
Discipline ==
    /\ batch.kind = "none" => batch = NoBatch /\ work = graph
    /\ batch.kind = "changes" => session = NoSession
    /\ batch.kind = "page" => session.phase = "Scanning"
    /\ session.phase = "none" => session = NoSession

\* A link the transaction has not reported as affected still names the object it is committed with.
UnaffectedLinksKept ==
    \A l \in DOMAIN graph.links \ batch.affected :
        l \in DOMAIN work.links /\ work.links[l].object = graph.links[l].object

\* Stamps do not run ahead of the generation that is being written.
StampsInPast ==
    /\ \A l \in DOMAIN graph.links : graph.links[l].seenAt <= generation
    /\ \A l \in DOMAIN work.links : work.links[l].seenAt <= generation + 1

\* Exactly the links of a set carry a stamp of the running scan.
StampedExactly(rows, links) ==
    /\ links \subseteq DOMAIN rows.links
    /\ \A l \in DOMAIN rows.links : l \in links <=> session.scan <= rows.links[l].seenAt

ScanStamps ==
    session # NoSession =>
        /\ session.scan <= generation
        /\ StampedExactly(graph, observed)
        /\ StampedExactly(work, observed \cup batch.seen)

\* The second sweep starts when no stale link is left.
SecondSweep ==
    session.phase = "SweepingObjects" => DOMAIN graph.links \subseteq observed

RowsOK(rows) == RowsTypeOK(rows) /\ ObjectsAreLive(rows)

IInv ==
    /\ generation \in Nat
    /\ RowsOK(graph)
    /\ RowsOK(work)
    /\ DOMAIN documents \subseteq Links
    /\ session \in [phase : {"none", "Scanning", "SweepingLinks", "SweepingObjects"}, scan : Nat]
    /\ checkpoint \in {"none", "scanMarker", "provider"}
    /\ batch \in [kind : {"none", "changes", "page"}, size : Nat,
                  affected : SUBSET Links, seen : SUBSET Links]
    /\ observed \subseteq Links
    /\ DocumentsMatchLinks
    /\ ScanMarkerHasSession
    /\ Discipline
    /\ UnaffectedLinksKept
    /\ StampsInPast
    /\ ScanStamps
    /\ SecondSweep

-----------------------------------------------------------------------------
(* Tables and rows.                                                        *)

\* Writing a row keeps a table a table.
LEMMA PutIsTable ==
    ASSUME NEW table, NEW Keys, NEW Row, IsTable(table, Keys, Row),
           NEW key \in Keys, NEW row \in Row
    PROVE  IsTable(Put(table, key, row), Keys, Row)
BY DEF IsTable, Put

\* Deleting rows keeps a table a table.
LEMMA DeleteIsTable ==
    ASSUME NEW table, NEW Keys, NEW Row, IsTable(table, Keys, Row), NEW keys
    PROVE  IsTable(Delete(table, keys), Keys, Row)
BY DEF IsTable, Delete

\* What the columns of a row set are, stated apart from the constraints on them.
LEMMA Columns ==
    ASSUME NEW rows, RowsTypeOK(rows)
    PROVE  /\ rows = [state |-> rows.state, objects |-> rows.objects, links |-> rows.links,
                      pathJobs |-> rows.pathJobs, volumeJob |-> rows.volumeJob]
           /\ rows.state \in VolumeStates \cup {NoVolume}
           /\ IsTable(rows.objects, Objects, ObjectRow)
           /\ IsTable(rows.links, Links, LinkRow)
           /\ rows.pathJobs \in Seq([root : Directories, cursor : Nat])
           /\ rows.volumeJob \in Int
BY DEF RowsTypeOK

\* Rows with other links and objects.
LEMMA ReplaceTables ==
    ASSUME NEW rows, RowsTypeOK(rows), NEW links, NEW objects
    PROVE  /\ [rows EXCEPT !.links = links, !.objects = objects] =
                [state |-> rows.state, objects |-> objects, links |-> links,
                 pathJobs |-> rows.pathJobs, volumeJob |-> rows.volumeJob]
           /\ [rows EXCEPT !.objects = objects] =
                [state |-> rows.state, objects |-> objects, links |-> rows.links,
                 pathJobs |-> rows.pathJobs, volumeJob |-> rows.volumeJob]
<1>1. rows = [state |-> rows.state, objects |-> rows.objects, links |-> rows.links,
              pathJobs |-> rows.pathJobs, volumeJob |-> rows.volumeJob]
  BY Columns
<1>2. [rows EXCEPT !.objects = objects] =
        [state |-> rows.state, objects |-> objects, links |-> rows.links,
         pathJobs |-> rows.pathJobs, volumeJob |-> rows.volumeJob]
  BY <1>1
<1>3. [rows EXCEPT !.links = links] =
        [state |-> rows.state, objects |-> rows.objects, links |-> links,
         pathJobs |-> rows.pathJobs, volumeJob |-> rows.volumeJob]
  BY <1>1
<1>4. [[rows EXCEPT !.links = links] EXCEPT !.objects = objects] =
        [state |-> rows.state, objects |-> objects, links |-> links,
         pathJobs |-> rows.pathJobs, volumeJob |-> rows.volumeJob]
  <2> DEFINE one == [state |-> rows.state, objects |-> rows.objects, links |-> links,
                     pathJobs |-> rows.pathJobs, volumeJob |-> rows.volumeJob]
  <2>1. [one EXCEPT !.objects = objects] =
          [state |-> rows.state, objects |-> objects, links |-> links,
           pathJobs |-> rows.pathJobs, volumeJob |-> rows.volumeJob]
    OBVIOUS
  <2>2. QED
    BY <1>3, <2>1
<1>5. [rows EXCEPT !.links = links, !.objects = objects] =
        [[rows EXCEPT !.links = links] EXCEPT !.objects = objects]
  BY <1>1
<1>6. QED
  BY <1>2, <1>4, <1>5

\* set_volume_state touches the volume row and its refresh job.
LEMMA SetVolumeStateRows ==
    ASSUME NEW rows, RowsOK(rows), NEW state \in VolumeStates
    PROVE  /\ RowsOK(SetVolumeState(rows, state))
           /\ SetVolumeState(rows, state).links = rows.links
           /\ SetVolumeState(rows, state).state = state
<1> DEFINE new == SetVolumeState(rows, state)
<1>1. new = [state |-> state, objects |-> rows.objects, links |-> rows.links,
             pathJobs |-> rows.pathJobs, volumeJob |-> 0]
  <2> DEFINE one == [state |-> state, objects |-> rows.objects, links |-> rows.links,
                     pathJobs |-> rows.pathJobs, volumeJob |-> rows.volumeJob]
  <2>1. [rows EXCEPT !.state = state] = one
    BY Columns DEF RowsOK
  <2>2. [one EXCEPT !.volumeJob = 0] =
          [state |-> state, objects |-> rows.objects, links |-> rows.links,
           pathJobs |-> rows.pathJobs, volumeJob |-> 0]
    OBVIOUS
  <2>3. QED
    BY <2>1, <2>2 DEF SetVolumeState, EnqueueVolumeProjectionRefresh
<1>2. QED
  BY <1>1 DEF RowsOK, RowsTypeOK, ObjectsAreLive

\* upsert_volume touches the volume row.
LEMMA UpsertVolumeRows ==
    ASSUME NEW rows, RowsOK(rows)
    PROVE  /\ RowsOK(UpsertVolume(rows))
           /\ UpsertVolume(rows).links = rows.links
<1>1. UpsertVolume(rows) =
        [state |-> "Online", objects |-> rows.objects, links |-> rows.links,
         pathJobs |-> rows.pathJobs, volumeJob |-> rows.volumeJob]
  BY Columns DEF RowsOK, UpsertVolume
<1>2. QED
  BY <1>1 DEF RowsOK, RowsTypeOK, ObjectsAreLive, VolumeStates

\* upsert_object writes one object, alive.
LEMMA UpsertObjectRows ==
    ASSUME NEW rows, RowsOK(rows), NEW object \in Objects, NEW meta \in Metas,
           NEW seenAt \in Nat
    PROVE  /\ RowsOK(UpsertObject(rows, object, meta, seenAt))
           /\ UpsertObject(rows, object, meta, seenAt).links = rows.links
<1> DEFINE row == [meta |-> meta, tombstoned |-> FALSE, seenAt |-> seenAt]
<1>1. UpsertObject(rows, object, meta, seenAt) =
        [state |-> rows.state, objects |-> Put(rows.objects, object, row), links |-> rows.links,
         pathJobs |-> rows.pathJobs, volumeJob |-> rows.volumeJob]
  BY Columns DEF RowsOK, UpsertObject
<1>2. IsTable(Put(rows.objects, object, row), Objects, ObjectRow)
  <2>1. row \in ObjectRow
    BY DEF ObjectRow
  <2>2. QED
    BY <2>1, Columns, PutIsTable DEF RowsOK
<1>3. ObjectsAreLive(UpsertObject(rows, object, meta, seenAt))
  BY <1>1 DEF RowsOK, ObjectsAreLive, Put
<1>4. QED
  BY <1>1, <1>2, <1>3 DEF RowsOK, RowsTypeOK

\* A queue stays a queue when a job is appended.
LEMMA AppendedJob ==
    ASSUME NEW Job, NEW jobs \in Seq(Job), NEW job \in Job
    PROVE  Append(jobs, job) \in Seq(Job)
OBVIOUS

\* INSERT OR IGNORE keeps one pending job per directory.
LEMMA EnqueueRefreshRows ==
    ASSUME NEW rows, RowsOK(rows), NEW object \in Directories
    PROVE  /\ RowsOK(EnqueueRefresh(rows, object))
           /\ EnqueueRefresh(rows, object).links = rows.links
           /\ EnqueueRefresh(rows, object).objects = rows.objects
<1> DEFINE job == [root |-> object, cursor |-> 0]
<1>1. CASE \E i \in DOMAIN rows.pathJobs : rows.pathJobs[i].root = object
  BY <1>1 DEF EnqueueRefresh
<1>2. CASE ~\E i \in DOMAIN rows.pathJobs : rows.pathJobs[i].root = object
  <2> DEFINE jobs == Append(rows.pathJobs, job)
  <2>1. EnqueueRefresh(rows, object) =
          [state |-> rows.state, objects |-> rows.objects, links |-> rows.links,
           pathJobs |-> jobs, volumeJob |-> rows.volumeJob]
    <3>1. EnqueueRefresh(rows, object) = [rows EXCEPT !.pathJobs = jobs]
      BY <1>2 DEF EnqueueRefresh
    <3>2. QED
      BY <3>1, Columns DEF RowsOK
  <2>2. jobs \in Seq([root : Directories, cursor : Nat])
    <3>1. job \in [root : Directories, cursor : Nat]
      OBVIOUS
    <3>2. QED
      BY <3>1, Columns, AppendedJob DEF RowsOK
  <2>3. ASSUME NEW i \in DOMAIN jobs, NEW j \in DOMAIN jobs, jobs[i].root = jobs[j].root
        PROVE  i = j
    BY <1>2, <2>3, Columns DEF RowsOK, RowsTypeOK
  <2>4. QED
    BY <2>1, <2>2, <2>3 DEF RowsOK, RowsTypeOK, ObjectsAreLive
<1>3. QED
  BY <1>1, <1>2

\* Removing links tombstones exactly the objects that lose their last one.
LEMMA RemoveLinksRows ==
    ASSUME NEW rows, RowsOK(rows), NEW gone
    PROVE  /\ RowsOK(RemoveLinks(rows, gone))
           /\ RemoveLinks(rows, gone).links = Delete(rows.links, gone)
           /\ DOMAIN RemoveLinks(rows, gone).objects = DOMAIN rows.objects
<1> DEFINE objects ==
        [o \in DOMAIN rows.objects |->
            [rows.objects[o] EXCEPT !.tombstoned =
                @ \/ (LinksOf(rows, o) # {} /\ LinksOf(rows, o) \subseteq gone)]]
           new == RemoveLinks(rows, gone)
<1>1. new = [state |-> rows.state, objects |-> objects, links |-> Delete(rows.links, gone),
             pathJobs |-> rows.pathJobs, volumeJob |-> rows.volumeJob]
  <2>1. new = [rows EXCEPT !.links = Delete(rows.links, gone), !.objects = objects]
    BY DEF RemoveLinks
  <2> HIDE DEF objects, new
  <2>2. QED
    BY <2>1, ReplaceTables DEF RowsOK
<1>2. IsTable(Delete(rows.links, gone), Links, LinkRow)
  BY Columns, DeleteIsTable DEF RowsOK
<1>3. IsTable(objects, Objects, ObjectRow)
  <2>1. IsTable(rows.objects, Objects, ObjectRow)
    BY Columns DEF RowsOK
  <2>2. ASSUME NEW o \in DOMAIN rows.objects
        PROVE  objects[o] \in ObjectRow
    BY <2>1, Zenon DEF IsTable, ObjectRow
  <2>3. QED
    BY <2>1, <2>2 DEF IsTable
<1>4. ASSUME NEW l \in DOMAIN Delete(rows.links, gone)
      PROVE  /\ rows.links[l].object \in DOMAIN rows.objects
             /\ ~objects[rows.links[l].object].tombstoned
  <2> DEFINE o == rows.links[l].object
  <2>1. l \in DOMAIN rows.links /\ l \notin gone
    BY DEF Delete
  <2>2. o \in DOMAIN rows.objects /\ ~rows.objects[o].tombstoned
    BY <2>1 DEF RowsOK, ObjectsAreLive
  <2>3. ~(LinksOf(rows, o) \subseteq gone)
    BY <2>1 DEF LinksOf
  <2>4. rows.objects[o] \in ObjectRow
    BY <2>2, Columns DEF RowsOK, IsTable
  <2>5. QED
    BY <2>2, <2>3, <2>4 DEF ObjectRow
<1>5. ObjectsAreLive(new)
  <2>1. \A l \in DOMAIN Delete(rows.links, gone) : Delete(rows.links, gone)[l] = rows.links[l]
    BY DEF Delete
  <2>2. new.objects = objects /\ new.links = Delete(rows.links, gone)
    BY <1>1
  <2> HIDE DEF objects, new
  <2>3. DOMAIN objects = DOMAIN rows.objects
    BY DEF objects
  <2>4. QED
    BY <2>1, <2>2, <2>3, <1>4 DEF ObjectsAreLive
<1>6. RowsTypeOK(new)
  BY <1>1, <1>2, <1>3 DEF RowsOK, RowsTypeOK, Delete
<1>7. QED
  BY <1>1, <1>5, <1>6 DEF RowsOK

\* Tombstoning objects that no link names harms no link.
LEMMA TombstoneObjectsRows ==
    ASSUME NEW rows, RowsOK(rows), NEW gone,
           \A o \in gone : LinksOf(rows, o) = {}
    PROVE  /\ RowsOK(TombstoneObjects(rows, gone))
           /\ TombstoneObjects(rows, gone).links = rows.links
<1> DEFINE objects == [o \in DOMAIN rows.objects |->
                        [rows.objects[o] EXCEPT !.tombstoned = @ \/ o \in gone]]
           new == TombstoneObjects(rows, gone)
<1>1. new = [state |-> rows.state, objects |-> objects, links |-> rows.links,
             pathJobs |-> rows.pathJobs, volumeJob |-> rows.volumeJob]
  <2>1. new = [rows EXCEPT !.objects = objects]
    BY DEF TombstoneObjects
  <2> HIDE DEF objects, new
  <2>2. QED
    BY <2>1, ReplaceTables DEF RowsOK
<1>2. IsTable(objects, Objects, ObjectRow)
  <2>1. IsTable(rows.objects, Objects, ObjectRow)
    BY Columns DEF RowsOK
  <2>2. ASSUME NEW o \in DOMAIN rows.objects
        PROVE  objects[o] \in ObjectRow
    BY <2>1, Zenon DEF IsTable, ObjectRow
  <2>3. QED
    BY <2>1, <2>2 DEF IsTable
<1>3. ASSUME NEW l \in DOMAIN rows.links
      PROVE  /\ rows.links[l].object \in DOMAIN rows.objects
             /\ ~objects[rows.links[l].object].tombstoned
  <2> DEFINE o == rows.links[l].object
  <2>1. o \in DOMAIN rows.objects /\ ~rows.objects[o].tombstoned
    BY DEF RowsOK, ObjectsAreLive
  <2>2. o \notin gone
    BY DEF LinksOf
  <2>3. rows.objects[o] \in ObjectRow
    BY <2>1, Columns DEF RowsOK, IsTable
  <2>4. QED
    BY <2>1, <2>2, <2>3 DEF ObjectRow
<1>4. QED
  BY <1>1, <1>2, <1>3 DEF RowsOK, RowsTypeOK, ObjectsAreLive

\* A removed link takes its object along when it was the last, and its directory's refresh.
LEMMA RemoveLinkRows ==
    ASSUME NEW rows, RowsOK(rows), NEW link, NEW object
    PROVE  /\ RowsOK(RemoveLink(rows, link, object))
           /\ RemoveLink(rows, link, object).links = Delete(rows.links, {link})
<1>1. CASE link \notin DOMAIN rows.links
  <2>1. rows.links = Delete(rows.links, {link})
    BY <1>1, Columns DEF RowsOK, IsTable, Delete
  <2>2. QED
    BY <1>1, <2>1 DEF RemoveLink
<1>2. CASE link \in DOMAIN rows.links
  <2> DEFINE kept == RemoveLinks(rows, {link})
  <2>1. RowsOK(kept) /\ kept.links = Delete(rows.links, {link})
    BY RemoveLinksRows
  <2>2. CASE object \in Directories
    <3>1. RemoveLink(rows, link, object) = EnqueueRefresh(kept, object)
      BY <1>2, <2>2 DEF RemoveLink
    <3> HIDE DEF kept
    <3>2. QED
      BY <2>1, <2>2, <3>1, EnqueueRefreshRows
  <2>3. CASE object \notin Directories
    BY <1>2, <2>1, <2>3 DEF RemoveLink
  <2>4. QED
    BY <2>2, <2>3
<1>3. QED
  BY <1>1, <1>2

\* tombstone_object refuses an object that still has links.
LEMMA TombstoneObjectRows ==
    ASSUME NEW rows, RowsOK(rows), NEW object, TombstoneAccepted(rows, object)
    PROVE  /\ RowsOK(TombstoneObject(rows, object))
           /\ TombstoneObject(rows, object).links = rows.links
<1> DEFINE objects == [rows.objects EXCEPT ![object].tombstoned = TRUE]
           new == TombstoneObject(rows, object)
<1>0. /\ object \in DOMAIN rows.objects
      /\ IsTable(rows.objects, Objects, ObjectRow)
      /\ \A l \in DOMAIN rows.links : rows.links[l].object # object
  BY Columns DEF RowsOK, TombstoneAccepted, LinksOf
<1>1. new = [state |-> rows.state, objects |-> objects, links |-> rows.links,
             pathJobs |-> rows.pathJobs, volumeJob |-> rows.volumeJob]
  <2>1. new = [rows EXCEPT !.objects = objects]
    <3>1. "objects" \in DOMAIN rows
      BY Columns DEF RowsOK
    <3>2. QED
      BY <3>1 DEF TombstoneObject
  <2> HIDE DEF objects, new
  <2>2. QED
    BY <2>1, ReplaceTables DEF RowsOK
<1>2. IsTable(objects, Objects, ObjectRow)
  BY <1>0 DEF IsTable, ObjectRow
<1>3. \A o \in DOMAIN rows.objects : o # object => objects[o] = rows.objects[o]
  BY <1>0 DEF IsTable
<1>4. DOMAIN objects = DOMAIN rows.objects
  BY <1>0 DEF IsTable
<1> HIDE DEF objects, new
<1>5. ObjectsAreLive(new)
  BY <1>0, <1>1, <1>3, <1>4 DEF RowsOK, ObjectsAreLive
<1>6. QED
  BY <1>1, <1>2, <1>5 DEF RowsOK, RowsTypeOK, new

\* upsert_link keeps the unique names and revives its object.
LEMMA UpsertLinkRows ==
    ASSUME NEW rows, RowsOK(rows), NEW s \in Snapshots, NEW seenAt \in Nat,
           UpsertLinkAccepted(rows, s)
    PROVE  /\ RowsOK(UpsertLink(rows, s, seenAt))
           /\ UpsertLink(rows, s, seenAt).links =
                Put(Delete(rows.links, StaleConflicts(rows, s)), s.id,
                    [object |-> s.object, parent |-> s.parent, name |-> s.name,
                     boundary |-> s.boundary, seenAt |-> seenAt])
<1> DEFINE row == [object |-> s.object, parent |-> s.parent, name |-> s.name,
                   boundary |-> s.boundary, seenAt |-> seenAt]
           kept == WithoutConflicts(rows, s)
           queued == IF Moves(kept, s) /\ s.object \in Directories
                     THEN EnqueueRefresh(kept, s.object)
                     ELSE kept
           links == Put(queued.links, s.id, row)
           objects == [queued.objects EXCEPT ![s.object].tombstoned = FALSE]
           new == UpsertLink(rows, s, seenAt)
<1>s. /\ s.id \in Links /\ s.object \in Objects /\ s.parent \in Objects \cup {Root}
      /\ s.name \in Names /\ s.boundary \in BOOLEAN
  BY SnapshotsAssumption
<1>r. row \in LinkRow
  BY <1>s DEF LinkRow
<1>1. /\ RowsOK(kept)
      /\ kept.links = Delete(rows.links, StaleConflicts(rows, s))
      /\ DOMAIN kept.objects = DOMAIN rows.objects
  BY RemoveLinksRows DEF WithoutConflicts
<1>2. RowsOK(queued) /\ queued.links = kept.links /\ queued.objects = kept.objects
  <2> HIDE DEF kept
  <2>1. QED
    BY <1>1, EnqueueRefreshRows
<1>3. new = [queued EXCEPT !.links = links, !.objects = objects]
  <2>1. new = [queued EXCEPT !.links = Put(@, s.id, row), !.objects[s.object].tombstoned = FALSE]
    BY DEF UpsertLink
  <2> HIDE DEF queued, row, new
  <2>2. queued = [state |-> queued.state, objects |-> queued.objects, links |-> queued.links,
                  pathJobs |-> queued.pathJobs, volumeJob |-> queued.volumeJob]
    BY <1>2, Columns DEF RowsOK
  <2>3. QED
    BY <2>1, <2>2
<1> HIDE DEF new, queued, row
<1>4. new = [state |-> queued.state, objects |-> objects, links |-> links,
             pathJobs |-> queued.pathJobs, volumeJob |-> queued.volumeJob]
  <2> HIDE DEF links, objects
  <2>1. QED
    BY <1>2, <1>3, ReplaceTables DEF RowsOK
<1>5. IsTable(links, Links, LinkRow)
  BY <1>2, <1>s, <1>r, Columns, PutIsTable DEF RowsOK
<1>6. s.object \in DOMAIN queued.objects /\ IsTable(queued.objects, Objects, ObjectRow)
  BY <1>1, <1>2, Columns DEF RowsOK, UpsertLinkAccepted
<1>7. IsTable(objects, Objects, ObjectRow)
  BY <1>6 DEF IsTable, ObjectRow
<1>8. /\ DOMAIN objects = DOMAIN queued.objects
      /\ ~objects[s.object].tombstoned
      /\ \A o \in DOMAIN objects : o # s.object => objects[o] = queued.objects[o]
  BY <1>6 DEF IsTable, ObjectRow
<1> HIDE DEF objects
<1>9. ObjectsAreLive(new)
  BY <1>2, <1>4, <1>6, <1>8 DEF RowsOK, ObjectsAreLive, Put, row
<1>10. \A l \in DOMAIN queued.links \ {s.id} :
            queued.links[l].parent # s.parent \/ queued.links[l].name # s.name
  BY <1>2 DEF UpsertLinkAccepted
<1>11. \A l, k \in DOMAIN links :
            links[l].parent = links[k].parent /\ links[l].name = links[k].name => l = k
  BY <1>2, <1>10 DEF RowsOK, RowsTypeOK, Put, row
<1>12. RowsTypeOK(new)
  <2> HIDE DEF links
  <2>1. QED
    BY <1>2, <1>4, <1>5, <1>7, <1>11 DEF RowsOK, RowsTypeOK
<1>13. QED
  BY <1>1, <1>2, <1>4, <1>9, <1>12 DEF RowsOK, new, row

-----------------------------------------------------------------------------
(* The invariant is inductive: one lemma per group of actions.             *)

\* Documents outside the synchronized links are the only ones that can miss their link.
LEMMA SyncMatchesLinks ==
    ASSUME NEW rows, NEW docs, NEW links,
           \A l \in DOMAIN docs \ links :
                l \in DOMAIN rows.links /\ docs[l].object = rows.links[l].object
    PROVE  \A l \in DOMAIN SyncCatalogProjection(rows, docs, links) :
                /\ l \in DOMAIN rows.links
                /\ SyncCatalogProjection(rows, docs, links)[l].object = rows.links[l].object
BY DEF SyncCatalogProjection, BuildCatalogDocument, HasDocument

\* The links of a typed row set are known.
LEMMA LinksKnown ==
    ASSUME NEW rows, RowsOK(rows)
    PROVE  /\ DOMAIN rows.links \subseteq Links
           /\ \A l \in DOMAIN rows.links : rows.links[l] \in LinkRow /\ rows.links[l].seenAt \in Nat
BY Columns DEF RowsOK, IsTable, LinkRow

\* An empty store satisfies the invariant.
LEMMA InvInit == Init => IInv
<1> SUFFICES ASSUME Init PROVE IInv
  OBVIOUS
<1>1. RowsOK(NoRows)
  BY DEF RowsOK, RowsTypeOK, ObjectsAreLive, NoRows, IsTable, EmptyTable, NoVolume, NoJob
<1>2. DOMAIN NoRows.links = {} /\ DOMAIN EmptyTable = {}
  BY DEF NoRows, EmptyTable
<1>3. QED
  BY <1>1, <1>2
     DEF IInv, Init, NoSession, NoBatch, DocumentsMatchLinks, ScanMarkerHasSession, Discipline,
         UnaffectedLinksKept, StampsInPast, ScanStamps, SecondSweep

\* Opening a transaction changes nothing but its kind; ending it without effect neither.
LEMMA InvBegin ==
    ASSUME IInv, BeginChanges \/ BeginPage \/ Rollback
    PROVE  IInv'
<1> USE DEF IInv
<1>1. CASE BeginChanges \/ BeginPage
  <2>1. batch = NoBatch /\ work = graph
    BY <1>1 DEF BeginChanges, BeginPage, Idle, Discipline, NoBatch
  <2>2. batch'.affected = {} /\ batch'.seen = {} /\ batch'.size = 0
    BY <1>1 DEF BeginChanges, BeginPage, NoBatch
  <2>3. \/ batch'.kind = "changes" /\ session = NoSession
        \/ batch'.kind = "page" /\ session.phase = "Scanning"
    BY <1>1 DEF BeginChanges, BeginPage, NoBatch
  <2>4. batch' \in [kind : {"none", "changes", "page"}, size : Nat,
                    affected : SUBSET Links, seen : SUBSET Links]
    BY <1>1 DEF BeginChanges, BeginPage, NoBatch
  <2>5. UNCHANGED <<generation, graph, documents, session, checkpoint, work, observed>>
    BY <1>1 DEF BeginChanges, BeginPage
  <2>6. Discipline' /\ UnaffectedLinksKept' /\ ScanStamps'
    BY <2>1, <2>2, <2>3, <2>5
       DEF Discipline, UnaffectedLinksKept, ScanStamps, StampedExactly, NoSession
  <2>7. DocumentsMatchLinks' /\ ScanMarkerHasSession' /\ StampsInPast' /\ SecondSweep'
    BY <2>5 DEF DocumentsMatchLinks, ScanMarkerHasSession, StampsInPast, SecondSweep
  <2>8. RowsOK(graph)' /\ RowsOK(work)'
    BY <2>5
  <2>9. QED
    BY <2>4, <2>5, <2>6, <2>7, <2>8
<1>2. CASE Rollback
  <2>1. work' = graph /\ batch' = NoBatch
    BY <1>2 DEF Rollback
  <2>2. UNCHANGED <<generation, graph, documents, session, checkpoint, observed>>
    BY <1>2 DEF Rollback
  <2>3. batch' \in [kind : {"none", "changes", "page"}, size : Nat,
                    affected : SUBSET Links, seen : SUBSET Links]
    BY <2>1 DEF NoBatch
  <2>4. Discipline' /\ UnaffectedLinksKept' /\ ScanStamps'
    BY <2>1, <2>2 DEF Discipline, UnaffectedLinksKept, ScanStamps, StampedExactly, NoBatch
  <2>5. DocumentsMatchLinks' /\ ScanMarkerHasSession' /\ SecondSweep'
    BY <2>2 DEF DocumentsMatchLinks, ScanMarkerHasSession, SecondSweep
  <2>6. StampsInPast'
    BY <2>1, <2>2, LinksKnown DEF StampsInPast
  <2>7. RowsOK(graph)' /\ RowsOK(work)'
    BY <2>1, <2>2
  <2>8. QED
    BY <2>2, <2>3, <2>4, <2>5, <2>6, <2>7
<1>3. QED
  BY <1>1, <1>2

\* A snapshot opens its transaction with the volume online and the links it had.
LEMMA InvBeginSnapshot ==
    ASSUME IInv, BeginSnapshot
    PROVE  IInv'
<1> USE DEF IInv
<1>1. /\ batch = NoBatch /\ work = graph /\ session = NoSession
      /\ work' = UpsertVolume(graph)
      /\ UNCHANGED <<generation, graph, documents, session, checkpoint, observed>>
  BY DEF BeginSnapshot, Idle, Discipline, NoBatch
<1>2. RowsOK(work)' /\ work'.links = graph.links /\ RowsOK(graph)'
  BY <1>1, UpsertVolumeRows
<1>3. /\ batch'.kind = "changes" /\ batch'.affected = {} /\ batch'.seen = {}
      /\ batch' \in [kind : {"none", "changes", "page"}, size : Nat,
                     affected : SUBSET Links, seen : SUBSET Links]
  BY DEF BeginSnapshot, NoBatch
<1>4. Discipline' /\ UnaffectedLinksKept' /\ ScanStamps'
  BY <1>1, <1>2, <1>3 DEF Discipline, UnaffectedLinksKept, ScanStamps, NoSession
<1>5. DocumentsMatchLinks' /\ ScanMarkerHasSession' /\ SecondSweep'
  BY <1>1 DEF DocumentsMatchLinks, ScanMarkerHasSession, SecondSweep
<1>6. StampsInPast'
  BY <1>1, <1>2, LinksKnown DEF StampsInPast
<1>7. QED
  BY <1>1, <1>2, <1>3, <1>4, <1>5, <1>6

\* What one iteration of the mutation loop must respect.
LEMMA InvMutate ==
    ASSUME IInv, NEW rows, NEW links, NEW seen,
           Mutate(rows, links, seen),
           batch.kind \in {"changes", "page"},
           RowsOK(rows), links \subseteq Links, seen \subseteq Links,
           \A l \in DOMAIN work.links \ links :
                l \in DOMAIN rows.links /\ rows.links[l].object = work.links[l].object,
           \A l \in DOMAIN rows.links : rows.links[l].seenAt <= generation + 1,
           batch.kind = "page" => StampedExactly(rows, (observed \cup batch.seen) \cup seen)
    PROVE  IInv'
<1> USE DEF IInv
<1>1. /\ work' = rows
      /\ batch'.kind = batch.kind
      /\ batch'.affected = batch.affected \cup links
      /\ batch'.seen = batch.seen \cup seen
      /\ batch' \in [kind : {"none", "changes", "page"}, size : Nat,
                     affected : SUBSET Links, seen : SUBSET Links]
  <2>1. work' = rows
    BY DEF Mutate
  <2>2. batch' = [batch EXCEPT !.size = @ + 1, !.affected = @ \cup links, !.seen = @ \cup seen]
    BY DEF Mutate
  <2>3. batch' = [kind |-> batch.kind, size |-> batch.size + 1,
                  affected |-> batch.affected \cup links, seen |-> batch.seen \cup seen]
    BY <2>2
  <2>4. /\ batch.size + 1 \in Nat
        /\ batch.affected \cup links \in SUBSET Links
        /\ batch.seen \cup seen \in SUBSET Links
        /\ batch.kind \in {"none", "changes", "page"}
    OBVIOUS
  <2>5. QED
    BY <2>1, <2>3, <2>4
<1>2. UNCHANGED <<generation, graph, documents, session, checkpoint, observed>>
  BY DEF Mutate
<1>3. Discipline'
  BY <1>1, <1>2 DEF Discipline
<1>4. UnaffectedLinksKept'
  BY <1>1, <1>2 DEF UnaffectedLinksKept
<1>5. StampsInPast'
  BY <1>1, <1>2 DEF StampsInPast
<1>6. ScanStamps'
  <2>1. session # NoSession => batch.kind = "page"
    BY DEF Discipline
  <2>2. observed' \cup batch'.seen = (observed \cup batch.seen) \cup seen
    BY <1>1, <1>2
  <2>3. QED
    BY <1>1, <1>2, <2>1, <2>2 DEF ScanStamps, StampedExactly
<1>7. DocumentsMatchLinks' /\ ScanMarkerHasSession' /\ SecondSweep'
  BY <1>2 DEF DocumentsMatchLinks, ScanMarkerHasSession, SecondSweep
<1>8. RowsOK(graph)' /\ RowsOK(work)'
  BY <1>1, <1>2
<1>9. QED
  BY <1>1, <1>2, <1>3, <1>4, <1>5, <1>6, <1>7, <1>8

\* A mutation that leaves the links alone.
LEMMA InvMutateOther ==
    ASSUME IInv, NEW rows, NEW links,
           Mutate(rows, links, {}),
           batch.kind \in {"changes", "page"},
           RowsOK(rows), links \subseteq Links, rows.links = work.links
    PROVE  IInv'
<1>1. \A l \in DOMAIN rows.links : rows.links[l].seenAt <= generation + 1
  BY DEF IInv, StampsInPast
<1>2. batch.kind = "page" => StampedExactly(rows, (observed \cup batch.seen) \cup {})
  <2>1. batch.kind = "page" => session # NoSession
    BY DEF IInv, Discipline, NoSession
  <2>2. (observed \cup batch.seen) \cup {} = observed \cup batch.seen
    OBVIOUS
  <2>3. QED
    BY <2>1, <2>2 DEF IInv, ScanStamps, StampedExactly
<1>3. QED
  BY <1>1, <1>2, InvMutate

\* An observed link is stamped, and so are no others; what made room for it is affected.
LEMMA InvObserveLink ==
    ASSUME IInv, NEW s \in Snapshots, ObserveLink(s)
    PROVE  IInv'
<1> DEFINE conflicts == StaleConflicts(work, s)
           new == UpsertLink(work, s, generation + 1)
           row == [object |-> s.object, parent |-> s.parent, name |-> s.name,
                   boundary |-> s.boundary, seenAt |-> generation + 1]
           links == LinksAffectedByLink(work, s)
<1>1. /\ generation \in Nat
      /\ RowsOK(work)
      /\ batch.kind \in {"changes", "page"}
      /\ UpsertLinkAccepted(work, s)
      /\ Mutate(new, links, {s.id})
      /\ s.id \in Links
  BY SnapshotsAssumption DEF IInv, ObserveLink
<1>2. RowsOK(new) /\ new.links = Put(Delete(work.links, conflicts), s.id, row)
  BY <1>1, UpsertLinkRows
<1>3. links = {s.id} \cup conflicts /\ conflicts \subseteq DOMAIN work.links
  BY DEF LinksAffectedByLink, StaleConflicts
<1>4. /\ DOMAIN work.links \subseteq Links
      /\ \A l \in DOMAIN work.links : work.links[l].seenAt \in Nat
  BY <1>1, LinksKnown
<1>5. \A l \in conflicts : session.phase = "Scanning" /\ work.links[l].seenAt < session.scan
  BY DEF StaleConflicts
<1> HIDE DEF new, conflicts, links
<1>6. /\ DOMAIN new.links = (DOMAIN work.links \ conflicts) \cup {s.id}
      /\ new.links[s.id] = row
      /\ \A l \in DOMAIN new.links : l # s.id => new.links[l] = work.links[l]
  BY <1>2 DEF Put, Delete
<1>7. \A l \in DOMAIN work.links \ links :
            l \in DOMAIN new.links /\ new.links[l].object = work.links[l].object
  BY <1>3, <1>6
<1>8. \A l \in DOMAIN new.links : new.links[l].seenAt <= generation + 1
  BY <1>1, <1>4, <1>6 DEF IInv, StampsInPast
<1>9. ASSUME batch.kind = "page"
      PROVE  StampedExactly(new, (observed \cup batch.seen) \cup {s.id})
  <2>1. session # NoSession
    BY <1>9 DEF IInv, Discipline, NoSession
  <2>2. /\ StampedExactly(work, observed \cup batch.seen)
        /\ session.scan <= generation
        /\ session.scan \in Nat
    BY <2>1 DEF IInv, ScanStamps
  <2>3. row.seenAt = generation + 1
    OBVIOUS
  <2>4. ASSUME NEW l \in observed \cup batch.seen
        PROVE  l \in DOMAIN new.links
    <3>1. l \in DOMAIN work.links /\ session.scan <= work.links[l].seenAt
      BY <2>2 DEF StampedExactly
    <3>2. l \notin conflicts
      BY <3>1, <1>4, <1>5, <2>2
    <3>3. QED
      BY <3>1, <3>2, <1>6
  <2>5. ASSUME NEW l \in DOMAIN new.links
        PROVE  l \in (observed \cup batch.seen) \cup {s.id}
                    <=> session.scan <= new.links[l].seenAt
    BY <1>1, <1>6, <2>2, <2>3 DEF StampedExactly
  <2>6. QED
    BY <1>6, <2>4, <2>5 DEF StampedExactly
<1>10. links \subseteq Links /\ {s.id} \subseteq Links
  BY <1>1, <1>3, <1>4
<1>11. QED
  BY <1>1, <1>2, <1>7, <1>8, <1>9, <1>10, InvMutate

\* No mutation of an open transaction breaks the rows it works on.
LEMMA InvMutation ==
    ASSUME IInv, Mutation
    PROVE  IInv'
<1>w. RowsOK(work) /\ generation + 1 \in Nat /\ DOMAIN work.links \subseteq Links
  BY LinksKnown DEF IInv
<1>1. ASSUME NEW s \in ObjectSnapshots, ObserveObject(s)
      PROVE  IInv'
  <2>1. s.object \in Objects /\ s.meta \in Metas
    BY SnapshotsAssumption
  <2>2. LinksOf(work, s.object) \subseteq Links
    BY <1>w DEF LinksOf
  <2>3. QED
    BY <1>1, <1>w, <2>1, <2>2, UpsertObjectRows, InvMutateOther DEF ObserveObject
<1>2. ASSUME NEW s \in Snapshots, ObserveLink(s)
      PROVE  IInv'
  BY <1>2, InvObserveLink
<1>3. ASSUME NEW s \in Snapshots, LinkRemoved(s.id, s.object)
      PROVE  IInv'
  <2> DEFINE new == RemoveLink(work, s.id, s.object)
  <2>1. RowsOK(new) /\ new.links = Delete(work.links, {s.id})
    BY <1>w, RemoveLinkRows
  <2>2. /\ batch.kind = "changes"
        /\ Mutate(new, {s.id}, {})
        /\ s.id \in Links
    BY <1>3, SnapshotsAssumption DEF LinkRemoved
  <2> HIDE DEF new
  <2>3. \A l \in DOMAIN work.links \ {s.id} :
            l \in DOMAIN new.links /\ new.links[l].object = work.links[l].object
    BY <2>1 DEF Delete
  <2>4. \A l \in DOMAIN new.links : new.links[l].seenAt <= generation + 1
    BY <2>1 DEF Delete, IInv, StampsInPast
  <2>5. {s.id} \subseteq Links /\ {} \subseteq Links
    BY <2>2
  <2>6. batch.kind \in {"changes", "page"}
    BY <2>2
  <2>7. batch.kind = "page" => StampedExactly(new, (observed \cup batch.seen) \cup {})
    BY <2>2
  <2> DEFINE links == {s.id}
             seen == {}
  <2>8. /\ Mutate(new, links, seen) /\ links \subseteq Links /\ seen \subseteq Links
        /\ \A l \in DOMAIN work.links \ links :
                l \in DOMAIN new.links /\ new.links[l].object = work.links[l].object
        /\ batch.kind = "page" => StampedExactly(new, (observed \cup batch.seen) \cup seen)
    BY <2>2, <2>3, <2>5, <2>7
  <2> HIDE DEF links, seen
  <2>9. QED
    BY <2>1, <2>4, <2>6, <2>8, InvMutate
<1>4. ASSUME NEW o \in Objects, ObjectRemoved(o)
      PROVE  IInv'
  <2>1. LinksAffectedByTombstone(work, o) \subseteq Links
    BY <1>w DEF LinksAffectedByTombstone, LinksOf, IInv
  <2>2. QED
    BY <1>4, <1>w, <2>1, TombstoneObjectRows, InvMutateOther DEF ObjectRemoved
<1>5. ASSUME NEW state \in VolumeStates, VolumeChanged(state)
      PROVE  IInv'
  BY <1>5, <1>w, SetVolumeStateRows, InvMutateOther DEF VolumeChanged
<1>6. QED
  BY <1>1, <1>2, <1>3, <1>4, <1>5 DEF Mutation

\* A commit publishes the rows of the transaction and the documents of the affected links.
LEMMA InvCommit ==
    ASSUME IInv, Commit
    PROVE  IInv'
<1>1. /\ graph' = work /\ work' = work /\ batch' = NoBatch /\ session' = session
      /\ generation' = generation + 1
      /\ documents' = SyncCatalogProjection(work, documents, batch.affected)
      /\ checkpoint' = (IF batch.kind = "page" THEN "scanMarker" ELSE "provider")
      /\ observed' = (IF batch.kind = "page" THEN observed \cup batch.seen ELSE observed)
  BY DEF Commit
<1>2. /\ RowsOK(work)
      /\ generation \in Nat
      /\ batch.kind \in {"changes", "page"}
      /\ batch.seen \subseteq Links
  BY DEF IInv, Commit, Idle, Discipline
<1>3. /\ DOMAIN work.links \subseteq Links
      /\ \A l \in DOMAIN work.links : work.links[l].seenAt \in Nat
  BY <1>2, LinksKnown
<1>4. DocumentsMatchLinks' /\ DOMAIN documents' \subseteq Links
  <2>1. \A l \in DOMAIN documents \ batch.affected :
            l \in DOMAIN work.links /\ documents[l].object = work.links[l].object
    BY DEF IInv, DocumentsMatchLinks, UnaffectedLinksKept
  <2>2. \A l \in DOMAIN documents' :
            l \in DOMAIN work.links /\ documents'[l].object = work.links[l].object
    BY <1>1, <2>1, SyncMatchesLinks
  <2>3. QED
    BY <1>1, <1>3, <2>2 DEF DocumentsMatchLinks
<1>5. ScanMarkerHasSession' /\ Discipline'
  BY <1>1, <1>2 DEF IInv, Discipline, ScanMarkerHasSession, NoSession, NoBatch
<1>6. UnaffectedLinksKept'
  BY <1>1 DEF UnaffectedLinksKept
<1>7. StampsInPast'
  BY <1>1, <1>2, <1>3 DEF IInv, StampsInPast
<1>8. ScanStamps'
  <2> SUFFICES ASSUME session # NoSession
               PROVE  /\ session.scan <= generation + 1
                      /\ StampedExactly(graph, observed)'
                      /\ StampedExactly(work, observed \cup batch.seen)'
    BY <1>1 DEF ScanStamps
  <2>1. batch.kind = "page"
    BY <1>2 DEF IInv, Discipline
  <2>2. /\ StampedExactly(work, observed \cup batch.seen)
        /\ session.scan <= generation
        /\ session.scan \in Nat
    BY DEF IInv, ScanStamps
  <2>3. /\ observed' = observed \cup batch.seen
        /\ observed' \cup batch'.seen = observed \cup batch.seen
    BY <1>1, <2>1 DEF NoBatch
  <2>4. QED
    BY <1>1, <1>2, <2>2, <2>3 DEF StampedExactly
<1>9. SecondSweep'
  BY <1>1, <1>2 DEF IInv, Discipline, SecondSweep, NoSession
<1>10. RowsOK(graph)' /\ RowsOK(work)'
  BY <1>1, <1>2
<1>11. /\ generation' \in Nat /\ observed' \subseteq Links
       /\ checkpoint' \in {"none", "scanMarker", "provider"}
       /\ batch' \in [kind : {"none", "changes", "page"}, size : Nat,
                      affected : SUBSET Links, seen : SUBSET Links]
       /\ session' \in [phase : {"none", "Scanning", "SweepingLinks", "SweepingObjects"},
                        scan : Nat]
  BY <1>1, <1>2 DEF IInv, NoBatch
<1>12. QED
  BY <1>4, <1>5, <1>6, <1>7, <1>8, <1>9, <1>10, <1>11 DEF IInv

\* A transaction of its own that keeps the links: what is left to show is about the session.
LEMMA InvWriteSameLinks ==
    ASSUME IInv, NEW rows, NEW docs, Write(rows, docs), RowsOK(rows), rows.links = graph.links,
           generation' \in {generation, generation + 1},
           DOMAIN documents' \subseteq Links, DocumentsMatchLinks'
    PROVE  /\ RowsOK(graph)' /\ RowsOK(work)'
           /\ batch = NoBatch /\ batch' = NoBatch /\ work = graph
           /\ graph'.links = graph.links /\ work'.links = graph.links
           /\ generation' \in Nat
           /\ batch' \in [kind : {"none", "changes", "page"}, size : Nat,
                          affected : SUBSET Links, seen : SUBSET Links]
           /\ UnaffectedLinksKept'
           /\ StampsInPast'
<1>1. batch = NoBatch /\ batch' = NoBatch /\ graph' = rows /\ work' = rows
  BY DEF Write, Idle
<1>2. work = graph /\ generation \in Nat
  BY <1>1 DEF IInv, Discipline, NoBatch
<1>3. \A l \in DOMAIN graph.links : graph.links[l].seenAt \in Nat
  BY LinksKnown DEF IInv
<1>4. StampsInPast'
  BY <1>1, <1>2, <1>3 DEF IInv, StampsInPast
<1>5. UnaffectedLinksKept'
  BY <1>1 DEF UnaffectedLinksKept
<1>6. batch' \in [kind : {"none", "changes", "page"}, size : Nat,
                  affected : SUBSET Links, seen : SUBSET Links]
  BY <1>1 DEF NoBatch
<1>7. RowsOK(graph)' /\ RowsOK(work)'
  BY <1>1
<1>8. QED
  BY <1>1, <1>2, <1>4, <1>5, <1>6, <1>7

\* The elements of a queue that is not empty.
LEMMA NonEmptyQueue ==
    ASSUME NEW S, NEW q \in Seq(S), q # <<>>
    PROVE  /\ Len(q) \in Nat /\ Len(q) >= 1 /\ DOMAIN q = 1..Len(q)
           /\ \A i \in 1..Len(q) : q[i] \in S
OBVIOUS

\* Moving or finishing a refresh job keeps the rows in order.
LEMMA JobRows ==
    ASSUME NEW rows, RowsOK(rows)
    PROVE  /\ \A cursor \in Int :
                /\ RowsOK([rows EXCEPT !.volumeJob = cursor])
                /\ [rows EXCEPT !.volumeJob = cursor].links = rows.links
           /\ rows.pathJobs # <<>> =>
                /\ RowsOK([rows EXCEPT !.pathJobs = Tail(@)])
                /\ [rows EXCEPT !.pathJobs = Tail(@)].links = rows.links
                /\ \A cursor \in Nat :
                    /\ RowsOK([rows EXCEPT !.pathJobs[1].cursor = cursor])
                    /\ [rows EXCEPT !.pathJobs[1].cursor = cursor].links = rows.links
<1> DEFINE Job == [root : Directories, cursor : Nat]
<1>0. /\ rows = [state |-> rows.state, objects |-> rows.objects, links |-> rows.links,
                 pathJobs |-> rows.pathJobs, volumeJob |-> rows.volumeJob]
      /\ rows.pathJobs \in Seq(Job)
      /\ \A i, j \in DOMAIN rows.pathJobs :
            rows.pathJobs[i].root = rows.pathJobs[j].root => i = j
  BY Columns DEF RowsOK, RowsTypeOK
<1>1. ASSUME NEW cursor \in Int
      PROVE  /\ RowsOK([rows EXCEPT !.volumeJob = cursor])
             /\ [rows EXCEPT !.volumeJob = cursor].links = rows.links
  <2> DEFINE new == [state |-> rows.state, objects |-> rows.objects, links |-> rows.links,
                     pathJobs |-> rows.pathJobs, volumeJob |-> cursor]
  <2>1. [rows EXCEPT !.volumeJob = cursor] = new
    BY <1>0
  <2>2. RowsOK(new) /\ new.links = rows.links
    BY DEF RowsOK, RowsTypeOK, ObjectsAreLive
  <2>3. QED
    BY <2>1, <2>2
<1>2. ASSUME NEW jobs \in Seq(Job),
             \A i, j \in DOMAIN jobs : jobs[i].root = jobs[j].root => i = j
      PROVE  /\ RowsOK([rows EXCEPT !.pathJobs = jobs])
             /\ [rows EXCEPT !.pathJobs = jobs].links = rows.links
  <2> DEFINE new == [state |-> rows.state, objects |-> rows.objects, links |-> rows.links,
                     pathJobs |-> jobs, volumeJob |-> rows.volumeJob]
  <2>1. [rows EXCEPT !.pathJobs = jobs] = new
    BY <1>0
  <2>2. RowsOK(new) /\ new.links = rows.links
    BY <1>2 DEF RowsOK, RowsTypeOK, ObjectsAreLive
  <2>3. QED
    BY <2>1, <2>2
<1>3. ASSUME rows.pathJobs # <<>>
      PROVE  /\ RowsOK([rows EXCEPT !.pathJobs = Tail(@)])
             /\ [rows EXCEPT !.pathJobs = Tail(@)].links = rows.links
  <2> DEFINE q == rows.pathJobs
             jobs == Tail(q)
  <2>1. jobs \in Seq(Job) /\ \A i \in DOMAIN jobs : i + 1 \in DOMAIN q /\ jobs[i] = q[i + 1]
    BY <1>0, <1>3
  <2>2. \A i, j \in DOMAIN jobs : jobs[i].root = jobs[j].root => i = j
    <3>1. DOMAIN jobs \subseteq Int
      BY <2>1
    <3>2. QED
      BY <1>0, <2>1, <3>1
  <2>3. [rows EXCEPT !.pathJobs = Tail(@)] = [rows EXCEPT !.pathJobs = jobs]
    BY <1>0
  <2> HIDE DEF jobs
  <2>4. QED
    BY <1>2, <2>1, <2>2, <2>3
<1>4. ASSUME rows.pathJobs # <<>>, NEW cursor \in Nat
      PROVE  /\ RowsOK([rows EXCEPT !.pathJobs[1].cursor = cursor])
             /\ [rows EXCEPT !.pathJobs[1].cursor = cursor].links = rows.links
  <2> DEFINE q == rows.pathJobs
             jobs == [q EXCEPT ![1].cursor = cursor]
  <2>0. q \in Seq(Job) /\ Len(q) >= 1 /\ DOMAIN q = 1..Len(q)
        /\ (\A i \in 1..Len(q) : q[i] \in Job)
    <3> HIDE DEF Job
    <3>1. QED
      BY <1>0, <1>4, NonEmptyQueue
  <2>a. [q[1] EXCEPT !.cursor = cursor] \in Job /\ [q[1] EXCEPT !.cursor = cursor].root = q[1].root
    BY <2>0
  <2>b. \A i \in 1..Len(q) : jobs[i] = IF i = 1 THEN [q[1] EXCEPT !.cursor = cursor] ELSE q[i]
    BY <2>0
  <2>c. jobs = [i \in 1..Len(q) |-> jobs[i]]
    BY <2>0
  <2>1. jobs \in Seq(Job) /\ DOMAIN jobs = DOMAIN q
        /\ \A i \in DOMAIN jobs : jobs[i].root = q[i].root
    <3>1. DOMAIN jobs = 1..Len(q)
      BY <2>0
    <3>2. \A i \in 1..Len(q) : jobs[i] \in Job /\ jobs[i].root = q[i].root
      BY <2>0, <2>a, <2>b
    <3>3. Len(q) \in Nat
      BY <2>0
    <3> HIDE DEF jobs, Job
    <3>4. jobs \in [1..Len(q) -> Job]
      BY <2>c, <3>2
    <3>5. QED
      BY <2>0, <3>1, <3>2, <3>3, <3>4
  <2>2. \A i, j \in DOMAIN jobs : jobs[i].root = jobs[j].root => i = j
    BY <1>0, <2>1
  <2>3. [rows EXCEPT !.pathJobs[1].cursor = cursor] = [rows EXCEPT !.pathJobs = jobs]
    BY <1>0
  <2> HIDE DEF jobs
  <2>4. QED
    BY <1>2, <2>1, <2>2, <2>3
<1>5. QED
  BY <1>1, <1>3, <1>4

\* A refresh transaction writes documents and its own cursor.
LEMMA InvRefresh ==
    ASSUME IInv, RefreshProjectionPaths \/ RefreshVolumeProjection
    PROVE  IInv'
<1> DEFINE page == IF RefreshProjectionPaths
                   THEN PageAfter(DOMAIN graph.links, Head(graph.pathJobs).cursor)
                   ELSE PageAfter(DOMAIN documents, graph.volumeJob)
           docs == SyncCatalogProjection(graph, documents, page)
<1>0. RowsOK(graph) /\ DOMAIN graph.links \subseteq Links
  BY LinksKnown DEF IInv
<1>1. UNCHANGED <<generation, session, checkpoint, observed>>
  BY DEF RefreshProjectionPaths, RefreshVolumeProjection
<1>2. \E rows : Write(rows, docs) /\ RowsOK(rows) /\ rows.links = graph.links
  <2>1. Links \subseteq Nat
    BY IdentityAssumption
  <2>2. CASE RefreshProjectionPaths
    <3>1. graph.pathJobs # <<>>
      BY <2>2 DEF RefreshProjectionPaths
    <3>2. \/ \E l \in Links : Write([graph EXCEPT !.pathJobs[1].cursor = l], docs)
          \/ Write([graph EXCEPT !.pathJobs = Tail(@)], docs)
      BY <2>2 DEF RefreshProjectionPaths
    <3>3. QED
      BY <1>0, <2>1, <3>1, <3>2, JobRows
  <2>3. CASE RefreshVolumeProjection /\ ~RefreshProjectionPaths
    <3>1. \/ \E l \in Links : Write([graph EXCEPT !.volumeJob = l], docs)
          \/ Write([graph EXCEPT !.volumeJob = NoJob], docs)
      BY <2>3 DEF RefreshVolumeProjection
    <3>2. NoJob \in Int /\ Links \subseteq Int
      BY <2>1 DEF NoJob
    <3>3. QED
      BY <1>0, <3>1, <3>2, JobRows
  <2>4. QED
    BY <2>2, <2>3
<1> HIDE DEF page
<1>3. PICK rows : Write(rows, docs) /\ RowsOK(rows) /\ rows.links = graph.links
  BY <1>2
<1>4. DocumentsMatchLinks' /\ DOMAIN documents' \subseteq Links
  <2>1. \A l \in DOMAIN documents' :
            l \in DOMAIN graph.links /\ documents'[l].object = graph.links[l].object
    <3>1. documents' = docs
      BY <1>3 DEF Write
    <3>2. QED
      BY <3>1, SyncMatchesLinks DEF IInv, DocumentsMatchLinks
  <2>2. graph' = rows
    BY <1>3 DEF Write
  <2>3. QED
    BY <1>0, <1>3, <2>1, <2>2 DEF DocumentsMatchLinks
<1>5. /\ RowsOK(graph)' /\ RowsOK(work)'
      /\ batch = NoBatch /\ batch' = NoBatch /\ work = graph
      /\ graph'.links = graph.links /\ work'.links = graph.links
      /\ generation' \in Nat
      /\ batch' \in [kind : {"none", "changes", "page"}, size : Nat,
                     affected : SUBSET Links, seen : SUBSET Links]
      /\ UnaffectedLinksKept'
      /\ StampsInPast'
  BY <1>1, <1>3, <1>4, InvWriteSameLinks
<1>6. ScanMarkerHasSession' /\ SecondSweep'
  BY <1>1, <1>5 DEF IInv, ScanMarkerHasSession, SecondSweep
<1>7. Discipline'
  <2>1. work' = graph'
    BY <1>3 DEF Write
  <2>2. QED
    BY <1>1, <1>5, <2>1 DEF IInv, Discipline
<1>8. ScanStamps'
  BY <1>1, <1>5 DEF IInv, ScanStamps, StampedExactly
<1>9. QED
  BY <1>1, <1>4, <1>5, <1>6, <1>7, <1>8 DEF IInv

-----------------------------------------------------------------------------
(* The observation scan.                                                   *)

\* A new scan is numbered after every stamp there is, so it has observed nothing yet.
LEMMA InvBeginObservationScan ==
    ASSUME IInv, BeginObservationScan
    PROVE  IInv'
<1> DEFINE found == UpsertVolume(graph)
           rows == SetVolumeState(found, "NeedsReconciliation")
<1>1. /\ Write(rows, documents)
      /\ generation' = generation + 1
      /\ session' = [phase |-> "Scanning", scan |-> generation + 1]
      /\ observed' = {}
      /\ UNCHANGED documents
      /\ checkpoint' \in {"none", "scanMarker", "provider"}
  BY DEF BeginObservationScan, ScanGeneration, Write, IInv
<1>2. RowsOK(rows) /\ rows.links = graph.links
  <2>1. RowsOK(found) /\ found.links = graph.links
    BY UpsertVolumeRows DEF IInv
  <2> HIDE DEF found
  <2>2. QED
    BY <2>1, SetVolumeStateRows DEF VolumeStates
<1> HIDE DEF found, rows
<1>3. graph' = rows
  BY <1>1 DEF Write
<1>4. DOMAIN documents' \subseteq Links /\ DocumentsMatchLinks'
  BY <1>1, <1>2, <1>3 DEF IInv, DocumentsMatchLinks
<1>5. /\ RowsOK(graph)' /\ RowsOK(work)'
      /\ batch = NoBatch /\ batch' = NoBatch /\ work = graph
      /\ graph'.links = graph.links /\ work'.links = graph.links
      /\ generation' \in Nat
      /\ batch' \in [kind : {"none", "changes", "page"}, size : Nat,
                     affected : SUBSET Links, seen : SUBSET Links]
      /\ UnaffectedLinksKept'
      /\ StampsInPast'
  BY <1>1, <1>2, <1>4, InvWriteSameLinks
<1>6. session' # NoSession /\ session'.phase = "Scanning" /\ session'.scan = generation + 1
      /\ session' \in [phase : {"none", "Scanning", "SweepingLinks", "SweepingObjects"}, scan : Nat]
  BY <1>1, <1>5 DEF NoSession
<1>7. ScanMarkerHasSession' /\ SecondSweep'
  BY <1>6 DEF ScanMarkerHasSession, SecondSweep
<1>8. Discipline'
  <2>1. work' = graph'
    BY <1>1 DEF Write
  <2>2. QED
    BY <1>5, <1>6, <2>1 DEF Discipline, NoBatch
<1>9. ScanStamps'
  <2>1. \A l \in DOMAIN graph.links :
            graph.links[l].seenAt \in Nat /\ graph.links[l].seenAt <= generation
    BY LinksKnown DEF IInv, StampsInPast
  <2>2. generation \in Nat /\ batch'.seen = {}
    BY <1>5 DEF IInv, NoBatch
  <2>3. QED
    BY <1>1, <1>5, <1>6, <2>1, <2>2 DEF ScanStamps, StampedExactly
<1>10. QED
  BY <1>1, <1>4, <1>5, <1>6, <1>7, <1>8, <1>9 DEF IInv

\* Staging the checkpoint only moves the session on.
LEMMA InvStage ==
    ASSUME IInv, StageObservationCheckpoint
    PROVE  IInv'
<1>1. /\ session.phase = "Scanning"
      /\ batch = NoBatch
      /\ session' = [session EXCEPT !.phase = "SweepingLinks"]
      /\ UNCHANGED <<generation, graph, documents, checkpoint, work, batch, observed>>
  BY DEF StageObservationCheckpoint, Idle
<1>2. /\ session' \in [phase : {"none", "Scanning", "SweepingLinks", "SweepingObjects"}, scan : Nat]
      /\ session'.phase = "SweepingLinks" /\ session'.scan = session.scan
      /\ session # NoSession /\ session' # NoSession
  BY <1>1 DEF IInv, NoSession
<1>3. DocumentsMatchLinks' /\ UnaffectedLinksKept' /\ StampsInPast'
  BY <1>1 DEF IInv, DocumentsMatchLinks, UnaffectedLinksKept, StampsInPast
<1>4. ScanMarkerHasSession' /\ SecondSweep'
  BY <1>2 DEF ScanMarkerHasSession, SecondSweep
<1>5. Discipline'
  BY <1>1, <1>2 DEF IInv, Discipline, NoBatch
<1>6. ScanStamps'
  BY <1>1, <1>2 DEF IInv, ScanStamps, StampedExactly
<1>7. RowsOK(graph)' /\ RowsOK(work)'
  BY <1>1 DEF IInv
<1>8. QED
  BY <1>1, <1>2, <1>3, <1>4, <1>5, <1>6, <1>7 DEF IInv

\* The page that comes back short holds every stale link.
LEMMA ShortSweepTakesAll ==
    ASSUME NEW stale, IsFiniteSet(stale), SweepIsShort(stale), NEW table
    PROVE  OldestRows(table, stale, SweepLimit) = stale
<1>1. ASSUME NEW l \in stale
      PROVE  Cardinality({k \in stale : Earlier(table, k, l)}) < SweepLimit
  <2> DEFINE earlier == {k \in stale : Earlier(table, k, l)}
  <2>1. earlier \in SUBSET stale
    OBVIOUS
  <2> HIDE DEF earlier
  <2>2. /\ Cardinality(earlier) <= Cardinality(stale)
        /\ IsFiniteSet(earlier)
    BY <2>1, FS_Subset
  <2>3. Cardinality(earlier) \in Nat /\ Cardinality(stale) \in Nat /\ SweepLimit \in Nat
    BY <2>2, FS_CardinalityType, LimitsAssumption
  <2>4. QED
    BY <2>2, <2>3 DEF SweepIsShort, earlier
<1>2. QED
  BY <1>1 DEF OldestRows

\* The first sweep removes stale links only, and moves on when none is left.
LEMMA InvSweepLinks ==
    ASSUME IInv, SweepStaleLinks
    PROVE  IInv'
<1> DEFINE page == OldestRows(graph.links, StaleLinks, SweepLimit)
           rows == RemoveLinks(graph, page)
<1>1. /\ Write(rows, SyncCatalogProjection(rows, documents, page))
      /\ session.phase = "SweepingLinks"
      /\ session' = IF SweepIsShort(StaleLinks)
                    THEN [session EXCEPT !.phase = "SweepingObjects"]
                    ELSE session
      /\ generation' = generation + 1
      /\ UNCHANGED <<checkpoint, observed>>
  BY DEF SweepStaleLinks
<1>d. documents' = SyncCatalogProjection(rows, documents, page)
  BY <1>1 DEF Write
<1>2. page \subseteq StaleLinks
  BY DEF OldestRows
<1>3. SweepIsShort(StaleLinks) => page = StaleLinks
  <2>1. StaleLinks \in SUBSET Links
    BY LinksKnown DEF IInv, StaleLinks
  <2>2. IsFiniteSet(StaleLinks)
    BY <2>1, FS_Subset, IdentityAssumption
  <2>3. QED
    BY <2>2, ShortSweepTakesAll
<1>4. RowsOK(rows) /\ rows.links = Delete(graph.links, page)
  <2>1. RowsOK(graph)
    BY DEF IInv
  <2> HIDE DEF page
  <2>2. QED
    BY <2>1, RemoveLinksRows
<1> HIDE DEF page, rows
<1>5. /\ DOMAIN rows.links = DOMAIN graph.links \ page
      /\ \A l \in DOMAIN rows.links : rows.links[l] = graph.links[l]
  BY <1>4 DEF Delete
<1>6. /\ graph' = rows /\ work' = rows
      /\ batch = NoBatch /\ batch' = NoBatch /\ work = graph
  BY <1>1 DEF Write, Idle, IInv, Discipline, NoBatch
<1>7. /\ generation \in Nat /\ generation' \in Nat
      /\ session.scan \in Nat /\ session # NoSession
      /\ session' \in [phase : {"none", "Scanning", "SweepingLinks", "SweepingObjects"}, scan : Nat]
      /\ session'.scan = session.scan /\ session' # NoSession
      /\ session'.phase \in {"SweepingLinks", "SweepingObjects"}
      /\ session'.phase = "SweepingObjects" => SweepIsShort(StaleLinks)
  BY <1>1 DEF IInv, NoSession
<1>8. DocumentsMatchLinks' /\ DOMAIN documents' \subseteq Links
  <2>1. \A l \in DOMAIN documents \ page :
            l \in DOMAIN rows.links /\ documents[l].object = rows.links[l].object
    BY <1>5 DEF IInv, DocumentsMatchLinks
  <2>2. \A l \in DOMAIN documents' :
            l \in DOMAIN rows.links /\ documents'[l].object = rows.links[l].object
    BY <1>d, <2>1, SyncMatchesLinks
  <2>3. DOMAIN rows.links \subseteq Links
    BY <1>4, LinksKnown
  <2>4. QED
    BY <1>6, <2>2, <2>3 DEF DocumentsMatchLinks
<1>9. \A l \in DOMAIN graph.links : graph.links[l].seenAt \in Nat
  BY LinksKnown DEF IInv
<1>10. StampsInPast'
  BY <1>1, <1>5, <1>6, <1>7, <1>9 DEF IInv, StampsInPast
<1>11. UnaffectedLinksKept'
  BY <1>6 DEF UnaffectedLinksKept
<1>12. Discipline'
  BY <1>6, <1>7 DEF Discipline, NoBatch
<1>13. ScanMarkerHasSession'
  BY <1>7 DEF ScanMarkerHasSession
<1>14. /\ session.scan <= generation
       /\ observed \subseteq DOMAIN graph.links
       /\ \A l \in DOMAIN graph.links : l \in observed <=> session.scan <= graph.links[l].seenAt
  BY <1>7 DEF IInv, ScanStamps, StampedExactly
<1>15. observed \subseteq DOMAIN rows.links
  BY <1>2, <1>5, <1>7, <1>9, <1>14 DEF StaleLinks
<1>16. ScanStamps'
  <2>1. batch'.seen = {}
    BY <1>6 DEF NoBatch
  <2>2. QED
    BY <1>1, <1>5, <1>6, <1>7, <1>14, <1>15, <2>1 DEF ScanStamps, StampedExactly
<1>17. SecondSweep'
  <2>1. SweepIsShort(StaleLinks) => DOMAIN rows.links \subseteq observed
    BY <1>3, <1>5, <1>7, <1>9, <1>14 DEF StaleLinks
  <2>2. QED
    BY <1>1, <1>6, <1>7, <2>1 DEF SecondSweep
<1>18. batch' \in [kind : {"none", "changes", "page"}, size : Nat,
                   affected : SUBSET Links, seen : SUBSET Links]
  BY <1>6 DEF NoBatch
<1>19. RowsOK(graph)' /\ RowsOK(work)'
  BY <1>4, <1>6
<1>20. QED
  BY <1>1, <1>7, <1>8, <1>10, <1>11, <1>12, <1>13, <1>16, <1>17, <1>18, <1>19 DEF IInv

\* The second sweep tombstones objects that no link names; its last page closes the session.
LEMMA InvSweepObjects ==
    ASSUME IInv, SweepStaleObjects
    PROVE  IInv'
<1> DEFINE page == OldestRows(graph.objects, StaleObjects, SweepLimit)
           rows == TombstoneObjects(graph, page)
           online == SetVolumeState(rows, "Online")
<1>1. /\ session.phase = "SweepingObjects"
      /\ generation' = generation + 1
      /\ UNCHANGED observed
      /\ \/ /\ Write(online, documents)
            /\ checkpoint' = "provider"
            /\ session' = NoSession
         \/ /\ Write(rows, documents)
            /\ UNCHANGED <<checkpoint, session>>
  BY DEF SweepStaleObjects, ActivateCheckpoint
<1>2. RowsOK(rows) /\ rows.links = graph.links
  <2>1. RowsOK(graph)
    BY DEF IInv
  <2>2. \A o \in page : LinksOf(graph, o) = {}
    BY DEF OldestRows, StaleObjects
  <2> HIDE DEF page
  <2>3. QED
    BY <2>1, <2>2, TombstoneObjectsRows
<1>3. RowsOK(online) /\ online.links = graph.links
  <2> HIDE DEF rows
  <2>1. QED
    BY <1>2, SetVolumeStateRows DEF VolumeStates
<1> HIDE DEF page, rows, online
<1>4. PICK new : Write(new, documents) /\ RowsOK(new) /\ new.links = graph.links
  BY <1>1, <1>2, <1>3
<1>5. DOMAIN documents' \subseteq Links /\ DocumentsMatchLinks'
  <2>1. graph' = new /\ documents' = documents
    BY <1>4 DEF Write
  <2>2. QED
    BY <1>4, <2>1 DEF IInv, DocumentsMatchLinks
<1>6. /\ RowsOK(graph)' /\ RowsOK(work)'
      /\ batch = NoBatch /\ batch' = NoBatch /\ work = graph
      /\ graph'.links = graph.links /\ work'.links = graph.links
      /\ generation' \in Nat
      /\ batch' \in [kind : {"none", "changes", "page"}, size : Nat,
                     affected : SUBSET Links, seen : SUBSET Links]
      /\ UnaffectedLinksKept'
      /\ StampsInPast'
  BY <1>1, <1>4, <1>5, InvWriteSameLinks
<1>7. /\ session' \in [phase : {"none", "Scanning", "SweepingLinks", "SweepingObjects"}, scan : Nat]
      /\ checkpoint' \in {"none", "scanMarker", "provider"}
      /\ session # NoSession
      /\ session' # NoSession => session' = session /\ checkpoint' = checkpoint
      /\ session' = NoSession => checkpoint' = "provider"
  BY <1>1 DEF IInv, NoSession
<1>8. ScanMarkerHasSession'
  BY <1>7 DEF IInv, ScanMarkerHasSession
<1>9. SecondSweep'
  BY <1>1, <1>6, <1>7 DEF IInv, SecondSweep, NoSession
<1>10. Discipline'
  <2>1. work' = graph'
    BY <1>4 DEF Write
  <2>2. session'.phase = "none" => session' = NoSession
    BY <1>1, <1>7 DEF NoSession
  <2>3. QED
    BY <1>6, <2>1, <2>2 DEF Discipline, NoBatch
<1>11. ScanStamps'
  <2>1. batch.seen = {} /\ batch'.seen = {} /\ generation \in Nat /\ session.scan \in Nat
    BY <1>6 DEF IInv, NoBatch
  <2>2. /\ session.scan <= generation
        /\ observed \subseteq DOMAIN graph.links
        /\ \A l \in DOMAIN graph.links : l \in observed <=> session.scan <= graph.links[l].seenAt
    BY <1>7 DEF IInv, ScanStamps, StampedExactly
  <2>3. observed' = observed /\ generation' = generation + 1
    BY <1>1
  <2>4. QED
    BY <1>6, <1>7, <2>1, <2>2, <2>3 DEF ScanStamps, StampedExactly
<1>12. QED
  BY <1>1, <1>5, <1>6, <1>7, <1>8, <1>9, <1>10, <1>11 DEF IInv

-----------------------------------------------------------------------------
(* The theorems.                                                           *)

\* Every step of the store preserves the invariant.
LEMMA InvStep == IInv /\ [Next]_vars => IInv'
<1> SUFFICES ASSUME IInv, [Next]_vars PROVE IInv'
  OBVIOUS
<1>1. CASE BeginChanges \/ BeginPage \/ Rollback
  BY <1>1, InvBegin
<1>b. CASE BeginSnapshot
  BY <1>b, InvBeginSnapshot
<1>2. CASE Mutation
  BY <1>2, InvMutation
<1>3. CASE Commit
  BY <1>3, InvCommit
<1>4. CASE BeginObservationScan
  BY <1>4, InvBeginObservationScan
<1>5. CASE StageObservationCheckpoint
  BY <1>5, InvStage
<1>6. CASE SweepStaleLinks
  BY <1>6, InvSweepLinks
<1>7. CASE SweepStaleObjects
  BY <1>7, InvSweepObjects
<1>8. CASE RefreshProjectionPaths \/ RefreshVolumeProjection
  BY <1>8, InvRefresh
<1>9. CASE UNCHANGED vars
  BY <1>9 DEF vars, IInv, DocumentsMatchLinks, ScanMarkerHasSession, Discipline,
              UnaffectedLinksKept, StampsInPast, ScanStamps, StampedExactly, SecondSweep
<1>10. QED
  BY <1>1, <1>b, <1>2, <1>3, <1>4, <1>5, <1>6, <1>7, <1>8, <1>9 DEF Next

\* The invariant holds throughout every behaviour of the store.
LEMMA Invariance == Spec => []IInv
BY InvInit, InvStep, PTL DEF Spec

NeglectedOK == neglected \subseteq [cause : Causes, link : Links]

\* The history of neglected documents is about links there are.
LEMMA NeglectedStep == IInv' /\ NeglectedOK /\ [Next]_vars => NeglectedOK'
<1> SUFFICES ASSUME IInv', NeglectedOK, [Next]_vars PROVE NeglectedOK'
  OBVIOUS
<1>1. neglected' \in {neglected, NeglectedAfter(graph', documents')}
  <2>1. CASE UNCHANGED vars
    BY <2>1 DEF vars
  <2>2. CASE BeginChanges \/ BeginSnapshot \/ BeginPage \/ Rollback \/ StageObservationCheckpoint
    BY <2>2 DEF BeginChanges, BeginSnapshot, BeginPage, Rollback, StageObservationCheckpoint
  <2>3. CASE Mutation
    BY <2>3 DEF Mutation, ObserveObject, ObserveLink, LinkRemoved, ObjectRemoved, VolumeChanged,
                Mutate
  <2>4. CASE Commit
    BY <2>4 DEF Commit
  <2>5. ASSUME NEW rows, NEW docs, Write(rows, docs)
        PROVE  neglected' = NeglectedAfter(graph', documents')
    BY <2>5 DEF Write
  <2>6. CASE BeginObservationScan
    BY <2>5, <2>6 DEF BeginObservationScan
  <2>7. CASE SweepStaleLinks
    BY <2>5, <2>7 DEF SweepStaleLinks
  <2>8. CASE SweepStaleObjects
    BY <2>5, <2>8 DEF SweepStaleObjects
  <2>9. CASE RefreshProjectionPaths
    BY <2>5, <2>9 DEF RefreshProjectionPaths
  <2>10. CASE RefreshVolumeProjection
    BY <2>5, <2>10 DEF RefreshVolumeProjection
  <2>11. QED
    BY <2>1, <2>2, <2>3, <2>4, <2>6, <2>7, <2>8, <2>9, <2>10 DEF Next
<1>2. DOMAIN graph'.links \subseteq Links
  BY DEF IInv, RowsOK, RowsTypeOK, IsTable
<1>3. NeglectedAfter(graph', documents') \subseteq [cause : Causes, link : Links]
  BY <1>2 DEF NeglectedAfter
<1>4. QED
  BY <1>1, <1>3 DEF NeglectedOK

\* The rows keep their types and the unique indexes of migrations.rs through every transaction.
THEOREM TypeCorrect == Spec => []TypeOK
<1>1. Init => NeglectedOK
  BY DEF Init, NeglectedOK
<1>2. IInv /\ NeglectedOK => TypeOK
  BY DEF IInv, NeglectedOK, TypeOK, RowsOK
<1>3. QED
  BY <1>1, <1>2, NeglectedStep, Invariance, PTL DEF Spec

\* No committed link names an object that is missing or tombstoned (remove_link_internal,
\* tombstone_object, the conflict evictions and both sweeps included).
THEOREM LinksStayLive == Spec => []LinksHaveLiveObjects
<1>1. IInv => LinksHaveLiveObjects
  BY DEF IInv, RowsOK, LinksHaveLiveObjects
<1>2. QED
  BY <1>1, Invariance, PTL

\* No catalog document outlives its link or names an object the link no longer names
\* (collect_affected_links covers what a mutation disturbs).
THEOREM DocumentsStayMatched == Spec => []DocumentsMatchLinks
<1>1. IInv => DocumentsMatchLinks
  BY DEF IInv
<1>2. QED
  BY <1>1, Invariance, PTL

\* A scan marker is never left as the checkpoint of a volume without a session
\* (apply_observation_scan_page, activate_observation_checkpoint).
THEOREM ScanMarkerStaysOwned == Spec => []ScanMarkerHasSession
<1>1. IInv => ScanMarkerHasSession
  BY DEF IInv
<1>2. QED
  BY <1>1, Invariance, PTL

\* A checkpoint becomes authoritative exactly over the links its scan observed
\* (finalize_observation_scan), however many scans were abandoned before.
THEOREM ActivationStaysExact == Spec => ActivationIsExact
<1> DEFINE Exact == session # NoSession /\ session' = NoSession => DOMAIN graph'.links = observed
<1>1. IInv /\ [Next]_vars => [Exact]_vars
  <2> SUFFICES ASSUME IInv, Next, session # NoSession, session' = NoSession
               PROVE  DOMAIN graph'.links = observed
    OBVIOUS
  <2>1. SweepStaleObjects
    <3>1. session' # session
      OBVIOUS
    <3>2. ~(BeginChanges \/ BeginSnapshot \/ BeginPage \/ Rollback \/ Commit)
      BY <3>1 DEF BeginChanges, BeginSnapshot, BeginPage, Rollback, Commit
    <3>3. ~Mutation
      BY <3>1 DEF Mutation, ObserveObject, ObserveLink, LinkRemoved, ObjectRemoved,
                  VolumeChanged, Mutate
    <3>4. ~(RefreshProjectionPaths \/ RefreshVolumeProjection)
      BY <3>1 DEF RefreshProjectionPaths, RefreshVolumeProjection
    <3>5. ~(BeginObservationScan \/ StageObservationCheckpoint \/ SweepStaleLinks)
      <4>1. session.phase # "none" /\ session'.phase = "none"
        BY DEF IInv, Discipline, NoSession
      <4>2. ~BeginObservationScan
        BY <4>1 DEF BeginObservationScan
      <4>3. ~StageObservationCheckpoint
        BY <4>1 DEF StageObservationCheckpoint, IInv
      <4>4. ~SweepStaleLinks
        BY <4>1 DEF SweepStaleLinks, IInv
      <4>5. QED
        BY <4>2, <4>3, <4>4
    <3>6. QED
      BY <3>2, <3>3, <3>4, <3>5 DEF Next
  <2>2. session.phase = "SweepingObjects" /\ Write(SetVolumeState(TombstoneObjects(graph,
            OldestRows(graph.objects, StaleObjects, SweepLimit)), "Online"), documents)
    BY <2>1 DEF SweepStaleObjects
  <2>3. graph'.links = graph.links
    <3> DEFINE page == OldestRows(graph.objects, StaleObjects, SweepLimit)
               rows == TombstoneObjects(graph, page)
    <3>1. \A o \in page : LinksOf(graph, o) = {}
      BY DEF OldestRows, StaleObjects
    <3>2. RowsOK(graph)
      BY DEF IInv
    <3>3. RowsOK(rows) /\ rows.links = graph.links
      <4> HIDE DEF page
      <4>1. QED
        BY <3>1, <3>2, TombstoneObjectsRows
    <3>4. graph' = SetVolumeState(rows, "Online")
      BY <2>2 DEF Write
    <3> HIDE DEF rows
    <3>5. QED
      BY <3>3, <3>4, SetVolumeStateRows DEF VolumeStates
  <2>4. DOMAIN graph.links \subseteq observed /\ observed \subseteq DOMAIN graph.links
    BY <2>2 DEF IInv, SecondSweep, ScanStamps, StampedExactly
  <2>5. QED
    BY <2>3, <2>4
<1>2. QED
  BY <1>1, Invariance, PTL DEF Spec, ActivationIsExact

=============================================================================
