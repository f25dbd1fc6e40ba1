------------------------- MODULE MCFilesystemGraph -------------------------
(***************************************************************************)
(* A volume with a root directory (object 1), a directory (object 2) in it *)
(* and a file (object 3) in that.  A link identity is made from the place  *)
(* where the link is first seen and survives incremental renames.          *)
(***************************************************************************)
EXTENDS FilesystemGraph

Link(id, object, parent, name) ==
    [id |-> id, object |-> object, parent |-> parent, name |-> name, boundary |-> FALSE]

RootLink == Link(1, 1, Root, "r")
DirAtA == Link(2, 2, 1, "a")
DirAtB == Link(2, 2, 1, "b")
DirFoundAtB == Link(4, 2, 1, "b")
File == Link(3, 3, 2, "a")

\* The directory is renamed between "a" and "b", or found at "b" by a rename without its old name,
\* and the file gets a hard link.
ChangeSnapshots == {RootLink, DirAtA, DirAtB, DirFoundAtB, File, Link(5, 3, 1, "h")}
ChangedObjects == {[object |-> 2, meta |-> "m"], [object |-> 3, meta |-> "n"]}

\* What a scan reports: the directory is at "b", and object 4 may have taken the place of the file.
ScanSnapshots == {RootLink, DirFoundAtB, File, Link(3, 4, 2, "a")}
ScannedObjects == {[object |-> 4, meta |-> "m"]}

\* The volume after its first scan: one page at generation 2, two sweeps, and the refresh of the
\* documents after the activation.  The directory may have been renamed since.
ScannedRows(dir) ==
    [state |-> "Online",
     objects |-> [o \in {1, 2, 3} |-> [meta |-> "m", tombstoned |-> FALSE, seenAt |-> 2]],
     links |-> [l \in {1, dir.id, 3} |->
        LET s == CHOOSE s \in {RootLink, dir, File} : s.id = l
        IN  [object |-> s.object, parent |-> s.parent, name |-> s.name,
             boundary |-> s.boundary, seenAt |-> 2]],
     pathJobs |-> <<>>, volumeJob |-> NoJob]

Populated(rows, dir) ==
    /\ graph = rows
    /\ work = rows
    /\ documents = SyncCatalogProjection(ScannedRows(dir), EmptyTable, {1, dir.id, 3})
    /\ session = NoSession
    /\ checkpoint = "provider"
    /\ batch = NoBatch
    /\ observed = {1, dir.id, 3}
    /\ neglected = {}

ScannedInit == generation = 4 /\ Populated(ScannedRows(DirAtA), DirAtA)

\* The same with nothing in the root directory.
RootRows ==
    LET rows == ScannedRows(DirAtA)
    IN  [rows EXCEPT !.objects = Delete(@, {2, 3}), !.links = Delete(@, {2, 3})]

RootInit ==
    /\ generation = 4
    /\ graph = RootRows
    /\ work = RootRows
    /\ documents = SyncCatalogProjection(RootRows, EmptyTable, {1})
    /\ session = NoSession
    /\ checkpoint = "provider"
    /\ batch = NoBatch
    /\ observed = {1}
    /\ neglected = {}

\* A journal gap: RequireReconciliation has committed.  The directory is at "b" since the first scan,
\* was renamed there before the gap, or moved there in it.
GapInit ==
    /\ generation = 6
    /\ \E dir \in {DirFoundAtB, DirAtB, DirAtA} :
            Populated(SetVolumeState(ScannedRows(dir), "NeedsReconciliation"), dir)

ScannedSpec == ScannedInit /\ [][Next]_vars
RootSpec == RootInit /\ [][Next]_vars
ScanSpec == (GapInit \/ Init) /\ [][Next]_vars
ScannedFairSpec == ScannedSpec /\ Fairness

=============================================================================
