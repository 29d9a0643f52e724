----------------------------- MODULE SnapshotFs -----------------------------
(***************************************************************************)
(* How one snapshot reaches the disk (src/src/output.rs: write_snapshot,   *)
(* publish_manifest, sync_dir): the files of a new generation are written  *)
(* and synced in a temporary directory, which is renamed, and a manifest   *)
(* replaces the last one.  Any operation may fail, which ends this         *)
(* generation; the caller goes on to the next.  Observation has all this   *)
(* as one step.                                                            *)
(*                                                                         *)
(* A crash may come at any moment.  It is not an action: nothing of the    *)
(* program reads the directory again, so the invariants speak of all that  *)
(* a crash in the current state could leave (AfterCrash).  What the disk   *)
(* keeps of a directory is a prefix of the changes of its entries that     *)
(* includes the synced ones (a journaling file system); what it keeps of   *)
(* a file that was not synced is not known.                                *)
(***************************************************************************)
EXTENDS Naturals, Sequences, FiniteSets

CONSTANTS
    Files,            \* the four files of a generation
    MaxGenerations    \* bound: generations begun

ASSUME SnapshotAssumption == MaxGenerations \in Nat \ {0}

VARIABLES
    step, gen,             \* the next operation, the generation being written
    written, stable,       \* per generation: files written, files synced
    entriesStable,         \* generations whose directory was synced
    manifestStable,        \* generations whose manifest was synced
    runLog, runSynced,         \* changes of the run directory, how many are synced
    snapshotsLog, snapshotsSynced,
    returned               \* history: generations for which Ok was returned

genVars == <<written, stable, entriesStable, manifestStable>>
runVars == <<runLog, runSynced>>
snapshotsVars == <<snapshotsLog, snapshotsSynced>>
vars == <<step, gen, genVars, runVars, snapshotsVars, returned>>

Generations == 1..MaxGenerations

(* Changes of directory entries: a directory or file is made, or renamed   *)
(* to its final name.                                                      *)
Change == [op : {"make", "rename"}, gen : 0..MaxGenerations]
MakeSnapshots == [op |-> "make", gen |-> 0]
Make(g) == [op |-> "make", gen |-> g]
Rename(g) == [op |-> "rename", gen |-> g]

Steps == {"idle", "write", "sync", "syncTemp", "renameTemp", "syncSnapshots", "makeManifest",
          "syncManifest", "renameManifest", "syncRun"}

TypeOK ==
    /\ step \in Steps
    /\ gen \in 0..MaxGenerations
    /\ written \in [Generations -> SUBSET Files]
    /\ stable \in [Generations -> SUBSET Files]
    /\ entriesStable \subseteq Generations
    /\ manifestStable \subseteq Generations
    /\ runLog \in Seq(Change) /\ runSynced \in 0..Len(runLog)
    /\ snapshotsLog \in Seq(Change) /\ snapshotsSynced \in 0..Len(snapshotsLog)
    /\ returned \subseteq Generations

Init ==
    /\ step = "idle"
    /\ gen = 0
    /\ written = [g \in Generations |-> {}]
    /\ stable = [g \in Generations |-> {}]
    /\ entriesStable = {}
    /\ manifestStable = {}
    /\ runLog = <<>> /\ runSynced = 0
    /\ snapshotsLog = <<>> /\ snapshotsSynced = 0
    /\ returned = {}

-----------------------------------------------------------------------------
(* write_snapshot *)

(* create_dir_all of snapshots/, then the temporary directory.             *)
Begin ==
    /\ step = "idle"
    /\ gen < MaxGenerations
    /\ gen' = gen + 1
    /\ runLog' = IF runLog = <<>> THEN <<MakeSnapshots>> ELSE runLog
    /\ snapshotsLog' = Append(snapshotsLog, Make(gen'))
    /\ step' = "write"
    /\ UNCHANGED <<genVars, runSynced, snapshotsSynced, returned>>

(* The files one after the other, each flushed to the file system; order   *)
(* does not matter here.                                                   *)
WriteFile(f) ==
    /\ step = "write"
    /\ f \notin written[gen]
    /\ written' = [written EXCEPT ![gen] = @ \cup {f}]
    /\ step' = IF written'[gen] = Files THEN "sync" ELSE "write"
    /\ UNCHANGED <<gen, stable, entriesStable, manifestStable, runVars, snapshotsVars, returned>>

(* Mutant: the last file is not synced. *)
SyncFileAllButOne(f) ==
    /\ step = "sync"
    /\ f \notin stable[gen]
    /\ stable' = [stable EXCEPT ![gen] = @ \cup {f}]
    /\ step' = IF Cardinality(stable'[gen]) + 1 >= Cardinality(Files) THEN "syncTemp" ELSE "sync"
    /\ UNCHANGED <<gen, written, entriesStable, manifestStable, runVars, snapshotsVars, returned>>

(* sync_all, then the hash for the manifest. *)
SyncFile(f) ==
    /\ step = "sync"
    /\ f \notin stable[gen]
    /\ stable' = [stable EXCEPT ![gen] = @ \cup {f}]
    /\ step' = IF stable'[gen] = Files THEN "syncTemp" ELSE "sync"
    /\ UNCHANGED <<gen, written, entriesStable, manifestStable, runVars, snapshotsVars, returned>>

SyncTemp ==
    /\ step = "syncTemp"
    /\ entriesStable' = entriesStable \cup {gen}
    /\ step' = "renameTemp"
    /\ UNCHANGED <<gen, written, stable, manifestStable, runVars, snapshotsVars, returned>>

RenameTemp ==
    /\ step = "renameTemp"
    /\ snapshotsLog' = Append(snapshotsLog, Rename(gen))
    /\ step' = "syncSnapshots"
    /\ UNCHANGED <<gen, genVars, runVars, snapshotsSynced, returned>>

(* Mutant: snapshots/ is not synced after the rename. *)
SyncSnapshotsSkipped ==
    /\ step = "syncSnapshots"
    /\ step' = "makeManifest"
    /\ UNCHANGED <<gen, genVars, runVars, snapshotsVars, returned>>

SyncSnapshots ==
    /\ step = "syncSnapshots"
    /\ snapshotsSynced' = Len(snapshotsLog)
    /\ step' = "makeManifest"
    /\ UNCHANGED <<gen, genVars, runVars, snapshotsLog, returned>>

(* publish_manifest *)
MakeManifest ==
    /\ step = "makeManifest"
    /\ runLog' = Append(runLog, Make(gen))
    /\ step' = "syncManifest"
    /\ UNCHANGED <<gen, genVars, runSynced, snapshotsVars, returned>>

SyncManifest ==
    /\ step = "syncManifest"
    /\ manifestStable' = manifestStable \cup {gen}
    /\ step' = "renameManifest"
    /\ UNCHANGED <<gen, written, stable, entriesStable, runVars, snapshotsVars, returned>>

RenameManifest ==
    /\ step = "renameManifest"
    /\ runLog' = Append(runLog, Rename(gen))
    /\ step' = "syncRun"
    /\ UNCHANGED <<gen, genVars, runSynced, snapshotsVars, returned>>

(* Mutant: the run directory is not synced. *)
SyncRunSkipped ==
    /\ step = "syncRun"
    /\ returned' = returned \cup {gen}
    /\ step' = "idle"
    /\ UNCHANGED <<gen, genVars, runVars, snapshotsVars>>

(* Mutant: the run directory is synced before the rename. *)
SyncRunBeforeRename ==
    /\ step = "syncRun"
    /\ runSynced' = Len(runLog) - 1
    /\ returned' = returned \cup {gen}
    /\ step' = "idle"
    /\ UNCHANGED <<gen, genVars, runLog, snapshotsVars>>

SyncRun ==
    /\ step = "syncRun"
    /\ runSynced' = Len(runLog)
    /\ returned' = returned \cup {gen}
    /\ step' = "idle"
    /\ UNCHANGED <<gen, genVars, runLog, snapshotsVars>>

(* `?` after any operation.  A sync that fails may have written or not;    *)
(* Err is all that the caller learns.                                      *)
Fails ==
    /\ step # "idle"
    /\ step' = "idle"
    /\ UNCHANGED <<gen, genVars, runVars, snapshotsVars, returned>>

(* main has no more generations to write. *)
Done ==
    /\ step = "idle"
    /\ gen = MaxGenerations
    /\ UNCHANGED vars

Next ==
    \/ Begin
    \/ \E f \in Files : WriteFile(f) \/ SyncFile(f)
    \/ SyncTemp \/ RenameTemp \/ SyncSnapshots
    \/ MakeManifest \/ SyncManifest \/ RenameManifest \/ SyncRun
    \/ Fails \/ Done

Spec == Init /\ [][Next]_vars

-----------------------------------------------------------------------------
(* What a crash leaves *)

Prefixes(log, synced) == {SubSeq(log, 1, n) : n \in synced..Len(log)}

AfterCrash ==
    [run : Prefixes(runLog, runSynced), snapshots : Prefixes(snapshotsLog, snapshotsSynced)]

Renamed(log) == {g \in Generations : \E i \in DOMAIN log : log[i] = Rename(g)}

(* The generation that snapshot_manifest.json names, 0 when there is no    *)
(* such file: the last one renamed.                                        *)
Current(log) ==
    IF Renamed(log) = {} THEN 0
    ELSE CHOOSE g \in Renamed(log) : \A h \in Renamed(log) : h <= g

Intact(g) == stable[g] = Files /\ g \in entriesStable

(* Whatever moment a crash comes, the manifest it leaves is whole and      *)
(* names a generation under its final name whose files are all there, as   *)
(* they were hashed.                                                       *)
ManifestBacked ==
    \A disk \in AfterCrash :
        LET g == Current(disk.run) IN
        g # 0 => /\ g \in manifestStable
                 /\ MakeSnapshots \in {disk.run[i] : i \in DOMAIN disk.run}
                 /\ g \in Renamed(disk.snapshots)
                 /\ Intact(g)

(* A generation reported as written is not lost, and no crash brings back  *)
(* an older manifest: failed generations in between change nothing.        *)
ReturnedSurvives ==
    \A disk \in AfterCrash : \A g \in returned : g <= Current(disk.run)

(* A directory of snapshots/ without the temporary prefix is complete,     *)
(* also when its manifest was never published.                             *)
FinalNameComplete ==
    \A disk \in AfterCrash : \A g \in Renamed(disk.snapshots) : Intact(g)

Recoverable == {Current(log) : log \in Prefixes(runLog, runSynced)}

Abstract == INSTANCE Manifests WITH
    begun <- gen, open <- step # "idle", recoverable <- Recoverable, reported <- returned

(* Step by step, what a crash may leave changes as Manifests says: it      *)
(* gains the new generation when the manifest is replaced, and a report    *)
(* leaves nothing else, whatever failed before.                            *)
ImplementsManifests == Abstract!Spec
=============================================================================
