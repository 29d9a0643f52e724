-------------------------- MODULE SnapshotFsProofs --------------------------
(* What a crash can leave of the snapshots, for every number of            *)
(* generations and any set of files.                                       *)
(*                                                                         *)
(* The properties speak of prefixes of the two logs; the invariant speaks  *)
(* of the logs themselves: a rename is in a log only once everything it    *)
(* publishes is durable, and what a later operation relies on lies in the  *)
(* synced part.                                                            *)
EXTENDS SnapshotFs, SequenceTheorems, TLAPS

-----------------------------------------------------------------------------
(* The inductive invariant *)

InLog(log, n, c) == \E i \in 1..n : i <= Len(log) /\ log[i] = c

(* How far the current generation has come. *)
FilesSynced == step \in {"syncTemp", "renameTemp", "syncSnapshots", "makeManifest",
                         "syncManifest", "renameManifest", "syncRun"}
TempSynced == step \in {"renameTemp", "syncSnapshots", "makeManifest", "syncManifest",
                        "renameManifest", "syncRun"}
Named == step \in {"syncSnapshots", "makeManifest", "syncManifest", "renameManifest", "syncRun"}
NameSynced == step \in {"makeManifest", "syncManifest", "renameManifest", "syncRun"}

Progress ==
    /\ step # "idle" => gen \in Generations /\ runLog # <<>>
    /\ FilesSynced => stable[gen] = Files
    /\ TempSynced => gen \in entriesStable
    /\ Named => InLog(snapshotsLog, Len(snapshotsLog), Rename(gen))
    /\ NameSynced => InLog(snapshotsLog, snapshotsSynced, Rename(gen))
    /\ step \in {"renameManifest", "syncRun"} => gen \in manifestStable
    /\ step = "syncRun" => InLog(runLog, Len(runLog), Rename(gen))

(* The run directory's log begins with snapshots/. *)
SnapshotsFirst == runLog # <<>> => runLog[1] = MakeSnapshots

SnapshotRenames ==
    \A g \in Generations :
        InLog(snapshotsLog, Len(snapshotsLog), Rename(g)) => Intact(g)

ManifestRenames ==
    \A g \in Generations :
        InLog(runLog, Len(runLog), Rename(g)) =>
            /\ g <= gen
            /\ g \in manifestStable
            /\ InLog(snapshotsLog, snapshotsSynced, Rename(g))

ReturnedSynced == \A g \in returned : InLog(runLog, runSynced, Rename(g))

(* Every prefix that renames a manifest has a last generation. *)
NamedIn(n) == {g \in Generations : InLog(runLog, n, Rename(g))}
Newest ==
    \A n \in 0..Len(runLog) :
        NamedIn(n) = {} \/ \E g \in NamedIn(n) : \A h \in NamedIn(n) : h <= g

IInv == /\ TypeOK /\ Progress /\ SnapshotsFirst /\ SnapshotRenames /\ ManifestRenames
        /\ ReturnedSynced /\ Newest

-----------------------------------------------------------------------------
(* The logs *)

LEMMA RenamesDiffer ==
    ASSUME NEW g, NEW h
    PROVE  /\ Rename(g) = Rename(h) <=> g = h
           /\ Rename(g) # Make(h)
           /\ Rename(g) # MakeSnapshots
<1>1. Rename(g).gen = g /\ Rename(h).gen = h
  BY DEF Rename
<1>2. Rename(g).op = "rename" /\ Make(h).op = "make" /\ MakeSnapshots.op = "make"
  BY DEF Rename, Make, MakeSnapshots
<1> QED
  BY <1>1, <1>2

LEMMA ChangesAreChanges ==
    ASSUME NEW g \in 0..MaxGenerations
    PROVE  Rename(g) \in Change /\ Make(g) \in Change
BY DEF Rename, Make, Change

LEMMA AppendLog ==
    ASSUME NEW log \in Seq(Change), NEW x \in Change
    PROVE  /\ Append(log, x) \in Seq(Change)
           /\ Len(log) \in Nat
           /\ Len(Append(log, x)) = Len(log) + 1
           /\ log # <<>> => Append(log, x)[1] = log[1]
           /\ \A c : \A n \in 0..Len(log) : InLog(Append(log, x), n, c) <=> InLog(log, n, c)
           /\ \A c : InLog(Append(log, x), Len(log) + 1, c) <=> InLog(log, Len(log), c) \/ x = c
<1> DEFINE longer == Append(log, x)
<1>1. /\ longer \in Seq(Change)
      /\ Len(log) \in Nat
      /\ Len(longer) = Len(log) + 1
      /\ \A i \in 1..Len(log) : longer[i] = log[i]
      /\ longer[Len(log) + 1] = x
  BY AppendProperties, LenProperties
<1>2. log # <<>> => longer[1] = log[1]
  <2>1. log # <<>> => Len(log) # 0
    BY EmptySeq
  <2> QED
    BY <1>1, <2>1
<1> HIDE DEF longer
<1>3. ASSUME NEW c, NEW n \in 0..Len(log)
      PROVE  InLog(longer, n, c) <=> InLog(log, n, c)
  BY <1>1 DEF InLog
<1>4. ASSUME NEW c
      PROVE  InLog(longer, Len(log) + 1, c) <=> InLog(log, Len(log), c) \/ x = c
  BY <1>1 DEF InLog
<1> QED
  BY <1>1, <1>2, <1>3, <1>4 DEF longer

(* What is in a prefix is in a longer one. *)
LEMMA InLonger ==
    ASSUME NEW log \in Seq(Change), NEW m \in Nat, NEW n \in Nat, m <= n, NEW c, InLog(log, m, c)
    PROVE  InLog(log, n, c)
BY DEF InLog

-----------------------------------------------------------------------------
LEMMA InitHolds == Init => IInv
<1> SUFFICES ASSUME Init PROVE IInv
  OBVIOUS
<1>1. MaxGenerations \in Nat
  BY SnapshotAssumption
<1>2. TypeOK
  BY <1>1, EmptySeq DEF Init, TypeOK, Steps, Generations
<1>3. Len(runLog) = 0 /\ Len(snapshotsLog) = 0
  BY EmptySeq DEF Init
<1>4. Progress /\ SnapshotsFirst
  BY DEF Init, Progress, SnapshotsFirst, FilesSynced, TempSynced, Named, NameSynced
<1>5. \A n \in 0..0 : \A c : ~InLog(runLog, n, c) /\ ~InLog(snapshotsLog, n, c)
  BY DEF InLog
<1>6. SnapshotRenames /\ ManifestRenames /\ ReturnedSynced /\ Newest
  BY <1>3, <1>5 DEF Init, SnapshotRenames, ManifestRenames, ReturnedSynced, Newest, NamedIn
<1> QED
  BY <1>2, <1>4, <1>6 DEF IInv

-----------------------------------------------------------------------------
(* Steps that leave the logs alone *)

LEMMA LogsKept ==
    ASSUME IInv, UNCHANGED <<gen, runLog, snapshotsLog>>,
           \A g \in Generations : Intact(g) => Intact(g)', manifestStable \subseteq manifestStable'
    PROVE  /\ SnapshotsFirst' /\ SnapshotRenames' /\ Newest'
           /\ UNCHANGED snapshotsSynced => ManifestRenames'
           /\ UNCHANGED <<runSynced, returned>> => ReturnedSynced'
<1>1. SnapshotsFirst'
  BY DEF IInv, SnapshotsFirst
<1>2. SnapshotRenames'
  BY DEF IInv, SnapshotRenames
<1>3. \A n : NamedIn(n)' = NamedIn(n)
  BY DEF NamedIn
<1>4. Newest'
  BY <1>3 DEF IInv, Newest
<1>5. UNCHANGED snapshotsSynced => ManifestRenames'
  BY DEF IInv, ManifestRenames
<1>6. UNCHANGED <<runSynced, returned>> => ReturnedSynced'
  BY DEF IInv, ReturnedSynced
<1> QED
  BY <1>1, <1>2, <1>4, <1>5, <1>6

LEMMA WriteFileKeeps ==
    ASSUME IInv, NEW f \in Files, WriteFile(f)
    PROVE  IInv'
<1> USE SnapshotAssumption
<1>1. gen \in Generations /\ step = "write" /\ step' \in {"write", "sync"}
  BY DEF IInv, Progress, WriteFile
<1>2. TypeOK'
  BY <1>1 DEF IInv, TypeOK, WriteFile, genVars, runVars, snapshotsVars, Steps
<1>3. UNCHANGED <<gen, stable, entriesStable, manifestStable, runVars, snapshotsVars, returned>>
  BY DEF WriteFile
<1>4. Progress'
  BY <1>1, <1>3 DEF IInv, Progress, FilesSynced, TempSynced, Named, NameSynced, runVars
<1>5. /\ SnapshotsFirst' /\ SnapshotRenames' /\ ManifestRenames' /\ ReturnedSynced' /\ Newest'
  BY <1>3, LogsKept DEF Intact, runVars, snapshotsVars
<1> QED
  BY <1>2, <1>4, <1>5 DEF IInv

LEMMA SyncFileKeeps ==
    ASSUME IInv, NEW f \in Files, SyncFile(f)
    PROVE  IInv'
<1> USE SnapshotAssumption
<1>1. gen \in Generations /\ step = "sync" /\ step' \in {"sync", "syncTemp"}
  BY DEF IInv, Progress, SyncFile
<1>2. TypeOK'
  BY <1>1 DEF IInv, TypeOK, SyncFile, genVars, runVars, snapshotsVars, Steps
<1>3. /\ UNCHANGED <<gen, entriesStable, manifestStable, runVars, snapshotsVars, returned>>
      /\ step' = "syncTemp" => stable'[gen] = Files
      /\ runLog # <<>>
  BY DEF SyncFile, IInv, Progress
<1>4. \A g \in Generations : stable[g] = Files => stable'[g] = Files
  BY DEF IInv, TypeOK, SyncFile
<1>5. Progress'
  BY <1>1, <1>3 DEF Progress, FilesSynced, TempSynced, Named, NameSynced, runVars
<1>6. /\ SnapshotsFirst' /\ SnapshotRenames' /\ ManifestRenames' /\ ReturnedSynced' /\ Newest'
  BY <1>3, <1>4, LogsKept DEF Intact, runVars, snapshotsVars
<1> QED
  BY <1>2, <1>5, <1>6 DEF IInv

LEMMA QuietStepKeeps ==
    ASSUME IInv, SyncTemp \/ SyncManifest \/ Fails \/ Done
    PROVE  IInv'
<1> USE SnapshotAssumption
<1>1. step # "idle" => gen \in Generations /\ runLog # <<>>
  BY DEF IInv, Progress
<1>2. TypeOK'
  BY <1>1 DEF IInv, TypeOK, SyncTemp, SyncManifest, Fails, Done, vars, genVars, runVars,
              snapshotsVars, Steps
<1>3. /\ UNCHANGED <<gen, stable, runLog, runSynced, snapshotsLog, snapshotsSynced, returned>>
      /\ entriesStable \subseteq entriesStable'
      /\ manifestStable \subseteq manifestStable'
  BY DEF SyncTemp, SyncManifest, Fails, Done, vars, genVars, runVars, snapshotsVars
<1>4. Progress'
  BY DEF IInv, Progress, FilesSynced, TempSynced, Named, NameSynced, SyncTemp, SyncManifest,
         Fails, Done, vars, genVars, runVars, snapshotsVars, InLog
<1>5. /\ SnapshotsFirst' /\ SnapshotRenames' /\ ManifestRenames' /\ ReturnedSynced' /\ Newest'
  BY <1>3, LogsKept DEF Intact
<1> QED
  BY <1>2, <1>4, <1>5 DEF IInv

LEMMA SyncSnapshotsKeeps == IInv /\ SyncSnapshots => IInv'
<1> SUFFICES ASSUME IInv, SyncSnapshots PROVE IInv'
  OBVIOUS
<1> USE SnapshotAssumption
<1>1. /\ step = "syncSnapshots" /\ step' = "makeManifest"
      /\ snapshotsSynced' = Len(snapshotsLog)
      /\ UNCHANGED <<gen, written, stable, entriesStable, manifestStable, runLog, runSynced,
                     snapshotsLog, returned>>
  BY DEF SyncSnapshots, genVars, runVars
<1>2. snapshotsLog \in Seq(Change) /\ Len(snapshotsLog) \in Nat
      /\ snapshotsSynced \in 0..Len(snapshotsLog)
  BY LenProperties DEF IInv, TypeOK
<1>3. TypeOK'
  BY <1>1, <1>2 DEF IInv, TypeOK, Steps
<1>4. \A c : InLog(snapshotsLog, snapshotsSynced, c) => InLog(snapshotsLog, Len(snapshotsLog), c)
  BY <1>2, InLonger
<1>5. Progress'
  BY <1>1 DEF IInv, Progress, FilesSynced, TempSynced, Named, NameSynced
<1>6. SnapshotsFirst' /\ SnapshotRenames' /\ ReturnedSynced' /\ Newest'
  BY <1>1, LogsKept DEF Intact
<1>7. ManifestRenames'
  BY <1>1, <1>4 DEF IInv, ManifestRenames
<1> QED
  BY <1>3, <1>5, <1>6, <1>7 DEF IInv

LEMMA SyncRunKeeps == IInv /\ SyncRun => IInv'
<1> SUFFICES ASSUME IInv, SyncRun PROVE IInv'
  OBVIOUS
<1> USE SnapshotAssumption
<1>1. /\ step = "syncRun" /\ step' = "idle"
      /\ runSynced' = Len(runLog) /\ returned' = returned \cup {gen}
      /\ UNCHANGED <<gen, written, stable, entriesStable, manifestStable, runLog,
                     snapshotsLog, snapshotsSynced>>
  BY DEF SyncRun, genVars, snapshotsVars
<1>2. /\ runLog \in Seq(Change) /\ Len(runLog) \in Nat
      /\ runSynced \in 0..Len(runLog)
      /\ gen \in Generations
      /\ InLog(runLog, Len(runLog), Rename(gen))
  BY <1>1, LenProperties DEF IInv, TypeOK, Progress
<1>3. TypeOK'
  BY <1>1, <1>2 DEF IInv, TypeOK, Steps
<1>4. \A c : InLog(runLog, runSynced, c) => InLog(runLog, Len(runLog), c)
  BY <1>2, InLonger
<1>5. Progress'
  BY <1>1 DEF Progress, FilesSynced, TempSynced, Named, NameSynced
<1>6. SnapshotsFirst' /\ SnapshotRenames' /\ ManifestRenames' /\ Newest'
  BY <1>1, LogsKept DEF Intact
<1>7. ReturnedSynced'
  BY <1>1, <1>2, <1>4 DEF IInv, ReturnedSynced
<1> QED
  BY <1>3, <1>5, <1>6, <1>7 DEF IInv

-----------------------------------------------------------------------------
(* Steps that change a directory *)

(* A change of snapshots/ that is no rename of a generation under way.     *)
LEMMA BeginKeeps == IInv /\ Begin => IInv'
<1> SUFFICES ASSUME IInv, Begin PROVE IInv'
  OBVIOUS
<1> USE SnapshotAssumption
<1>1. /\ step = "idle" /\ step' = "write" /\ gen < MaxGenerations /\ gen' = gen + 1
      /\ runLog' = IF runLog = <<>> THEN <<MakeSnapshots>> ELSE runLog
      /\ snapshotsLog' = Append(snapshotsLog, Make(gen'))
      /\ UNCHANGED <<written, stable, entriesStable, manifestStable, runSynced,
                     snapshotsSynced, returned>>
  BY DEF Begin, genVars
<1>2. /\ gen \in 0..MaxGenerations /\ gen' \in Generations
      /\ snapshotsLog \in Seq(Change) /\ snapshotsSynced \in 0..Len(snapshotsLog)
      /\ runLog \in Seq(Change) /\ runSynced \in 0..Len(runLog)
  BY <1>1 DEF IInv, TypeOK, Generations
<1>3. /\ snapshotsLog' \in Seq(Change) /\ Len(snapshotsLog) \in Nat
      /\ Len(snapshotsLog') = Len(snapshotsLog) + 1
      /\ \A g : \A n \in 0..Len(snapshotsLog) :
            InLog(snapshotsLog', n, Rename(g)) <=> InLog(snapshotsLog, n, Rename(g))
      /\ \A g : InLog(snapshotsLog', Len(snapshotsLog) + 1, Rename(g)) <=>
                InLog(snapshotsLog, Len(snapshotsLog), Rename(g))
  <2>1. Make(gen') \in Change
    BY <1>2, ChangesAreChanges DEF Generations
  <2> QED
    BY <1>1, <1>2, <2>1, AppendLog, RenamesDiffer
<1>4. /\ runLog' \in Seq(Change) /\ runLog' # <<>>
      /\ Len(runLog) \in Nat /\ Len(runLog') \in Nat /\ Len(runLog) <= Len(runLog')
      /\ runLog'[1] = MakeSnapshots
      /\ \A g : \A n \in 0..Len(runLog') : InLog(runLog', n, Rename(g)) <=> InLog(runLog, n, Rename(g))
      /\ \A g : InLog(runLog', Len(runLog'), Rename(g)) <=> InLog(runLog, Len(runLog), Rename(g))
  <2>1. CASE runLog = <<>>
    <3>1. MakeSnapshots \in Change
      BY DEF MakeSnapshots, Change
    <3>2. /\ runLog' = <<MakeSnapshots>> /\ runLog' \in Seq(Change) /\ Len(runLog') = 1
          /\ runLog'[1] = MakeSnapshots /\ runLog' # <<>> /\ Len(runLog) = 0
      BY <1>1, <2>1, <3>1
    <3>3. \A g, n : ~InLog(runLog', n, Rename(g)) /\ ~InLog(runLog, n, Rename(g))
      BY <3>2, RenamesDiffer DEF InLog
    <3> QED
      BY <3>2, <3>3
  <2>2. CASE runLog # <<>>
    BY <1>1, <1>2, <2>2, LenProperties DEF IInv, SnapshotsFirst
  <2> QED
    BY <2>1, <2>2
<1>5. TypeOK'
  BY <1>1, <1>2, <1>3, <1>4 DEF IInv, TypeOK, Steps, Generations
<1>6. Progress' /\ SnapshotsFirst'
  BY <1>1, <1>2, <1>4 DEF Progress, SnapshotsFirst, FilesSynced, TempSynced, Named, NameSynced
<1>7. SnapshotRenames'
  BY <1>1, <1>3 DEF IInv, SnapshotRenames, Intact
<1>8. ManifestRenames'
  <2> SUFFICES ASSUME NEW g \in Generations, InLog(runLog', Len(runLog'), Rename(g))
               PROVE  /\ g <= gen'
                      /\ g \in manifestStable'
                      /\ InLog(snapshotsLog', snapshotsSynced', Rename(g))
    BY DEF ManifestRenames
  <2>1. /\ g <= gen /\ g \in manifestStable
        /\ InLog(snapshotsLog, snapshotsSynced, Rename(g))
    BY <1>4 DEF IInv, ManifestRenames
  <2> QED
    BY <1>1, <1>2, <1>3, <2>1 DEF Generations
<1>9. ReturnedSynced'
  <2>1. runSynced \in 0..Len(runLog')
    BY <1>2, <1>4
  <2> QED
    BY <1>1, <1>4, <2>1 DEF IInv, ReturnedSynced
<1>10. Newest'
  <2>1. \A n \in 0..Len(runLog') : NamedIn(n)' = NamedIn(n)
    BY <1>4 DEF NamedIn
  <2>2. \A n \in 0..Len(runLog') : n \in 0..Len(runLog) \/ NamedIn(n) = {}
    <3>1. CASE runLog = <<>>
      <4>1. \A g, n : ~InLog(runLog, n, Rename(g))
        BY <3>1, EmptySeq DEF InLog
      <4> QED
        BY <4>1 DEF NamedIn
    <3>2. CASE runLog # <<>>
      BY <1>1, <3>2
    <3> QED
      BY <3>1, <3>2
  <2> QED
    BY <2>1, <2>2 DEF IInv, Newest
<1> QED
  BY <1>5, <1>6, <1>7, <1>8, <1>9, <1>10 DEF IInv

LEMMA RenameTempKeeps == IInv /\ RenameTemp => IInv'
<1> SUFFICES ASSUME IInv, RenameTemp PROVE IInv'
  OBVIOUS
<1> USE SnapshotAssumption
<1>1. /\ step = "renameTemp" /\ step' = "syncSnapshots"
      /\ snapshotsLog' = Append(snapshotsLog, Rename(gen))
      /\ UNCHANGED <<gen, written, stable, entriesStable, manifestStable, runLog, runSynced,
                     snapshotsSynced, returned>>
  BY DEF RenameTemp, genVars, runVars
<1>2. /\ gen \in Generations /\ Intact(gen)
      /\ snapshotsLog \in Seq(Change) /\ snapshotsSynced \in 0..Len(snapshotsLog)
  BY <1>1 DEF IInv, TypeOK, Progress, FilesSynced, TempSynced, Intact
<1>3. /\ snapshotsLog' \in Seq(Change) /\ Len(snapshotsLog) \in Nat
      /\ Len(snapshotsLog') = Len(snapshotsLog) + 1
      /\ \A g : \A n \in 0..Len(snapshotsLog) :
            InLog(snapshotsLog', n, Rename(g)) <=> InLog(snapshotsLog, n, Rename(g))
      /\ \A g : InLog(snapshotsLog', Len(snapshotsLog'), Rename(g)) <=>
                InLog(snapshotsLog, Len(snapshotsLog), Rename(g)) \/ g = gen
  <2>1. Rename(gen) \in Change
    BY <1>2, ChangesAreChanges DEF Generations
  <2> QED
    BY <1>1, <1>2, <2>1, AppendLog, RenamesDiffer
<1>4. TypeOK'
  BY <1>1, <1>2, <1>3 DEF IInv, TypeOK, Steps
<1>5. Progress' /\ SnapshotsFirst'
  BY <1>1, <1>2, <1>3
     DEF IInv, Progress, SnapshotsFirst, FilesSynced, TempSynced, Named, NameSynced
<1>6. SnapshotRenames'
  BY <1>1, <1>2, <1>3 DEF IInv, SnapshotRenames, Intact
<1>7. ManifestRenames' /\ ReturnedSynced'
  BY <1>1, <1>2, <1>3 DEF IInv, ManifestRenames, ReturnedSynced
<1>8. Newest'
  <2>1. \A n : NamedIn(n)' = NamedIn(n)
    BY <1>1 DEF NamedIn
  <2> QED
    BY <1>1, <2>1 DEF IInv, Newest
<1> QED
  BY <1>4, <1>5, <1>6, <1>7, <1>8 DEF IInv

LEMMA MakeManifestKeeps == IInv /\ MakeManifest => IInv'
<1> SUFFICES ASSUME IInv, MakeManifest PROVE IInv'
  OBVIOUS
<1> USE SnapshotAssumption
<1>1. /\ step = "makeManifest" /\ step' = "syncManifest"
      /\ runLog' = Append(runLog, Make(gen))
      /\ UNCHANGED <<gen, written, stable, entriesStable, manifestStable, runSynced,
                     snapshotsLog, snapshotsSynced, returned>>
  BY DEF MakeManifest, genVars, snapshotsVars
<1>2. /\ gen \in Generations /\ runLog # <<>>
      /\ runLog \in Seq(Change) /\ runSynced \in 0..Len(runLog)
  BY <1>1 DEF IInv, TypeOK, Progress
<1>3. /\ runLog' \in Seq(Change) /\ Len(runLog) \in Nat /\ Len(runLog') = Len(runLog) + 1
      /\ runLog'[1] = runLog[1] /\ runLog' # <<>>
      /\ \A g : \A n \in 0..Len(runLog) :
            InLog(runLog', n, Rename(g)) <=> InLog(runLog, n, Rename(g))
      /\ \A g : InLog(runLog', Len(runLog'), Rename(g)) <=> InLog(runLog, Len(runLog), Rename(g))
  <2>1. Make(gen) \in Change
    BY <1>2, ChangesAreChanges DEF Generations
  <2>2. runLog' # <<>>
    BY <1>1, <1>2, <2>1, AppendProperties
  <2> QED
    BY <1>1, <1>2, <2>1, <2>2, AppendLog, RenamesDiffer
<1>4. TypeOK'
  BY <1>1, <1>2, <1>3 DEF IInv, TypeOK, Steps
<1>5. Progress' /\ SnapshotsFirst'
  BY <1>1, <1>2, <1>3
     DEF IInv, Progress, SnapshotsFirst, FilesSynced, TempSynced, Named, NameSynced
<1>6. SnapshotRenames' /\ ManifestRenames' /\ ReturnedSynced'
  BY <1>1, <1>2, <1>3 DEF IInv, SnapshotRenames, ManifestRenames, ReturnedSynced, Intact
<1>7. Newest'
  <2>1. \A n \in 0..Len(runLog) : NamedIn(n)' = NamedIn(n)
    BY <1>3 DEF NamedIn
  <2>2. NamedIn(Len(runLog))' = NamedIn(Len(runLog))
    BY <1>3 DEF NamedIn
  <2>3. \A n \in 0..Len(runLog') : n \in 0..Len(runLog) \/ n = Len(runLog')
    BY <1>3
  <2> QED
    BY <1>3, <2>1, <2>2, <2>3 DEF IInv, Newest
<1> QED
  BY <1>4, <1>5, <1>6, <1>7 DEF IInv

LEMMA RenameManifestKeeps == IInv /\ RenameManifest => IInv'
<1> SUFFICES ASSUME IInv, RenameManifest PROVE IInv'
  OBVIOUS
<1> USE SnapshotAssumption
<1>1. /\ step = "renameManifest" /\ step' = "syncRun"
      /\ runLog' = Append(runLog, Rename(gen))
      /\ UNCHANGED <<gen, written, stable, entriesStable, manifestStable, runSynced,
                     snapshotsLog, snapshotsSynced, returned>>
  BY DEF RenameManifest, genVars, snapshotsVars
<1>2. /\ gen \in Generations /\ gen \in Nat /\ runLog # <<>> /\ gen \in manifestStable
      /\ InLog(snapshotsLog, snapshotsSynced, Rename(gen))
      /\ runLog \in Seq(Change) /\ runSynced \in 0..Len(runLog)
  BY <1>1 DEF IInv, TypeOK, Progress, NameSynced, Generations
<1>3. /\ runLog' \in Seq(Change) /\ Len(runLog) \in Nat /\ Len(runLog') = Len(runLog) + 1
      /\ runLog'[1] = runLog[1] /\ runLog' # <<>>
      /\ \A g : \A n \in 0..Len(runLog) :
            InLog(runLog', n, Rename(g)) <=> InLog(runLog, n, Rename(g))
      /\ \A g : InLog(runLog', Len(runLog'), Rename(g)) <=>
                InLog(runLog, Len(runLog), Rename(g)) \/ g = gen
  <2>1. Rename(gen) \in Change
    BY <1>2, ChangesAreChanges DEF Generations
  <2>2. runLog' # <<>>
    BY <1>1, <1>2, <2>1, AppendProperties
  <2> QED
    BY <1>1, <1>2, <2>1, <2>2, AppendLog, RenamesDiffer
<1>4. TypeOK'
  BY <1>1, <1>2, <1>3 DEF IInv, TypeOK, Steps
<1>5. Progress' /\ SnapshotsFirst'
  BY <1>1, <1>2, <1>3
     DEF IInv, Progress, SnapshotsFirst, FilesSynced, TempSynced, Named, NameSynced
<1>6. SnapshotRenames' /\ ReturnedSynced'
  BY <1>1, <1>2, <1>3 DEF IInv, SnapshotRenames, ReturnedSynced, Intact
<1>7. ManifestRenames'
  BY <1>1, <1>2, <1>3 DEF IInv, ManifestRenames
<1>8. Newest'
  <2>1. \A n \in 0..Len(runLog) : NamedIn(n)' = NamedIn(n)
    BY <1>3 DEF NamedIn
  <2>2. gen \in NamedIn(Len(runLog))' /\ \A h \in NamedIn(Len(runLog))' : h <= gen
    BY <1>2, <1>3 DEF NamedIn, IInv, ManifestRenames
  <2>3. \A n \in 0..Len(runLog') : n \in 0..Len(runLog) \/ n = Len(runLog')
    BY <1>3
  <2> QED
    BY <1>3, <2>1, <2>2, <2>3 DEF IInv, Newest
<1> QED
  BY <1>4, <1>5, <1>6, <1>7, <1>8 DEF IInv

LEMMA StutterKeeps == IInv /\ UNCHANGED vars => IInv'
<1> SUFFICES ASSUME IInv, UNCHANGED vars PROVE IInv'
  OBVIOUS
<1> USE DEF vars, genVars, runVars, snapshotsVars
<1>1. TypeOK' /\ Progress'
  BY DEF IInv, TypeOK, Progress, FilesSynced, TempSynced, Named, NameSynced
<1>2. SnapshotsFirst' /\ SnapshotRenames' /\ ManifestRenames' /\ ReturnedSynced' /\ Newest'
  BY LogsKept DEF Intact
<1> QED
  BY <1>1, <1>2 DEF IInv

LEMMA InvariantHolds == Spec => []IInv
<1>1. IInv /\ [Next]_vars => IInv'
  <2> SUFFICES ASSUME IInv, [Next]_vars PROVE IInv'
    OBVIOUS
  <2> QED
    BY BeginKeeps, WriteFileKeeps, SyncFileKeeps, QuietStepKeeps, RenameTempKeeps,
       SyncSnapshotsKeeps, MakeManifestKeeps, RenameManifestKeeps, SyncRunKeeps, StutterKeeps
    DEF Next
<1> QED
  BY <1>1, InitHolds, PTL DEF Spec

-----------------------------------------------------------------------------
(* From the logs to what a crash leaves *)

LEMMA PrefixUpTo ==
    ASSUME NEW log \in Seq(Change), NEW n \in 0..Len(log)
    PROVE  LET disk == SubSeq(log, 1, n) IN
              /\ Len(disk) = n /\ DOMAIN disk = 1..n
              /\ n > 0 => disk[1] = log[1]
              /\ \A c : (\E i \in DOMAIN disk : disk[i] = c) <=> InLog(log, n, c)
<1> DEFINE disk == SubSeq(log, 1, n)
<1>1. Len(log) \in Nat /\ n \in Nat /\ n <= Len(log)
  BY LenProperties
<1>2. \A i \in 1..n : log[i] \in Change
  BY <1>1, ElementOfSeq
<1>3. disk \in Seq(Change) /\ Len(disk) = n /\ \A i \in 1..n : disk[i] = log[i]
  BY <1>1, <1>2, SubSeqProperties
<1> HIDE DEF disk
<1>4. DOMAIN disk = 1..n
  BY <1>3, LenProperties
<1>5. \A c : (\E i \in DOMAIN disk : disk[i] = c) <=> InLog(log, n, c)
  BY <1>1, <1>3, <1>4 DEF InLog
<1>6. n > 0 => disk[1] = log[1]
  BY <1>1, <1>3
<1> QED
  BY <1>3, <1>4, <1>5, <1>6 DEF disk

LEMMA PrefixIsLog ==
    ASSUME NEW log \in Seq(Change), NEW synced \in 0..Len(log), NEW disk \in Prefixes(log, synced)
    PROVE  \E n \in synced..Len(log) :
              /\ Len(disk) = n /\ DOMAIN disk = 1..n
              /\ n > 0 => disk[1] = log[1]
              /\ \A c : (\E i \in DOMAIN disk : disk[i] = c) <=> InLog(log, n, c)
<1>1. PICK n \in synced..Len(log) : disk = SubSeq(log, 1, n)
  BY DEF Prefixes
<1>2. n \in 0..Len(log)
  BY <1>1, LenProperties
<1> QED
  BY <1>1, <1>2, PrefixUpTo

(* What a crash leaves of the run directory, and which manifest it names.  *)
LEMMA RunAfterCrash ==
    ASSUME IInv, NEW log \in Prefixes(runLog, runSynced)
    PROVE  /\ \A g \in Generations :
                 InLog(runLog, runSynced, Rename(g)) => g <= Current(log)
           /\ Current(log) # 0 =>
                 /\ Current(log) \in Generations
                 /\ InLog(runLog, Len(runLog), Rename(Current(log)))
                 /\ MakeSnapshots \in {log[i] : i \in DOMAIN log}
<1> USE SnapshotAssumption
<1>1. runLog \in Seq(Change) /\ runSynced \in 0..Len(runLog) /\ Len(runLog) \in Nat
  BY LenProperties DEF IInv, TypeOK
<1>2. PICK n \in runSynced..Len(runLog) :
         /\ DOMAIN log = 1..n
         /\ n > 0 => log[1] = runLog[1]
         /\ \A c : (\E i \in DOMAIN log : log[i] = c) <=> InLog(runLog, n, c)
  BY <1>1, PrefixIsLog
<1>3. Renamed(log) = NamedIn(n)
  BY <1>2 DEF Renamed, NamedIn
<1>4. \A g \in Generations : InLog(runLog, runSynced, Rename(g)) => g \in NamedIn(n)
  BY <1>1, <1>2, InLonger DEF NamedIn
<1>5. CASE NamedIn(n) = {}
  BY <1>3, <1>4, <1>5 DEF Current
<1>6. CASE NamedIn(n) # {}
  <2>1. \E g \in NamedIn(n) : \A h \in NamedIn(n) : h <= g
    BY <1>1, <1>2, <1>6 DEF IInv, Newest
  <2>2. Current(log) \in NamedIn(n) /\ \A h \in NamedIn(n) : h <= Current(log)
    BY <1>3, <1>6, <2>1 DEF Current
  <2>3. Current(log) \in Generations /\ InLog(runLog, n, Rename(Current(log)))
    BY <2>2 DEF NamedIn
  <2>4. InLog(runLog, Len(runLog), Rename(Current(log)))
    BY <1>1, <2>3, InLonger
  <2>5. n > 0 /\ runLog # <<>>
    BY <1>1, <2>3, EmptySeq DEF InLog
  <2>6. MakeSnapshots \in {log[i] : i \in DOMAIN log}
    BY <1>1, <1>2, <2>5 DEF IInv, SnapshotsFirst
  <2> QED
    BY <1>4, <2>2, <2>3, <2>4, <2>6
<1> QED
  BY <1>5, <1>6

LEMMA SnapshotsAfterCrash ==
    ASSUME IInv, NEW log \in Prefixes(snapshotsLog, snapshotsSynced), NEW g \in Generations
    PROVE  /\ InLog(snapshotsLog, snapshotsSynced, Rename(g)) => g \in Renamed(log)
           /\ g \in Renamed(log) => Intact(g)
<1>1. /\ snapshotsLog \in Seq(Change) /\ snapshotsSynced \in 0..Len(snapshotsLog)
      /\ Len(snapshotsLog) \in Nat
  BY LenProperties DEF IInv, TypeOK
<1>2. PICK n \in snapshotsSynced..Len(snapshotsLog) :
         \A c : (\E i \in DOMAIN log : log[i] = c) <=> InLog(snapshotsLog, n, c)
  BY <1>1, PrefixIsLog
<1>3. g \in Renamed(log) <=> InLog(snapshotsLog, n, Rename(g))
  BY <1>2 DEF Renamed
<1>4. InLog(snapshotsLog, snapshotsSynced, Rename(g)) => InLog(snapshotsLog, n, Rename(g))
  BY <1>1, InLonger
<1>5. InLog(snapshotsLog, n, Rename(g)) => InLog(snapshotsLog, Len(snapshotsLog), Rename(g))
  BY <1>1, InLonger
<1> QED
  BY <1>3, <1>4, <1>5 DEF IInv, SnapshotRenames

-----------------------------------------------------------------------------
(* Whatever moment a crash comes, the manifest it leaves is whole and      *)
(* names a complete generation (write_snapshot, publish_manifest, sync_dir *)
(* in output.rs).                                                          *)
THEOREM ManifestIsBacked == Spec => []ManifestBacked
<1>1. ASSUME IInv PROVE ManifestBacked
  <2> SUFFICES ASSUME NEW disk \in AfterCrash, Current(disk.run) # 0
               PROVE  /\ Current(disk.run) \in manifestStable
                      /\ MakeSnapshots \in {disk.run[i] : i \in DOMAIN disk.run}
                      /\ Current(disk.run) \in Renamed(disk.snapshots)
                      /\ Intact(Current(disk.run))
    BY DEF ManifestBacked
  <2> DEFINE g == Current(disk.run)
  <2>1. /\ disk.run \in Prefixes(runLog, runSynced)
        /\ disk.snapshots \in Prefixes(snapshotsLog, snapshotsSynced)
    BY DEF AfterCrash
  <2>2. /\ g \in Generations
        /\ InLog(runLog, Len(runLog), Rename(g))
        /\ MakeSnapshots \in {disk.run[i] : i \in DOMAIN disk.run}
    BY <1>1, <2>1, RunAfterCrash
  <2>3. g \in manifestStable /\ InLog(snapshotsLog, snapshotsSynced, Rename(g))
    BY <1>1, <2>2 DEF IInv, ManifestRenames
  <2>4. g \in Renamed(disk.snapshots) /\ Intact(g)
    BY <1>1, <2>1, <2>2, <2>3, SnapshotsAfterCrash
  <2> QED
    BY <2>2, <2>3, <2>4
<1> QED
  BY <1>1, InvariantHolds, PTL

(* A generation for which write_snapshot returned Ok is not lost, and no   *)
(* crash brings back an older manifest (the directory syncs that precede   *)
(* the return).                                                            *)
THEOREM ReturnedIsKept == Spec => []ReturnedSurvives
<1>1. ASSUME IInv PROVE ReturnedSurvives
  <2> SUFFICES ASSUME NEW disk \in AfterCrash, NEW g \in returned
               PROVE  g <= Current(disk.run)
    BY DEF ReturnedSurvives
  <2>1. disk.run \in Prefixes(runLog, runSynced)
    BY DEF AfterCrash
  <2>2. g \in Generations /\ InLog(runLog, runSynced, Rename(g))
    BY <1>1 DEF IInv, TypeOK, ReturnedSynced
  <2> QED
    BY <1>1, <2>1, <2>2, RunAfterCrash
<1> QED
  BY <1>1, InvariantHolds, PTL

(* A generation under its final name is complete, published or not (the    *)
(* syncs before the rename of the temporary directory).                    *)
THEOREM FinalNameIsComplete == Spec => []FinalNameComplete
<1>1. ASSUME IInv PROVE FinalNameComplete
  <2> SUFFICES ASSUME NEW disk \in AfterCrash, NEW g \in Renamed(disk.snapshots)
               PROVE  Intact(g)
    BY DEF FinalNameComplete
  <2>1. disk.snapshots \in Prefixes(snapshotsLog, snapshotsSynced) /\ g \in Generations
    BY DEF AfterCrash, Renamed
  <2> QED
    BY <1>1, <2>1, SnapshotsAfterCrash
<1> QED
  BY <1>1, InvariantHolds, PTL

-----------------------------------------------------------------------------
(* Manifests *)

(* The generation the manifest names after the first n changes.            *)
NamesIn(log, n) == {g \in Generations : InLog(log, n, Rename(g))}
Top(S) == IF S = {} THEN 0 ELSE CHOOSE g \in S : \A h \in S : h <= g
NamedAfter(log, n) == Top(NamesIn(log, n))
NamedFrom(log, synced) == {NamedAfter(log, n) : n \in synced..Len(log)}

LEMMA CurrentOfPrefix ==
    ASSUME NEW log \in Seq(Change), NEW n \in 0..Len(log)
    PROVE  Current(SubSeq(log, 1, n)) = NamedAfter(log, n)
<1>1. Renamed(SubSeq(log, 1, n)) = NamesIn(log, n)
  BY PrefixUpTo DEF Renamed, NamesIn
<1>2. \A disk : Current(disk) = Top(Renamed(disk))
  BY Zenon DEF Current, Top
<1> QED
  BY <1>1, <1>2, Zenon DEF NamedAfter

LEMMA CrashLeaves ==
    ASSUME NEW log \in Seq(Change), NEW synced \in 0..Len(log)
    PROVE  {Current(disk) : disk \in Prefixes(log, synced)} = NamedFrom(log, synced)
<1>1. \A n \in synced..Len(log) : Current(SubSeq(log, 1, n)) = NamedAfter(log, n)
  <2>1. synced..Len(log) \subseteq 0..Len(log)
    BY LenProperties
  <2> QED
    BY <2>1, CurrentOfPrefix
<1> QED
  BY <1>1 DEF Prefixes, NamedFrom

(* A longer log leaves one possibility more. *)
LEMMA NamedFromLonger ==
    ASSUME NEW log \in Seq(Change), NEW x \in Change, NEW synced \in 0..Len(log)
    PROVE  NamedFrom(Append(log, x), synced)
             = NamedFrom(log, synced) \cup {NamedAfter(Append(log, x), Len(log) + 1)}
<1> DEFINE longer == Append(log, x)
<1>1. Len(log) \in Nat /\ Len(longer) = Len(log) + 1
  BY AppendLog
<1>2. \A n \in 0..Len(log) : NamedAfter(longer, n) = NamedAfter(log, n)
  <2>1. \A n \in 0..Len(log) : NamesIn(longer, n) = NamesIn(log, n)
    BY AppendLog DEF NamesIn
  <2> QED
    BY <2>1 DEF NamedAfter
<1> HIDE DEF longer
<1>3. /\ synced..Len(longer) = (synced..Len(log)) \cup {Len(log) + 1}
      /\ synced..Len(log) \subseteq 0..Len(log)
  BY <1>1
<1>4. NamedFrom(longer, synced) = NamedFrom(log, synced) \cup {NamedAfter(longer, Len(log) + 1)}
  BY <1>2, <1>3 DEF NamedFrom
<1> QED
  BY <1>4 DEF longer

(* Making a file or a directory leaves nothing new. *)
LEMMA MakeLeavesNothing ==
    ASSUME NEW log \in Seq(Change), NEW x \in Change, NEW synced \in 0..Len(log),
           \A g : x # Rename(g)
    PROVE  NamedFrom(Append(log, x), synced) = NamedFrom(log, synced)
<1>1. NamesIn(Append(log, x), Len(log) + 1) = NamesIn(log, Len(log))
  BY AppendLog DEF NamesIn
<1>2. NamedAfter(Append(log, x), Len(log) + 1) = NamedAfter(log, Len(log))
  BY <1>1 DEF NamedAfter
<1>3. Len(log) \in synced..Len(log)
  BY LenProperties
<1>4. NamedAfter(log, Len(log)) \in NamedFrom(log, synced)
  BY <1>3 DEF NamedFrom
<1> QED
  BY <1>2, <1>4, NamedFromLonger

(* The newest generation that a log renames is the one it leaves.          *)
LEMMA NewestIsNamed ==
    ASSUME NEW log, NEW n, NEW g \in Generations, InLog(log, n, Rename(g)),
           \A h \in Generations : InLog(log, n, Rename(h)) => h <= g
    PROVE  NamedAfter(log, n) = g
<1>1. Generations \subseteq Nat
  BY SnapshotAssumption DEF Generations
<1>2. g \in NamesIn(log, n) /\ \A h \in NamesIn(log, n) : h <= g /\ h \in Nat
  BY <1>1 DEF NamesIn
<1>3. NamedAfter(log, n) \in NamesIn(log, n) /\ g <= NamedAfter(log, n)
  BY <1>2 DEF NamedAfter, Top
<1>4. NamedAfter(log, n) \in Nat /\ NamedAfter(log, n) <= g
  BY <1>2, <1>3, Zenon
<1>5. g \in Nat
  BY <1>1
<1> HIDE DEF NamedAfter
<1> QED
  BY <1>3, <1>4, <1>5

LEMMA RecoverableIs ==
    IInv => Recoverable = NamedFrom(runLog, runSynced)
BY CrashLeaves DEF IInv, TypeOK, Recoverable

LEMMA InitIsAbstract == Init => Abstract!Init
<1> SUFFICES ASSUME Init PROVE Abstract!Init
  OBVIOUS
<1>1. runLog \in Seq(Change) /\ Len(runLog) = 0 /\ runSynced = 0
  BY EmptySeq DEF Init
<1>2. NamesIn(runLog, 0) = {}
  BY DEF NamesIn, InLog
<1>3. NamedFrom(runLog, runSynced) = {0}
  <2>1. 0..0 = {0}
    OBVIOUS
  <2> QED
    BY <1>1, <1>2, <2>1 DEF NamedFrom, NamedAfter, Top
<1>4. Recoverable = {0}
  <2>1. runSynced \in 0..Len(runLog)
    BY <1>1
  <2> QED
    BY <1>1, <1>3, <2>1, CrashLeaves DEF Recoverable
<1> QED
  BY <1>4 DEF Init, Abstract!Init

LEMMA QuietStepIsAbstract ==
    ASSUME UNCHANGED <<runLog, runSynced, gen, returned>>,
           \/ UNCHANGED step
           \/ step # "idle"
    PROVE  [Abstract!Next]_(Abstract!vars)
<1>1. UNCHANGED Recoverable
  BY DEF Recoverable, Prefixes, Current, Renamed
<1> QED
  BY <1>1 DEF Abstract!Next, Abstract!Abandon, Abstract!vars

LEMMA BeginIsAbstract ==
    ASSUME IInv, IInv', Begin
    PROVE  Abstract!Begin
<1>1. Recoverable' = Recoverable
  <2>1. CASE runLog # <<>>
    BY <2>1 DEF Begin, Recoverable, Prefixes, Current, Renamed
  <2>2. CASE runLog = <<>>
    <3>1. MakeSnapshots \in Change
      BY SnapshotAssumption DEF MakeSnapshots, Change
    <3>2. runLog' = Append(runLog, MakeSnapshots) /\ runSynced' = runSynced
      BY <2>2 DEF Begin
    <3>3. \A g : MakeSnapshots # Rename(g)
      BY RenamesDiffer
    <3>4. runLog \in Seq(Change) /\ runSynced \in 0..Len(runLog)
      BY DEF IInv, TypeOK
    <3>5. NamedFrom(runLog', runSynced') = NamedFrom(runLog, runSynced)
      BY <3>1, <3>2, <3>3, <3>4, MakeLeavesNothing
    <3>6. Recoverable = NamedFrom(runLog, runSynced)
      BY RecoverableIs
    <3>7. Recoverable' = NamedFrom(runLog', runSynced')
      BY CrashLeaves DEF IInv, TypeOK, Recoverable
    <3> QED
      BY <3>5, <3>6, <3>7
  <2> QED
    BY <2>1, <2>2
<1> QED
  BY <1>1 DEF Begin, Abstract!Begin

LEMMA MakeManifestIsQuiet ==
    ASSUME IInv, IInv', MakeManifest
    PROVE  UNCHANGED (Abstract!vars)
<1>1. gen \in 0..MaxGenerations /\ runLog \in Seq(Change) /\ runSynced \in 0..Len(runLog)
  BY DEF IInv, TypeOK
<1>2. Make(gen) \in Change /\ \A g : Make(gen) # Rename(g)
  BY <1>1, ChangesAreChanges, RenamesDiffer
<1>3. runLog' = Append(runLog, Make(gen)) /\ runSynced' = runSynced
  BY DEF MakeManifest, runVars
<1>4. NamedFrom(runLog', runSynced') = NamedFrom(runLog, runSynced)
  BY <1>1, <1>2, <1>3, MakeLeavesNothing
<1>5. Recoverable = NamedFrom(runLog, runSynced)
  BY RecoverableIs
<1>6. Recoverable' = NamedFrom(runLog', runSynced')
  BY CrashLeaves DEF IInv, TypeOK, Recoverable
<1> QED
  BY <1>4, <1>5, <1>6 DEF MakeManifest, Abstract!vars

(* The rename adds the generation to what a crash may leave: no other      *)
(* manifest is newer.                                                      *)
LEMMA RenameManifestIsReplace ==
    ASSUME IInv, IInv', RenameManifest
    PROVE  [Abstract!Replace]_(Abstract!vars)
<1>1. runLog \in Seq(Change) /\ runSynced \in 0..Len(runLog) /\ gen \in Generations
  BY DEF IInv, TypeOK, Progress, RenameManifest
<1>2. Rename(gen) \in Change
  BY <1>1, ChangesAreChanges DEF IInv, TypeOK
<1>3. runLog' = Append(runLog, Rename(gen)) /\ runSynced' = runSynced /\ gen' = gen
  BY DEF RenameManifest
<1>4. Len(runLog') = Len(runLog) + 1
  BY <1>1, <1>2, <1>3, AppendLog
<1>5. InLog(runLog', Len(runLog'), Rename(gen))
  BY <1>1, <1>2, <1>3, <1>4, AppendLog
<1>6. \A h \in Generations : InLog(runLog', Len(runLog'), Rename(h)) => h <= gen
  BY <1>3 DEF IInv, ManifestRenames
<1>7. NamedAfter(runLog', Len(runLog')) = gen
  BY <1>1, <1>5, <1>6, NewestIsNamed
<1>8. NamedFrom(runLog', runSynced') = NamedFrom(runLog, runSynced) \cup {gen}
  BY <1>1, <1>2, <1>3, <1>4, <1>7, NamedFromLonger
<1>9. Recoverable = NamedFrom(runLog, runSynced)
  BY RecoverableIs
<1>10. Recoverable' = NamedFrom(runLog', runSynced')
  BY CrashLeaves DEF IInv, TypeOK, Recoverable
<1>11. Recoverable' = Recoverable \cup {gen}
  BY <1>8, <1>9, <1>10
<1>12. CASE gen \in Recoverable
  <2>1. Recoverable' = Recoverable
    BY <1>11, <1>12
  <2> QED
    BY <2>1 DEF RenameManifest, Abstract!vars
<1>13. CASE gen \notin Recoverable
  BY <1>11, <1>13 DEF RenameManifest, Abstract!Replace
<1> QED
  BY <1>12, <1>13

(* The sync of the run directory leaves a crash only the new manifest.     *)
LEMMA SyncRunIsReport ==
    ASSUME IInv, IInv', SyncRun
    PROVE  Abstract!Report
<1>1. /\ runLog \in Seq(Change) /\ runSynced \in 0..Len(runLog) /\ Len(runLog) \in Nat
      /\ gen \in Generations
  BY LenProperties DEF IInv, TypeOK, Progress, SyncRun
<1>2. runLog' = runLog /\ runSynced' = Len(runLog)
  BY DEF SyncRun
<1>3. NamedAfter(runLog, Len(runLog)) = gen
  BY <1>1, NewestIsNamed DEF IInv, Progress, ManifestRenames, SyncRun
<1>4. NamedFrom(runLog', runSynced') = {gen}
  <2>1. Len(runLog)..Len(runLog) = {Len(runLog)}
    BY <1>1
  <2> QED
    BY <1>2, <1>3, <2>1 DEF NamedFrom
<1>5. gen \in NamedFrom(runLog, runSynced)
  <2>1. Len(runLog) \in runSynced..Len(runLog)
    BY <1>1
  <2> QED
    BY <1>3, <2>1 DEF NamedFrom
<1>6. Recoverable = NamedFrom(runLog, runSynced)
  BY RecoverableIs
<1>7. Recoverable' = NamedFrom(runLog', runSynced')
  BY CrashLeaves DEF IInv, TypeOK, Recoverable
<1> QED
  BY <1>4, <1>5, <1>6, <1>7 DEF SyncRun, Abstract!Report

LEMMA AbstractStep ==
    ASSUME IInv, IInv', [Next]_vars
    PROVE  [Abstract!Next]_(Abstract!vars)
<1> USE DEF runVars
<1>1. CASE Begin
  BY <1>1, BeginIsAbstract DEF Abstract!Next
<1>2. CASE \E f \in Files : WriteFile(f) \/ SyncFile(f)
  BY <1>2, QuietStepIsAbstract DEF WriteFile, SyncFile
<1>3. CASE SyncTemp \/ RenameTemp \/ SyncSnapshots \/ SyncManifest
  BY <1>3, QuietStepIsAbstract DEF SyncTemp, RenameTemp, SyncSnapshots, SyncManifest
<1>4. CASE MakeManifest
  BY <1>4, MakeManifestIsQuiet
<1>5. CASE RenameManifest
  BY <1>5, RenameManifestIsReplace DEF Abstract!Next
<1>6. CASE SyncRun
  BY <1>6, SyncRunIsReport DEF Abstract!Next
<1>7. CASE Fails
  BY <1>7, QuietStepIsAbstract DEF Fails
<1>8. CASE UNCHANGED vars
  BY <1>8, QuietStepIsAbstract DEF vars
<1> QED
  BY <1>1, <1>2, <1>3, <1>4, <1>5, <1>6, <1>7, <1>8 DEF Next, Done

(* write_snapshot implements the abstract store of manifests: what a crash *)
(* may leave changes only with the rename of a manifest, and the sync that *)
(* precedes the return leaves the new one alone.                           *)
THEOREM SnapshotFsImplementsManifests == Spec => ImplementsManifests
<1>1. IInv /\ IInv' /\ [Next]_vars => [Abstract!Next]_(Abstract!vars)
  BY AbstractStep
<1> QED
  BY <1>1, InitIsAbstract, InvariantHolds, PTL DEF Spec, Abstract!Spec, ImplementsManifests
=============================================================================
