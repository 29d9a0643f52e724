--------------------------- MODULE StartupProofs ---------------------------
(***************************************************************************)
(* Theorems about Startup, for any launches, command lines, answers of the *)
(* DNS seeds and number of tries.  What a launch has done is told by where *)
(* it is (LaunchInv); other launches cannot disturb it, because they write *)
(* only to directories they made themselves (RunDirExclusive and Owns).    *)
(***************************************************************************)
EXTENDS Startup, TLAPS

Early == {"off", "mkdir", "logging", "preflight", "judge", "open"}
Late == {"seed", "run", "flush", "write"}

Reached(l) == \A net \in EnabledNetworks(conf[l]) : rows[l][net] = "reachable"

Config1(l) ==
    /\ conf[l] = Nil <=> pc[l] = "off"
    /\ pc[l] \in (Early \cup Late) \ {"off"} => Accepts(conf[l])
    /\ conf[l] # Nil /\ conf[l].program = "probe" =>
          pc[l] \notin {"preflight", "judge", "open", "flush"}
    /\ exit[l] # Nil => pc[l] = "exited"

(* From "logging" on, the run directory is the launch's own. *)
Owns(l) ==
    /\ pc[l] \in (Early \cup Late) \ {"off", "mkdir"} /\ ~conf[l].dry => owner[conf[l].run] = l
    /\ conf[l] # Nil /\ conf[l].dry =>
          /\ pc[l] \in {"logging", "preflight", "judge", "exited", "killed"}
          /\ DirsOf(l) = {} /\ FilesOf(l) = {} /\ queued[l] = {}

Rows(l) ==
    /\ pc[l] \in {"off", "mkdir", "logging", "preflight"} => rows[l] = Nil
    /\ pc[l] = "judge" => rows[l] # Nil
    /\ rows[l] # Nil => \A net \in EnabledNetworks(conf[l]) : rows[l][net] # "skipped"
    /\ pc[l] \in Late \cup {"open"} /\ conf[l].program = "crawler" /\ conf[l].strict => Reached(l)

Leaves(l) ==
    /\ pc[l] = "off" => DirsOf(l) = {} /\ FilesOf(l) = {}
    /\ pc[l] \in Early => FilesOf(l) \subseteq {"debug_log.txt"} /\ queued[l] = {}
    /\ pc[l] \in Late /\ conf[l].program = "crawler" /\ conf[l].record =>
          "addr_responses.csv" \in FilesOf(l)

Served(l) ==
    queued[l] # {} /\ conf[l].program = "crawler" =>
        /\ queued[l] \subseteq EnabledNetworks(conf[l])
        /\ Unserved(conf[l], queued[l]) = {}
        /\ conf[l].strict => Reached(l)

Honest(l) ==
    /\ exit[l] = "config" => FilesOf(l) \subseteq {"debug_log.txt"} /\ queued[l] = {}
    /\ exit[l] = "success" =>
          IF conf[l].dry
          THEN Reached(l)
          ELSE /\ "final" \in FilesOf(l)
               /\ result[l].ran /\ result[l].flushed
               /\ conf[l].program = "crawler" /\ conf[l].record =>
                     "addr_responses.csv" \in FilesOf(l)
    /\ exit[l] = "config" /\ rows[l] # Nil =>
          /\ conf[l].dry \/ conf[l].strict
          /\ \E net \in EnabledNetworks(conf[l]) : rows[l][net] = "unreachable"

LaunchInv(l) ==
    Config1(l) /\ Owns(l) /\ Rows(l) /\ Leaves(l) /\ Served(l) /\ Honest(l)

IInv == TypeOK /\ RunDirExclusive /\ \A l \in Launches : LaunchInv(l)

-----------------------------------------------------------------------------
LEMMA ConfigType ==
    ASSUME TypeOK, NEW l \in Launches, conf[l] # Nil
    PROVE  conf[l] \in Config /\ conf[l] \in Configs
BY StartupAssumption DEF TypeOK

LEMMA InitHolds == Init => IInv
<1> SUFFICES ASSUME Init PROVE IInv
  OBVIOUS
<1>1. TypeOK /\ RunDirExclusive
  BY DEF Init, TypeOK, RunDirExclusive, Outcome
<1>2. ASSUME NEW l \in Launches PROVE LaunchInv(l)
  <2>1. /\ pc[l] = "off" /\ conf[l] = Nil /\ rows[l] = Nil /\ queued[l] = {} /\ exit[l] = Nil
        /\ FilesOf(l) = {} /\ DirsOf(l) = {}
    BY StartupAssumption DEF Init, FilesOf, DirsOf
  <2>2. exit[l] \notin {"config", "success"}
    BY <2>1, StartupAssumption DEF Code
  <2> QED
    BY <2>1, <2>2 DEF LaunchInv, Config1, Owns, Rows, Leaves, Served, Honest, Early, Late
<1> QED
  BY <1>1, <1>2 DEF IInv

(* An owner replaces its own file, or adds one, and touches no other.      *)
LEMMA WriteKeeps ==
    ASSUME TypeOK, RunDirExclusive, NEW l \in Launches, NEW name \in Names,
           conf[l] # Nil, owner[conf[l].run] = l, Write(l, name)
    PROVE  /\ files' \subseteq [run : Runs, name : Names, by : Launches]
           /\ \A f \in files' : f.by = owner[f.run]
           /\ FilesOf(l)' = FilesOf(l) \cup {name}
           /\ \A k \in Launches \ {l} : FilesOf(k)' = FilesOf(k)
<1> DEFINE new == [run |-> conf[l].run, name |-> name, by |-> l]
           kept == {f \in files : f.run # conf[l].run \/ f.name # name}
<1>1. conf[l].run \in Runs
  BY ConfigType DEF Config
<1>2. files' = kept \cup {new}
  BY DEF Write
<1>3. new \in [run : Runs, name : Names, by : Launches]
  BY <1>1
<1>4. \A f \in files : f \in [run : Runs, name : Names, by : Launches] /\ f.by = owner[f.run]
  BY DEF TypeOK, RunDirExclusive
<1>5. files' \subseteq [run : Runs, name : Names, by : Launches]
  BY <1>2, <1>3, <1>4
<1>6. \A f \in files' : f.by = owner[f.run]
  BY <1>2, <1>4
<1>7. \A f \in files \ kept : f.name = name /\ f.by = l
  BY <1>4
<1>8. FilesOf(l)' = FilesOf(l) \cup {name}
  <2>1. ASSUME NEW n \in FilesOf(l)' PROVE n \in FilesOf(l) \cup {name}
    <3>1. PICK f \in files' : f.by = l /\ n = f.name
      BY <2>1 DEF FilesOf
    <3> QED
      BY <3>1, <1>2 DEF FilesOf
  <2>2. ASSUME NEW n \in FilesOf(l) PROVE n \in FilesOf(l)'
    <3>1. PICK f \in files : f.by = l /\ n = f.name
      BY <2>2 DEF FilesOf
    <3>2. CASE f \in kept
      BY <3>1, <3>2, <1>2 DEF FilesOf
    <3>3. CASE f \notin kept
      <4>1. n = new.name /\ new.by = l /\ new \in files'
        BY <3>1, <3>3, <1>2, <1>7
      <4> QED
        BY <4>1 DEF FilesOf
    <3> QED
      BY <3>2, <3>3
  <2>3. name \in FilesOf(l)'
    <3>1. name = new.name /\ new.by = l /\ new \in files'
      BY <1>2
    <3> QED
      BY <3>1 DEF FilesOf
  <2> QED
    BY <2>1, <2>2, <2>3
<1>9. ASSUME NEW k \in Launches \ {l} PROVE FilesOf(k)' = FilesOf(k)
  <2>1. \A f \in files' : f.by = k => f \in files
    BY <1>2, <1>9
  <2>2. \A f \in files : f.by = k => f \in files'
    BY <1>2, <1>7, <1>9
  <2> QED
    BY <2>1, <2>2 DEF FilesOf
<1> QED
  BY <1>5, <1>6, <1>8, <1>9

(* What a step of another launch leaves alone is enough for LaunchInv.     *)
LEMMA OthersKeep ==
    ASSUME TypeOK, NEW l \in Launches, NEW k \in Launches \ {l}, LaunchInv(k),
           pc'[k] = pc[k], conf'[k] = conf[k], rows'[k] = rows[k], queued'[k] = queued[k],
           result'[k] = result[k], exit'[k] = exit[k], FilesOf(k)' = FilesOf(k),
           DirsOf(k)' = DirsOf(k),
           \A r \in Runs : owner[r] # Nil => owner'[r] = owner[r]
    PROVE  LaunchInv(k)'
<1>1. conf[k] # Nil => conf[k].run \in Runs
  BY ConfigType DEF Config
<1>2. k # Nil
  BY StartupAssumption
<1>3. Config1(k)' /\ Rows(k)' /\ Leaves(k)' /\ Served(k)' /\ Honest(k)'
  BY DEF LaunchInv, Config1, Rows, Leaves, Served, Honest, Reached
<1>4. Owns(k)'
  BY <1>1, <1>2 DEF LaunchInv, Owns, Config1, Early, Late
<1> QED
  BY <1>3, <1>4 DEF LaunchInv

-----------------------------------------------------------------------------
(* Each step writes nothing, or one file of a directory of its own.        *)
LEMMA StepWrites ==
    ASSUME IInv, NEW l \in Launches, Step(l)
    PROVE  \/ UNCHANGED files
           \/ /\ conf[l] # Nil /\ owner[conf[l].run] = l /\ UNCHANGED <<owner, conf>>
              /\ \E name \in Names : Write(l, name)
<1> USE DEF At
<1>1. LaunchInv(l)
  BY DEF IInv
<1>2. pc[l] # "off" => conf[l] # Nil
  BY <1>1 DEF LaunchInv, Config1
<1>3. pc[l] \in {"logging", "open", "run", "write"} /\ ~conf[l].dry => owner[conf[l].run] = l
  BY <1>1 DEF LaunchInv, Owns, Early, Late
<1>4. pc[l] \in {"open", "run", "write"} => ~conf[l].dry
  BY <1>1, <1>2 DEF LaunchInv, Owns
<1>5. CASE InitLogging(l)
  BY <1>2, <1>3, <1>5 DEF InitLogging, Names
<1>6. CASE OpenLog(l)
  BY <1>2, <1>3, <1>4, <1>6 DEF OpenLog, Names
<1>7. CASE Checkpoint(l)
  BY <1>2, <1>3, <1>4, <1>7 DEF Checkpoint, Names
<1>8. CASE FinalWrite(l)
  BY <1>2, <1>3, <1>4, <1>8 DEF FinalWrite, Names
<1>9. CASE \/ Configure(l) \/ MakeRunDir(l) \/ Preflight(l) \/ Judge(l) \/ Seed(l)
           \/ RunReturns(l) \/ FinalFlush(l) \/ Kill(l)
  BY <1>9 DEF Configure, MakeRunDir, Preflight, Judge, Seed, RunReturns, FinalFlush, Kill
<1> QED
  BY <1>5, <1>6, <1>7, <1>8, <1>9 DEF Step

(* Directories keep their owners, and a launch makes them for itself. *)
LEMMA OwnersStay ==
    ASSUME IInv, NEW l \in Launches, Step(l)
    PROVE  /\ \A r \in Runs : owner[r] # Nil => owner'[r] = owner[r]
           /\ \A k \in Launches \ {l} : DirsOf(k)' = DirsOf(k)
<1>1. CASE MakeRunDir(l)
  <2>1. \A r \in Runs : owner'[r] = owner[r] \/ (owner[r] = Nil /\ owner'[r] = l)
    BY <1>1 DEF MakeRunDir, IInv, TypeOK
  <2>2. \A k \in Launches : k # Nil
    BY StartupAssumption
  <2> QED
    BY <2>1, <2>2 DEF DirsOf
<1>2. CASE UNCHANGED owner
  BY <1>2 DEF DirsOf
<1> QED
  BY <1>1, <1>2 DEF Step, Configure, InitLogging, Preflight, Judge, OpenLog, Seed, Checkpoint,
                    RunReturns, FinalFlush, FinalWrite, Kill

LEMMA FilesStep ==
    ASSUME IInv, NEW l \in Launches, Step(l)
    PROVE  /\ files' \subseteq [run : Runs, name : Names, by : Launches]
           /\ RunDirExclusive'
           /\ \A k \in Launches \ {l} : FilesOf(k)' = FilesOf(k)
<1>1. TypeOK /\ RunDirExclusive
  BY DEF IInv
<1>2. CASE UNCHANGED files
  <2>1. \A f \in files : f.run \in Runs /\ f.by \in Launches /\ f.by = owner[f.run]
    BY <1>1 DEF TypeOK, RunDirExclusive
  <2>2. \A f \in files : f.by = owner'[f.run]
    BY <2>1, OwnersStay, StartupAssumption
  <2> QED
    BY <1>1, <1>2, <2>2 DEF TypeOK, RunDirExclusive, FilesOf
<1>3. CASE /\ conf[l] # Nil /\ owner[conf[l].run] = l /\ UNCHANGED <<owner, conf>>
           /\ \E name \in Names : Write(l, name)
  <2>1. PICK name \in Names : Write(l, name)
    BY <1>3
  <2> QED
    BY <1>1, <1>3, <2>1, WriteKeeps DEF RunDirExclusive
<1> QED
  BY <1>2, <1>3, StepWrites

LEMMA TypeStep ==
    ASSUME IInv, NEW l \in Launches, Step(l)
    PROVE  TypeOK'
<1> USE DEF At, Goto, Exit, TypeOK
<1>1. TypeOK /\ files' \subseteq [run : Runs, name : Names, by : Launches]
  BY FilesStep DEF IInv
<1>2. CASE Configure(l)
  BY <1>1, <1>2 DEF Configure, Code
<1>3. CASE MakeRunDir(l)
  <2>1. pc[l] # "off"
    BY <1>3 DEF MakeRunDir
  <2>2. conf[l].run \in Runs
    BY <1>1, <2>1, ConfigType DEF IInv, LaunchInv, Config1, Config
  <2> QED
    BY <1>1, <1>3, <2>2 DEF MakeRunDir, Code
<1>4. CASE InitLogging(l)
  BY <1>1, <1>4 DEF InitLogging
<1>5. CASE Preflight(l)
  <2>1. PICK first, second \in Resolutions, up \in SUBSET {"tor", "i2p", "cjdns"} :
          rows' = [rows EXCEPT ![l] = [net \in Network |->
                      CASE net \notin EnabledNetworks(conf[l]) -> "skipped"
                        [] net = "ipv4" -> ProbeIp(first, FALSE)
                        [] net = "ipv6" -> ProbeIp(second, TRUE)
                        [] net \in up -> "reachable"
                        [] OTHER -> "unreachable"]]
    BY <1>5 DEF Preflight
  <2>2. rows' \in [Launches -> [Network -> ProbeResult] \cup {Nil}]
    BY <1>1, <2>1 DEF ProbeResult, ProbeIp, Network
  <2> QED
    BY <1>1, <1>5, <2>2 DEF Preflight
<1>6. CASE Judge(l)
  BY <1>1, <1>6 DEF Judge, Code
<1>7. CASE OpenLog(l)
  BY <1>1, <1>7 DEF OpenLog, Code
<1>8. CASE Seed(l)
  <2>1. \A answers : SeedNetworks(conf[l], answers) \subseteq Network
    BY DEF SeedNetworks, EnabledNetworks
  <2>2. conf[l].targets \subseteq Network
    BY <1>1, <1>8, ConfigType DEF IInv, LaunchInv, Config1, Config, Seed
  <2>3. queued' \in [Launches -> SUBSET Network]
    BY <1>1, <1>8, <2>1, <2>2 DEF Seed
  <2> QED
    BY <1>1, <1>8, <2>3 DEF Seed
<1>9. CASE Checkpoint(l)
  BY <1>1, <1>9 DEF Checkpoint
<1>10. CASE RunReturns(l)
  BY <1>1, <1>10 DEF RunReturns, Outcome
<1>11. CASE FinalFlush(l)
  BY <1>1, <1>11 DEF FinalFlush, Outcome
<1>12. CASE FinalWrite(l)
  BY <1>1, <1>12 DEF FinalWrite, FinalCode, Code
<1>13. CASE Kill(l)
  BY <1>1, <1>13 DEF Kill
<1> QED
  BY <1>2, <1>3, <1>4, <1>5, <1>6, <1>7, <1>8, <1>9, <1>10, <1>11, <1>12, <1>13 DEF Step

-----------------------------------------------------------------------------
(* The launch that steps.  Only its own files change, so what it left is   *)
(* what it wrote; one step per action, as it passes from label to label.   *)
LEMMA OwnFiles ==
    ASSUME IInv, NEW l \in Launches, NEW name \in Names, Step(l), Write(l, name)
    PROVE  FilesOf(l)' = FilesOf(l) \cup {name} \/ (UNCHANGED files /\ FilesOf(l)' = FilesOf(l))
<1>1. CASE UNCHANGED files
  BY <1>1 DEF FilesOf
<1>2. CASE conf[l] # Nil /\ owner[conf[l].run] = l
  BY <1>2, WriteKeeps DEF IInv
<1> QED
  BY <1>1, <1>2, StepWrites

LEMMA ServedNetworks ==
    ASSUME NEW c, NEW nets, Accepts(c), nets \subseteq EnabledNetworks(c)
    PROVE  Unserved(c, nets) = {}
BY DEF Accepts, Unserved

LEMMA LaunchStep ==
    ASSUME IInv, NEW l \in Launches, Step(l)
    PROVE  LaunchInv(l)'
<1> USE DEF At, Goto, Exit, Early, Late
<1>1. TypeOK /\ RunDirExclusive /\ LaunchInv(l)
  BY DEF IInv
<1>2. pc[l] # "off" => conf[l] # Nil /\ conf[l] \in Config
  BY <1>1, ConfigType DEF LaunchInv, Config1
<1>3. \A k : k \in Launches => k # Nil
  BY StartupAssumption
<1>4. (UNCHANGED files => FilesOf(l)' = FilesOf(l)) /\ (UNCHANGED owner => DirsOf(l)' = DirsOf(l))
  BY DEF FilesOf, DirsOf
<1>5. pc[l] # "exited" => exit[l] \notin {"config", "success"}
  BY <1>1, StartupAssumption DEF LaunchInv, Config1, Code
<1>6. CASE Configure(l)
  <2>1. pc[l] = "off" /\ UNCHANGED <<rows, queued, result, owner, files>>
    BY <1>6 DEF Configure
  <2>2. rows[l] = Nil /\ queued[l] = {} /\ FilesOf(l)' = {} /\ DirsOf(l)' = {}
    BY <1>1, <1>4, <2>1 DEF LaunchInv, Rows, Leaves
  <2>3. PICK c \in Configs : conf' = [conf EXCEPT ![l] = c]
                 /\ IF Accepts(c) /\ (c.program = "probe" => c.usable)
                    THEN /\ Goto(l, IF c.dry THEN "logging" ELSE "mkdir")
                         /\ UNCHANGED exit
                    ELSE Exit(l, "config")
    BY <1>6 DEF Configure
  <2>4. conf'[l] = c /\ c # Nil /\ c \in Config
    BY <1>1, <2>3, StartupAssumption DEF TypeOK
  <2>5. c.program = "probe" => ~c.dry
    BY StartupAssumption
  <2>6. CASE pc'[l] = "exited" /\ exit'[l] = "config"
    BY <2>1, <2>2, <2>4, <2>6 DEF LaunchInv, Config1, Owns, Rows, Leaves, Served, Honest
  <2>7. CASE /\ Accepts(c) /\ exit'[l] = exit[l]
             /\ pc'[l] = IF c.dry THEN "logging" ELSE "mkdir"
    <3>1. exit[l] = Nil
      BY <1>1, <2>1 DEF LaunchInv, Config1
    <3> QED
      BY <1>5, <2>1, <2>2, <2>4, <2>7, <3>1
         DEF LaunchInv, Config1, Owns, Rows, Leaves, Served, Honest
  <2> QED
    BY <1>1, <2>3, <2>6, <2>7 DEF TypeOK
<1>7. CASE MakeRunDir(l)
  <2>1. pc[l] = "mkdir" /\ UNCHANGED <<conf, rows, queued, result, files>>
    BY <1>7 DEF MakeRunDir
  <2>2. ~conf[l].dry /\ conf[l] # Nil /\ conf[l].run \in Runs
    BY <1>1, <1>2, <2>1 DEF LaunchInv, Owns, Config
  <2>3. CASE pc'[l] = "exited" /\ exit'[l] = "config"
    BY <1>1, <1>4, <2>1, <2>2, <2>3
       DEF LaunchInv, Config1, Owns, Rows, Leaves, Served, Honest
  <2>4. CASE pc'[l] = "logging" /\ owner'[conf[l].run] = l /\ exit'[l] = exit[l]
    BY <1>1, <1>4, <1>5, <2>1, <2>2, <2>4
       DEF LaunchInv, Config1, Owns, Rows, Leaves, Served, Honest
  <2> QED
    BY <1>1, <1>7, <2>2, <2>3, <2>4 DEF MakeRunDir, TypeOK
<1>8. CASE InitLogging(l)
  <2>1. /\ pc[l] = "logging" /\ UNCHANGED <<conf, rows, queued, result, exit, owner>>
        /\ pc'[l] = IF conf[l].program = "probe" THEN "seed" ELSE "preflight"
    BY <1>1, <1>8 DEF InitLogging, TypeOK
  <2>2. /\ FilesOf(l)' \subseteq {"debug_log.txt"}
        /\ conf[l].dry => FilesOf(l)' = {}
    <3>1. CASE UNCHANGED files
      BY <1>1, <1>2, <1>4, <2>1, <3>1 DEF LaunchInv, Leaves, Owns
    <3>2. CASE conf[l].debugLog /\ ~conf[l].dry /\ Write(l, "debug_log.txt")
      BY <1>1, <2>1, <3>2, OwnFiles DEF LaunchInv, Leaves, Names
    <3> QED
      BY <1>8, <3>1, <3>2 DEF InitLogging
  <2>3. conf[l].program = "probe" => ~conf[l].dry
    BY <1>1, <1>2, <2>1, StartupAssumption, ConfigType
  <2>4. conf[l].program \in {"crawler", "probe"}
    BY <1>2, <2>1 DEF Config
  <2> QED
    BY <1>1, <1>2, <1>4, <1>5, <2>1, <2>2, <2>3, <2>4
       DEF LaunchInv, Config1, Owns, Rows, Leaves, Served, Honest
<1>9. CASE Preflight(l)
  <2>1. /\ pc[l] = "preflight" /\ pc'[l] = "judge"
        /\ UNCHANGED <<conf, queued, result, exit, owner, files>>
    BY <1>1, <1>9 DEF Preflight, TypeOK
  <2>2. /\ rows'[l] # Nil
        /\ \A net \in EnabledNetworks(conf[l]) : rows'[l][net] # "skipped"
    <3>1. PICK first, second \in Resolutions, up \in SUBSET {"tor", "i2p", "cjdns"} :
            rows' = [rows EXCEPT ![l] = [net \in Network |->
                        CASE net \notin EnabledNetworks(conf[l]) -> "skipped"
                          [] net = "ipv4" -> ProbeIp(first, FALSE)
                          [] net = "ipv6" -> ProbeIp(second, TRUE)
                          [] net \in up -> "reachable"
                          [] OTHER -> "unreachable"]]
      BY <1>9 DEF Preflight
    <3> DEFINE row == [net \in Network |->
                        CASE net \notin EnabledNetworks(conf[l]) -> "skipped"
                          [] net = "ipv4" -> ProbeIp(first, FALSE)
                          [] net = "ipv6" -> ProbeIp(second, TRUE)
                          [] net \in up -> "reachable"
                          [] OTHER -> "unreachable"]
    <3>2. row \in [Network -> ProbeResult]
      BY DEF ProbeResult, ProbeIp, Network
    <3>3. \A net \in EnabledNetworks(conf[l]) : net \in Network /\ row[net] # "skipped"
      BY DEF EnabledNetworks, ProbeIp, Network
    <3>4. rows'[l] = row
      BY <1>1, <3>1 DEF TypeOK
    <3>5. row # Nil
      BY <3>2, StartupAssumption
    <3> HIDE DEF row
    <3> QED
      BY <3>3, <3>4, <3>5
  <2> QED
    BY <1>1, <1>2, <1>4, <1>5, <2>1, <2>2
       DEF LaunchInv, Config1, Owns, Rows, Leaves, Served, Honest
<1>10. CASE Judge(l)
  <2>1. pc[l] = "judge" /\ UNCHANGED <<conf, rows, queued, result, owner, files>>
    BY <1>10 DEF Judge
  <2>2. /\ conf[l].program # "probe" /\ rows[l] # Nil
        /\ rows[l] \in [Network -> ProbeResult]
        /\ FilesOf(l)' \subseteq {"debug_log.txt"} /\ queued[l] = {}
    BY <1>1, <1>2, <1>4, <2>1 DEF LaunchInv, Config1, Rows, Leaves, TypeOK
  <2>3. Failures(l) = {} => Reached(l)
    BY DEF Failures, Reached
  <2>4. Failures(l) # {} =>
          \E net \in EnabledNetworks(conf[l]) : rows[l][net] = "unreachable"
    BY <1>1, <2>2 DEF Failures, LaunchInv, Rows, ProbeResult, EnabledNetworks
  <2>5. CASE conf[l].dry
    <3>1. /\ pc'[l] = "exited"
          /\ exit'[l] = IF Failures(l) = {} THEN "success" ELSE "config"
      BY <1>1, <1>10, <2>5 DEF Judge, TypeOK
    <3> QED
      BY <1>1, <1>2, <1>4, <2>1, <2>2, <2>3, <2>4, <2>5, <3>1
         DEF LaunchInv, Config1, Owns, Rows, Leaves, Served, Honest, Reached
  <2>6. CASE ~conf[l].dry /\ conf[l].strict /\ Failures(l) # {}
    <3>1. pc'[l] = "exited" /\ exit'[l] = "config"
      BY <1>1, <1>10, <2>6 DEF Judge, TypeOK
    <3> QED
      BY <1>1, <1>2, <1>4, <2>1, <2>2, <2>4, <2>6, <3>1
         DEF LaunchInv, Config1, Owns, Rows, Leaves, Served, Honest, Reached
  <2>7. CASE ~conf[l].dry /\ ~(conf[l].strict /\ Failures(l) # {})
    <3>1. pc'[l] = "open" /\ exit'[l] = exit[l]
      BY <1>1, <1>10, <2>7 DEF Judge, TypeOK
    <3> QED
      BY <1>1, <1>2, <1>4, <1>5, <2>1, <2>2, <2>3, <2>7, <3>1
         DEF LaunchInv, Config1, Owns, Rows, Leaves, Served, Honest, Reached
  <2> QED
    BY <2>5, <2>6, <2>7
<1>11. CASE OpenLog(l)
  <2>1. pc[l] = "open" /\ UNCHANGED <<conf, rows, queued, result, owner>>
    BY <1>11 DEF OpenLog
  <2>2. /\ conf[l] # Nil /\ conf[l].program # "probe" /\ ~conf[l].dry
        /\ FilesOf(l) \subseteq {"debug_log.txt"} /\ queued[l] = {}
    BY <1>1, <1>2, <2>1 DEF LaunchInv, Config1, Owns, Leaves
  <2>3. CASE pc'[l] = "exited" /\ exit'[l] = "failure" /\ UNCHANGED files
    BY <1>1, <1>4, <2>1, <2>2, <2>3
       DEF LaunchInv, Config1, Owns, Rows, Leaves, Served, Honest, Reached
  <2>4. CASE pc'[l] = "seed" /\ exit'[l] = exit[l] /\ ~conf[l].record /\ UNCHANGED files
    BY <1>1, <1>4, <1>5, <2>1, <2>2, <2>4
       DEF LaunchInv, Config1, Owns, Rows, Leaves, Served, Honest, Reached
  <2>5. CASE /\ pc'[l] = "seed" /\ exit'[l] = exit[l] /\ conf[l].record
             /\ Write(l, "addr_responses.csv")
             /\ ~\E f \in files : f.run = conf[l].run /\ f.name = "addr_responses.csv"
    <3>1. "addr_responses.csv" \in FilesOf(l)'
      <4> DEFINE new == [run |-> conf[l].run, name |-> "addr_responses.csv", by |-> l]
      <4>1. new \in files' /\ new.by = l /\ new.name = "addr_responses.csv"
        BY <2>5 DEF Write
      <4> QED
        BY <4>1 DEF FilesOf
    <3> QED
      BY <1>1, <1>5, <2>1, <2>2, <2>5, <3>1
         DEF LaunchInv, Config1, Owns, Rows, Leaves, Served, Honest, Reached
  <2> QED
    BY <1>1, <1>11, <2>3, <2>4, <2>5 DEF OpenLog, TypeOK
<1>12. CASE Seed(l)
  <2>1. /\ pc[l] = "seed" /\ pc'[l] = "run"
        /\ UNCHANGED <<conf, rows, result, exit, owner, files>>
    BY <1>1, <1>12 DEF Seed, TypeOK
  <2>2. conf[l] # Nil /\ ~conf[l].dry /\ Accepts(conf[l])
    BY <1>1, <1>2, <2>1 DEF LaunchInv, Config1, Owns
  <2>3. conf[l].program # "probe" => queued'[l] \subseteq EnabledNetworks(conf[l])
    BY <1>1, <1>12 DEF Seed, SeedNetworks, TypeOK
  <2>4. conf[l].program # "probe" => Unserved(conf[l], queued'[l]) = {}
    BY <2>2, <2>3, ServedNetworks
  <2> QED
    BY <1>1, <1>4, <1>5, <2>1, <2>2, <2>3, <2>4
       DEF LaunchInv, Config1, Owns, Rows, Leaves, Served, Honest, Reached
<1>13. CASE Checkpoint(l)
  <2>1. /\ pc[l] = "run" /\ Write(l, "checkpoint")
        /\ UNCHANGED <<pc, conf, rows, queued, result, exit, owner>>
    BY <1>13 DEF Checkpoint
  <2>2. ~conf[l].dry
    BY <1>1, <1>2, <2>1 DEF LaunchInv, Owns
  <2>3. FilesOf(l) \subseteq FilesOf(l)'
    BY <2>1, OwnFiles DEF Names
  <2> QED
    BY <1>1, <1>2, <1>5, <2>1, <2>2, <2>3
       DEF LaunchInv, Config1, Owns, Rows, Leaves, Served, Honest, Reached
<1>14. CASE RunReturns(l)
  <2>1. /\ pc[l] = "run" /\ pc'[l] \in {"flush", "write"}
        /\ pc'[l] = "flush" => conf[l].program # "probe"
        /\ UNCHANGED <<conf, rows, queued, exit, owner, files>>
    BY <1>1, <1>14 DEF RunReturns, TypeOK
  <2> QED
    BY <1>1, <1>2, <1>4, <1>5, <2>1
       DEF LaunchInv, Config1, Owns, Rows, Leaves, Served, Honest, Reached
<1>15. CASE FinalFlush(l)
  <2>1. /\ pc[l] = "flush" /\ pc'[l] = "write"
        /\ UNCHANGED <<conf, rows, queued, exit, owner, files>>
    BY <1>1, <1>15 DEF FinalFlush, TypeOK
  <2> QED
    BY <1>1, <1>2, <1>4, <1>5, <2>1
       DEF LaunchInv, Config1, Owns, Rows, Leaves, Served, Honest, Reached
<1>16. CASE FinalWrite(l)
  <2>1. /\ pc[l] = "write" /\ pc'[l] = "exited"
        /\ UNCHANGED <<conf, rows, queued, result, owner>>
    BY <1>1, <1>16 DEF FinalWrite, TypeOK
  <2>2. conf[l] # Nil /\ ~conf[l].dry
    BY <1>1, <1>2, <2>1 DEF LaunchInv, Owns
  <2>3. CASE exit'[l] = "failure"
    <3>1. FilesOf(l) \subseteq FilesOf(l)'
      BY <1>4, <1>16, OwnFiles DEF FinalWrite, Names
    <3> QED
      BY <1>1, <2>1, <2>2, <2>3, <3>1
         DEF LaunchInv, Config1, Owns, Rows, Leaves, Served, Honest, Reached
  <2>4. CASE exit'[l] = FinalCode(l) /\ Write(l, "final")
    <3>1. FinalCode(l) = "success" => result[l].ran /\ result[l].flushed
      BY DEF FinalCode
    <3>2. FinalCode(l) # "config"
      BY DEF FinalCode
    <3>3. FilesOf(l)' = FilesOf(l) \cup {"final"}
      BY <1>1, <1>2, <2>1, <2>2, <2>4, WriteKeeps DEF LaunchInv, Owns, Names
    <3> QED
      BY <1>1, <2>1, <2>2, <2>4, <3>1, <3>2, <3>3
         DEF LaunchInv, Config1, Owns, Rows, Leaves, Served, Honest, Reached
  <2> QED
    BY <1>1, <1>16, <2>3, <2>4 DEF FinalWrite, TypeOK
<1>17. CASE Kill(l)
  <2>1. /\ pc[l] \notin {"off", "exited"} /\ pc'[l] = "killed"
        /\ UNCHANGED <<conf, rows, queued, result, exit, owner, files>>
    BY <1>1, <1>17 DEF Kill, TypeOK
  <2> QED
    BY <1>1, <1>2, <1>4, <1>5, <2>1
       DEF LaunchInv, Config1, Owns, Rows, Leaves, Served, Honest, Reached
<1> QED
  BY <1>6, <1>7, <1>8, <1>9, <1>10, <1>11, <1>12, <1>13, <1>14, <1>15, <1>16, <1>17 DEF Step

-----------------------------------------------------------------------------
LEMMA OthersStep ==
    ASSUME IInv, NEW l \in Launches, NEW k \in Launches \ {l}, Step(l)
    PROVE  LaunchInv(k)'
<1>1. TypeOK /\ LaunchInv(k)
  BY DEF IInv
<1>2. /\ pc'[k] = pc[k] /\ conf'[k] = conf[k] /\ rows'[k] = rows[k]
      /\ queued'[k] = queued[k] /\ result'[k] = result[k] /\ exit'[k] = exit[k]
  BY <1>1 DEF TypeOK, Step, Goto, Exit, Configure, MakeRunDir, InitLogging, Preflight, Judge,
              OpenLog, Seed, Checkpoint, RunReturns, FinalFlush, FinalWrite, Kill
<1>3. FilesOf(k)' = FilesOf(k)
  BY FilesStep
<1> QED
  BY <1>1, <1>2, <1>3, OthersKeep, OwnersStay

LEMMA StepKeeps == IInv /\ [Next]_vars => IInv'
<1> SUFFICES ASSUME IInv, [Next]_vars PROVE IInv'
  OBVIOUS
<1>1. CASE UNCHANGED vars
  <2>1. UNCHANGED <<pc, conf, rows, queued, result, exit, owner, files>>
    BY <1>1 DEF vars
  <2>2. TypeOK' /\ RunDirExclusive'
    BY <2>1 DEF IInv, TypeOK, RunDirExclusive
  <2>3. ASSUME NEW l \in Launches PROVE LaunchInv(l)'
    <3>1. LaunchInv(l) /\ FilesOf(l)' = FilesOf(l) /\ DirsOf(l)' = DirsOf(l)
      BY <2>1 DEF IInv, FilesOf, DirsOf
    <3> QED
      BY <2>1, <3>1 DEF LaunchInv, Config1, Owns, Rows, Leaves, Served, Honest, Reached
  <2> QED
    BY <2>2, <2>3 DEF IInv
<1>2. ASSUME NEW l \in Launches, Step(l) PROVE IInv'
  BY <1>2, TypeStep, FilesStep, LaunchStep, OthersStep DEF IInv
<1>3. CASE Over
  BY <1>1, <1>3 DEF Over
<1> QED
  BY <1>1, <1>2, <1>3 DEF Next

LEMMA Invariant == Spec => []IInv
BY InitHolds, StepKeeps, PTL DEF Spec

(* The state of every launch has its type.                                 *)
THEOREM TypeCorrect == Spec => []TypeOK
BY Invariant, PTL DEF IInv

(* A run directory holds the files of the launch that made it, and no      *)
(* other, for any number of launches with the same or different names      *)
(* (create_dir in both mains).                                             *)
THEOREM DirectoryIsExclusive == Spec => []RunDirExclusive
BY Invariant, PTL DEF IInv

(* What a crawler enqueues from DNS is of enabled networks that have       *)
(* workers, whatever the options and the answers (into_settings and        *)
(* seed_from_dns agree).                                                   *)
THEOREM SeedsAreServed == Spec => []SeedsServed
<1>1. IInv => SeedsServed
  BY DEF IInv, LaunchInv, Served, SeedsServed, Reached
<1> QED
  BY <1>1, Invariant, PTL

(* The exit code of a launch tells what it left in the run directory and   *)
(* how its preflight, run and final flush went (both mains).               *)
THEOREM ExitIsHonest == Spec => []ExitHonest
<1>1. IInv => ExitHonest
  BY DEF IInv, LaunchInv, Config1, Owns, Honest, ExitHonest, Reached
<1> QED
  BY <1>1, Invariant, PTL
=============================================================================
