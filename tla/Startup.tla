------------------------------ MODULE Startup ------------------------------
(***************************************************************************)
(* One launch of a binary from its command line to its exit code, among    *)
(* other launches that share the results directory: into_settings, the run *)
(* directory, the debug log, the preflight, the observation log, the       *)
(* seeds, the run and the final write (src/src/main.rs, settings.rs,       *)
(* logging.rs, preflight.rs, dns.rs and bin/probe.rs).  The run itself is  *)
(* Crawl's subject, the log and the checkpoints Observation's, the write   *)
(* SnapshotFs's; each is one step here, with every outcome it may have.    *)
(*                                                                         *)
(* A launch may be killed at any moment; the operator's retry of the same  *)
(* command line is a launch of its own, with the same configuration.       *)
(***************************************************************************)
EXTENDS Naturals, Sequences, FiniteSets, Functions

CONSTANTS
    Launches,
    Runs,          \* names of run directories: --timestamp, or the start time
    Configs,       \* command lines
    Resolutions,   \* answers the DNS seeds may give, all seeds in turn
    ProbeLimit,    \* addresses of a family the preflight tries
    Nil

Transports == {"ip", "tor", "i2p"}
Network == {"ipv4", "ipv6", "tor", "i2p", "cjdns"}

(* NetworkType::transport, for the networks that can be enabled. *)
TransportOf(net) == CASE net \in {"ipv4", "ipv6", "cjdns"} -> "ip"
                      [] net = "tor" -> "tor"
                      [] net = "i2p" -> "i2p"

(***************************************************************************)
(* A command line.  flag tells which of --net and --no-net came last;      *)
(* numeric, whether durations, budget, attempts and upper limits are sane; *)
(* usable, whether the probe's nodes can be read and one can be used;      *)
(* targets, the networks of those.                                         *)
(***************************************************************************)
Config == [program : {"crawler", "probe"}, run : Runs, numeric : BOOLEAN,
           flag : [Network -> {"absent", "on", "off"}], workers : [Transports -> Nat],
           dry : BOOLEAN, strict : BOOLEAN, record : BOOLEAN, debugLog : BOOLEAN,
           checkpoints : BOOLEAN, usable : BOOLEAN, targets : SUBSET Network]

(* An address a DNS seed resolves to, and whether a node accepts there.    *)
(* "mapped" is an IPv4-mapped IPv6 address, "fc" one of fc00::/8.          *)
Answer == [family : {"v4", "v6", "mapped", "fc"}, accepts : BOOLEAN]

ProbeResult == {"reachable", "unreachable", "skipped"}
Code == {"success", "failure", "config"}

(* ProbeCli has no dry run; the strict, record and checkpoint options it   *)
(* shares with the crawler have no effect on it.                           *)
ASSUME StartupAssumption ==
    /\ Configs \subseteq Config
    /\ \A c \in Configs : c.program = "probe" => ~c.dry
    /\ Resolutions \subseteq Seq(Answer)
    /\ ProbeLimit \in Nat
    /\ Nil \notin Launches /\ Nil \notin Configs
    /\ Nil \notin Code /\ Nil \notin [Network -> ProbeResult]

VARIABLES
    pc, conf,
    rows,       \* PreflightRow::result of each network
    queued,     \* networks of the addresses that were enqueued
    result,     \* what run and the final flush returned
    exit,
    owner,      \* per run name: the launch that made the directory, or Nil
    files       \* files in the run directories, with the launch that wrote them

vars == <<pc, conf, rows, queued, result, exit, owner, files>>

Names == {"debug_log.txt", "addr_responses.csv", "checkpoint", "final"}
Outcome == [ran : BOOLEAN, flushed : BOOLEAN]

TypeOK ==
    /\ pc \in [Launches -> {"off", "mkdir", "logging", "preflight", "judge", "open", "seed",
                            "run", "flush", "write", "exited", "killed"}]
    /\ conf \in [Launches -> Configs \cup {Nil}]
    /\ rows \in [Launches -> [Network -> ProbeResult] \cup {Nil}]
    /\ queued \in [Launches -> SUBSET Network]
    /\ result \in [Launches -> Outcome]
    /\ exit \in [Launches -> Code \cup {Nil}]
    /\ owner \in [Runs -> Launches \cup {Nil}]
    /\ files \subseteq [run : Runs, name : Names, by : Launches]

Init ==
    /\ pc = [l \in Launches |-> "off"]
    /\ conf = [l \in Launches |-> Nil]
    /\ rows = [l \in Launches |-> Nil]
    /\ queued = [l \in Launches |-> {}]
    /\ result = [l \in Launches |-> [ran |-> TRUE, flushed |-> TRUE]]
    /\ exit = [l \in Launches |-> Nil]
    /\ owner = [r \in Runs |-> Nil]
    /\ files = {}

-----------------------------------------------------------------------------
At(l, label) == pc[l] = label

Goto(l, label) == pc' = [pc EXCEPT ![l] = label]

Exit(l, code) ==
    /\ Goto(l, "exited")
    /\ exit' = [exit EXCEPT ![l] = code]

(* A file is created, or truncated if it is there. *)
Write(l, name) ==
    files' = {f \in files : f.run # conf[l].run \/ f.name # name}
             \cup {[run |-> conf[l].run, name |-> name, by |-> l]}

(* Each pair of flags overrides the other; networks are on by default. *)
EnabledNetworks(c) == {net \in Network : c.flag[net] # "off"}

Unserved(c, nets) == {net \in nets : c.workers[TransportOf(net)] = 0}

(* Mutant: cjdns alone does not ask for ip workers. *)
AcceptsCjdnsAlone(c) == c.numeric /\ Unserved(c, EnabledNetworks(c) \ {"cjdns"}) = {}

(* into_settings *)
Accepts(c) == c.numeric /\ Unserved(c, EnabledNetworks(c)) = {}

(* Parsing, into_settings, and the probe's list of nodes, all before the   *)
(* first change of the file system.                                        *)
Configure(l) ==
    /\ At(l, "off")
    /\ \E c \in Configs :
          /\ conf' = [conf EXCEPT ![l] = c]
          /\ IF Accepts(c) /\ (c.program = "probe" => c.usable)
             THEN /\ Goto(l, IF c.dry THEN "logging" ELSE "mkdir")
                  /\ UNCHANGED exit
             ELSE Exit(l, "config")
    /\ UNCHANGED <<rows, queued, result, owner, files>>

(* Mutant: create_dir_all, which reuses a directory. *)
MakeRunDirReuse(l) ==
    /\ At(l, "mkdir")
    /\ owner' = [owner EXCEPT ![conf[l].run] = IF @ = Nil THEN l ELSE @]
    /\ Goto(l, "logging")
    /\ UNCHANGED <<conf, rows, queued, result, exit, files>>

(* create_dir of the run directory makes a new one, or fails. *)
MakeRunDir(l) ==
    /\ At(l, "mkdir")
    /\ \/ /\ owner[conf[l].run] = Nil
          /\ owner' = [owner EXCEPT ![conf[l].run] = l]
          /\ Goto(l, "logging")
          /\ UNCHANGED exit
       \/ Exit(l, "config") /\ UNCHANGED owner
    /\ UNCHANGED <<conf, rows, queued, result, files>>

(* Mutant: a dry run has its debug log too, if the directory exists. *)
InitLoggingDry(l) ==
    /\ At(l, "logging")
    /\ IF conf[l].debugLog /\ owner[conf[l].run] # Nil
       THEN Write(l, "debug_log.txt") ELSE UNCHANGED files
    /\ Goto(l, IF conf[l].program = "probe" THEN "seed" ELSE "preflight")
    /\ UNCHANGED <<conf, rows, queued, result, exit, owner>>

(* logging::init; a debug log that cannot be created is done without.  The *)
(* probe has no preflight and no observation log.                          *)
InitLogging(l) ==
    /\ At(l, "logging")
    /\ \/ conf[l].debugLog /\ ~conf[l].dry /\ Write(l, "debug_log.txt")
       \/ UNCHANGED files
    /\ Goto(l, IF conf[l].program = "probe" THEN "seed" ELSE "preflight")
    /\ UNCHANGED <<conf, rows, queued, result, exit, owner>>

-----------------------------------------------------------------------------
(* run_preflight *)

(* probe_ip: is_v6 looks at the address as resolved. *)
OfFamily(answers, v6) == SelectSeq(answers, LAMBDA a : (a.family # "v4") = v6)

(* The first few addresses of the family, over all seeds, are tried in     *)
(* turn.                                                                   *)
ProbeIp(answers, v6) ==
    LET tried == OfFamily(answers, v6)
    IN  IF \E i \in 1..Len(tried) : i <= ProbeLimit /\ tried[i].accepts
        THEN "reachable" ELSE "unreachable"

(* Both IP probes resolve the seeds for themselves.  The Tor proxy, the    *)
(* SAM router and a cjdns interface are there or not.                      *)
Preflight(l) ==
    /\ At(l, "preflight")
    /\ \E first, second \in Resolutions, up \in SUBSET {"tor", "i2p", "cjdns"} :
          rows' = [rows EXCEPT ![l] = [net \in Network |->
                      CASE net \notin EnabledNetworks(conf[l]) -> "skipped"
                        [] net = "ipv4" -> ProbeIp(first, FALSE)
                        [] net = "ipv6" -> ProbeIp(second, TRUE)
                        [] net \in up -> "reachable"
                        [] OTHER -> "unreachable"]]
    /\ Goto(l, "judge")
    /\ UNCHANGED <<conf, queued, result, exit, owner, files>>

(* any_enabled_failed, and print_table's all_ok when it is empty. *)
Failures(l) ==
    {net \in EnabledNetworks(conf[l]) : rows[l][net] # "reachable"}

(* A dry run ends here, and a strict one with a failure. *)
Judge(l) ==
    /\ At(l, "judge")
    /\ IF conf[l].dry
       THEN Exit(l, IF Failures(l) = {} THEN "success" ELSE "config")
       ELSE IF conf[l].strict /\ Failures(l) # {}
       THEN Exit(l, "config")
       ELSE Goto(l, "open") /\ UNCHANGED exit
    /\ UNCHANGED <<conf, rows, queued, result, owner, files>>

(* AddrLog::create with create_new: a log that cannot be opened is fatal.  *)
OpenLog(l) ==
    /\ At(l, "open")
    /\ IF conf[l].record
       THEN \/ /\ ~\E f \in files : f.run = conf[l].run /\ f.name = "addr_responses.csv"
               /\ Write(l, "addr_responses.csv")
               /\ Goto(l, "seed")
               /\ UNCHANGED exit
            \/ Exit(l, "failure") /\ UNCHANGED files
       ELSE Goto(l, "seed") /\ UNCHANGED <<exit, files>>
    /\ UNCHANGED <<conf, rows, queued, result, owner>>

-----------------------------------------------------------------------------
(* classify of ip_to_host of a resolved address. *)
SeedNetwork(a) == CASE a.family \in {"v4", "mapped"} -> "ipv4"
                    [] a.family = "v6" -> "ipv6"
                    [] a.family = "fc" -> "cjdns"

(* seed_from_dns asks again and keeps the enabled networks. *)
SeedNetworks(c, answers) ==
    {SeedNetwork(a) : a \in Range(answers)} \cap EnabledNetworks(c)

(* The probe enqueues its targets as they are. *)
Seed(l) ==
    /\ At(l, "seed")
    /\ IF conf[l].program = "probe"
       THEN queued' = [queued EXCEPT ![l] = conf[l].targets]
       ELSE \E answers \in Resolutions :
               queued' = [queued EXCEPT ![l] = SeedNetworks(conf[l], answers)]
    /\ Goto(l, "run")
    /\ UNCHANGED <<conf, rows, result, exit, owner, files>>

(* spawn_checkpoint, unless the interval is zero or less. *)
Checkpoint(l) ==
    /\ At(l, "run")
    /\ conf[l].program = "crawler" /\ conf[l].checkpoints
    /\ Write(l, "checkpoint")
    /\ UNCHANGED <<pc, conf, rows, queued, result, exit, owner>>

(* run returns: fine, or a worker or the observation log failed. *)
RunReturns(l) ==
    /\ At(l, "run")
    /\ \E ran \in BOOLEAN : result' = [result EXCEPT ![l].ran = ran]
    /\ Goto(l, IF conf[l].program = "crawler" /\ conf[l].record THEN "flush" ELSE "write")
    /\ UNCHANGED <<conf, rows, queued, exit, owner, files>>

FinalFlush(l) ==
    /\ At(l, "flush")
    /\ \E flushed \in BOOLEAN : result' = [result EXCEPT ![l].flushed = flushed]
    /\ Goto(l, "write")
    /\ UNCHANGED <<conf, rows, queued, exit, owner, files>>

(* Mutant: the final flush is not asked about. *)
FinalCodeOfRun(l) == IF result[l].ran THEN "success" ELSE "failure"

FinalCode(l) == IF result[l].ran /\ result[l].flushed THEN "success" ELSE "failure"

(* write_all: a failure, which may come after the manifest was renamed,    *)
(* exits at once.                                                          *)
FinalWrite(l) ==
    /\ At(l, "write")
    /\ \/ Write(l, "final") /\ Exit(l, FinalCode(l))
       \/ Exit(l, "failure") /\ (Write(l, "final") \/ UNCHANGED files)
    /\ UNCHANGED <<conf, rows, queued, result, owner>>

(* kill, power loss, a panic of main, or the second Ctrl+C. *)
Kill(l) ==
    /\ pc[l] \notin {"off", "exited", "killed"}
    /\ Goto(l, "killed")
    /\ UNCHANGED <<conf, rows, queued, result, exit, owner, files>>

Over == (\A l \in Launches : pc[l] \in {"exited", "killed"}) /\ UNCHANGED vars

Step(l) ==
    \/ Configure(l) \/ MakeRunDir(l) \/ InitLogging(l) \/ Preflight(l) \/ Judge(l)
    \/ OpenLog(l) \/ Seed(l) \/ Checkpoint(l) \/ RunReturns(l) \/ FinalFlush(l)
    \/ FinalWrite(l) \/ Kill(l)

Next == (\E l \in Launches : Step(l)) \/ Over

Spec == Init /\ [][Next]_vars

-----------------------------------------------------------------------------
(* Properties *)

FilesOf(l) == {f.name : f \in {g \in files : g.by = l}}
DirsOf(l) == {r \in Runs : owner[r] = l}

(***************************************************************************)
(* A run directory holds the files of one launch only, the one that made   *)
(* it, whatever other launches with the same --timestamp do, and whenever  *)
(* one of them is killed (create_dir in both mains, File::create of the    *)
(* debug log, create_new of the observation log).                          *)
(***************************************************************************)
RunDirExclusive == \A f \in files : f.by = owner[f.run]

(***************************************************************************)
(* What a crawler takes from the DNS seeds it can crawl: every address it  *)
(* enqueues is of an enabled network, whose pool has workers, as Crawl     *)
(* assumes for its termination; and a strict crawler has seen each of its  *)
(* networks answer (into_settings, run_preflight and seed_from_dns         *)
(* agree).                                                                 *)
(***************************************************************************)
SeedsServed ==
    \A l \in Launches :
        queued[l] # {} /\ conf[l].program = "crawler" =>
            /\ queued[l] \subseteq EnabledNetworks(conf[l])
            /\ Unserved(conf[l], queued[l]) = {}
            /\ conf[l].strict =>
                  \A net \in EnabledNetworks(conf[l]) : rows[l][net] = "reachable"

(***************************************************************************)
(* The exit code tells what the launch left behind: a dry run leaves       *)
(* nothing, not even a directory, and succeeds only with every enabled     *)
(* network reachable; a configuration error comes before any seed, log or  *)
(* snapshot; success comes with a final snapshot, after a run and a final  *)
(* flush that did not fail (main and async_main of both binaries).         *)
(***************************************************************************)
ExitHonest ==
    \A l \in Launches :
        /\ conf[l] # Nil /\ conf[l].dry =>
              DirsOf(l) = {} /\ FilesOf(l) = {} /\ queued[l] = {}
        /\ exit[l] = "config" => FilesOf(l) \subseteq {"debug_log.txt"} /\ queued[l] = {}
        /\ exit[l] = "success" =>
              IF conf[l].dry
              THEN \A net \in EnabledNetworks(conf[l]) : rows[l][net] = "reachable"
              ELSE /\ "final" \in FilesOf(l)
                   /\ result[l].ran /\ result[l].flushed
                   /\ conf[l].program = "crawler" /\ conf[l].record =>
                         "addr_responses.csv" \in FilesOf(l)
        /\ exit[l] = "config" /\ rows[l] # Nil =>
              /\ conf[l].dry \/ conf[l].strict
              /\ \E net \in EnabledNetworks(conf[l]) : rows[l][net] = "unreachable"
=============================================================================
