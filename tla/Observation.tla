---------------------------- MODULE Observation ----------------------------
(***************************************************************************)
(* The observation path: getaddr sessions record what peers say in the     *)
(* store's aggregates and in the address log, a periodic checkpoint        *)
(* publishes snapshots of the store with the log's durable watermark, and  *)
(* main stops the checkpoints and writes the final snapshot                *)
(* (src/src/crawler.rs, addrlog.rs, main.rs, output.rs).                   *)
(*                                                                         *)
(* A session stands for a worker from the handshake of one node to its     *)
(* `finish`; a node is collected at most once in a run, so the node names  *)
(* the session.  The writer thread, its file and the disk are modelled by  *)
(* the records written and by the prefix that is synced.                   *)
(***************************************************************************)
EXTENDS Integers, Sequences, FiniteSets, Functions

CONSTANTS
    Nodes,           \* nodes whose handshake succeeds
    Seeds,           \* addresses in the store before the crawl
    Messages,        \* the sets of addresses an addr message can carry
    Closings,        \* how a peer's silence or departure ends a collection
    MaxMessages,     \* bound: valid addr messages of one peer
    MaxCheckpoints,  \* bound: checkpoint ticks, 0 when checkpoints are off
    MaxFaults,       \* bound: failures of the file system
    Nil

Ckpt == "checkpoint"
Main == "main"
Actors == Nodes \cup {Ckpt, Main}

(* Why a collection ended. *)
Ends == {"send", "hard", "quiet", "envelope", "disconnect", "malformed", "reply", "log"}

VARIABLES
    \* sessions: label, observation in progress, how the collection ended
    pc, obs, ended, eventId,
    \* aggregates of the store, and its other addresses
    advertised, malformed, valid, outcome, finished, known,
    \* observation_barrier: FIFO of waiters, read guards, write guard
    line, readers, exclusive,
    \* AddrLog: the mutex over next_event_id, the channel, the oneshots
    lock, nextId, commands, reply,
    \* the writer thread: records written, length of the synced prefix, last id
    file, synced, lastId,
    \* the checkpoint task: label, ticks so far, clone being made and its watermark
    ck, ticks, shot, shotKnown, mark,
    \* async_main: label, results of run and of the final flush, exit code
    phase, runOk, finalMark, exit,
    \* the published manifest, and the crawler's flags
    manifest, outputFailed, early,
    \* history: nodes whose records were refused, any failure of the log
    lost, logFailed, faults

sessionVars == <<pc, obs, ended, eventId>>
storeVars   == <<advertised, malformed, valid, outcome, finished, known>>
barrierVars == <<line, readers, exclusive>>
logVars     == <<lock, nextId, commands, reply>>
diskVars    == <<file, synced, lastId>>
ckVars      == <<ck, ticks, shot, shotKnown, mark>>
mainVars    == <<phase, runOk, finalMark, exit>>
flagVars    == <<outputFailed, early>>
historyVars == <<lost, logFailed, faults>>
vars == <<sessionVars, storeVars, barrierVars, logVars, diskVars, ckVars, mainVars,
          manifest, flagVars, historyVars>>

-----------------------------------------------------------------------------
(* CollectionOutcome: getaddr chooses it from the end of the collection    *)
(* and from whether a valid message came before.                           *)
OutcomeOf ==
    [send       |-> <<"SendFailed", "SendFailed">>,
     log        |-> <<"LogFailed", "LogFailed">>,
     reply      |-> <<"CompleteQuiet", "CompleteQuiet">>,
     quiet      |-> <<"NoResponseTimeout", "CompleteQuiet">>,
     hard       |-> <<"HardTimeout", "PartialHardTimeout">>,
     malformed  |-> <<"MalformedResponse", "PartialMalformedResponse">>,
     disconnect |-> <<"RemoteDisconnect", "PartialRemoteDisconnect">>,
     envelope   |-> <<"IncompleteEnvelopeTimeout", "PartialIncompleteEnvelopeTimeout">>]

CollectionOutcome(end, n) == OutcomeOf[end][IF n = 0 THEN 1 ELSE 2]

Outcomes == UNION {Range(OutcomeOf[end]) : end \in Ends}

Kinds == {"block", "malformed", "outcome"}
Observed == [kind : Kinds, addrs : Messages \cup {{}}]
Record == [id : Nat \ {0}, node : Nodes, kind : Kinds, addrs : Messages \cup {{}},
           outcome : Outcomes \cup {"NotRequested"}]
Command == [from : Actors, rec : Record \cup {Nil}]
Reply == [ok : BOOLEAN, id : Nat]
Shot == [advertised : Nat, malformed : Nat, valid : Nat,
         outcome : Outcomes \cup {"NotRequested"}, finished : BOOLEAN]
Manifest == [final : BOOLEAN, complete : BOOLEAN, mark : Nat \cup {Nil},
             nodes : [Nodes -> Shot], known : SUBSET UNION (Messages \cup {Seeds})]

(* How a collection ends when neither a message nor the log ends it.       *)
ASSUME ObservationAssumption ==
    /\ Closings \subseteq {"hard", "quiet", "envelope", "disconnect"}
    /\ MaxMessages \in Nat /\ MaxCheckpoints \in Nat /\ MaxFaults \in Nat
    /\ Ckpt \notin Nodes /\ Main \notin Nodes
    /\ Nil \notin Actors \cup Nat \cup Record \cup Reply

SessionPc == {"idle", "collect", "closing", "barrier", "lock", "send", "ack", "count",
              "failed", "finish", "done"}

(* The producers hold the mutex until the writer has answered, so the      *)
(* channel never holds more than one command.                              *)
TypeOK ==
    /\ pc \in [Nodes -> SessionPc]
    /\ obs \in [Nodes -> Observed \cup {Nil}]
    /\ ended \in [Nodes -> Ends \cup {Nil}]
    /\ eventId \in [Nodes -> Nat]
    /\ advertised \in [Nodes -> Nat] /\ malformed \in [Nodes -> Nat] /\ valid \in [Nodes -> Nat]
    /\ outcome \in [Nodes -> Outcomes \cup {"NotRequested"}]
    /\ finished \subseteq Nodes
    /\ known \subseteq UNION (Messages \cup {Seeds})
    /\ line \in Seq(Nodes \cup {Ckpt}) /\ readers \subseteq Nodes /\ exclusive \in BOOLEAN
    /\ lock \in Actors \cup {Nil}
    /\ nextId \in Nat \ {0}
    /\ commands \in Seq(Command) /\ Len(commands) <= 1
    /\ reply \in [Actors -> Reply \cup {Nil}]
    /\ file \in Seq(Record) /\ synced \in 0..Len(file) /\ lastId \in Nat
    /\ ck \in {"tick", "barrier", "lock", "ack", "clone", "write", "gone"}
    /\ ticks \in 0..MaxCheckpoints
    /\ shot \in [Nodes -> Shot \cup {Nil}] /\ shotKnown \subseteq UNION (Messages \cup {Seeds})
    /\ mark \in Nat
    /\ phase \in {"running", "stopping", "flush", "ack", "write", "exited"}
    /\ runOk \in BOOLEAN /\ finalMark \in Nat \cup {Nil}
    /\ exit \in {Nil, "success", "failure"}
    /\ manifest \in Manifest \cup {Nil}
    /\ outputFailed \in BOOLEAN /\ early \in BOOLEAN
    /\ lost \subseteq Nodes /\ logFailed \in BOOLEAN /\ faults \in 0..MaxFaults

Init ==
    /\ pc = [n \in Nodes |-> "idle"]
    /\ obs = [n \in Nodes |-> Nil]
    /\ ended = [n \in Nodes |-> Nil]
    /\ eventId = [n \in Nodes |-> 0]
    /\ advertised = [n \in Nodes |-> 0]
    /\ malformed = [n \in Nodes |-> 0]
    /\ valid = [n \in Nodes |-> 0]
    /\ outcome = [n \in Nodes |-> "NotRequested"]
    /\ finished = {} /\ known = Seeds
    /\ line = <<>> /\ readers = {} /\ exclusive = FALSE
    /\ lock = Nil /\ nextId = 1 /\ commands = <<>>
    /\ reply = [x \in Actors |-> Nil]
    /\ file = <<>> /\ synced = 0 /\ lastId = 0
    /\ ck = IF MaxCheckpoints = 0 THEN "gone" ELSE "tick"
    /\ ticks = 0 /\ mark = 0
    /\ shot = [n \in Nodes |-> Nil] /\ shotKnown = {}
    /\ phase = "running" /\ runOk = FALSE /\ finalMark = Nil /\ exit = Nil
    /\ manifest = Nil /\ outputFailed = FALSE /\ early = FALSE
    /\ lost = {} /\ logFailed = FALSE /\ faults = 0

-----------------------------------------------------------------------------
(* Shared machinery *)

Goto(n, l) == pc' = [pc EXCEPT ![n] = l]

(* observation_barrier, a fair RwLock: an actor joins the line, and its    *)
(* head enters when the guards that are out allow it.                      *)
JoinLine(x) == line' = Append(line, x)

IsNext(x) == line # <<>> /\ Head(line) = x

Leave(n) == readers' = readers \ {n}

Flush(x) == [from |-> x, rec |-> Nil]

(* The mutex of AddrLog::flush is taken and the command sent. *)
SendFlush(x) ==
    /\ lock = Nil
    /\ lock' = x
    /\ commands' = Append(commands, Flush(x))

(* The answer has arrived; the mutex is released. *)
TakeReply(x) ==
    /\ reply[x] # Nil
    /\ reply' = [reply EXCEPT ![x] = Nil]
    /\ lock' = Nil

-----------------------------------------------------------------------------
(* getaddr: one session per node *)

(* A worker has shaken hands with the node and sends getaddr. *)
Start(n) ==
    /\ phase = "running"
    /\ pc[n] = "idle"
    /\ \/ Goto(n, "collect") /\ UNCHANGED ended
       \/ Goto(n, "closing") /\ ended' = [ended EXCEPT ![n] = "send"]
    /\ UNCHANGED <<obs, eventId, storeVars, barrierVars, logVars, diskVars, ckVars, mainVars,
                   manifest, flagVars, historyVars>>

Observe(n, o) ==
    /\ obs' = [obs EXCEPT ![n] = o]
    /\ JoinLine(n)
    /\ Goto(n, "barrier")

(* An addr message arrives and parses, or does not. *)
Receive(n) ==
    /\ pc[n] = "collect"
    /\ \/ \E addrs \in Messages :
             valid[n] < MaxMessages /\ Observe(n, [kind |-> "block", addrs |-> addrs])
       \/ Observe(n, [kind |-> "malformed", addrs |-> {}])
    /\ UNCHANGED <<ended, eventId, storeVars, readers, exclusive, logVars, diskVars, ckVars,
                   mainVars, manifest, flagVars, historyVars>>

(* The idle or hard deadline, a partial envelope, or the connection ends. *)
EndCollection(n) ==
    /\ pc[n] = "collect"
    /\ \E end \in Closings : ended' = [ended EXCEPT ![n] = end]
    /\ Goto(n, "closing")
    /\ UNCHANGED <<obs, eventId, storeVars, barrierVars, logVars, diskVars, ckVars, mainVars,
                   manifest, flagVars, historyVars>>

(* Back in process, which records the outcome. *)
RecordOutcome(n) ==
    /\ pc[n] = "closing"
    /\ Observe(n, [kind |-> "outcome", addrs |-> {}])
    /\ UNCHANGED <<ended, eventId, storeVars, readers, exclusive, logVars, diskVars, ckVars,
                   mainVars, manifest, flagVars, historyVars>>

(* The read guard is granted and the aggregate updated under it. *)
Enter(n) ==
    /\ pc[n] = "barrier"
    /\ IsNext(n)
    /\ ~exclusive
    /\ line' = Tail(line)
    /\ readers' = readers \cup {n}
    /\ advertised' = [advertised EXCEPT ![n] = IF obs[n].kind = "block" THEN @ + 1 ELSE @]
    /\ malformed' = [malformed EXCEPT ![n] = IF obs[n].kind = "malformed" THEN @ + 1 ELSE @]
    /\ outcome' = [outcome EXCEPT ![n] = IF obs[n].kind = "outcome"
                                         THEN CollectionOutcome(ended[n], valid[n]) ELSE @]
    /\ ended' = [ended EXCEPT ![n] = IF obs[n].kind = "outcome" THEN Nil ELSE @]
    /\ Goto(n, "lock")
    /\ UNCHANGED <<obs, eventId, valid, finished, known, exclusive, logVars, diskVars,
                   ckVars, mainVars, manifest, flagVars, historyVars>>

(* Mutant: the mutex guards the id only, not the append. *)
TakeIdUnlocked(n) ==
    /\ pc[n] = "lock"
    /\ eventId' = [eventId EXCEPT ![n] = nextId]
    /\ nextId' = nextId + 1
    /\ Goto(n, "send")
    /\ UNCHANGED <<obs, ended, storeVars, barrierVars, lock, commands, reply, diskVars, ckVars,
                   mainVars, manifest, flagVars, historyVars>>

TakeId(n) ==
    /\ pc[n] = "lock"
    /\ lock = Nil
    /\ lock' = n
    /\ eventId' = [eventId EXCEPT ![n] = nextId]
    /\ nextId' = nextId + 1
    /\ Goto(n, "send")
    /\ UNCHANGED <<obs, ended, storeVars, barrierVars, commands, reply, diskVars, ckVars,
                   mainVars, manifest, flagVars, historyVars>>

SendAppend(n) ==
    /\ pc[n] = "send"
    /\ commands' = Append(commands, [from |-> n,
           rec |-> [id |-> eventId[n], node |-> n, kind |-> obs[n].kind,
                    addrs |-> obs[n].addrs, outcome |-> outcome[n]]])
    /\ eventId' = [eventId EXCEPT ![n] = 0]
    /\ Goto(n, "ack")
    /\ UNCHANGED <<obs, ended, storeVars, barrierVars, lock, nextId, reply, diskVars,
                   ckVars, mainVars, manifest, flagVars, historyVars>>

(* The record is written.  A block's addresses (some of them, if the       *)
(* budget refuses the others) enter the frontier before the guard is       *)
(* dropped.                                                                *)
Acknowledged(n) ==
    /\ pc[n] = "ack"
    /\ TakeReply(n)
    /\ reply[n].ok
    /\ Leave(n)
    /\ \E accepted \in SUBSET obs[n].addrs : known' = known \cup accepted
    /\ ended' = [ended EXCEPT ![n] = IF obs[n].kind = "malformed" THEN "malformed" ELSE @]
    /\ Goto(n, CASE obs[n].kind = "block"     -> "count"
                 [] obs[n].kind = "malformed" -> "closing"
                 [] obs[n].kind = "outcome"   -> "finish")
    /\ UNCHANGED <<obs, eventId, advertised, malformed, valid, outcome, finished, line,
                   exclusive, nextId, commands, diskVars, ckVars, mainVars, manifest, flagVars,
                   historyVars>>

(* Mutant: the failure of an outcome record is only traced. *)
RefusedSilently(n) ==
    /\ pc[n] = "ack"
    /\ TakeReply(n)
    /\ ~reply[n].ok
    /\ Leave(n)
    /\ Goto(n, IF obs[n].kind = "outcome" THEN "finish" ELSE "failed")
    /\ UNCHANGED <<obs, ended, eventId, storeVars, line, exclusive, nextId, commands, diskVars,
                   ckVars, mainVars, manifest, flagVars, historyVars>>

(* The writer refused the record.  For a block, handle_addr_message        *)
(* returns, and drops its guard, before getaddr marks the failure.         *)
Refused(n) ==
    /\ pc[n] = "ack"
    /\ TakeReply(n)
    /\ ~reply[n].ok
    /\ Leave(n)
    /\ outputFailed' = (outputFailed \/ obs[n].kind # "block")
    /\ Goto(n, IF obs[n].kind = "outcome" THEN "finish" ELSE "failed")
    /\ UNCHANGED <<obs, ended, eventId, storeVars, line, exclusive, nextId, commands, diskVars,
                   ckVars, mainVars, manifest, early, historyVars>>

(* getaddr returns LogFailed. *)
MarkFailed(n) ==
    /\ pc[n] = "failed"
    /\ outputFailed' = TRUE
    /\ ended' = [ended EXCEPT ![n] = "log"]
    /\ Goto(n, "closing")
    /\ UNCHANGED <<obs, eventId, storeVars, barrierVars, logVars, diskVars, ckVars, mainVars,
                   manifest, early, historyVars>>

(* Mutant: the message is not counted. *)
CountForgotten(n) ==
    /\ pc[n] = "count"
    /\ Goto(n, "collect")
    /\ UNCHANGED <<obs, ended, eventId, storeVars, barrierVars, logVars, diskVars, ckVars,
                   mainVars, manifest, flagVars, historyVars>>

(* The guard is dropped when the valid message is counted.  More than one  *)
(* address completes the reply.                                            *)
Count(n) ==
    /\ pc[n] = "count"
    /\ valid' = [valid EXCEPT ![n] = @ + 1]
    /\ IF Cardinality(obs[n].addrs) > 1
       THEN Goto(n, "closing") /\ ended' = [ended EXCEPT ![n] = "reply"]
       ELSE Goto(n, "collect") /\ UNCHANGED ended
    /\ UNCHANGED <<obs, eventId, advertised, malformed, outcome, finished, known, barrierVars,
                   logVars, diskVars, ckVars, mainVars, manifest, flagVars, historyVars>>

(* finish: the node is Reachable. *)
Finish(n) ==
    /\ pc[n] = "finish"
    /\ finished' = finished \cup {n}
    /\ obs' = [obs EXCEPT ![n] = Nil]
    /\ Goto(n, "done")
    /\ UNCHANGED <<ended, eventId, advertised, malformed, valid, outcome, known,
                   barrierVars, logVars, diskVars, ckVars, mainVars, manifest, flagVars,
                   historyVars>>

-----------------------------------------------------------------------------
(* The writer thread *)

Answer(x, ok, id) == reply' = [reply EXCEPT ![x] = [ok |-> ok, id |-> id]]

Fault == faults < MaxFaults /\ faults' = faults + 1 /\ logFailed' = TRUE

(* write_all: the record is behind the earlier ones, or is refused. *)
WriterAppends ==
    /\ commands # <<>>
    /\ commands' = Tail(commands)
    /\ LET rec == Head(commands).rec IN
        /\ rec # Nil
        /\ \/ /\ file' = Append(file, rec)
              /\ lastId' = rec.id
              /\ Answer(rec.node, TRUE, rec.id)
              /\ UNCHANGED historyVars
           \/ /\ Fault
              /\ lost' = lost \cup {rec.node}
              /\ Answer(rec.node, FALSE, 0)
              /\ UNCHANGED <<file, lastId>>
    /\ UNCHANGED <<sessionVars, storeVars, barrierVars, lock, nextId, synced, ckVars, mainVars,
                   manifest, flagVars>>

(* flush and sync_all: everything written is durable, or, on a failure,    *)
(* some prefix of it; what is left stays in the buffer for the next try.   *)
WriterFlushes ==
    /\ commands # <<>>
    /\ commands' = Tail(commands)
    /\ Head(commands).rec = Nil
    /\ \/ /\ synced' = Len(file)
          /\ Answer(Head(commands).from, TRUE, lastId)
          /\ UNCHANGED historyVars
       \/ /\ Fault
          /\ synced' \in synced..Len(file)
          /\ Answer(Head(commands).from, FALSE, 0)
          /\ UNCHANGED lost
    /\ UNCHANGED <<sessionVars, storeVars, barrierVars, lock, nextId, file, lastId, ckVars,
                   mainVars, manifest, flagVars>>

-----------------------------------------------------------------------------
(* The checkpoint task *)

ShotOf(n) ==
    [advertised |-> advertised[n], malformed |-> malformed[n], valid |-> valid[n],
     outcome |-> outcome[n], finished |-> n \in finished]

(* select! between the ticker and the stop signal; a tick may win even     *)
(* after the signal.                                                       *)
CkTick ==
    /\ ck = "tick"
    /\ ticks < MaxCheckpoints
    /\ ticks' = ticks + 1
    /\ JoinLine(Ckpt)
    /\ ck' = "barrier"
    /\ UNCHANGED <<sessionVars, storeVars, readers, exclusive, logVars, diskVars, shot, shotKnown, mark,
                   mainVars, manifest, flagVars, historyVars>>

CkStop ==
    /\ ck = "tick"
    /\ phase # "running"
    /\ ck' = "gone"
    /\ UNCHANGED <<sessionVars, storeVars, barrierVars, logVars, diskVars, ticks, shot, shotKnown, mark,
                   mainVars, manifest, flagVars, historyVars>>

(* Mutant: the checkpoint does not wait for the observations under way. *)
CkEnterShared ==
    /\ ck = "barrier"
    /\ IsNext(Ckpt)
    /\ line' = Tail(line)
    /\ exclusive' = TRUE
    /\ ck' = "lock"
    /\ UNCHANGED <<sessionVars, storeVars, readers, logVars, diskVars, ticks, shot, shotKnown, mark,
                   mainVars, manifest, flagVars, historyVars>>

(* checkpoint_barrier: the write guard excludes every observation. *)
CkEnter ==
    /\ ck = "barrier"
    /\ IsNext(Ckpt)
    /\ readers = {}
    /\ line' = Tail(line)
    /\ exclusive' = TRUE
    /\ ck' = "lock"
    /\ UNCHANGED <<sessionVars, storeVars, readers, logVars, diskVars, ticks, shot, shotKnown, mark,
                   mainVars, manifest, flagVars, historyVars>>

CkFlush ==
    /\ ck = "lock"
    /\ SendFlush(Ckpt)
    /\ ck' = "ack"
    /\ UNCHANGED <<sessionVars, storeVars, barrierVars, nextId, reply, diskVars, ticks, shot,
                   shotKnown, mark, mainVars, manifest, flagVars, historyVars>>

(* Mutant: the guard is dropped before the store is cloned. *)
CkFlushedUnguarded ==
    /\ ck = "ack"
    /\ TakeReply(Ckpt)
    /\ reply[Ckpt].ok
    /\ mark' = reply[Ckpt].id
    /\ ck' = "clone"
    /\ exclusive' = FALSE
    /\ UNCHANGED <<sessionVars, storeVars, line, readers, nextId, commands, diskVars, ticks,
                   shot, shotKnown, mainVars, manifest, flagVars, historyVars>>

CkFlushed ==
    /\ ck = "ack"
    /\ TakeReply(Ckpt)
    /\ reply[Ckpt].ok
    /\ mark' = reply[Ckpt].id
    /\ ck' = "clone"
    /\ UNCHANGED <<sessionVars, storeVars, barrierVars, nextId, commands, diskVars, ticks, shot,
                   shotKnown, mainVars, manifest, flagVars, historyVars>>

(* Mutant: the task returns with the guard still held. *)
CkFlushFailsHeld ==
    /\ ck = "ack"
    /\ TakeReply(Ckpt)
    /\ ~reply[Ckpt].ok
    /\ outputFailed' = TRUE
    /\ ck' = "gone"
    /\ UNCHANGED <<sessionVars, storeVars, barrierVars, nextId, commands, diskVars, ticks, shot,
                   shotKnown, mark, mainVars, manifest, early, historyVars>>

(* A failed flush marks the run and ends the task. *)
CkFlushFails ==
    /\ ck = "ack"
    /\ TakeReply(Ckpt)
    /\ ~reply[Ckpt].ok
    /\ outputFailed' = TRUE
    /\ exclusive' = FALSE
    /\ ck' = "gone"
    /\ UNCHANGED <<sessionVars, storeVars, line, readers, nextId, commands, diskVars, ticks,
                   shot, shotKnown, mark, mainVars, manifest, early, historyVars>>

(* store.snapshot clones entry by entry; what happens outside of the       *)
(* barrier may fall between two entries.                                   *)
CkClone(n) ==
    /\ ck = "clone"
    /\ shot[n] = Nil
    /\ shot' = [shot EXCEPT ![n] = ShotOf(n)]
    /\ UNCHANGED <<sessionVars, storeVars, barrierVars, logVars, diskVars, ck, ticks, shotKnown, mark,
                   mainVars, manifest, flagVars, historyVars>>

CkCloned ==
    /\ ck = "clone"
    /\ \A n \in Nodes : shot[n] # Nil
    /\ shotKnown' = known
    /\ exclusive' = FALSE
    /\ ck' = "write"
    /\ UNCHANGED <<sessionVars, storeVars, line, readers, logVars, diskVars, ticks, shot, mark,
                   mainVars, manifest, flagVars, historyVars>>

(* write_snapshot on a blocking thread, which the task awaits: published,  *)
(* or only traced as failed.                                               *)
CkWrite ==
    /\ ck = "write"
    /\ \/ /\ manifest' = [final |-> FALSE, complete |-> FALSE, mark |-> mark, nodes |-> shot,
                          known |-> shotKnown]
          /\ UNCHANGED faults
       \/ /\ faults < MaxFaults
          /\ faults' = faults + 1
          /\ UNCHANGED manifest
    /\ shot' = [n \in Nodes |-> Nil]
    /\ shotKnown' = {}
    /\ ck' = "tick"
    /\ UNCHANGED <<sessionVars, storeVars, barrierVars, logVars, diskVars, ticks, mark,
                   mainVars, flagVars, lost, logFailed>>

-----------------------------------------------------------------------------
(* async_main: run, stop the checkpoints, flush, write, exit *)

(* Ctrl+C or the node limit: nodes not begun stay where they are. *)
EarlyStop ==
    /\ phase = "running"
    /\ ~early
    /\ early' = TRUE
    /\ UNCHANGED <<sessionVars, storeVars, barrierVars, logVars, diskVars, ckVars, mainVars,
                   manifest, outputFailed, historyVars>>

(* run has joined its workers and looks at output_failed. *)
RunReturns ==
    /\ phase = "running"
    /\ \A n \in Nodes : pc[n] = "done" \/ (early /\ pc[n] = "idle")
    /\ runOk' = ~outputFailed
    /\ phase' = "stopping"
    /\ UNCHANGED <<sessionVars, storeVars, barrierVars, logVars, diskVars, ckVars, finalMark,
                   exit, manifest, flagVars, historyVars>>

(* Mutant: the checkpoint task is told to stop and not awaited. *)
NotAwaited ==
    /\ phase = "stopping"
    /\ phase' = "flush"
    /\ UNCHANGED <<sessionVars, storeVars, barrierVars, logVars, diskVars, ckVars, runOk,
                   finalMark, exit, manifest, flagVars, historyVars>>

(* CheckpointTask::stop awaits the task. *)
CheckpointStopped ==
    /\ phase = "stopping"
    /\ ck = "gone"
    /\ phase' = "flush"
    /\ UNCHANGED <<sessionVars, storeVars, barrierVars, logVars, diskVars, ckVars, runOk,
                   finalMark, exit, manifest, flagVars, historyVars>>

FinalFlush ==
    /\ phase = "flush"
    /\ SendFlush(Main)
    /\ phase' = "ack"
    /\ UNCHANGED <<sessionVars, storeVars, barrierVars, nextId, reply, diskVars, ckVars, runOk,
                   finalMark, exit, manifest, flagVars, historyVars>>

FinalFlushed ==
    /\ phase = "ack"
    /\ TakeReply(Main)
    /\ finalMark' = IF reply[Main].ok THEN reply[Main].id ELSE Nil
    /\ outputFailed' = (outputFailed \/ ~reply[Main].ok)
    /\ phase' = "write"
    /\ UNCHANGED <<sessionVars, storeVars, barrierVars, nextId, commands, diskVars, ckVars,
                   runOk, exit, manifest, early, historyVars>>

(* run_complete: a None watermark stands for ~final_log_ok. *)
RunComplete == runOk /\ finalMark # Nil /\ ~early

(* write_all, and the exit code. *)
FinalWrite ==
    /\ phase = "write"
    /\ phase' = "exited"
    /\ \/ /\ manifest' = [final |-> TRUE, complete |-> RunComplete, mark |-> finalMark,
                          nodes |-> [n \in Nodes |-> ShotOf(n)], known |-> known]
          /\ exit' = IF runOk /\ finalMark # Nil THEN "success" ELSE "failure"
          /\ UNCHANGED faults
       \/ /\ faults < MaxFaults
          /\ faults' = faults + 1
          /\ exit' = "failure"
          /\ UNCHANGED manifest
    /\ UNCHANGED <<sessionVars, storeVars, barrierVars, logVars, diskVars, ckVars, runOk,
                   finalMark, flagVars, lost, logFailed>>

Exited == phase = "exited" /\ UNCHANGED vars

-----------------------------------------------------------------------------
SessionStep(n) ==
    \/ Start(n) \/ EndCollection(n) \/ RecordOutcome(n) \/ Enter(n) \/ TakeId(n)
    \/ SendAppend(n) \/ Acknowledged(n) \/ Refused(n) \/ MarkFailed(n) \/ Count(n) \/ Finish(n)

WriterStep == WriterAppends \/ WriterFlushes

CheckpointStep ==
    \/ CkTick \/ CkStop \/ CkEnter \/ CkFlush \/ CkFlushed \/ CkFlushFails
    \/ (\E n \in Nodes : CkClone(n)) \/ CkCloned \/ CkWrite

MainStep ==
    \/ RunReturns \/ CheckpointStopped \/ FinalFlush \/ FinalFlushed \/ FinalWrite

Next ==
    \/ \E n \in Nodes : SessionStep(n) \/ Receive(n)
    \/ WriterStep \/ CheckpointStep \/ MainStep \/ EarlyStop \/ Exited

Spec == Init /\ [][Next]_vars

(* The runtime polls every ready task and the writer thread runs; a        *)
(* session ends its collection at the hard deadline at the latest, if the  *)
(* peer reads what it is sent: writes have no timeout.                     *)
Fairness ==
    /\ \A n \in Nodes : WF_vars(SessionStep(n))
    /\ WF_vars(WriterStep) /\ WF_vars(CheckpointStep) /\ WF_vars(MainStep)

FairSpec == Spec /\ Fairness

-----------------------------------------------------------------------------
(* Properties *)

(* The records a manifest may refer to: those that survive a crash now,    *)
(* up to its watermark.                                                    *)
Durable(m) == {r \in Range(SubSeq(file, 1, synced)) : r.id <= m.mark}

Of(R, n, k) == {r \in R : r.node = n /\ r.kind = k}

Published == manifest # Nil /\ manifest.mark # Nil

(***************************************************************************)
(* The records are in the file in the order of their ids, and none is      *)
(* missing unless the writer refused it (AddrLog: the mutex over           *)
(* next_event_id; "Every acknowledged event has been written in order").   *)
(***************************************************************************)
LogInOrder ==
    /\ \A i, j \in 1..Len(file) : i < j => file[i].id < file[j].id
    /\ lost = {} => \A i \in 1..Len(file) : file[i].id = i

(***************************************************************************)
(* Provenance: whenever the process dies, the manifest on disk describes   *)
(* no frontier address that no durable record up to its watermark          *)
(* advertised, and no Reachable node whose outcome record is missing       *)
(* (observation_barrier, flush before clone).                              *)
(***************************************************************************)
SnapshotBacked ==
    Published =>
        LET D == Durable(manifest) IN
        /\ manifest.known \ Seeds \subseteq UNION {r.addrs : r \in D}
        /\ \A n \in Nodes \ lost :
              manifest.nodes[n].finished => Of(D, n, "outcome") # {}

(***************************************************************************)
(* The aggregates of a published snapshot are the ones its durable log     *)
(* gives: blocks and malformed messages counted per node, and the          *)
(* collection outcome (crawler.rs:877, no "provenance/aggregate split").   *)
(***************************************************************************)
AggregatesMatch ==
    Published =>
        LET D == Durable(manifest) IN
        \A n \in Nodes \ lost :
            LET s == manifest.nodes[n] IN
            /\ s.advertised = Cardinality(Of(D, n, "block"))
            /\ s.malformed = Cardinality(Of(D, n, "malformed"))
            /\ {r.outcome : r \in Of(D, n, "outcome")} = {s.outcome} \ {"NotRequested"}

(***************************************************************************)
(* valid_addr_messages, the one aggregate written outside of the barrier   *)
(* (getaddr counts after handle_addr_message has returned): a checkpoint   *)
(* may miss the block under way, never more than that one and never the    *)
(* other way round, and the final manifest has it right.                   *)
(***************************************************************************)
ValidLags ==
    Published =>
        \A n \in Nodes \ lost :
            LET blocks == Cardinality(Of(Durable(manifest), n, "block"))
                count  == manifest.nodes[n].valid
            IN  count = blocks \/ (~manifest.final /\ count = blocks - 1)

(***************************************************************************)
(* A final manifest that claims a complete run stands on a log that lost   *)
(* nothing: every node was collected, no record was refused, all of them   *)
(* are durable.                                                            *)
(***************************************************************************)
CompleteMeansIntact ==
    manifest # Nil /\ manifest.complete =>
        /\ manifest.final /\ lost = {} /\ synced = Len(file)
        /\ \A n \in Nodes : manifest.nodes[n].finished

(***************************************************************************)
(* The final snapshot has the last word: once it is published no           *)
(* checkpoint replaces it, and before that a manifest never gives way to   *)
(* one with an older watermark (main.rs: "Stop checkpointing before the    *)
(* final write so they can't overlap").                                    *)
(***************************************************************************)
FinalIsLast ==
    [][manifest # Nil /\ manifest' # manifest =>
         /\ ~manifest.final
         /\ manifest'.mark # Nil => manifest.mark <= manifest'.mark]_vars

(***************************************************************************)
(* The typed outcome agrees with the log: it is one of those that admit    *)
(* valid messages exactly when the node has a block record (getaddr's      *)
(* count of valid messages against the writer's file).                     *)
(***************************************************************************)
OutcomeMatchesBlocks ==
    \A i \in 1..Len(file) :
        LET r == file[i] IN
        r.kind = "outcome" /\ r.outcome # "LogFailed" =>
            (r.outcome \in {"CompleteQuiet", "PartialHardTimeout", "PartialMalformedResponse",
                            "PartialRemoteDisconnect", "PartialIncompleteEnvelopeTimeout"}
             <=> Of(Range(file), r.node, "block") # {})

(***************************************************************************)
(* The barrier, the mutex and the writer never wait on each other for      *)
(* ever: the process exits.                                                *)
(***************************************************************************)
Exits == <>(phase = "exited")

(***************************************************************************)
(* FINDINGS_FIX_LOG.md:102, "A log failure makes the run incomplete and    *)
(* returns failure".  A checkpoint flush can fail after run looked at      *)
(* output_failed.                                                          *)
(***************************************************************************)
LogFailureReported ==
    logFailed /\ phase = "exited" =>
        /\ exit = "failure"
        /\ manifest # Nil => ~manifest.complete

(***************************************************************************)
(* crawler.rs:877, of the aggregates at a checkpoint: no split from the    *)
(* log.  valid_addr_messages is written after the guard is dropped.        *)
(***************************************************************************)
ValidMatches ==
    Published =>
        \A n \in Nodes \ lost :
            manifest.nodes[n].valid = Cardinality(Of(Durable(manifest), n, "block"))
=============================================================================
