------------------------- MODULE ObservationProofs -------------------------
(* Theorems about Observation, for any nodes, messages and bounds.         *)
(*                                                                         *)
(* The argument: the mutex leaves at most one command or answer under way, *)
(* so ids grow along the file; the barrier leaves no observation between   *)
(* its aggregate and its record while the checkpoint clones, so a clone    *)
(* agrees with the file, all of which the flush before it made durable;    *)
(* and later records have larger ids, so what a watermark covers never     *)
(* changes.                                                                *)
EXTENDS Observation, SequenceTheorems, FiniteSetTheorems, TLAPS

-----------------------------------------------------------------------------
(* The mutex, the channel and the answers *)

RecordOf(n) == [id |-> nextId - 1, node |-> n, kind |-> obs[n].kind,
                addrs |-> obs[n].addrs, outcome |-> outcome[n]]

Request == [from |-> lock, rec |-> IF lock \in Nodes THEN RecordOf(lock) ELSE Nil]

LockInv ==
    /\ \A n \in Nodes : pc[n] \in {"send", "ack"} <=> lock = n
    /\ ck = "ack" <=> lock = Ckpt
    /\ phase = "ack" <=> lock = Main
    /\ commands # <<>> => /\ commands = <<Request>>
                          /\ lock # Nil
                          /\ lock \in Nodes => pc[lock] = "ack"
    /\ \A x \in Actors : reply[x] # Nil =>
          /\ lock = x /\ commands = <<>>
          /\ x \in Nodes => pc[x] = "ack"

(* An observation that is not in the file yet; one that is, or is refused, *)
(* and whose session has not heard.                                        *)
Between(n) == pc[n] \in {"lock", "send"} \/ (pc[n] = "ack" /\ reply[n] = Nil)
Answered(n) == pc[n] = "ack" /\ reply[n] # Nil
Written(n) == Answered(n) /\ reply[n].ok

-----------------------------------------------------------------------------
(* The barrier *)

Observing(n) == pc[n] \in {"lock", "send", "ack"}

BarrierInv ==
    /\ readers = {n \in Nodes : Observing(n)}
    /\ exclusive <=> ck \in {"lock", "ack", "clone"}
    /\ exclusive => readers = {}

-----------------------------------------------------------------------------
(* The sessions *)

Announced(n) ==
    \/ Observing(n) /\ obs[n].kind = "outcome"
    \/ pc[n] \in {"finish", "done"}

Ending(n) == pc[n] = "closing" \/ (pc[n] = "barrier" /\ obs[n].kind = "outcome")

SessionOf(n) ==
    /\ pc[n] \in SessionPc \ {"idle", "collect", "closing", "done"} => obs[n] \in Observed
    /\ pc[n] = "count" => obs[n].kind = "block"
    /\ pc[n] = "finish" => obs[n].kind = "outcome"
    /\ Ending(n) =>
          /\ ended[n] \in Ends
          /\ ended[n] = "send" => valid[n] = 0
          /\ ended[n] = "reply" => valid[n] > 0
    /\ pc[n] = "idle" => valid[n] = 0
    /\ outcome[n] # "NotRequested" <=> Announced(n)
    /\ n \in finished <=> pc[n] = "done"

SessionInv == \A n \in Nodes : SessionOf(n)

-----------------------------------------------------------------------------
(* The file *)

Pending == lock \in Nodes /\ reply[lock] = Nil

Ascending == \A i, j \in 1..Len(file) : i < j => file[i].id < file[j].id

Numbering ==
    /\ \A i \in 1..Len(file) : file[i].id <= lastId
    /\ lastId < nextId
    /\ Pending => lastId < nextId - 1
    /\ \A n \in Nodes : pc[n] = "send" => eventId[n] = nextId - 1

Gapless ==
    lost = {} => /\ \A i \in 1..Len(file) : file[i].id = i
                 /\ lastId = Len(file)
                 /\ nextId = Len(file) + (IF Pending THEN 2 ELSE 1)

FlushAnswer ==
    \A x \in {Ckpt, Main} : reply[x] # Nil /\ reply[x].ok =>
        reply[x].id = lastId /\ synced = Len(file)

FileInv == Ascending /\ Numbering /\ Gapless /\ FlushAnswer

(* The records up to a watermark. *)
UpTo(m) == {r \in Range(file) : r.id <= m}
Synced(m) == m <= lastId /\ \A i \in 1..Len(file) : file[i].id <= m => i <= synced
Caught(m) == m = lastId /\ synced = Len(file)

-----------------------------------------------------------------------------
(* The store and the file *)

Logged(n, k) == Cardinality(Of(Range(file), n, k))
One(b) == IF b THEN 1 ELSE 0

OutcomesIn(R, n) == {r.outcome : r \in Of(R, n, "outcome")}
Advertised(R) == UNION {r.addrs : r \in R}

StoreOf(n) ==
    /\ Logged(n, "block") =
          valid[n] + One((Written(n) /\ obs[n].kind = "block") \/ pc[n] = "count")
    /\ Answered(n) /\ ~Written(n) => n \in lost
    /\ n \notin lost =>
          /\ advertised[n] = Logged(n, "block") + One(Between(n) /\ obs[n].kind = "block")
          /\ malformed[n] = Logged(n, "malformed") + One(Between(n) /\ obs[n].kind = "malformed")
          /\ OutcomesIn(Range(file), n) = IF Announced(n) /\ ~Between(n) THEN {outcome[n]} ELSE {}
    /\ Written(n) => obs[n].addrs \subseteq Advertised(Range(file))

StoreInv ==
    /\ IsFiniteSet(Range(file))
    /\ \A n \in Nodes : StoreOf(n)
    /\ known \ Seeds \subseteq Advertised(Range(file))

(* An outcome record agrees with the blocks of its node. *)
ValidOutcomes == {"CompleteQuiet", "PartialHardTimeout", "PartialMalformedResponse",
                  "PartialRemoteDisconnect", "PartialIncompleteEnvelopeTimeout"}

OutcomeInv ==
    /\ \A n \in Nodes : Announced(n) =>
          outcome[n] = "LogFailed" \/ (outcome[n] \in ValidOutcomes <=> valid[n] > 0)
    /\ \A r \in Range(file) : r.kind = "outcome" =>
          Announced(r.node) /\ r.outcome = outcome[r.node]

-----------------------------------------------------------------------------
(* Snapshots *)

(* The clone s of n agrees with the records R. *)
Matches(s, n, R) ==
    n \notin lost =>
        /\ s.advertised = Cardinality(Of(R, n, "block"))
        /\ s.malformed = Cardinality(Of(R, n, "malformed"))
        /\ OutcomesIn(R, n) = {s.outcome} \ {"NotRequested"}
        /\ s.finished => s.outcome # "NotRequested"

Lags(s, n, R) ==
    LET blocks == Cardinality(Of(R, n, "block")) IN s.valid = blocks \/ s.valid = blocks - 1

SnapshotInv ==
    /\ ck \notin {"clone", "write"} => \A n \in Nodes : shot[n] = Nil
    /\ ck = "clone" => /\ Caught(mark)
                       /\ \A n \in Nodes : shot[n] # Nil =>
                             Matches(shot[n], n, Range(file)) /\ Lags(shot[n], n, Range(file))
    /\ ck = "write" => /\ Synced(mark)
                       /\ \A n \in Nodes : shot[n] # Nil
                       /\ \A n \in Nodes : Matches(shot[n], n, UpTo(mark)) /\ Lags(shot[n], n, UpTo(mark))
                       /\ shotKnown \ Seeds \subseteq Advertised(UpTo(mark))

ManifestInv ==
    /\ Published =>
          /\ Synced(manifest.mark)
          /\ \A n \in Nodes :
                /\ Matches(manifest.nodes[n], n, UpTo(manifest.mark))
                /\ IF manifest.final
                   THEN manifest.nodes[n].valid = Cardinality(Of(UpTo(manifest.mark), n, "block"))
                   ELSE Lags(manifest.nodes[n], n, UpTo(manifest.mark))
          /\ manifest.known \ Seeds \subseteq Advertised(UpTo(manifest.mark))
    /\ manifest # Nil =>
          /\ manifest.final => phase = "exited"
          /\ manifest.mark = Nil => manifest.final
          /\ manifest.complete =>
                /\ manifest.final /\ lost = {} /\ synced = Len(file)
                /\ \A n \in Nodes : manifest.nodes[n].finished
          /\ ck \in {"clone", "write"} => manifest.mark <= mark

-----------------------------------------------------------------------------
(* main *)

MainInv ==
    /\ ck # "gone" => phase \in {"running", "stopping"}
    /\ phase # "running" =>
          /\ \A n \in Nodes : pc[n] \in {"idle", "done"}
          /\ runOk => lost = {}
          /\ ~early => \A n \in Nodes : pc[n] = "done"
    /\ \A n \in lost : outputFailed \/ pc[n] = "failed" \/ (Answered(n) /\ ~Written(n))
    /\ phase = "write" /\ finalMark # Nil => Caught(finalMark)

IInv == TypeOK /\ LockInv /\ BarrierInv /\ SessionInv /\ FileInv /\ StoreInv /\ OutcomeInv
          /\ SnapshotInv /\ ManifestInv /\ MainInv

-----------------------------------------------------------------------------
(* The types the steps need *)

LEMMA Types ==
    ASSUME TypeOK
    PROVE  /\ pc \in [Nodes -> SessionPc]
           /\ reply \in [Actors -> Reply \cup {Nil}]
           /\ lock \in Actors \cup {Nil}
           /\ nextId \in Nat /\ lastId \in Nat
           /\ \A r \in Reply : r # Nil
           /\ Ckpt \in Actors /\ Main \in Actors /\ Nodes \subseteq Actors
           /\ Nil \notin Actors
BY ObservationAssumption DEF TypeOK, Actors

(* What the holder of the mutex sends or has sent. *)
LEMMA RecordType ==
    ASSUME TypeOK, LockInv, SessionInv, FileInv, lock \in Nodes, commands # <<>>
    PROVE  RecordOf(lock) \in Record /\ RecordOf(lock) # Nil
<1>1. pc[lock] = "ack"
  BY DEF LockInv
<1>2. obs[lock] \in Observed
  BY <1>1 DEF SessionInv, SessionOf, SessionPc
<1>3. Pending
  BY DEF Pending, LockInv, Actors
<1>4. nextId - 1 \in Nat \ {0}
  BY <1>3 DEF TypeOK, FileInv, Numbering
<1>5. outcome[lock] \in Outcomes \cup {"NotRequested"}
  BY DEF TypeOK
<1>6. RecordOf(lock) \in Record
  BY <1>2, <1>4, <1>5 DEF RecordOf, Record, Observed
<1> QED
  BY <1>6, ObservationAssumption

LEMMA Channel ==
    ASSUME TypeOK, LockInv, commands # <<>>
    PROVE  /\ commands = <<Request>> /\ Head(commands) = Request /\ Tail(commands) = <<>>
           /\ lock \in Actors /\ reply[lock] = Nil
           /\ lock \in Nodes => pc[lock] = "ack"
<1>1. commands = <<Request>> /\ lock \in Actors /\ reply[lock] = Nil
  BY Types DEF LockInv
<1>2. \A c : Head(<<c>>) = c /\ Tail(<<c>>) = <<>>
  OBVIOUS
<1> QED
  BY <1>1, <1>2 DEF LockInv

LEMMA Appending ==
    ASSUME IInv, WriterAppends
    PROVE  /\ lock \in Nodes /\ pc[lock] = "ack" /\ reply[lock] = Nil /\ commands' = <<>>
           /\ RecordOf(lock) \in Record
           /\ UNCHANGED <<sessionVars, storeVars, barrierVars, lock, nextId, synced, ckVars,
                          mainVars, manifest, flagVars>>
           /\ \/ /\ file' = Append(file, RecordOf(lock)) /\ lastId' = nextId - 1
                 /\ reply' = [reply EXCEPT ![lock] = [ok |-> TRUE, id |-> nextId - 1]]
                 /\ UNCHANGED <<lost, logFailed, faults>>
              \/ /\ lost' = lost \cup {lock} /\ logFailed' = TRUE
                 /\ faults' = faults + 1 /\ faults < MaxFaults
                 /\ reply' = [reply EXCEPT ![lock] = [ok |-> FALSE, id |-> 0]]
                 /\ UNCHANGED <<file, lastId>>
<1>1. /\ Head(commands) = Request /\ commands' = <<>>
      /\ lock \in Actors /\ reply[lock] = Nil
      /\ lock \in Nodes => pc[lock] = "ack"
  BY Channel DEF IInv, WriterAppends
<1>2. Head(commands).rec # Nil
  BY DEF WriterAppends
<1>3. lock \in Nodes /\ Head(commands).rec = RecordOf(lock)
  BY <1>1, <1>2 DEF Request
<1>4. RecordOf(lock).node = lock /\ RecordOf(lock).id = nextId - 1
  BY DEF RecordOf
<1>5. RecordOf(lock) \in Record
  BY <1>3, RecordType DEF IInv, WriterAppends
<1> QED
  BY <1>1, <1>3, <1>4, <1>5 DEF WriterAppends, Answer, Fault, historyVars

LEMMA Flushing ==
    ASSUME IInv, WriterFlushes
    PROVE  /\ lock \in {Ckpt, Main} /\ reply[lock] = Nil /\ commands' = <<>>
           /\ UNCHANGED <<sessionVars, storeVars, barrierVars, lock, nextId, file, lastId, lost,
                          ckVars, mainVars, manifest, flagVars>>
           /\ \/ /\ synced' = Len(file)
                 /\ reply' = [reply EXCEPT ![lock] = [ok |-> TRUE, id |-> lastId]]
                 /\ UNCHANGED <<logFailed, faults>>
              \/ /\ synced' \in synced..Len(file) /\ logFailed' = TRUE
                 /\ faults' = faults + 1 /\ faults < MaxFaults
                 /\ reply' = [reply EXCEPT ![lock] = [ok |-> FALSE, id |-> 0]]
<1>1. /\ Head(commands) = Request /\ commands' = <<>>
      /\ lock \in Actors /\ reply[lock] = Nil
  BY Channel DEF IInv, WriterFlushes
<1>2. Head(commands).rec = Nil /\ Head(commands).from = lock
  BY <1>1 DEF WriterFlushes, Request
<1>3. lock \notin Nodes
  BY <1>1, <1>2, RecordType DEF IInv, WriterFlushes, Request
<1> QED
  BY <1>1, <1>2, <1>3 DEF WriterFlushes, Answer, Fault, Actors, historyVars

LEMMA LockStep ==
    ASSUME IInv, Next
    PROVE  LockInv'
<1> USE DEF sessionVars, storeVars, barrierVars, logVars, diskVars, ckVars, mainVars,
            flagVars, historyVars, vars
<1>a. /\ LockInv
      /\ pc \in [Nodes -> SessionPc]
      /\ reply \in [Actors -> Reply \cup {Nil}]
      /\ lock \in Actors \cup {Nil}
      /\ \A r \in Reply : r # Nil
      /\ Ckpt \in Actors /\ Main \in Actors /\ Nodes \subseteq Actors
      /\ Nil \notin Actors /\ Ckpt \notin Nodes /\ Main \notin Nodes /\ Ckpt # Main
      /\ obs \in [Nodes -> Observed \cup {Nil}]
  BY Types, ObservationAssumption DEF IInv, TypeOK, Ckpt, Main
<1>b. \A c : Append(<<>>, c) = <<c>> /\ <<c>> # <<>>
  OBVIOUS
<1>1. ASSUME NEW n \in Nodes, Start(n) PROVE LockInv'
  BY <1>a, <1>1 DEF Start, LockInv, Goto, Observe, JoinLine, Leave, SendFlush, TakeReply,
     Answer, Flush, Request, RecordOf
<1>2. ASSUME NEW n \in Nodes, Receive(n) PROVE LockInv'
  <2>1. /\ pc[n] = "collect" /\ pc' = [pc EXCEPT ![n] = "barrier"]
        /\ \A m \in Nodes \ {n} : obs'[m] = obs[m]
        /\ UNCHANGED <<lock, nextId, commands, reply, outcome, ck, phase>>
    BY <1>a, <1>2 DEF Receive, Observe, Goto
  <2>2. lock # n
    BY <1>a, <2>1 DEF LockInv
  <2>3. Request' = Request
    BY <2>1, <2>2 DEF Request, RecordOf
  <2> QED
    BY <1>a, <2>1, <2>2, <2>3 DEF LockInv
<1>3. ASSUME NEW n \in Nodes, EndCollection(n) PROVE LockInv'
  BY <1>a, <1>3 DEF EndCollection, LockInv, Goto, Observe, JoinLine, Leave, SendFlush,
     TakeReply, Answer, Flush, Request, RecordOf
<1>4. ASSUME NEW n \in Nodes, RecordOutcome(n) PROVE LockInv'
  BY <1>a, <1>4 DEF RecordOutcome, LockInv, Goto, Observe, JoinLine, Leave, SendFlush,
     TakeReply, Answer, Flush, Request, RecordOf
<1>5. ASSUME NEW n \in Nodes, Enter(n) PROVE LockInv'
  BY <1>a, <1>5 DEF Enter, LockInv, Goto, Observe, JoinLine, Leave, SendFlush, TakeReply,
     Answer, Flush, Request, RecordOf
<1>6. ASSUME NEW n \in Nodes, TakeId(n) PROVE LockInv'
  BY <1>a, <1>6 DEF TakeId, LockInv, Goto, Observe, JoinLine, Leave, SendFlush, TakeReply,
     Answer, Flush, Request, RecordOf
<1>7. ASSUME NEW n \in Nodes, SendAppend(n) PROVE LockInv'
  <2>1. lock = n /\ commands = <<>>
    BY <1>a, <1>7 DEF SendAppend, LockInv
  <2>2. eventId[n] = nextId - 1
    BY <1>7 DEF SendAppend, IInv, FileInv, Numbering
  <2>3. commands' = <<Request'>>
    BY <1>7, <1>b, <2>1, <2>2 DEF SendAppend, Request, RecordOf
  <2> QED
    BY <1>a, <1>7, <2>1, <2>3 DEF SendAppend, LockInv, Goto
<1>8. ASSUME NEW n \in Nodes, Acknowledged(n) PROVE LockInv'
  <2>1. obs[n].kind \in Kinds
    BY <1>8 DEF Acknowledged, IInv, SessionInv, SessionOf, SessionPc, Observed
  <2>2. \E l \in {"count", "closing", "finish"} : pc' = [pc EXCEPT ![n] = l]
    BY <1>8, <2>1 DEF Acknowledged, Kinds, Goto
  <2>3. reply[n] # Nil /\ reply' = [reply EXCEPT ![n] = Nil] /\ lock' = Nil
        /\ UNCHANGED <<commands, ck, phase>>
    BY <1>8 DEF Acknowledged, TakeReply
  <2>4. lock = n /\ commands = <<>>
    BY <1>a, <2>3 DEF LockInv
  <2> QED
    BY <1>a, <2>2, <2>3, <2>4 DEF LockInv
<1>9. ASSUME NEW n \in Nodes, Refused(n) PROVE LockInv'
  BY <1>a, <1>9 DEF Refused, LockInv, Goto, Observe, JoinLine, Leave, SendFlush, TakeReply,
     Answer, Flush, Request, RecordOf
<1>10. ASSUME NEW n \in Nodes, MarkFailed(n) PROVE LockInv'
  BY <1>a, <1>10 DEF MarkFailed, LockInv, Goto, Observe, JoinLine, Leave, SendFlush, TakeReply,
     Answer, Flush, Request, RecordOf
<1>11. ASSUME NEW n \in Nodes, Count(n) PROVE LockInv'
  BY <1>a, <1>11 DEF Count, LockInv, Goto, Observe, JoinLine, Leave, SendFlush, TakeReply,
     Answer, Flush, Request, RecordOf
<1>12. ASSUME NEW n \in Nodes, Finish(n) PROVE LockInv'
  BY <1>a, <1>12 DEF Finish, LockInv, Goto, Observe, JoinLine, Leave, SendFlush, TakeReply,
     Answer, Flush, Request, RecordOf
<1>13. CASE WriterAppends
  BY <1>a, <1>13, Appending DEF LockInv
<1>14. CASE WriterFlushes
  <2>1. /\ lock \in {Ckpt, Main} /\ commands' = <<>>
        /\ UNCHANGED <<pc, lock, ck, phase>>
        /\ \E v : reply' = [reply EXCEPT ![lock] = v]
    BY <1>14, Flushing
  <2>2. \A x \in Actors : x # lock => reply'[x] = reply[x]
    BY <1>a, <2>1
  <2>3. \A x \in Actors : reply'[x] # Nil => lock = x
    BY <1>a, <2>2 DEF LockInv
  <2>4. lock \notin Nodes
    BY <1>a, <2>1
  <2> QED
    BY <1>a, <2>1, <2>3, <2>4 DEF LockInv
<1>15. CASE CkTick
  <2>1. /\ ck = "tick" /\ ck' = "barrier"
        /\ UNCHANGED <<pc, obs, eventId, outcome, lock, commands, reply, phase, nextId, mark>>
    BY <1>15 DEF CkTick
  <2>2. Request' = Request
    BY <2>1 DEF Request, RecordOf
  <2> QED
    BY <1>a, <2>1, <2>2 DEF LockInv
<1>16. CASE CkStop
  BY <1>a, <1>16 DEF CkStop, LockInv, Goto, Observe, JoinLine, Leave, SendFlush, TakeReply,
     Answer, Flush, Request, RecordOf
<1>17. CASE CkEnter
  BY <1>a, <1>17 DEF CkEnter, LockInv, Goto, Observe, JoinLine, Leave, SendFlush, TakeReply,
     Answer, Flush, Request, RecordOf
<1>18. CASE CkFlush
  <2>1. lock = Nil /\ commands = <<>>
    BY <1>a, <1>18 DEF CkFlush, SendFlush, LockInv
  <2>2. lock' = Ckpt /\ commands' = <<[from |-> Ckpt, rec |-> Nil]>>
    BY <1>18, <1>b, <2>1 DEF CkFlush, SendFlush, Flush
  <2>3. commands' = <<Request'>>
    BY <1>a, <2>2 DEF Request
  <2> QED
    BY <1>a, <1>18, <2>1, <2>2, <2>3 DEF CkFlush, LockInv
<1>19. CASE CkFlushed
  BY <1>a, <1>19 DEF CkFlushed, LockInv, Goto, Observe, JoinLine, Leave, SendFlush, TakeReply,
     Answer, Flush, Request, RecordOf
<1>20. CASE CkFlushFails
  BY <1>a, <1>20 DEF CkFlushFails, LockInv, Goto, Observe, JoinLine, Leave, SendFlush,
     TakeReply, Answer, Flush, Request, RecordOf
<1>21. ASSUME NEW n \in Nodes, CkClone(n) PROVE LockInv'
  BY <1>a, <1>21 DEF CkClone, LockInv, Goto, Observe, JoinLine, Leave, SendFlush, TakeReply,
     Answer, Flush, Request, RecordOf
<1>22. CASE CkCloned
  BY <1>a, <1>22 DEF CkCloned, LockInv, Goto, Observe, JoinLine, Leave, SendFlush, TakeReply,
     Answer, Flush, Request, RecordOf
<1>23. CASE CkWrite
  BY <1>a, <1>23 DEF CkWrite, LockInv, Goto, Observe, JoinLine, Leave, SendFlush, TakeReply,
     Answer, Flush, Request, RecordOf
<1>24. CASE EarlyStop
  BY <1>a, <1>24 DEF EarlyStop, LockInv, Goto, Observe, JoinLine, Leave, SendFlush, TakeReply,
     Answer, Flush, Request, RecordOf
<1>25. CASE RunReturns
  BY <1>a, <1>25 DEF RunReturns, LockInv, Goto, Observe, JoinLine, Leave, SendFlush, TakeReply,
     Answer, Flush, Request, RecordOf
<1>26. CASE CheckpointStopped
  BY <1>a, <1>26 DEF CheckpointStopped, LockInv, Goto, Observe, JoinLine, Leave, SendFlush,
     TakeReply, Answer, Flush, Request, RecordOf
<1>27. CASE FinalFlush
  <2>1. lock = Nil /\ commands = <<>>
    BY <1>a, <1>27 DEF FinalFlush, SendFlush, LockInv
  <2>2. lock' = Main /\ commands' = <<[from |-> Main, rec |-> Nil]>>
    BY <1>27, <1>b, <2>1 DEF FinalFlush, SendFlush, Flush
  <2>3. commands' = <<Request'>>
    BY <1>a, <2>2 DEF Request
  <2> QED
    BY <1>a, <1>27, <2>1, <2>2, <2>3 DEF FinalFlush, LockInv
<1>28. CASE FinalFlushed
  BY <1>a, <1>28 DEF FinalFlushed, LockInv, Goto, Observe, JoinLine, Leave, SendFlush,
     TakeReply, Answer, Flush, Request, RecordOf
<1>29. CASE FinalWrite
  BY <1>a, <1>29 DEF FinalWrite, LockInv, Goto, Observe, JoinLine, Leave, SendFlush, TakeReply,
     Answer, Flush, Request, RecordOf
<1>30. CASE Exited
  BY <1>a, <1>30 DEF Exited, LockInv, Goto, Observe, JoinLine, Leave, SendFlush, TakeReply,
     Answer, Flush, Request, RecordOf
<1> QED
  BY <1>1, <1>2, <1>3, <1>4, <1>5, <1>6, <1>7, <1>8, <1>9, <1>10, <1>11, <1>12, <1>13, <1>14,
     <1>15, <1>16, <1>17, <1>18, <1>19, <1>20, <1>21, <1>22, <1>23, <1>24, <1>25, <1>26, <1>27,
        <1>28, <1>29, <1>30 DEF Next, SessionStep, WriterStep, CheckpointStep, MainStep

LEMMA BarrierStep ==
    ASSUME IInv, Next
    PROVE  BarrierInv'
<1> USE DEF sessionVars, storeVars, barrierVars, logVars, diskVars, ckVars, mainVars,
            flagVars, historyVars, vars
<1>a. /\ BarrierInv /\ LockInv /\ pc \in [Nodes -> SessionPc]
  BY Types DEF IInv
<1>1. ASSUME NEW n \in Nodes,
          \/ Start(n) \/ EndCollection(n) \/ RecordOutcome(n) \/ MarkFailed(n)
          \/ Count(n) \/ Finish(n) \/ CkClone(n)
      PROVE  BarrierInv'
  BY <1>a, <1>1 DEF Start, EndCollection, RecordOutcome, MarkFailed, Count, Finish, CkClone,
     BarrierInv, Observing, Goto, Observe, JoinLine, Leave, TakeReply, SendFlush
<1>2. CASE
          \/ CkTick \/ CkStop \/ CkWrite \/ EarlyStop \/ RunReturns
          \/ CheckpointStopped \/ FinalFlush \/ FinalFlushed \/ FinalWrite
          \/ Exited
  BY <1>a, <1>2 DEF CkTick, CkStop, CkWrite, EarlyStop, RunReturns, CheckpointStopped,
     FinalFlush, FinalFlushed, FinalWrite, Exited, BarrierInv, Observing, Goto, Observe,
        JoinLine, Leave, TakeReply, SendFlush
<1>3. ASSUME NEW n \in Nodes, Receive(n) PROVE BarrierInv'
  BY <1>a, <1>3 DEF Receive, BarrierInv, Observing, Goto, Observe, JoinLine, Leave, TakeReply,
     SendFlush
<1>4. ASSUME NEW n \in Nodes, Enter(n) PROVE BarrierInv'
  BY <1>a, <1>4 DEF Enter, BarrierInv, Observing, Goto, Observe, JoinLine, Leave, TakeReply,
     SendFlush
<1>5. ASSUME NEW n \in Nodes, TakeId(n) PROVE BarrierInv'
  BY <1>a, <1>5 DEF TakeId, BarrierInv, Observing, Goto, Observe, JoinLine, Leave, TakeReply,
     SendFlush
<1>6. ASSUME NEW n \in Nodes, SendAppend(n) PROVE BarrierInv'
  BY <1>a, <1>6 DEF SendAppend, BarrierInv, Observing, Goto, Observe, JoinLine, Leave,
     TakeReply, SendFlush
<1>7. ASSUME NEW n \in Nodes, Acknowledged(n) PROVE BarrierInv'
  <2>1. obs[n].kind \in Kinds
    BY <1>7 DEF Acknowledged, IInv, SessionInv, SessionOf, SessionPc, Observed
  <2>2. \E l \in {"count", "closing", "finish"} : pc' = [pc EXCEPT ![n] = l]
    BY <1>7, <2>1 DEF Acknowledged, Kinds, Goto
  <2>3. pc[n] = "ack" /\ readers' = readers \ {n} /\ UNCHANGED <<exclusive, ck>>
    BY <1>7 DEF Acknowledged, Leave
  <2> QED
    BY <1>a, <2>2, <2>3 DEF BarrierInv, Observing
<1>8. ASSUME NEW n \in Nodes, Refused(n) PROVE BarrierInv'
  BY <1>a, <1>8 DEF Refused, BarrierInv, Observing, Goto, Observe, JoinLine, Leave, TakeReply,
     SendFlush
<1>9. CASE WriterAppends
  BY <1>a, <1>9, Appending DEF BarrierInv, Observing, Goto, Observe, JoinLine, Leave,
     TakeReply, SendFlush
<1>10. CASE WriterFlushes
  BY <1>a, <1>10, Flushing DEF BarrierInv, Observing, Goto, Observe, JoinLine, Leave,
     TakeReply, SendFlush
<1>11. CASE CkEnter
  BY <1>a, <1>11 DEF CkEnter, BarrierInv, Observing, Goto, Observe, JoinLine, Leave, TakeReply,
     SendFlush
<1>12. CASE CkFlush
  BY <1>a, <1>12 DEF CkFlush, BarrierInv, Observing, Goto, Observe, JoinLine, Leave, TakeReply,
     SendFlush
<1>13. CASE CkFlushed
  BY <1>a, <1>13 DEF CkFlushed, BarrierInv, Observing, Goto, Observe, JoinLine, Leave,
     TakeReply, SendFlush
<1>14. CASE CkFlushFails
  BY <1>a, <1>14 DEF CkFlushFails, BarrierInv, Observing, Goto, Observe, JoinLine, Leave,
     TakeReply, SendFlush
<1>15. CASE CkCloned
  BY <1>a, <1>15 DEF CkCloned, BarrierInv, Observing, Goto, Observe, JoinLine, Leave,
     TakeReply, SendFlush
<1> QED
  BY <1>1, <1>2, <1>3, <1>4, <1>5, <1>6, <1>7, <1>8, <1>9, <1>10, <1>11, <1>12, <1>13, <1>14,
     <1>15
  DEF Next, SessionStep, WriterStep, CheckpointStep, MainStep

(* What the end of a collection makes of it. *)
LEMMA OutcomeFacts ==
    ASSUME NEW end \in Ends, NEW v \in Nat,
           end = "send" => v = 0, end = "reply" => v > 0
    PROVE  /\ CollectionOutcome(end, v) \in Outcomes
           /\ CollectionOutcome(end, v) # "NotRequested"
           /\ \/ CollectionOutcome(end, v) = "LogFailed"
              \/ CollectionOutcome(end, v) \in ValidOutcomes <=> v > 0
<1> DEFINE o == CollectionOutcome(end, v)
<1>1. o = OutcomeOf[end][1] \/ o = OutcomeOf[end][2]
  BY DEF CollectionOutcome
<1>2. DOMAIN OutcomeOf[end] = 1..2
  BY DEF OutcomeOf, Ends
<1>3. o \in Outcomes
  BY <1>1, <1>2 DEF Outcomes, Range
<1>4. o = CASE end = "send" -> "SendFailed"
            [] end = "log" -> "LogFailed"
            [] end = "reply" -> "CompleteQuiet"
            [] end = "quiet" -> IF v = 0 THEN "NoResponseTimeout" ELSE "CompleteQuiet"
            [] end = "hard" -> IF v = 0 THEN "HardTimeout" ELSE "PartialHardTimeout"
            [] end = "malformed" -> IF v = 0 THEN "MalformedResponse" ELSE "PartialMalformedResponse"
            [] end = "disconnect" -> IF v = 0 THEN "RemoteDisconnect" ELSE "PartialRemoteDisconnect"
            [] end = "envelope" -> IF v = 0 THEN "IncompleteEnvelopeTimeout"
                                            ELSE "PartialIncompleteEnvelopeTimeout"
  BY DEF CollectionOutcome, OutcomeOf, Ends
<1>5. o # "NotRequested"
  BY <1>4 DEF Ends
<1>6. o = "LogFailed" \/ (o \in ValidOutcomes <=> v > 0)
  BY <1>4 DEF Ends, ValidOutcomes
<1> QED
  BY <1>3, <1>5, <1>6

LEMMA SessionsStep ==
    ASSUME IInv, Next
    PROVE  SessionInv'
<1> USE DEF sessionVars, storeVars, barrierVars, logVars, diskVars, ckVars, mainVars,
            flagVars, historyVars, vars
<1>a. /\ SessionInv /\ pc \in [Nodes -> SessionPc]
      /\ obs \in [Nodes -> Observed \cup {Nil}]
      /\ ended \in [Nodes -> Ends \cup {Nil}]
      /\ valid \in [Nodes -> Nat]
      /\ outcome \in [Nodes -> Outcomes \cup {"NotRequested"}]
      /\ finished \subseteq Nodes
  BY DEF IInv, TypeOK
<1>b. Closings \subseteq Ends \ {"send", "reply", "log"}
  BY ObservationAssumption DEF Ends
<1>1. ASSUME NEW n \in Nodes, CkClone(n)
      PROVE  SessionInv'
  BY <1>a, <1>1 DEF CkClone, SessionInv, SessionOf, SessionPc, Announced, Observing, Ending,
     Goto, Observe, JoinLine, Leave, TakeReply, SendFlush
<1>2. CASE
          \/ CkTick \/ CkStop \/ CkEnter \/ CkFlush \/ CkFlushed
          \/ CkFlushFails \/ CkCloned \/ CkWrite \/ EarlyStop \/ RunReturns
          \/ CheckpointStopped \/ FinalFlush \/ FinalFlushed \/ FinalWrite
          \/ Exited
  BY <1>a, <1>2 DEF CkTick, CkStop, CkEnter, CkFlush, CkFlushed, CkFlushFails, CkCloned,
     CkWrite, EarlyStop, RunReturns, CheckpointStopped, FinalFlush, FinalFlushed, FinalWrite,
        Exited, SessionInv, SessionOf, SessionPc, Announced, Observing, Ending, Goto, Observe,
        JoinLine, Leave, TakeReply, SendFlush
<1>3. ASSUME NEW n \in Nodes, Start(n) PROVE SessionInv'
  <2>1. SessionOf(n)'
    BY <1>a, <1>b, <1>3 DEF Start, Observe, Goto, SessionInv, SessionOf, SessionPc, Announced,
       Observing, Ending, Ends, Observed, Kinds
  <2>2. ASSUME NEW m \in Nodes \ {n} PROVE SessionOf(m)'
    <3>1. UNCHANGED <<pc[m], obs[m], ended[m], valid[m], outcome[m], finished>>
      BY <1>a, <1>3 DEF Start, Observe, Goto
    <3> QED
      BY <1>a, <3>1 DEF SessionInv, SessionOf, Announced, Observing, Ending
  <2> QED
    BY <2>1, <2>2 DEF SessionInv
<1>4. ASSUME NEW n \in Nodes, Receive(n) PROVE SessionInv'
  <2>1. SessionOf(n)'
    BY <1>a, <1>b, <1>4 DEF Receive, Observe, Goto, SessionInv, SessionOf, SessionPc, Announced,
       Observing, Ending, Ends, Observed, Kinds
  <2>2. ASSUME NEW m \in Nodes \ {n} PROVE SessionOf(m)'
    <3>1. UNCHANGED <<pc[m], obs[m], ended[m], valid[m], outcome[m], finished>>
      BY <1>a, <1>4 DEF Receive, Observe, Goto
    <3> QED
      BY <1>a, <3>1 DEF SessionInv, SessionOf, Announced, Observing, Ending
  <2> QED
    BY <2>1, <2>2 DEF SessionInv
<1>5. ASSUME NEW n \in Nodes, EndCollection(n) PROVE SessionInv'
  <2>1. SessionOf(n)'
    BY <1>a, <1>b, <1>5 DEF EndCollection, Observe, Goto, SessionInv, SessionOf, SessionPc,
       Announced,
       Observing, Ending, Ends, Observed, Kinds
  <2>2. ASSUME NEW m \in Nodes \ {n} PROVE SessionOf(m)'
    <3>1. UNCHANGED <<pc[m], obs[m], ended[m], valid[m], outcome[m], finished>>
      BY <1>a, <1>5 DEF EndCollection, Observe, Goto
    <3> QED
      BY <1>a, <3>1 DEF SessionInv, SessionOf, Announced, Observing, Ending
  <2> QED
    BY <2>1, <2>2 DEF SessionInv
<1>6. ASSUME NEW n \in Nodes, RecordOutcome(n) PROVE SessionInv'
  <2>1. SessionOf(n)'
    BY <1>a, <1>b, <1>6 DEF RecordOutcome, Observe, Goto, SessionInv, SessionOf, SessionPc,
       Announced,
       Observing, Ending, Ends, Observed, Kinds
  <2>2. ASSUME NEW m \in Nodes \ {n} PROVE SessionOf(m)'
    <3>1. UNCHANGED <<pc[m], obs[m], ended[m], valid[m], outcome[m], finished>>
      BY <1>a, <1>6 DEF RecordOutcome, Observe, Goto
    <3> QED
      BY <1>a, <3>1 DEF SessionInv, SessionOf, Announced, Observing, Ending
  <2> QED
    BY <2>1, <2>2 DEF SessionInv
<1>7. ASSUME NEW n \in Nodes, Enter(n) PROVE SessionInv'
  <2>1. SessionOf(n)'
    <3>1. /\ pc[n] = "barrier" /\ pc'[n] = "lock"
          /\ obs[n] \in Observed /\ obs'[n] = obs[n]
          /\ outcome'[n] = IF obs[n].kind = "outcome" THEN CollectionOutcome(ended[n], valid[n])
                           ELSE outcome[n]
          /\ UNCHANGED finished
      BY <1>a, <1>7 DEF Enter, Goto, SessionInv, SessionOf, SessionPc
    <3>2. obs[n].kind = "outcome" => outcome'[n] # "NotRequested"
      BY <1>a, <3>1, OutcomeFacts DEF SessionInv, SessionOf, Ending
    <3>3. obs[n].kind # "outcome" => outcome'[n] = "NotRequested"
      BY <1>a, <3>1 DEF SessionInv, SessionOf, Announced, Observing
    <3> QED
      BY <1>a, <3>1, <3>2, <3>3 DEF SessionInv, SessionOf, SessionPc, Announced, Observing, Ending
  <2>2. ASSUME NEW m \in Nodes \ {n} PROVE SessionOf(m)'
    <3>1. UNCHANGED <<pc[m], obs[m], ended[m], valid[m], outcome[m], finished>>
      BY <1>a, <1>7 DEF Enter, Goto
    <3> QED
      BY <1>a, <3>1 DEF SessionInv, SessionOf, Announced, Observing, Ending
  <2> QED
    BY <2>1, <2>2 DEF SessionInv
<1>8. ASSUME NEW n \in Nodes, TakeId(n) PROVE SessionInv'
  BY <1>a, <1>8 DEF TakeId, SessionInv, SessionOf, SessionPc, Announced, Observing, Ending,
     Goto, Observe, JoinLine, Leave, TakeReply, SendFlush
<1>9. ASSUME NEW n \in Nodes, SendAppend(n) PROVE SessionInv'
  BY <1>a, <1>9 DEF SendAppend, SessionInv, SessionOf, SessionPc, Announced, Observing, Ending,
     Goto, Observe, JoinLine, Leave, TakeReply, SendFlush
<1>10. ASSUME NEW n \in Nodes, Acknowledged(n) PROVE SessionInv'
  <2>1. obs[n].kind \in Kinds
    BY <1>10, <1>a DEF Acknowledged, SessionInv, SessionOf, SessionPc, Observed
  <2> QED
    BY <1>a, <1>10, <2>1 DEF Acknowledged, SessionInv, SessionOf, SessionPc, Announced, Observing,
       Ending, Goto, Kinds, Ends
<1>11. ASSUME NEW n \in Nodes, Refused(n) PROVE SessionInv'
  BY <1>a, <1>11 DEF Refused, SessionInv, SessionOf, SessionPc, Announced, Observing, Ending,
     Goto, Observe, JoinLine, Leave, TakeReply, SendFlush
<1>12. ASSUME NEW n \in Nodes, MarkFailed(n) PROVE SessionInv'
  <2>1. SessionOf(n)'
    BY <1>a, <1>b, <1>12 DEF MarkFailed, Observe, Goto, SessionInv, SessionOf, SessionPc,
       Announced,
       Observing, Ending, Ends, Observed, Kinds
  <2>2. ASSUME NEW m \in Nodes \ {n} PROVE SessionOf(m)'
    <3>1. UNCHANGED <<pc[m], obs[m], ended[m], valid[m], outcome[m], finished>>
      BY <1>a, <1>12 DEF MarkFailed, Observe, Goto
    <3> QED
      BY <1>a, <3>1 DEF SessionInv, SessionOf, Announced, Observing, Ending
  <2> QED
    BY <2>1, <2>2 DEF SessionInv
<1>13. ASSUME NEW n \in Nodes, Count(n) PROVE SessionInv'
  <2>1. SessionOf(n)'
    BY <1>a, <1>b, <1>13 DEF Count, Observe, Goto, SessionInv, SessionOf, SessionPc, Announced,
       Observing, Ending, Ends, Observed, Kinds
  <2>2. ASSUME NEW m \in Nodes \ {n} PROVE SessionOf(m)'
    <3>1. UNCHANGED <<pc[m], obs[m], ended[m], valid[m], outcome[m], finished>>
      BY <1>a, <1>13 DEF Count, Observe, Goto
    <3> QED
      BY <1>a, <3>1 DEF SessionInv, SessionOf, Announced, Observing, Ending
  <2> QED
    BY <2>1, <2>2 DEF SessionInv
<1>14. ASSUME NEW n \in Nodes, Finish(n) PROVE SessionInv'
  BY <1>a, <1>14 DEF Finish, SessionInv, SessionOf, SessionPc, Announced, Observing, Ending,
     Goto, Observe, JoinLine, Leave, TakeReply, SendFlush
<1>15. CASE WriterAppends
  BY <1>a, <1>15, Appending DEF SessionInv, SessionOf, SessionPc, Announced, Observing, Ending,
     Goto, Observe, JoinLine, Leave, TakeReply, SendFlush
<1>16. CASE WriterFlushes
  BY <1>a, <1>16, Flushing DEF SessionInv, SessionOf, SessionPc, Announced, Observing, Ending,
     Goto, Observe, JoinLine, Leave, TakeReply, SendFlush
<1> QED
  BY <1>1, <1>2, <1>3, <1>4, <1>5, <1>6, <1>7, <1>8, <1>9, <1>10, <1>11, <1>12, <1>13, <1>14,
     <1>15, <1>16
  DEF Next, SessionStep, WriterStep, CheckpointStep, MainStep

LEMMA FileStep ==
    ASSUME IInv, Next
    PROVE  FileInv'
<1> USE DEF sessionVars, storeVars, barrierVars, logVars, diskVars, ckVars, mainVars,
            flagVars, historyVars, vars
<1>a. /\ FileInv /\ LockInv /\ pc \in [Nodes -> SessionPc]
      /\ reply \in [Actors -> Reply \cup {Nil}]
      /\ eventId \in [Nodes -> Nat]
      /\ lock \in Actors \cup {Nil} /\ nextId \in Nat /\ lastId \in Nat
      /\ file \in Seq(Record) /\ synced \in 0..Len(file)
      /\ \A r \in Reply : r # Nil
      /\ Ckpt \in Actors /\ Main \in Actors /\ Nodes \subseteq Actors
      /\ Nil \notin Actors /\ Ckpt \notin Nodes /\ Main \notin Nodes
  BY Types, ObservationAssumption DEF IInv, TypeOK
<1>b. Len(file) \in Nat
  BY <1>a
<1>c. ASSUME NEW x \in Actors, TakeReply(x),
             UNCHANGED <<file, lastId, nextId, synced, lost, eventId>>,
             \A m \in Nodes : pc'[m] = "send" => pc[m] = "send"
      PROVE  FileInv'
  <2>1. lock = x /\ lock' = Nil /\ reply[x] # Nil /\ reply' = [reply EXCEPT ![x] = Nil]
    BY <1>a, <1>c DEF TakeReply, LockInv
  <2>2. ~Pending /\ ~Pending'
    BY <1>a, <2>1 DEF Pending
  <2>3. \A y \in {Ckpt, Main} : reply'[y] # Nil => reply'[y] = reply[y]
    BY <1>a, <2>1
  <2>4. Ascending' /\ Numbering' /\ Gapless'
    BY <1>a, <1>c, <2>2 DEF FileInv, Ascending, Numbering, Gapless
  <2>5. FlushAnswer'
    BY <1>a, <1>c, <2>3 DEF FileInv, FlushAnswer
  <2> QED
    BY <2>4, <2>5 DEF FileInv
<1>d. ASSUME UNCHANGED <<file, lastId, nextId, synced, lost, eventId, lock, reply>>,
             \A m \in Nodes : pc'[m] = "send" => pc[m] = "send"
      PROVE  FileInv'
  <2>1. Pending' = Pending
    BY <1>d DEF Pending
  <2>2. Ascending' /\ Numbering' /\ Gapless'
    BY <1>a, <1>d, <2>1 DEF FileInv, Ascending, Numbering, Gapless
  <2>3. FlushAnswer'
    BY <1>a, <1>d DEF FileInv, FlushAnswer
  <2> QED
    BY <2>2, <2>3 DEF FileInv
<1>1. ASSUME NEW n \in Nodes,
          \/ Start(n) \/ Receive(n) \/ EndCollection(n) \/ RecordOutcome(n)
          \/ Enter(n) \/ MarkFailed(n) \/ Count(n) \/ Finish(n) \/ CkClone(n)
      PROVE  FileInv'
  <2>1. UNCHANGED <<file, lastId, nextId, synced, lost, eventId, lock, reply>>
    BY <1>1 DEF Start, Receive, EndCollection, RecordOutcome, Enter, MarkFailed, Count, Finish,
       CkClone
  <2>2. \/ UNCHANGED pc
        \/ \E l \in {"collect", "closing", "barrier", "lock", "finish", "done"} :
               pc' = [pc EXCEPT ![n] = l]
        \/ \A m \in Nodes : pc'[m] = "send" => pc[m] = "send"
    BY <1>1, <1>a DEF Start, Receive, EndCollection, RecordOutcome, Enter, MarkFailed, Count,
       Finish, CkClone, Goto, Observe
  <2>3. \A m \in Nodes : pc'[m] = "send" => pc[m] = "send"
    BY <1>a, <2>2
  <2> QED
    BY <1>d, <2>1, <2>3
<1>2. CASE
          \/ CkTick \/ CkStop \/ CkEnter \/ CkCloned \/ CkWrite \/ EarlyStop
          \/ RunReturns \/ CheckpointStopped \/ FinalWrite \/ Exited
  BY <1>a, <1>b, <1>2 DEF CkTick, CkStop, CkEnter, CkCloned, CkWrite, EarlyStop, RunReturns,
     CheckpointStopped, FinalWrite, Exited, FileInv, Ascending, Numbering, Gapless,
        FlushAnswer, Pending, Goto, Observe, JoinLine, Leave, TakeReply, SendFlush
<1>3. ASSUME NEW n \in Nodes, TakeId(n) PROVE FileInv'
  <2>1. /\ lock = Nil /\ lock' = n /\ pc' = [pc EXCEPT ![n] = "send"]
        /\ eventId' = [eventId EXCEPT ![n] = nextId] /\ nextId' = nextId + 1
        /\ UNCHANGED <<file, lastId, synced, lost, reply>>
    BY <1>3 DEF TakeId, Goto
  <2>2. \A x \in Actors : reply[x] = Nil
    BY <1>a, <2>1 DEF LockInv
  <2>3. \A m \in Nodes : pc[m] # "send"
    BY <1>a, <2>1 DEF LockInv
  <2>4. ~Pending /\ Pending'
    BY <1>a, <2>1, <2>2 DEF Pending
  <2>5. Ascending' /\ FlushAnswer'
    BY <1>a, <2>1 DEF FileInv, Ascending, FlushAnswer
  <2>6. Numbering'
    BY <1>a, <2>1, <2>3, <2>4 DEF FileInv, Numbering
  <2>7. Gapless'
    BY <1>a, <1>b, <2>1, <2>4 DEF FileInv, Gapless
  <2> QED
    BY <2>5, <2>6, <2>7 DEF FileInv
<1>4. ASSUME NEW n \in Nodes, SendAppend(n) PROVE FileInv'
  <2>1. /\ pc' = [pc EXCEPT ![n] = "ack"] /\ pc[n] = "send"
        /\ eventId' = [eventId EXCEPT ![n] = 0]
        /\ UNCHANGED <<file, lastId, synced, lost, reply, lock, nextId>>
    BY <1>4 DEF SendAppend, Goto
  <2> QED
    BY <1>a, <1>b, <2>1 DEF FileInv, Ascending, Numbering, Gapless, FlushAnswer, Pending
<1>5. ASSUME NEW n \in Nodes, Acknowledged(n) PROVE FileInv'
  <2>1. TakeReply(n) /\ UNCHANGED <<file, lastId, nextId, synced, lost, eventId>>
    BY <1>5 DEF Acknowledged
  <2>2. obs[n].kind \in Kinds
    BY <1>5 DEF Acknowledged, IInv, SessionInv, SessionOf, SessionPc, Observed
  <2>3. \A m \in Nodes : pc'[m] = "send" => pc[m] = "send"
    BY <1>a, <1>5, <2>2 DEF Acknowledged, Goto, Kinds
  <2> QED
    BY <1>a, <1>c, <2>1, <2>3
<1>6. ASSUME NEW n \in Nodes, Refused(n) PROVE FileInv'
  <2>1. TakeReply(n) /\ UNCHANGED <<file, lastId, nextId, synced, lost, eventId>>
    BY <1>6 DEF Refused
  <2>2. \A m \in Nodes : pc'[m] = "send" => pc[m] = "send"
    BY <1>a, <1>6 DEF Refused, Goto
  <2> QED
    BY <1>a, <1>c, <2>1, <2>2
<1>7. CASE WriterAppends
  <2>1. /\ lock \in Nodes /\ pc[lock] = "ack" /\ reply[lock] = Nil
        /\ RecordOf(lock) \in Record /\ RecordOf(lock).id = nextId - 1
        /\ UNCHANGED <<pc, eventId, lock, nextId, synced>>
    BY <1>7, Appending DEF RecordOf
  <2>2. Pending /\ lastId < nextId - 1
    BY <1>a, <2>1 DEF Pending, FileInv, Numbering
  <2>3. lock # Ckpt /\ lock # Main
    BY <1>a, <2>1
  <2>4. CASE /\ file' = Append(file, RecordOf(lock)) /\ lastId' = nextId - 1
             /\ reply' = [reply EXCEPT ![lock] = [ok |-> TRUE, id |-> nextId - 1]]
             /\ lost' = lost
    <3>1. /\ Len(file') = Len(file) + 1
          /\ \A i \in 1..Len(file) : file'[i] = file[i]
          /\ file'[Len(file) + 1] = RecordOf(lock)
      BY <1>a, <2>1, <2>4, AppendProperties
    <3>2. [ok |-> TRUE, id |-> nextId - 1] \in Reply
      BY <1>a, <2>2 DEF Reply
    <3>3. ~Pending'
      BY <1>a, <2>1, <2>4, <3>2 DEF Pending
    <3>4. \A i \in 1..Len(file) : file[i].id \in Nat
      <4>1. \A i \in 1..Len(file) : file[i] \in Record
        BY <1>a, ElementOfSeq
      <4> QED
        BY <4>1 DEF Record
    <3>5. \A i \in 1..Len(file) : file[i].id < file'[Len(file) + 1].id
      BY <1>a, <2>1, <2>2, <3>1, <3>4 DEF FileInv, Numbering
    <3>6. Ascending'
      <4> SUFFICES ASSUME NEW i \in 1..Len(file'), NEW j \in 1..Len(file'), i < j
                   PROVE  file'[i].id < file'[j].id
        BY DEF Ascending
      <4>1. i \in 1..Len(file) /\ (j \in 1..Len(file) \/ j = Len(file) + 1)
        BY <1>b, <3>1
      <4> QED
        BY <1>a, <3>1, <3>5, <4>1 DEF FileInv, Ascending
    <3>7. Numbering'
      <4>1. ASSUME NEW i \in 1..Len(file') PROVE file'[i].id <= lastId'
        <5>1. i \in 1..Len(file) \/ i = Len(file) + 1
          BY <1>b, <3>1
        <5> QED
          BY <1>a, <2>1, <2>2, <2>4, <3>1, <3>4, <5>1 DEF FileInv, Numbering
      <4> QED
        BY <1>a, <2>1, <2>4, <3>3, <4>1 DEF FileInv, Numbering
    <3>8. Gapless'
      <4> SUFFICES ASSUME lost = {}
                   PROVE  /\ \A i \in 1..Len(file') : file'[i].id = i
                          /\ lastId' = Len(file') /\ nextId' = Len(file') + 1
        BY <2>4, <3>3 DEF Gapless
      <4>1. nextId = Len(file) + 2 /\ \A i \in 1..Len(file) : file[i].id = i
        BY <1>a, <2>2 DEF FileInv, Gapless
      <4> QED
        BY <1>a, <1>b, <2>1, <2>4, <3>1, <4>1
    <3>9. FlushAnswer'
      <4>1. \A x \in {Ckpt, Main} : reply'[x] = Nil
        BY <1>a, <2>1, <2>3, <2>4 DEF LockInv
      <4> QED
        BY <4>1 DEF FlushAnswer
    <3> QED
      BY <3>6, <3>7, <3>8, <3>9 DEF FileInv
  <2>5. CASE /\ lost' = lost \cup {lock} /\ UNCHANGED <<file, lastId>>
             /\ reply' = [reply EXCEPT ![lock] = [ok |-> FALSE, id |-> 0]]
    <3>1. [ok |-> FALSE, id |-> 0] \in Reply
      BY DEF Reply
    <3>2. ~Pending'
      BY <1>a, <2>1, <2>5, <3>1 DEF Pending
    <3>3. \A x \in {Ckpt, Main} : reply'[x] = Nil
      BY <1>a, <2>1, <2>3, <2>5 DEF LockInv
    <3>4. Ascending' /\ FlushAnswer'
      BY <1>a, <2>5, <3>3 DEF FileInv, Ascending, FlushAnswer
    <3>5. Numbering' /\ Gapless'
      BY <1>a, <2>1, <2>5, <3>2 DEF FileInv, Numbering, Gapless
    <3> QED
      BY <3>4, <3>5 DEF FileInv
  <2> QED
    BY <1>7, Appending, <2>4, <2>5
<1>8. CASE WriterFlushes
  <2>1. /\ lock \in {Ckpt, Main} /\ reply[lock] = Nil
        /\ UNCHANGED <<pc, eventId, lock, nextId, file, lastId, lost>>
    BY <1>8, Flushing
  <2>2. \A x \in Actors : x # lock => reply[x] = Nil
    BY <1>a DEF LockInv
  <2>3. \/ /\ synced' = Len(file)
           /\ reply' = [reply EXCEPT ![lock] = [ok |-> TRUE, id |-> lastId]]
        \/ reply' = [reply EXCEPT ![lock] = [ok |-> FALSE, id |-> 0]]
    BY <1>8, Flushing
  <2>4. ~Pending /\ ~Pending'
    BY <1>a, <2>1 DEF Pending
  <2>5. FlushAnswer'
    BY <1>a, <2>1, <2>2, <2>3 DEF FlushAnswer
  <2>6. Ascending' /\ Numbering' /\ Gapless'
    BY <1>a, <2>1, <2>4 DEF FileInv, Ascending, Numbering, Gapless
  <2> QED
    BY <2>5, <2>6 DEF FileInv
<1>9. CASE CkFlush
  BY <1>a, <1>b, <1>9 DEF CkFlush, FileInv, Ascending, Numbering, Gapless, FlushAnswer,
     Pending, Goto, Observe, JoinLine, Leave, TakeReply, SendFlush
<1>10. CASE CkFlushed
  BY <1>a, <1>c, <1>10 DEF CkFlushed
<1>11. CASE CkFlushFails
  BY <1>a, <1>c, <1>11 DEF CkFlushFails
<1>12. CASE FinalFlush
  BY <1>a, <1>b, <1>12 DEF FinalFlush, FileInv, Ascending, Numbering, Gapless, FlushAnswer,
     Pending, Goto, Observe, JoinLine, Leave, TakeReply, SendFlush
<1>13. CASE FinalFlushed
  BY <1>a, <1>c, <1>13 DEF FinalFlushed
<1> QED
  BY <1>1, <1>2, <1>3, <1>4, <1>5, <1>6, <1>7, <1>8, <1>9, <1>10, <1>11, <1>12, <1>13
  DEF Next, SessionStep, WriterStep, CheckpointStep, MainStep

-----------------------------------------------------------------------------
(* Sets of records *)

LEMMA RangeOfFile ==
    ASSUME NEW S, NEW f \in Seq(S)
    PROVE  /\ Range(f) \subseteq S
           /\ \A r \in Range(f) : \E i \in 1..Len(f) : r = f[i]
           /\ \A i \in 1..Len(f) : f[i] \in Range(f)
           /\ \A x \in S : Range(Append(f, x)) = Range(f) \cup {x}
<1>1. DOMAIN f = 1..Len(f) /\ Len(f) \in Nat /\ \A i \in 1..Len(f) : f[i] \in S
  BY LenProperties, ElementOfSeq
<1>2. ASSUME NEW x \in S PROVE Range(Append(f, x)) = Range(f) \cup {x}
  <2> DEFINE g == Append(f, x)
  <2>1. /\ DOMAIN g = 1..Len(f) + 1
        /\ \A i \in 1..Len(f) : g[i] = f[i]
        /\ g[Len(f) + 1] = x
    BY AppendProperties, LenProperties
  <2>2. 1..Len(f) + 1 = 1..Len(f) \cup {Len(f) + 1}
    BY <1>1
  <2> HIDE DEF g
  <2>3. Range(g) = Range(f) \cup {x}
    BY <1>1, <2>1, <2>2 DEF Range
  <2> QED
    BY <2>3 DEF g
<1> QED
  BY <1>1, <1>2 DEF Range

LEMMA AddRecord ==
    ASSUME NEW R, NEW x, NEW n, NEW k, IsFiniteSet(R), x \notin R
    PROVE  /\ Cardinality(Of(R, n, k)) \in Nat
           /\ x.node = n /\ x.kind = k =>
                 /\ Of(R \cup {x}, n, k) = Of(R, n, k) \cup {x}
                 /\ Cardinality(Of(R \cup {x}, n, k)) = Cardinality(Of(R, n, k)) + 1
           /\ ~(x.node = n /\ x.kind = k) => Of(R \cup {x}, n, k) = Of(R, n, k)
<1>1. IsFiniteSet(Of(R, n, k)) /\ x \notin Of(R, n, k)
  BY FS_Subset DEF Of
<1>2. x.node = n /\ x.kind = k => Of(R \cup {x}, n, k) = Of(R, n, k) \cup {x}
  BY DEF Of
<1>3. ~(x.node = n /\ x.kind = k) => Of(R \cup {x}, n, k) = Of(R, n, k)
  BY DEF Of
<1>4. Cardinality(Of(R, n, k)) \in Nat
  BY <1>1, FS_CardinalityType
<1>5. Cardinality(Of(R, n, k) \cup {x}) = Cardinality(Of(R, n, k)) + 1
  BY <1>1, FS_AddElement
<1> QED
  BY <1>2, <1>3, <1>4, <1>5

(* A node whose own state does not move keeps its account. *)
LEMMA StoreFrame ==
    ASSUME NEW m \in Nodes, StoreOf(m), UNCHANGED <<file, lost>>,
           UNCHANGED <<pc[m], obs[m], valid[m], advertised[m], malformed[m], outcome[m], reply[m]>>
    PROVE  StoreOf(m)'
BY DEF StoreOf, Logged, Written, Answered, Between, Announced, Observing

LEMMA StoreStep ==
    ASSUME IInv, Next
    PROVE  StoreInv'
<1> USE DEF sessionVars, storeVars, barrierVars, logVars, diskVars, ckVars, mainVars,
            flagVars, historyVars, vars
<1>a. /\ StoreInv /\ LockInv /\ SessionInv
      /\ pc \in [Nodes -> SessionPc]
      /\ obs \in [Nodes -> Observed \cup {Nil}]
      /\ valid \in [Nodes -> Nat]
      /\ advertised \in [Nodes -> Nat] /\ malformed \in [Nodes -> Nat]
      /\ outcome \in [Nodes -> Outcomes \cup {"NotRequested"}]
      /\ reply \in [Actors -> Reply \cup {Nil}]
      /\ \A r \in Reply : r # Nil
      /\ file \in Seq(Record)
      /\ Ckpt \in Actors /\ Main \in Actors /\ Nodes \subseteq Actors
      /\ Ckpt \notin Nodes /\ Main \notin Nodes
  BY Types, ObservationAssumption DEF IInv, TypeOK
<1>b. ASSUME UNCHANGED <<pc, obs, valid, advertised, malformed, outcome, file, lost, known>>,
             \A m \in Nodes : reply'[m] = reply[m]
      PROVE  StoreInv'
  BY <1>a, <1>b, StoreFrame DEF StoreInv
<1>c. ASSUME NEW n \in Nodes, UNCHANGED <<file, lost>>,
             StoreOf(n)', (known \ Seeds \subseteq Advertised(Range(file)))',
             \A m \in Nodes \ {n} :
                UNCHANGED <<pc[m], obs[m], valid[m], advertised[m], malformed[m], outcome[m], reply[m]>>
      PROVE  StoreInv'
  <2>1. \A m \in Nodes \ {n} : StoreOf(m)'
    BY <1>a, <1>c, StoreFrame DEF StoreInv
  <2> QED
    BY <1>a, <1>c, <2>1 DEF StoreInv
<1>d. \A n, k : Cardinality(Of(Range(file), n, k)) \in Nat
  <2> TAKE n, k
  <2>1. IsFiniteSet(Of(Range(file), n, k))
    BY <1>a, FS_Subset DEF StoreInv, Of
  <2> QED
    BY <2>1, FS_CardinalityType
<1>1. CASE
          \/ CkTick \/ CkStop \/ CkEnter \/ CkFlush \/ CkFlushed
          \/ CkFlushFails \/ CkCloned \/ CkWrite \/ EarlyStop \/ RunReturns
          \/ CheckpointStopped \/ FinalFlush \/ FinalFlushed \/ FinalWrite
          \/ Exited
  BY <1>a, <1>b, <1>1 DEF CkTick, CkStop, CkEnter, CkFlush, CkFlushed, CkFlushFails, CkCloned,
     CkWrite, EarlyStop, RunReturns, CheckpointStopped, FinalFlush, FinalFlushed, FinalWrite,
        Exited, TakeReply, SendFlush
<1>2. ASSUME NEW n \in Nodes, CkClone(n)
      PROVE  StoreInv'
  BY <1>a, <1>b, <1>2 DEF CkClone, TakeReply, SendFlush
<1>3. ASSUME NEW n \in Nodes, Start(n) PROVE StoreInv'
  <2>1. StoreOf(n)'
    BY <1>a, <1>d, <1>3 DEF Start, StoreInv, StoreOf, Logged, Written, Answered, Between,
       Announced, Observing, One, Goto, Observe, TakeReply,
       LockInv, SessionInv, SessionOf, SessionPc
  <2>2. \A m \in Nodes \ {n} :
           UNCHANGED <<pc[m], obs[m], valid[m], advertised[m], malformed[m], outcome[m], reply[m]>>
    BY <1>a, <1>3 DEF Start, Goto, Observe, TakeReply
  <2> QED
    BY <1>a, <1>c, <1>3, <2>1, <2>2 DEF Start, StoreInv
<1>4. ASSUME NEW n \in Nodes, Receive(n) PROVE StoreInv'
  <2>1. StoreOf(n)'
    BY <1>a, <1>d, <1>4 DEF Receive, StoreInv, StoreOf, Logged, Written, Answered, Between,
       Announced, Observing, One, Goto, Observe, TakeReply,
       LockInv, SessionInv, SessionOf, SessionPc
  <2>2. \A m \in Nodes \ {n} :
           UNCHANGED <<pc[m], obs[m], valid[m], advertised[m], malformed[m], outcome[m], reply[m]>>
    BY <1>a, <1>4 DEF Receive, Goto, Observe, TakeReply
  <2> QED
    BY <1>a, <1>c, <1>4, <2>1, <2>2 DEF Receive, StoreInv
<1>5. ASSUME NEW n \in Nodes, EndCollection(n) PROVE StoreInv'
  <2>1. StoreOf(n)'
    BY <1>a, <1>d, <1>5 DEF EndCollection, StoreInv, StoreOf, Logged, Written, Answered,
       Between, Announced, Observing, One, Goto, Observe, TakeReply,
       LockInv, SessionInv, SessionOf, SessionPc
  <2>2. \A m \in Nodes \ {n} :
           UNCHANGED <<pc[m], obs[m], valid[m], advertised[m], malformed[m], outcome[m], reply[m]>>
    BY <1>a, <1>5 DEF EndCollection, Goto, Observe, TakeReply
  <2> QED
    BY <1>a, <1>c, <1>5, <2>1, <2>2 DEF EndCollection, StoreInv
<1>6. ASSUME NEW n \in Nodes, RecordOutcome(n) PROVE StoreInv'
  <2>1. StoreOf(n)'
    BY <1>a, <1>d, <1>6 DEF RecordOutcome, StoreInv, StoreOf, Logged, Written, Answered,
       Between, Announced, Observing, One, Goto, Observe, TakeReply,
       LockInv, SessionInv, SessionOf, SessionPc
  <2>2. \A m \in Nodes \ {n} :
           UNCHANGED <<pc[m], obs[m], valid[m], advertised[m], malformed[m], outcome[m], reply[m]>>
    BY <1>a, <1>6 DEF RecordOutcome, Goto, Observe, TakeReply
  <2> QED
    BY <1>a, <1>c, <1>6, <2>1, <2>2 DEF RecordOutcome, StoreInv
<1>7. ASSUME NEW n \in Nodes, Enter(n) PROVE StoreInv'
  <2>a. /\ pc[n] = "barrier" /\ pc'[n] = "lock"
        /\ UNCHANGED <<file, lost, valid, obs, known, reply>>
    BY <1>a, <1>7 DEF Enter, Goto
  <2>b. advertised'[n] = advertised[n] + One(obs[n].kind = "block")
    BY <1>a, <1>7 DEF Enter, One
  <2>c. malformed'[n] = malformed[n] + One(obs[n].kind = "malformed")
    BY <1>a, <1>7 DEF Enter, One
  <2>1. obs[n] \in Observed
    BY <1>a, <2>a DEF SessionInv, SessionOf, SessionPc
  <2>2. /\ ~Between(n) /\ ~Written(n) /\ ~Answered(n) /\ ~Announced(n)
        /\ Between(n)' /\ ~Written(n)' /\ ~Answered(n)'
    BY <2>a, <2>b, <2>c, <2>1 DEF Between, Written, Answered, Announced, Observing
  <2>3. StoreOf(n) /\ pc[n] # "count"
    BY <1>a, <2>a DEF StoreInv
  <2>d. /\ Logged(n, "block") = valid[n]
        /\ n \notin lost => /\ advertised[n] = Logged(n, "block")
                            /\ malformed[n] = Logged(n, "malformed")
                            /\ OutcomesIn(Range(file), n) = {}
    <3>1. \A k : Logged(n, k) \in Nat
      BY <1>d DEF Logged
    <3> QED
      BY <1>a, <2>2, <2>3, <3>1 DEF StoreOf, One
  <2>4. StoreOf(n)'
    BY <1>a, <1>d, <2>a, <2>b, <2>c, <2>d, <2>1, <2>2 DEF StoreOf, One, Logged
  <2>5. \A m \in Nodes \ {n} :
           UNCHANGED <<pc[m], obs[m], valid[m], advertised[m], malformed[m], outcome[m], reply[m]>>
    BY <1>a, <1>7 DEF Enter, Goto
  <2> QED
    BY <1>a, <1>c, <2>a, <2>b, <2>c, <2>1, <2>4, <2>5 DEF StoreInv
<1>8. ASSUME NEW n \in Nodes, TakeId(n) PROVE StoreInv'
  <2>1. StoreOf(n)'
    BY <1>a, <1>d, <1>8 DEF TakeId, StoreInv, StoreOf, Logged, Written, Answered, Between,
       Announced, Observing, One, Goto, Observe, TakeReply,
       LockInv, SessionInv, SessionOf, SessionPc
  <2>2. \A m \in Nodes \ {n} :
           UNCHANGED <<pc[m], obs[m], valid[m], advertised[m], malformed[m], outcome[m], reply[m]>>
    BY <1>a, <1>8 DEF TakeId, Goto, Observe, TakeReply
  <2> QED
    BY <1>a, <1>c, <1>8, <2>1, <2>2 DEF TakeId, StoreInv
<1>9. ASSUME NEW n \in Nodes, SendAppend(n) PROVE StoreInv'
  <2>1. StoreOf(n)'
    BY <1>a, <1>d, <1>9 DEF SendAppend, StoreInv, StoreOf, Logged, Written, Answered, Between,
       Announced, Observing, One, Goto, Observe, TakeReply,
       LockInv, SessionInv, SessionOf, SessionPc
  <2>2. \A m \in Nodes \ {n} :
           UNCHANGED <<pc[m], obs[m], valid[m], advertised[m], malformed[m], outcome[m], reply[m]>>
    BY <1>a, <1>9 DEF SendAppend, Goto, Observe, TakeReply
  <2> QED
    BY <1>a, <1>c, <1>9, <2>1, <2>2 DEF SendAppend, StoreInv
<1>10. ASSUME NEW n \in Nodes, Acknowledged(n) PROVE StoreInv'
  <2>1. /\ pc[n] = "ack" /\ reply[n] # Nil /\ reply[n].ok /\ lock = n
        /\ obs[n] \in Observed /\ obs'[n] = obs[n]
        /\ pc'[n] = CASE obs[n].kind = "block"     -> "count"
                      [] obs[n].kind = "malformed" -> "closing"
                      [] obs[n].kind = "outcome"   -> "finish"
        /\ UNCHANGED <<file, lost, valid, advertised, malformed, outcome>>
    BY <1>a, <1>10 DEF Acknowledged, Goto, TakeReply, LockInv, SessionInv, SessionOf, SessionPc
  <2>2. obs[n].kind \in Kinds
    BY <2>1 DEF Observed
  <2>3. \/ obs[n].kind = "block" /\ pc'[n] = "count"
        \/ obs[n].kind = "malformed" /\ pc'[n] = "closing"
        \/ obs[n].kind = "outcome" /\ pc'[n] = "finish"
    BY <2>1, <2>2 DEF Kinds
  <2>4. StoreOf(n)'
    BY <1>a, <1>d, <2>1, <2>3 DEF StoreInv, StoreOf, Logged, Written, Answered, Between,
       Announced, Observing, One
  <2>5. \A m \in Nodes \ {n} :
           UNCHANGED <<pc[m], obs[m], valid[m], advertised[m], malformed[m], outcome[m], reply[m]>>
    BY <1>a, <1>10 DEF Acknowledged, Goto, TakeReply
  <2>6. known' \ Seeds \subseteq Advertised(Range(file))
    <3>1. obs[n].addrs \subseteq Advertised(Range(file))
      BY <1>a, <2>1 DEF StoreInv, StoreOf, Written, Answered
    <3> QED
      BY <1>a, <1>10, <3>1 DEF Acknowledged, StoreInv
  <2> QED
    BY <1>c, <2>1, <2>4, <2>5, <2>6
<1>11. ASSUME NEW n \in Nodes, Refused(n) PROVE StoreInv'
  <2>1. StoreOf(n)'
    BY <1>a, <1>d, <1>11 DEF Refused, StoreInv, StoreOf, Logged, Written, Answered, Between,
       Announced, Observing, One, Goto, Observe, TakeReply,
       LockInv, SessionInv, SessionOf, SessionPc
  <2>2. \A m \in Nodes \ {n} :
           UNCHANGED <<pc[m], obs[m], valid[m], advertised[m], malformed[m], outcome[m], reply[m]>>
    BY <1>a, <1>11 DEF Refused, Goto, Observe, TakeReply
  <2> QED
    BY <1>a, <1>c, <1>11, <2>1, <2>2 DEF Refused, StoreInv
<1>12. ASSUME NEW n \in Nodes, MarkFailed(n) PROVE StoreInv'
  <2>1. StoreOf(n)'
    BY <1>a, <1>d, <1>12 DEF MarkFailed, StoreInv, StoreOf, Logged, Written, Answered, Between,
       Announced, Observing, One, Goto, Observe, TakeReply,
       LockInv, SessionInv, SessionOf, SessionPc
  <2>2. \A m \in Nodes \ {n} :
           UNCHANGED <<pc[m], obs[m], valid[m], advertised[m], malformed[m], outcome[m], reply[m]>>
    BY <1>a, <1>12 DEF MarkFailed, Goto, Observe, TakeReply
  <2> QED
    BY <1>a, <1>c, <1>12, <2>1, <2>2 DEF MarkFailed, StoreInv
<1>13. ASSUME NEW n \in Nodes, Count(n) PROVE StoreInv'
  <2>1. StoreOf(n)'
    BY <1>a, <1>d, <1>13 DEF Count, StoreInv, StoreOf, Logged, Written, Answered, Between,
       Announced, Observing, One, Goto, Observe, TakeReply,
       LockInv, SessionInv, SessionOf, SessionPc
  <2>2. \A m \in Nodes \ {n} :
           UNCHANGED <<pc[m], obs[m], valid[m], advertised[m], malformed[m], outcome[m], reply[m]>>
    BY <1>a, <1>13 DEF Count, Goto, Observe, TakeReply
  <2> QED
    BY <1>a, <1>c, <1>13, <2>1, <2>2 DEF Count, StoreInv
<1>14. ASSUME NEW n \in Nodes, Finish(n) PROVE StoreInv'
  <2>1. StoreOf(n)'
    BY <1>a, <1>d, <1>14 DEF Finish, StoreInv, StoreOf, Logged, Written, Answered, Between,
       Announced, Observing, One, Goto, Observe, TakeReply,
       LockInv, SessionInv, SessionOf, SessionPc
  <2>2. \A m \in Nodes \ {n} :
           UNCHANGED <<pc[m], obs[m], valid[m], advertised[m], malformed[m], outcome[m], reply[m]>>
    BY <1>a, <1>14 DEF Finish, Goto, Observe, TakeReply
  <2> QED
    BY <1>a, <1>c, <1>14, <2>1, <2>2 DEF Finish, StoreInv
<1>15. CASE WriterAppends
  <2>1. PICK h \in Nodes : h = lock
    BY <1>15, Appending
  <2>2. /\ pc[h] = "ack" /\ reply[h] = Nil /\ RecordOf(h) \in Record
        /\ UNCHANGED <<sessionVars, storeVars>>
    BY <1>15, <2>1, Appending
  <2>h. \/ /\ file' = Append(file, RecordOf(h)) /\ lost' = lost
           /\ reply' = [reply EXCEPT ![h] = [ok |-> TRUE, id |-> nextId - 1]]
        \/ /\ lost' = lost \cup {h} /\ file' = file
           /\ reply' = [reply EXCEPT ![h] = [ok |-> FALSE, id |-> 0]]
    BY <1>15, <2>1, Appending
  <2>3. Between(h) /\ ~Answered(h) /\ ~Written(h) /\ pc[h] # "count"
    BY <2>2 DEF Between, Answered, Written
  <2>4. CASE /\ file' = Append(file, RecordOf(h)) /\ lost' = lost
             /\ reply' = [reply EXCEPT ![h] = [ok |-> TRUE, id |-> nextId - 1]]
    <3>0. PICK x : x = RecordOf(h)
      OBVIOUS
    <3>1. x.node = h /\ x.kind = obs[h].kind /\ x.addrs = obs[h].addrs
          /\ x.outcome = outcome[h] /\ x.id = nextId - 1
      BY <3>0 DEF RecordOf
    <3>2. Range(file') = Range(file) \cup {x}
      BY <1>a, <2>2, <2>4, <3>0, RangeOfFile
    <3>3. x \notin Range(file)
      <4>1. Pending
        BY <2>1, <2>2 DEF Pending
      <4>2. \A r \in Range(file) : r.id < nextId - 1
        <5>a. \A r \in Range(file) : \E i \in 1..Len(file) : r = file[i]
          <6>1. file \in Seq(Record)
            BY <1>a
          <6> QED
            BY <6>1, RangeOfFile
        <5> SUFFICES ASSUME NEW i \in 1..Len(file) PROVE file[i].id < nextId - 1
          BY <5>a, Zenon
        <5>1. file[i] \in Record
          BY <1>a, ElementOfSeq
        <5>2. file[i].id \in Nat
          BY <5>1 DEF Record
        <5> QED
          <6>1. file[i].id <= lastId /\ lastId < nextId - 1
            BY <4>1 DEF IInv, FileInv, Numbering
          <6>2. lastId \in Nat /\ nextId \in Nat
            BY DEF IInv, TypeOK
          <6> QED
            BY <5>2, <6>1, <6>2
      <4>3. nextId \in Nat
        BY DEF IInv, TypeOK
      <4> QED
        BY <3>1, <4>2, <4>3
    <3>4. IsFiniteSet(Range(file) \cup {x})
      BY <1>a, FS_AddElement DEF StoreInv
    <3>5. [ok |-> TRUE, id |-> nextId - 1] \in Reply
      BY <2>2, <3>0, <3>1 DEF Reply, Record
    <3>6. Written(h)' /\ Answered(h)' /\ ~Between(h)' /\ Announced(h)' = Announced(h)
      BY <1>a, <2>2, <2>4, <3>5 DEF Written, Answered, Between, Announced, Observing
    <3>7. ASSUME NEW n, NEW k
          PROVE  /\ Cardinality(Of(Range(file), n, k)) \in Nat
                 /\ Cardinality(Of(Range(file) \cup {x}, n, k)) =
                       Cardinality(Of(Range(file), n, k)) + One(n = h /\ k = obs[h].kind)
                 /\ Of(Range(file) \cup {x}, n, k) = IF n = h /\ k = obs[h].kind
                                           THEN Of(Range(file), n, k) \cup {x} ELSE Of(Range(file), n, k)
      <4>1. IsFiniteSet(Range(file))
        BY <1>a DEF StoreInv
      <4>2. (x.node = n /\ x.kind = k) <=> (n = h /\ k = obs[h].kind)
        BY <3>1
      <4>3. /\ Cardinality(Of(Range(file), n, k)) \in Nat
            /\ x.node = n /\ x.kind = k =>
                  /\ Of(Range(file) \cup {x}, n, k) = Of(Range(file), n, k) \cup {x}
                  /\ Cardinality(Of(Range(file) \cup {x}, n, k)) = Cardinality(Of(Range(file), n, k)) + 1
            /\ ~(x.node = n /\ x.kind = k) => Of(Range(file) \cup {x}, n, k) = Of(Range(file), n, k)
        BY <3>3, <4>1, AddRecord
      <4>4. CASE n = h /\ k = obs[h].kind
        BY <4>2, <4>3, <4>4 DEF One
      <4>5. CASE ~(n = h /\ k = obs[h].kind)
        <5>1. Of(Range(file) \cup {x}, n, k) = Of(Range(file), n, k)
          BY <4>2, <4>3, <4>5
        <5> QED
          BY <4>3, <4>5, <5>1 DEF One
      <4> QED
        BY <4>4, <4>5
    <3>8. \A n, k : /\ Logged(n, k)' = Logged(n, k) + One(n = h /\ k = obs[h].kind)
                    /\ Logged(n, k) \in Nat
      BY <3>2, <3>7 DEF Logged
    <3>9. \A n : OutcomesIn(Range(file'), n) =
                    IF n = h /\ obs[h].kind = "outcome"
                    THEN OutcomesIn(Range(file), n) \cup {outcome[h]} ELSE OutcomesIn(Range(file), n)
      <4> TAKE n
      <4>1. Of(Range(file) \cup {x}, n, "outcome") = IF n = h /\ obs[h].kind = "outcome"
                                           THEN Of(Range(file), n, "outcome") \cup {x}
                                           ELSE Of(Range(file), n, "outcome")
        BY <3>7
      <4> QED
        BY <3>1, <3>2, <4>1 DEF OutcomesIn
    <3>10. Advertised(Range(file')) = Advertised(Range(file)) \cup obs[h].addrs
      BY <3>1, <3>2 DEF Advertised
    <3>11. StoreOf(h)'
      <4>1. StoreOf(h)
        BY <1>a, <2>2 DEF StoreInv
      <4>2. /\ Logged(h, "block") = valid[h]
            /\ h \notin lost =>
                  /\ advertised[h] = Logged(h, "block") + One(obs[h].kind = "block")
                  /\ malformed[h] = Logged(h, "malformed") + One(obs[h].kind = "malformed")
                  /\ OutcomesIn(Range(file), h) = {}
        BY <1>a, <2>2, <2>3, <4>1 DEF StoreOf, One
      <4>3. Announced(h) <=> obs[h].kind = "outcome"
        BY <2>2 DEF Announced, Observing
      <4>4. /\ Logged(h, "block")' = valid'[h] + One(obs'[h].kind = "block")
            /\ h \notin lost' =>
                  /\ advertised'[h] = Logged(h, "block")'
                  /\ malformed'[h] = Logged(h, "malformed")'
                  /\ OutcomesIn(Range(file'), h) = IF Announced(h) THEN {outcome'[h]} ELSE {}
            /\ obs'[h].addrs \subseteq Advertised(Range(file'))
        BY <1>a, <2>2, <2>4, <3>8, <3>9, <3>10, <4>2, <4>3 DEF One
      <4>5. pc'[h] # "count"
        BY <2>2
      <4> QED
        BY <2>2, <2>4, <3>6, <3>8, <4>4, <4>5 DEF StoreOf, One
    <3>12. ASSUME NEW m \in Nodes \ {h} PROVE StoreOf(m)'
      <4>1. StoreOf(m) /\ reply'[m] = reply[m] /\ UNCHANGED <<pc, obs, outcome, valid, advertised,
                                                              malformed, lost>>
        BY <1>a, <2>2, <2>4 DEF StoreInv
      <4>2. /\ Written(m)' = Written(m) /\ Answered(m)' = Answered(m)
            /\ Between(m)' = Between(m) /\ Announced(m)' = Announced(m)
        BY <4>1 DEF Written, Answered, Between, Announced, Observing
      <4>3. /\ \A k : Logged(m, k)' = Logged(m, k)
            /\ OutcomesIn(Range(file'), m) = OutcomesIn(Range(file), m)
            /\ Advertised(Range(file)) \subseteq Advertised(Range(file'))
        BY <3>8, <3>9, <3>10 DEF One
      <4> QED
        BY <4>1, <4>2, <4>3 DEF StoreOf
    <3> QED
      BY <1>a, <2>2, <3>2, <3>4, <3>10, <3>11, <3>12 DEF StoreInv
  <2>5. CASE /\ lost' = lost \cup {h} /\ file' = file
             /\ reply' = [reply EXCEPT ![h] = [ok |-> FALSE, id |-> 0]]
    <3>1. [ok |-> FALSE, id |-> 0] \in Reply
      BY DEF Reply
    <3>2. ~Written(h)'
      BY <1>a, <2>2, <2>5 DEF Written
    <3>3. StoreOf(h)'
      BY <1>a, <2>2, <2>3, <2>5, <3>2 DEF StoreInv, StoreOf, Logged
    <3>4. ASSUME NEW m \in Nodes \ {h} PROVE StoreOf(m)'
      <4>1. StoreOf(m) /\ reply'[m] = reply[m] /\ UNCHANGED <<pc, obs, outcome, valid, advertised,
                                                              malformed>>
        BY <1>a, <2>2, <2>5 DEF StoreInv
      <4>2. /\ Written(m)' = Written(m) /\ Answered(m)' = Answered(m)
            /\ Between(m)' = Between(m) /\ Announced(m)' = Announced(m)
        BY <4>1 DEF Written, Answered, Between, Announced, Observing
      <4> QED
        BY <2>5, <4>1, <4>2 DEF StoreOf, Logged
    <3> QED
      BY <1>a, <2>2, <2>5, <3>3, <3>4 DEF StoreInv
  <2> QED
    BY <2>h, <2>4, <2>5
<1>16. CASE WriterFlushes
  <2>1. \A m \in Nodes : reply'[m] = reply[m]
    BY <1>a, <1>16, Flushing
  <2> QED
    BY <1>b, <1>16, <2>1, Flushing
<1> QED
  BY <1>1, <1>2, <1>3, <1>4, <1>5, <1>6, <1>7, <1>8, <1>9, <1>10, <1>11, <1>12, <1>13, <1>14,
     <1>15, <1>16
  DEF Next, SessionStep, WriterStep, CheckpointStep, MainStep

LEMMA OutcomeStep ==
    ASSUME IInv, Next
    PROVE  OutcomeInv'
<1> USE DEF sessionVars, storeVars, barrierVars, logVars, diskVars, ckVars, mainVars,
            flagVars, historyVars, vars
<1>a. /\ OutcomeInv /\ LockInv /\ SessionInv
      /\ pc \in [Nodes -> SessionPc]
      /\ obs \in [Nodes -> Observed \cup {Nil}]
      /\ valid \in [Nodes -> Nat]
      /\ outcome \in [Nodes -> Outcomes \cup {"NotRequested"}]
      /\ file \in Seq(Record)
  BY Types DEF IInv, TypeOK
<1>b. \A r \in Range(file) : r.node \in Nodes
  <2>1. Range(file) \subseteq Record
    BY <1>a, RangeOfFile
  <2> QED
    BY <2>1 DEF Record
<1>c. ASSUME file' = file,
             \A m \in Nodes : Announced(m) =>
                Announced(m)' /\ outcome'[m] = outcome[m] /\ valid'[m] = valid[m],
             \A m \in Nodes : Announced(m)' /\ ~Announced(m) =>
                outcome'[m] = "LogFailed" \/ (outcome'[m] \in ValidOutcomes <=> valid'[m] > 0)
      PROVE  OutcomeInv'
  <2>1. ASSUME NEW m \in Nodes, Announced(m)'
        PROVE  outcome'[m] = "LogFailed" \/ (outcome'[m] \in ValidOutcomes <=> valid'[m] > 0)
    BY <1>a, <1>c, <2>1 DEF OutcomeInv
  <2>2. ASSUME NEW r \in Range(file'), r.kind = "outcome"
        PROVE  Announced(r.node)' /\ r.outcome = outcome'[r.node]
    BY <1>a, <1>b, <1>c, <2>2 DEF OutcomeInv
  <2> QED
    BY <2>1, <2>2 DEF OutcomeInv
<1>d. ASSUME UNCHANGED <<pc, obs, valid, outcome, file>>
      PROVE  OutcomeInv'
  BY <1>a, <1>d DEF OutcomeInv, Announced, Observing
<1>1. CASE
          \/ CkTick \/ CkStop \/ CkEnter \/ CkFlush \/ CkFlushed
          \/ CkFlushFails \/ CkCloned \/ CkWrite \/ EarlyStop \/ RunReturns
          \/ CheckpointStopped \/ FinalFlush \/ FinalFlushed \/ FinalWrite
          \/ Exited
  BY <1>d, <1>1 DEF CkTick, CkStop, CkEnter, CkFlush, CkFlushed, CkFlushFails, CkCloned,
     CkWrite, EarlyStop, RunReturns, CheckpointStopped, FinalFlush, FinalFlushed, FinalWrite,
        Exited
<1>2. ASSUME NEW n \in Nodes, CkClone(n)
      PROVE  OutcomeInv'
  BY <1>d, <1>2 DEF CkClone
<1>3. ASSUME NEW n \in Nodes, Start(n) PROVE OutcomeInv'
  <2>1. \A m \in Nodes : Announced(m)' <=> Announced(m)
    BY <1>a, <1>3 DEF Start, Goto, Observe, Announced, Observing, SessionInv, SessionOf, SessionPc
  <2>2. \A m \in Nodes : Announced(m) => outcome'[m] = outcome[m] /\ valid'[m] = valid[m]
    BY <1>a, <1>3 DEF Start, Announced, Observing, SessionInv, SessionOf
  <2> QED
    BY <1>c, <1>3, <2>1, <2>2 DEF Start
<1>4. ASSUME NEW n \in Nodes, Receive(n) PROVE OutcomeInv'
  <2>1. \A m \in Nodes : Announced(m)' <=> Announced(m)
    BY <1>a, <1>4 DEF Receive, Goto, Observe, Announced, Observing, SessionInv, SessionOf,
       SessionPc
  <2>2. \A m \in Nodes : Announced(m) => outcome'[m] = outcome[m] /\ valid'[m] = valid[m]
    BY <1>a, <1>4 DEF Receive, Announced, Observing, SessionInv, SessionOf
  <2> QED
    BY <1>c, <1>4, <2>1, <2>2 DEF Receive
<1>5. ASSUME NEW n \in Nodes, EndCollection(n) PROVE OutcomeInv'
  <2>1. \A m \in Nodes : Announced(m)' <=> Announced(m)
    BY <1>a, <1>5 DEF EndCollection, Goto, Observe, Announced, Observing, SessionInv,
       SessionOf, SessionPc
  <2>2. \A m \in Nodes : Announced(m) => outcome'[m] = outcome[m] /\ valid'[m] = valid[m]
    BY <1>a, <1>5 DEF EndCollection, Announced, Observing, SessionInv, SessionOf
  <2> QED
    BY <1>c, <1>5, <2>1, <2>2 DEF EndCollection
<1>6. ASSUME NEW n \in Nodes, RecordOutcome(n) PROVE OutcomeInv'
  <2>1. \A m \in Nodes : Announced(m)' <=> Announced(m)
    BY <1>a, <1>6 DEF RecordOutcome, Goto, Observe, Announced, Observing, SessionInv,
       SessionOf, SessionPc
  <2>2. \A m \in Nodes : Announced(m) => outcome'[m] = outcome[m] /\ valid'[m] = valid[m]
    BY <1>a, <1>6 DEF RecordOutcome, Announced, Observing, SessionInv, SessionOf
  <2> QED
    BY <1>c, <1>6, <2>1, <2>2 DEF RecordOutcome
<1>7. ASSUME NEW n \in Nodes, Enter(n) PROVE OutcomeInv'
  <2>1. /\ pc[n] = "barrier" /\ pc' = [pc EXCEPT ![n] = "lock"]
        /\ outcome' = [outcome EXCEPT ![n] = IF obs[n].kind = "outcome"
                                             THEN CollectionOutcome(ended[n], valid[n]) ELSE @]
        /\ UNCHANGED <<obs, valid, file>>
    BY <1>7 DEF Enter, Goto
  <2>2. ~Announced(n) /\ (Announced(n)' <=> obs[n].kind = "outcome")
    BY <1>a, <2>1 DEF Announced, Observing
  <2>3. \A m \in Nodes \ {n} : /\ Announced(m)' <=> Announced(m)
                               /\ outcome'[m] = outcome[m] /\ valid'[m] = valid[m]
    BY <1>a, <2>1 DEF Announced, Observing
  <2>4. obs[n].kind = "outcome" =>
           outcome'[n] = "LogFailed" \/ (outcome'[n] \in ValidOutcomes <=> valid'[n] > 0)
    <3> SUFFICES ASSUME obs[n].kind = "outcome"
                 PROVE  outcome'[n] = "LogFailed" \/ (outcome'[n] \in ValidOutcomes <=> valid'[n] > 0)
      OBVIOUS
    <3>1. /\ ended[n] \in Ends
          /\ ended[n] = "send" => valid[n] = 0
          /\ ended[n] = "reply" => valid[n] > 0
      BY <1>a, <2>1 DEF SessionInv, SessionOf, Ending
    <3>2. outcome'[n] = CollectionOutcome(ended[n], valid[n])
      BY <1>a, <2>1
    <3> QED
      BY <1>a, <2>1, <3>1, <3>2, OutcomeFacts
  <2> QED
    BY <1>c, <2>1, <2>2, <2>3, <2>4
<1>8. ASSUME NEW n \in Nodes, TakeId(n) PROVE OutcomeInv'
  <2>1. \A m \in Nodes : Announced(m)' <=> Announced(m)
    BY <1>a, <1>8 DEF TakeId, Goto, Observe, Announced, Observing, SessionInv, SessionOf,
       SessionPc
  <2>2. \A m \in Nodes : Announced(m) => outcome'[m] = outcome[m] /\ valid'[m] = valid[m]
    BY <1>a, <1>8 DEF TakeId, Announced, Observing, SessionInv, SessionOf
  <2> QED
    BY <1>c, <1>8, <2>1, <2>2 DEF TakeId
<1>9. ASSUME NEW n \in Nodes, SendAppend(n) PROVE OutcomeInv'
  <2>1. \A m \in Nodes : Announced(m)' <=> Announced(m)
    BY <1>a, <1>9 DEF SendAppend, Goto, Observe, Announced, Observing, SessionInv, SessionOf,
       SessionPc
  <2>2. \A m \in Nodes : Announced(m) => outcome'[m] = outcome[m] /\ valid'[m] = valid[m]
    BY <1>a, <1>9 DEF SendAppend, Announced, Observing, SessionInv, SessionOf
  <2> QED
    BY <1>c, <1>9, <2>1, <2>2 DEF SendAppend
<1>10. ASSUME NEW n \in Nodes, Acknowledged(n) PROVE OutcomeInv'
  <2>1. /\ pc[n] = "ack" /\ UNCHANGED <<obs, outcome, valid, file>>
        /\ pc' = [pc EXCEPT ![n] = CASE obs[n].kind = "block"     -> "count"
                                     [] obs[n].kind = "malformed" -> "closing"
                                     [] obs[n].kind = "outcome"   -> "finish"]
    BY <1>10 DEF Acknowledged, Goto
  <2>2. obs[n].kind \in Kinds
    BY <1>a, <2>1 DEF SessionInv, SessionOf, SessionPc, Observed
  <2>3. Announced(n)' <=> Announced(n)
    BY <1>a, <2>1, <2>2 DEF Announced, Observing, Kinds
  <2>4. \A m \in Nodes \ {n} : Announced(m)' <=> Announced(m)
    BY <1>a, <2>1 DEF Announced, Observing
  <2> QED
    BY <1>c, <2>1, <2>3, <2>4
<1>11. ASSUME NEW n \in Nodes, Refused(n) PROVE OutcomeInv'
  <2>1. \A m \in Nodes : Announced(m)' <=> Announced(m)
    BY <1>a, <1>11 DEF Refused, Goto, Observe, Announced, Observing, SessionInv, SessionOf,
       SessionPc
  <2>2. \A m \in Nodes : Announced(m) => outcome'[m] = outcome[m] /\ valid'[m] = valid[m]
    BY <1>a, <1>11 DEF Refused, Announced, Observing, SessionInv, SessionOf
  <2> QED
    BY <1>c, <1>11, <2>1, <2>2 DEF Refused
<1>12. ASSUME NEW n \in Nodes, MarkFailed(n) PROVE OutcomeInv'
  <2>1. \A m \in Nodes : Announced(m)' <=> Announced(m)
    BY <1>a, <1>12 DEF MarkFailed, Goto, Observe, Announced, Observing, SessionInv, SessionOf,
       SessionPc
  <2>2. \A m \in Nodes : Announced(m) => outcome'[m] = outcome[m] /\ valid'[m] = valid[m]
    BY <1>a, <1>12 DEF MarkFailed, Announced, Observing, SessionInv, SessionOf
  <2> QED
    BY <1>c, <1>12, <2>1, <2>2 DEF MarkFailed
<1>13. ASSUME NEW n \in Nodes, Count(n) PROVE OutcomeInv'
  <2>1. \A m \in Nodes : Announced(m)' <=> Announced(m)
    BY <1>a, <1>13 DEF Count, Goto, Observe, Announced, Observing, SessionInv, SessionOf,
       SessionPc
  <2>2. \A m \in Nodes : Announced(m) => outcome'[m] = outcome[m] /\ valid'[m] = valid[m]
    BY <1>a, <1>13 DEF Count, Announced, Observing, SessionInv, SessionOf
  <2> QED
    BY <1>c, <1>13, <2>1, <2>2 DEF Count
<1>14. ASSUME NEW n \in Nodes, Finish(n) PROVE OutcomeInv'
  <2>1. \A m \in Nodes : Announced(m)' <=> Announced(m)
    BY <1>a, <1>14 DEF Finish, Goto, Observe, Announced, Observing, SessionInv, SessionOf,
       SessionPc
  <2>2. \A m \in Nodes : Announced(m) => outcome'[m] = outcome[m] /\ valid'[m] = valid[m]
    BY <1>a, <1>14 DEF Finish, Announced, Observing, SessionInv, SessionOf
  <2> QED
    BY <1>c, <1>14, <2>1, <2>2 DEF Finish
<1>15. CASE WriterAppends
  <2>1. PICK h \in Nodes : h = lock
    BY <1>15, Appending
  <2>2. /\ pc[h] = "ack" /\ RecordOf(h) \in Record
        /\ UNCHANGED <<sessionVars, storeVars>>
        /\ file' = file \/ file' = Append(file, RecordOf(h))
    BY <1>15, <2>1, Appending
  <2>3. CASE file' = file
    BY <1>d, <2>2, <2>3
  <2>4. CASE file' = Append(file, RecordOf(h))
    <3>1. Range(file') = Range(file) \cup {RecordOf(h)}
      BY <1>a, <2>2, <2>4, RangeOfFile
    <3>2. RecordOf(h).node = h /\ RecordOf(h).kind = obs[h].kind /\ RecordOf(h).outcome = outcome[h]
      BY DEF RecordOf
    <3>3. RecordOf(h).kind = "outcome" => Announced(h)
      BY <2>2, <3>2 DEF Announced, Observing
    <3>4. \A m : Announced(m)' = Announced(m)
      BY <2>2 DEF Announced, Observing
    <3>5. \A r \in Range(file') : r.kind = "outcome" =>
             Announced(r.node) /\ r.outcome = outcome[r.node]
      BY <1>a, <3>1, <3>2, <3>3 DEF OutcomeInv
    <3> QED
      BY <1>a, <2>2, <3>4, <3>5 DEF OutcomeInv
  <2> QED
    BY <2>2, <2>3, <2>4
<1>16. CASE WriterFlushes
  BY <1>d, <1>16, Flushing
<1> QED
  BY <1>1, <1>2, <1>3, <1>4, <1>5, <1>6, <1>7, <1>8, <1>9, <1>10, <1>11, <1>12, <1>13, <1>14,
     <1>15, <1>16
  DEF Next, SessionStep, WriterStep, CheckpointStep, MainStep

-----------------------------------------------------------------------------
(* What a watermark covers *)

(* While the checkpoint clones, and once main has stopped it, nothing is   *)
(* on its way to the file.                                                 *)
LEMMA Idle ==
    ASSUME IInv, ck = "clone" \/ phase \in {"flush", "write", "exited"}
    PROVE  /\ lock = Nil /\ commands = <<>>
           /\ \A n \in Nodes : ~Observing(n)
           /\ ~WriterAppends /\ ~WriterFlushes
<1>1. \A n \in Nodes : ~Observing(n)
  <2>1. CASE ck = "clone"
    BY <2>1 DEF IInv, BarrierInv
  <2>2. CASE phase \in {"flush", "write", "exited"}
    BY <2>2 DEF IInv, MainInv, Observing
  <2> QED
    BY <2>1, <2>2
<1>2. lock \notin Nodes
  BY <1>1 DEF Observing, IInv, LockInv
<1>3. ck # "ack" /\ phase # "ack"
  BY DEF IInv, MainInv
<1>4. lock = Nil
  BY <1>2, <1>3, Types DEF IInv, LockInv, Actors
<1>5. commands = <<>>
  BY <1>4 DEF IInv, LockInv
<1> QED
  BY <1>1, <1>4, <1>5 DEF WriterAppends, WriterFlushes

(* The file and its durable part only grow, by records beyond any          *)
(* watermark.                                                              *)
LEMMA Grows ==
    ASSUME IInv, WriterAppends \/ WriterFlushes
    PROVE  /\ lastId <= lastId' /\ lost \subseteq lost'
           /\ \A m \in Nat : Synced(m) => UpTo(m)' = UpTo(m) /\ Synced(m)'
<1>a. /\ file \in Seq(Record) /\ Len(file) \in Nat
      /\ synced \in 0..Len(file) /\ nextId \in Nat /\ lastId \in Nat
  BY LenProperties DEF IInv, TypeOK
<1>1. CASE file' = file /\ lastId' = lastId
  <2>1. lost \subseteq lost' /\ (synced' = synced \/ synced' \in synced..Len(file))
    <3>1. CASE WriterAppends
      <4>1. synced' = synced /\ \E h : lost' = lost \/ lost' = lost \cup {h}
        BY <3>1, Appending
      <4> QED
        BY <4>1
    <3>2. CASE WriterFlushes
      <4>1. lost' = lost /\ (synced' = Len(file) \/ synced' \in synced..Len(file))
        BY <3>2, Flushing
      <4> QED
        BY <1>a, <4>1
    <3> QED
      BY <1>a, <3>1, <3>2
  <2>2. \A m : UpTo(m)' = UpTo(m)
    BY <1>1 DEF UpTo
  <2>3. \A m \in Nat : Synced(m) => Synced(m)'
    BY <1>a, <1>1, <2>1 DEF Synced
  <2> QED
    BY <1>a, <1>1, <2>1, <2>2, <2>3
<1>2. CASE ~(file' = file /\ lastId' = lastId)
  <2>1. WriterAppends
    BY <1>2, Flushing
  <2>2. PICK h \in Nodes : h = lock
    BY <2>1, Appending
  <2>3. /\ RecordOf(h) \in Record /\ file' = Append(file, RecordOf(h)) /\ lastId' = nextId - 1
        /\ reply[h] = Nil /\ lost' = lost /\ synced' = synced
    BY <1>2, <2>1, <2>2, Appending
  <2>4. RecordOf(h).id = nextId - 1
    BY DEF RecordOf
  <2>5. lastId < nextId - 1
    BY <2>2, <2>3 DEF IInv, FileInv, Numbering, Pending
  <2>6. /\ Range(file') = Range(file) \cup {RecordOf(h)}
        /\ Len(file') = Len(file) + 1
        /\ \A i \in 1..Len(file) : file'[i] = file[i]
        /\ file'[Len(file) + 1] = RecordOf(h)
    BY <1>a, <2>3, RangeOfFile, AppendProperties
  <2>7. ASSUME NEW m \in Nat, Synced(m) PROVE UpTo(m)' = UpTo(m)
    BY <1>a, <2>4, <2>5, <2>6, <2>7 DEF UpTo, Synced
  <2>8. ASSUME NEW m \in Nat, Synced(m) PROVE Synced(m)'
    <3> SUFFICES ASSUME NEW i \in 1..Len(file'), file'[i].id <= m
                 PROVE  i <= synced
      BY <1>a, <2>3, <2>5, <2>8 DEF Synced
    <3>1. i # Len(file) + 1
      BY <1>a, <2>4, <2>5, <2>6, <2>8 DEF Synced
    <3>2. i \in 1..Len(file) /\ file[i].id <= m
      BY <1>a, <2>6, <3>1
    <3> QED
      BY <2>8, <3>2 DEF Synced
  <2> QED
    BY <1>a, <2>3, <2>5, <2>7, <2>8
<1> QED
  BY <1>1, <1>2

(* After a flush the watermark covers the whole file.                      *)
LEMMA CaughtUp ==
    ASSUME IInv, NEW m \in Nat, Caught(m)
    PROVE  UpTo(m) = Range(file) /\ Synced(m)
<1>1. file \in Seq(Record) /\ Len(file) \in Nat
  BY LenProperties DEF IInv, TypeOK
<1>2. \A i \in 1..Len(file) : file[i].id <= m
  BY DEF IInv, FileInv, Numbering, Caught
<1>3. UpTo(m) = Range(file)
  BY <1>1, <1>2, RangeOfFile DEF UpTo
<1>4. Synced(m)
  BY <1>1 DEF Synced, Caught, IInv, TypeOK
<1> QED
  BY <1>3, <1>4

(* A node's aggregates, outside of an observation, are those of the file.  *)
LEMMA CloneMatches ==
    ASSUME IInv, NEW n \in Nodes, ~Observing(n)
    PROVE  /\ Matches(ShotOf(n), n, Range(file))
           /\ Lags(ShotOf(n), n, Range(file))
           /\ pc[n] # "count" => ShotOf(n).valid = Cardinality(Of(Range(file), n, "block"))
<1> DEFINE s == ShotOf(n)
<1>1. /\ s.advertised = advertised[n] /\ s.malformed = malformed[n] /\ s.valid = valid[n]
      /\ s.outcome = outcome[n] /\ s.finished = (n \in finished)
  BY DEF ShotOf
<1>2. StoreOf(n) /\ SessionOf(n)
  BY DEF IInv, StoreInv, SessionInv
<1>3. ~Between(n) /\ ~Written(n)
  BY DEF Between, Written, Answered, Observing
<1>4. \A k : Logged(n, k) \in Nat
  <2> TAKE k
  <2>1. IsFiniteSet(Of(Range(file), n, k))
    BY FS_Subset DEF IInv, StoreInv, Of
  <2> QED
    BY <2>1, FS_CardinalityType DEF Logged
<1>5. valid[n] \in Nat
  BY DEF IInv, TypeOK
<1>6. /\ pc[n] # "count" => valid[n] = Logged(n, "block")
      /\ pc[n] = "count" => valid[n] = Logged(n, "block") - 1
  BY <1>2, <1>3, <1>4, <1>5 DEF StoreOf, One
<1>7. n \notin lost =>
        /\ advertised[n] = Logged(n, "block") /\ malformed[n] = Logged(n, "malformed")
        /\ OutcomesIn(Range(file), n) = IF Announced(n) THEN {outcome[n]} ELSE {}
  BY <1>2, <1>3, <1>4 DEF StoreOf, One
<1>8. (outcome[n] # "NotRequested" <=> Announced(n)) /\ (n \in finished => Announced(n))
  BY <1>2 DEF SessionOf, Announced
<1> HIDE DEF s
<1>9. Matches(s, n, Range(file))
  BY <1>1, <1>7, <1>8 DEF Matches, Logged
<1>10. Lags(s, n, Range(file)) /\ (pc[n] # "count" => s.valid = Logged(n, "block"))
  BY <1>1, <1>6 DEF Lags, Logged
<1> QED
  BY <1>9, <1>10 DEF s, Logged

LEMMA SnapshotStep ==
    ASSUME IInv, Next
    PROVE  SnapshotInv'
<1> USE DEF sessionVars, storeVars, barrierVars, logVars, diskVars, ckVars, mainVars,
            flagVars, historyVars, vars
<1>a. /\ SnapshotInv /\ LockInv
      /\ shot \in [Nodes -> Shot \cup {Nil}]
      /\ mark \in Nat /\ lastId \in Nat
  BY Types DEF IInv, TypeOK
<1>b. ASSUME UNCHANGED <<file, synced, lastId, lost, ck, mark, shot, shotKnown>>
      PROVE  SnapshotInv'
  BY <1>a, <1>b DEF SnapshotInv, Caught, Synced, UpTo, Matches, Lags
<1>c. ASSUME ck' \notin {"clone", "write"}, \A n \in Nodes : shot'[n] = Nil
      PROVE  SnapshotInv'
  BY <1>c DEF SnapshotInv
<1>d. ASSUME WriterAppends \/ WriterFlushes
      PROVE  SnapshotInv'
  <2>1. ck # "clone" /\ UNCHANGED <<ck, shot, shotKnown, mark>>
    BY <1>d, Idle, Appending, Flushing
  <2>2. CASE ck = "write"
    <3>1. Synced(mark) /\ lost \subseteq lost'
      BY <1>a, <1>d, <2>2, Grows DEF SnapshotInv
    <3>2. UpTo(mark)' = UpTo(mark) /\ Synced(mark)'
      <4>1. PICK m \in Nat : m = mark
        BY <1>a
      <4>2. UpTo(m)' = UpTo(m) /\ Synced(m)'
        BY <1>d, <3>1, <4>1, Grows
      <4> QED
        BY <2>1, <4>1, <4>2 DEF UpTo, Synced
    <3> QED
      BY <1>a, <2>1, <2>2, <3>1, <3>2 DEF SnapshotInv, Matches, Lags
  <2>3. CASE ck # "write"
    BY <1>a, <1>c, <2>1, <2>3 DEF SnapshotInv
  <2> QED
    BY <2>2, <2>3
<1>1. ASSUME NEW n \in Nodes,
          \/ Start(n) \/ Receive(n) \/ EndCollection(n) \/ RecordOutcome(n)
          \/ Enter(n) \/ TakeId(n) \/ SendAppend(n) \/ Acknowledged(n)
          \/ Refused(n) \/ MarkFailed(n) \/ Count(n) \/ Finish(n)
      PROVE  SnapshotInv'
  BY <1>b, <1>1 DEF Start, Receive, EndCollection, RecordOutcome, Enter, TakeId, SendAppend,
     Acknowledged, Refused, MarkFailed, Count, Finish
<1>2. CASE
          \/ EarlyStop \/ RunReturns \/ CheckpointStopped \/ FinalFlush
          \/ FinalFlushed \/ FinalWrite \/ Exited
  BY <1>b, <1>2 DEF EarlyStop, RunReturns, CheckpointStopped, FinalFlush, FinalFlushed,
     FinalWrite, Exited
<1>3. CASE WriterAppends
  BY <1>d, <1>3
<1>4. CASE WriterFlushes
  BY <1>d, <1>4
<1>5. CASE CkTick
  BY <1>a, <1>c, <1>5 DEF CkTick, SnapshotInv
<1>6. CASE CkStop
  BY <1>a, <1>c, <1>6 DEF CkStop, SnapshotInv
<1>7. CASE CkEnter
  BY <1>a, <1>c, <1>7 DEF CkEnter, SnapshotInv
<1>8. CASE CkFlush
  BY <1>a, <1>c, <1>8 DEF CkFlush, SnapshotInv
<1>9. CASE CkFlushed
  <2>1. /\ ck = "ack" /\ ck' = "clone" /\ reply[Ckpt] # Nil /\ reply[Ckpt].ok /\ mark' = reply[Ckpt].id
        /\ UNCHANGED <<file, synced, lastId, lost, shot>>
    BY <1>9 DEF CkFlushed, TakeReply
  <2>2. Caught(mark)'
    BY <2>1 DEF Caught, IInv, FileInv, FlushAnswer
  <2>3. \A n \in Nodes : shot'[n] = Nil
    BY <1>a, <2>1 DEF SnapshotInv
  <2> QED
    BY <2>1, <2>2, <2>3 DEF SnapshotInv
<1>10. CASE CkFlushFails
  BY <1>a, <1>c, <1>10 DEF CkFlushFails, SnapshotInv
<1>11. ASSUME NEW n \in Nodes, CkClone(n) PROVE SnapshotInv'
  <2>1. /\ ck = "clone" /\ shot' = [shot EXCEPT ![n] = ShotOf(n)]
        /\ UNCHANGED <<file, synced, lastId, lost, ck, mark, shotKnown>>
    BY <1>11 DEF CkClone
  <2>2. Matches(ShotOf(n), n, Range(file)) /\ Lags(ShotOf(n), n, Range(file))
    BY <2>1, Idle, CloneMatches
  <2>3. /\ shot'[n] = ShotOf(n)
        /\ \A m \in Nodes \ {n} : shot'[m] = shot[m]
    BY <1>a, <2>1
  <2>4. ASSUME NEW m \in Nodes, shot'[m] # Nil
        PROVE  Matches(shot'[m], m, Range(file)) /\ Lags(shot'[m], m, Range(file))
    BY <1>a, <2>1, <2>2, <2>3, <2>4 DEF SnapshotInv
  <2>5. ASSUME NEW m \in Nodes, shot'[m] # Nil
        PROVE  (Matches(shot[m], m, Range(file)) /\ Lags(shot[m], m, Range(file)))'
    BY <2>1, <2>4, <2>5 DEF Matches, Lags
  <2> QED
    BY <1>a, <2>1, <2>5 DEF SnapshotInv, Caught
<1>12. CASE CkCloned
  <2>1. /\ ck = "clone" /\ ck' = "write" /\ shotKnown' = known
        /\ \A n \in Nodes : shot[n] # Nil
        /\ UNCHANGED <<file, synced, lastId, lost, shot, mark>>
    BY <1>12 DEF CkCloned
  <2>2. Caught(mark) /\ \A n \in Nodes : Matches(shot[n], n, Range(file)) /\ Lags(shot[n], n,
     Range(file))
    BY <1>a, <2>1 DEF SnapshotInv
  <2>3. UpTo(mark) = Range(file) /\ Synced(mark)
    BY <1>a, <2>2, CaughtUp
  <2>4. known \ Seeds \subseteq Advertised(Range(file))
    BY DEF IInv, StoreInv
  <2>5. UpTo(mark)' = UpTo(mark) /\ Synced(mark)'
    BY <2>1, <2>3 DEF UpTo, Synced
  <2> QED
    BY <2>1, <2>2, <2>3, <2>4, <2>5 DEF SnapshotInv, Matches, Lags
<1>13. CASE CkWrite
  BY <1>c, <1>13 DEF CkWrite
<1> QED
  BY <1>1, <1>2, <1>3, <1>4, <1>5, <1>6, <1>7, <1>8, <1>9, <1>10, <1>11, <1>12, <1>13
  DEF Next, SessionStep, WriterStep, CheckpointStep, MainStep

LEMMA ManifestStep ==
    ASSUME IInv, Next
    PROVE  ManifestInv'
<1> USE DEF sessionVars, storeVars, barrierVars, logVars, diskVars, ckVars, mainVars,
            flagVars, historyVars, vars
<1>a. /\ ManifestInv /\ SnapshotInv /\ MainInv
      /\ manifest \in Manifest \cup {Nil}
      /\ mark \in Nat /\ lastId \in Nat /\ Nil \notin Nat
      /\ finalMark \in Nat \cup {Nil}
  BY Types, ObservationAssumption DEF IInv, TypeOK
<1>b. ASSUME UNCHANGED <<manifest, file, synced, lastId, lost>>,
             phase = "exited" => phase' = "exited",
             ck' \in {"clone", "write"} => ck \in {"clone", "write"} /\ mark' = mark
      PROVE  ManifestInv'
  BY <1>a, <1>b DEF ManifestInv, Published, Synced, UpTo, Matches, Lags
<1>d. ASSUME WriterAppends \/ WriterFlushes
      PROVE  ManifestInv'
  <2>1. UNCHANGED <<manifest, phase, ck, mark>> /\ phase # "exited"
    BY <1>d, Idle, Appending, Flushing
  <2>2. CASE manifest = Nil
    BY <2>1, <2>2 DEF ManifestInv, Published
  <2>3. CASE manifest # Nil
    <3>1. /\ manifest.final = FALSE /\ manifest.complete = FALSE /\ manifest.mark \in Nat
          /\ Published
      BY <1>a, <2>1, <2>3 DEF ManifestInv, Manifest, Published
    <3>2. PICK m \in Nat : m = manifest.mark
      BY <3>1
    <3>3. Synced(m) /\ Synced(m)' /\ UpTo(m)' = UpTo(m) /\ lost \subseteq lost'
      <4>1. Synced(m)
        BY <1>a, <3>1, <3>2 DEF ManifestInv
      <4> QED
        BY <1>d, <4>1, Grows
    <3>4. Synced(manifest.mark)' /\ UpTo(manifest.mark)' = UpTo(manifest.mark)
      BY <2>1, <3>2, <3>3 DEF Synced, UpTo
    <3> QED
      BY <1>a, <2>1, <2>3, <3>1, <3>3, <3>4 DEF ManifestInv, Published, Matches, Lags
  <2> QED
    BY <2>2, <2>3
<1>1. ASSUME NEW n \in Nodes,
          \/ Start(n) \/ Receive(n) \/ EndCollection(n) \/ RecordOutcome(n)
          \/ Enter(n) \/ TakeId(n) \/ SendAppend(n) \/ Acknowledged(n)
          \/ Refused(n) \/ MarkFailed(n) \/ Count(n) \/ Finish(n)
      PROVE  ManifestInv'
  BY <1>b, <1>1 DEF Start, Receive, EndCollection, RecordOutcome, Enter, TakeId, SendAppend,
     Acknowledged, Refused, MarkFailed, Count, Finish, TakeReply
<1>2. CASE
          \/ EarlyStop \/ RunReturns \/ CheckpointStopped \/ FinalFlush
          \/ FinalFlushed \/ Exited \/ CkTick \/ CkStop \/ CkEnter \/ CkFlush
          \/ CkFlushFails \/ CkCloned
  BY <1>b, <1>2 DEF EarlyStop, RunReturns, CheckpointStopped, FinalFlush, FinalFlushed, Exited,
     CkTick, CkStop, CkEnter, CkFlush, CkFlushFails, CkCloned, TakeReply
<1>3. ASSUME NEW n \in Nodes, CkClone(n)
      PROVE  ManifestInv'
  BY <1>b, <1>3 DEF CkClone, TakeReply
<1>4. CASE WriterAppends
  BY <1>d, <1>4
<1>5. CASE WriterFlushes
  BY <1>d, <1>5
<1>6. CASE CkFlushed
  <2>1. /\ ck = "ack" /\ ck' = "clone" /\ mark' = reply[Ckpt].id
        /\ reply[Ckpt] # Nil /\ reply[Ckpt].ok
        /\ UNCHANGED <<manifest, file, synced, lastId, lost, phase>>
    BY <1>6 DEF CkFlushed, TakeReply
  <2>2. mark' = lastId
    BY <2>1 DEF IInv, FileInv, FlushAnswer
  <2>3. phase # "exited"
    BY <1>a, <2>1 DEF MainInv
  <2>4. manifest # Nil => manifest.mark <= mark'
    BY <1>a, <2>2, <2>3 DEF ManifestInv, Published, Synced
  <2> QED
    BY <1>a, <2>1, <2>4 DEF ManifestInv, Published, Synced, UpTo, Matches, Lags
<1>7. CASE CkWrite
  <2>1. /\ ck = "write" /\ ck' = "tick"
        /\ UNCHANGED <<file, synced, lastId, lost, phase>>
    BY <1>7 DEF CkWrite
  <2>2. CASE manifest' = manifest
    BY <1>b, <2>1, <2>2
  <2>3. CASE manifest' = [final |-> FALSE, complete |-> FALSE, mark |-> mark, nodes |-> shot,
                          known |-> shotKnown]
    <3>1. /\ manifest'.final = FALSE /\ manifest'.complete = FALSE /\ manifest'.mark = mark
          /\ manifest'.nodes = shot /\ manifest'.known = shotKnown /\ mark # Nil
      BY <1>a, <2>3
    <3>2. UpTo(manifest.mark)' = UpTo(mark) /\ Synced(manifest.mark)'
      BY <1>a, <2>1, <3>1 DEF UpTo, Synced, SnapshotInv
    <3> QED
      BY <1>a, <2>1, <3>1, <3>2 DEF ManifestInv, SnapshotInv, Published, Matches, Lags
  <2> QED
    BY <1>7, <2>2, <2>3 DEF CkWrite
<1>8. CASE FinalWrite
  <2>1. /\ phase = "write" /\ phase' = "exited" /\ ck = "gone" /\ ck' = ck
        /\ UNCHANGED <<file, synced, lastId, lost>>
    BY <1>a, <1>8 DEF FinalWrite, MainInv
  <2>2. CASE manifest' = manifest
    BY <1>b, <2>1, <2>2
  <2>3. CASE manifest' = [final |-> TRUE, complete |-> RunComplete, mark |-> finalMark,
                          nodes |-> [n \in Nodes |-> ShotOf(n)], known |-> known]
    <3>1. /\ manifest'.final = TRUE /\ manifest'.complete = RunComplete
          /\ manifest'.mark = finalMark /\ manifest'.known = known
          /\ \A n \in Nodes : manifest'.nodes[n] = ShotOf(n)
      BY <2>3
    <3>2. \A n \in Nodes : pc[n] \in {"idle", "done"} /\ ~Observing(n)
      BY <1>a, <2>1 DEF MainInv, Observing
    <3>3. \A n \in Nodes :
             /\ Matches(ShotOf(n), n, Range(file))
             /\ ShotOf(n).valid = Cardinality(Of(Range(file), n, "block"))
      BY <3>2, CloneMatches
    <3>4. finalMark # Nil => /\ UpTo(manifest.mark)' = Range(file)
                             /\ Synced(manifest.mark)' /\ synced = Len(file)
      <4> SUFFICES ASSUME finalMark # Nil
                   PROVE  UpTo(manifest.mark)' = Range(file) /\ Synced(manifest.mark)'
                          /\ synced = Len(file)
        OBVIOUS
      <4>1. PICK m \in Nat : m = finalMark
        BY <1>a
      <4>2. Caught(m)
        BY <1>a, <2>1, <4>1 DEF MainInv
      <4>3. UpTo(m) = Range(file) /\ Synced(m) /\ synced = Len(file)
        BY <4>2, CaughtUp DEF Caught
      <4> QED
        BY <2>1, <3>1, <4>1, <4>3 DEF UpTo, Synced
    <3>5. known \ Seeds \subseteq Advertised(Range(file))
      BY DEF IInv, StoreInv
    <3>6. RunComplete => /\ lost = {} /\ synced = Len(file)
                         /\ \A n \in Nodes : manifest'.nodes[n].finished
      <4>1. RunComplete => runOk /\ finalMark # Nil /\ \A n \in Nodes : pc[n] = "done"
        BY <1>a, <2>1 DEF RunComplete, MainInv
      <4>2. \A n \in Nodes : pc[n] = "done" => ShotOf(n).finished
        BY DEF IInv, SessionInv, SessionOf, ShotOf
      <4>3. RunComplete => lost = {}
        BY <1>a, <2>1, <4>1 DEF MainInv
      <4> QED
        BY <3>1, <3>4, <4>1, <4>2, <4>3
    <3>7. Published' => finalMark # Nil
      BY <3>1 DEF Published
    <3>8. Published' =>
             /\ Synced(manifest.mark)'
             /\ \A n \in Nodes :
                   /\ Matches(manifest.nodes[n], n, UpTo(manifest.mark))'
                   /\ (manifest.nodes[n].valid = Cardinality(Of(UpTo(manifest.mark), n, "block")))'
             /\ (manifest.known \ Seeds \subseteq Advertised(UpTo(manifest.mark)))'
      BY <2>1, <3>1, <3>3, <3>4, <3>5, <3>7 DEF Matches
    <3> QED
      BY <1>a, <2>1, <3>1, <3>6, <3>8 DEF ManifestInv
  <2> QED
    BY <1>8, <2>2, <2>3 DEF FinalWrite
<1> QED
  BY <1>1, <1>2, <1>3, <1>4, <1>5, <1>6, <1>7, <1>8
  DEF Next, SessionStep, WriterStep, CheckpointStep, MainStep

LEMMA MainStepInv ==
    ASSUME IInv, Next
    PROVE  MainInv'
<1> USE DEF sessionVars, storeVars, barrierVars, logVars, diskVars, ckVars, mainVars,
            flagVars, historyVars, vars
<1>a. /\ MainInv /\ LockInv
      /\ pc \in [Nodes -> SessionPc]
      /\ obs \in [Nodes -> Observed \cup {Nil}]
      /\ reply \in [Actors -> Reply \cup {Nil}]
      /\ lost \subseteq Nodes /\ Nodes \subseteq Actors
      /\ Ckpt \in Actors /\ Main \in Actors /\ Ckpt \notin Nodes /\ Main \notin Nodes
      /\ phase \in {"running", "stopping", "flush", "ack", "write", "exited"}
      /\ \A r \in Reply : r # Nil
  BY Types, ObservationAssumption DEF IInv, TypeOK
<1>1. ASSUME NEW n \in Nodes, Start(n) PROVE MainInv'
  BY <1>a, <1>1 DEF Start, MainInv, Written, Answered, Caught, Goto, Observe, TakeReply, LockInv
<1>2. ASSUME NEW n \in Nodes, Receive(n) PROVE MainInv'
  BY <1>a, <1>2 DEF Receive, MainInv, Written, Answered, Caught, Goto, Observe, TakeReply, LockInv
<1>3. ASSUME NEW n \in Nodes, EndCollection(n) PROVE MainInv'
  BY <1>a, <1>3 DEF EndCollection, MainInv, Written, Answered, Caught, Goto, Observe,
     TakeReply, LockInv
<1>4. ASSUME NEW n \in Nodes, RecordOutcome(n) PROVE MainInv'
  BY <1>a, <1>4 DEF RecordOutcome, MainInv, Written, Answered, Caught, Goto, Observe,
     TakeReply, LockInv
<1>5. ASSUME NEW n \in Nodes, Enter(n) PROVE MainInv'
  BY <1>a, <1>5 DEF Enter, MainInv, Written, Answered, Caught, Goto, Observe, TakeReply, LockInv
<1>6. ASSUME NEW n \in Nodes, TakeId(n) PROVE MainInv'
  BY <1>a, <1>6 DEF TakeId, MainInv, Written, Answered, Caught, Goto, Observe, TakeReply, LockInv
<1>7. ASSUME NEW n \in Nodes, SendAppend(n) PROVE MainInv'
  BY <1>a, <1>7 DEF SendAppend, MainInv, Written, Answered, Caught, Goto, Observe, TakeReply,
     LockInv
<1>8. ASSUME NEW n \in Nodes, Acknowledged(n) PROVE MainInv'
  <2>1. /\ pc[n] = "ack" /\ reply[n] # Nil /\ reply[n].ok
        /\ \E l : pc' = [pc EXCEPT ![n] = l]
        /\ reply' = [reply EXCEPT ![n] = Nil]
        /\ UNCHANGED <<ck, phase, runOk, early, finalMark, lost, outputFailed, file, synced, lastId>>
    BY <1>a, <1>8 DEF Acknowledged, Goto, TakeReply
  <2> QED
    BY <1>a, <2>1 DEF MainInv, Written, Answered, Caught
<1>9. ASSUME NEW n \in Nodes, Refused(n) PROVE MainInv'
  BY <1>a, <1>9 DEF Refused, MainInv, Written, Answered, Caught, Goto, Observe, TakeReply, LockInv
<1>10. ASSUME NEW n \in Nodes, MarkFailed(n) PROVE MainInv'
  BY <1>a, <1>10 DEF MarkFailed, MainInv, Written, Answered, Caught, Goto, Observe, TakeReply,
     LockInv
<1>11. ASSUME NEW n \in Nodes, Count(n) PROVE MainInv'
  BY <1>a, <1>11 DEF Count, MainInv, Written, Answered, Caught, Goto, Observe, TakeReply, LockInv
<1>12. ASSUME NEW n \in Nodes, Finish(n) PROVE MainInv'
  BY <1>a, <1>12 DEF Finish, MainInv, Written, Answered, Caught, Goto, Observe, TakeReply, LockInv
<1>13. CASE WriterAppends
  <2>1. PICK h \in Nodes : h = lock
    BY <1>13, Appending
  <2>2. /\ pc[h] = "ack" /\ reply[h] = Nil
        /\ UNCHANGED <<ck, phase, runOk, early, finalMark, outputFailed, pc>>
    BY <1>13, <2>1, Appending
  <2>3. phase = "running"
    BY <1>a, <2>2 DEF MainInv
  <2>4. \/ /\ lost' = lost
           /\ reply' = [reply EXCEPT ![h] = [ok |-> TRUE, id |-> nextId - 1]]
        \/ /\ lost' = lost \cup {h}
           /\ reply' = [reply EXCEPT ![h] = [ok |-> FALSE, id |-> 0]]
    BY <1>13, <2>1, Appending
  <2>5. [ok |-> FALSE, id |-> 0] \in Reply
    BY DEF Reply
  <2>6. /\ h \in lost => outputFailed
        /\ \A n \in lost \ {h} : outputFailed \/ pc[n] = "failed" \/ (Answered(n) /\ ~Written(n))
    BY <1>a, <2>2 DEF MainInv, Answered
  <2>7. ASSUME NEW n \in lost'
        PROVE  outputFailed' \/ pc'[n] = "failed" \/ (Answered(n)' /\ ~Written(n)')
    <3>1. CASE n = h
      <4>1. CASE lost' = lost
        BY <2>2, <2>6, <2>7, <3>1, <4>1
      <4>2. CASE reply' = [reply EXCEPT ![h] = [ok |-> FALSE, id |-> 0]]
        <5>1. reply'[h] = [ok |-> FALSE, id |-> 0]
          BY <1>a, <4>2
        <5>2. reply'[h] # Nil
          BY <1>a, <2>5, <5>1
        <5>3. reply'[h].ok = FALSE
          BY <5>1
        <5>4. pc'[h] = "ack"
          BY <2>2
        <5> QED
          BY <3>1, <5>2, <5>3, <5>4 DEF Answered, Written
      <4> QED
        BY <2>4, <4>1, <4>2
    <3>2. CASE n # h
      BY <1>a, <2>2, <2>4, <2>6, <2>7, <3>2 DEF Answered, Written
    <3> QED
      BY <3>1, <3>2
  <2> QED
    BY <1>a, <2>2, <2>3, <2>7 DEF MainInv
<1>14. CASE WriterFlushes
  <2>1. phase # "write" /\ UNCHANGED <<ck, phase, runOk, early, finalMark, lost, outputFailed, pc>>
    BY <1>14, Idle, Flushing
  <2>2. \A n \in Nodes : reply'[n] = reply[n]
    BY <1>a, <1>14, Flushing
  <2> QED
    BY <1>a, <2>1, <2>2 DEF MainInv, Written, Answered
<1>15. CASE CkTick
  BY <1>a, <1>15 DEF CkTick, MainInv, Written, Answered, Caught, TakeReply, SendFlush
<1>16. CASE CkStop
  BY <1>a, <1>16 DEF CkStop, MainInv, Written, Answered, Caught, TakeReply, SendFlush
<1>17. CASE CkEnter
  BY <1>a, <1>17 DEF CkEnter, MainInv, Written, Answered, Caught, TakeReply, SendFlush
<1>18. CASE CkFlush
  BY <1>a, <1>18 DEF CkFlush, MainInv, Written, Answered, Caught, TakeReply, SendFlush
<1>19. CASE CkFlushed
  BY <1>a, <1>19 DEF CkFlushed, MainInv, Written, Answered, Caught, TakeReply, SendFlush
<1>20. CASE CkFlushFails
  BY <1>a, <1>20 DEF CkFlushFails, MainInv, Written, Answered, Caught, TakeReply, SendFlush
<1>21. ASSUME NEW n \in Nodes, CkClone(n) PROVE MainInv'
  BY <1>a, <1>21 DEF CkClone, MainInv, Written, Answered, Caught, TakeReply, SendFlush
<1>22. CASE CkCloned
  BY <1>a, <1>22 DEF CkCloned, MainInv, Written, Answered, Caught, TakeReply, SendFlush
<1>23. CASE CkWrite
  BY <1>a, <1>23 DEF CkWrite, MainInv, Written, Answered, Caught, TakeReply, SendFlush
<1>24. CASE EarlyStop
  BY <1>a, <1>24 DEF EarlyStop, MainInv, Written, Answered, Caught, TakeReply, SendFlush
<1>25. CASE RunReturns
  <2>1. /\ phase = "running" /\ phase' = "stopping" /\ runOk' = ~outputFailed
        /\ \A n \in Nodes : pc[n] = "done" \/ (early /\ pc[n] = "idle")
        /\ UNCHANGED <<ck, early, lost, outputFailed, pc, reply>>
    BY <1>25 DEF RunReturns
  <2>2. runOk' => lost' = {}
    BY <1>a, <2>1 DEF MainInv, Answered
  <2> QED
    BY <1>a, <2>1, <2>2 DEF MainInv, Written, Answered
<1>26. CASE CheckpointStopped
  BY <1>a, <1>26 DEF CheckpointStopped, MainInv, Written, Answered, Caught, TakeReply, SendFlush
<1>27. CASE FinalFlush
  BY <1>a, <1>27 DEF FinalFlush, MainInv, Written, Answered, Caught, TakeReply, SendFlush
<1>28. CASE FinalFlushed
  <2>1. /\ phase = "ack" /\ phase' = "write" /\ reply[Main] # Nil
        /\ reply' = [reply EXCEPT ![Main] = Nil]
        /\ finalMark' = IF reply[Main].ok THEN reply[Main].id ELSE Nil
        /\ outputFailed' = (outputFailed \/ ~reply[Main].ok)
        /\ UNCHANGED <<ck, runOk, early, lost, file, synced, lastId, pc>>
    BY <1>28 DEF FinalFlushed, TakeReply
  <2>2. \A n \in Nodes : reply'[n] = reply[n]
    BY <1>a, <2>1
  <2>3. finalMark' # Nil => Caught(finalMark)'
    BY <2>1 DEF IInv, FileInv, FlushAnswer, Caught
  <2> QED
    BY <1>a, <2>1, <2>2, <2>3 DEF MainInv, Written, Answered
<1>29. CASE FinalWrite
  BY <1>a, <1>29 DEF FinalWrite, MainInv, Written, Answered, Caught, TakeReply, SendFlush
<1>30. CASE Exited
  BY <1>a, <1>30 DEF Exited, MainInv, Written, Answered, Caught, TakeReply, SendFlush
<1> QED
  BY <1>1, <1>2, <1>3, <1>4, <1>5, <1>6, <1>7, <1>8, <1>9, <1>10, <1>11, <1>12, <1>13, <1>14,
     <1>15, <1>16, <1>17, <1>18, <1>19, <1>20, <1>21, <1>22, <1>23, <1>24, <1>25, <1>26, <1>27,
        <1>28, <1>29, <1>30
  DEF Next, SessionStep, WriterStep, CheckpointStep, MainStep

LEMMA SequenceTypes ==
    ASSUME NEW S, NEW q \in Seq(S)
    PROVE  /\ \A x \in S : Append(q, x) \in Seq(S) /\ Len(Append(q, x)) = Len(q) + 1
           /\ q # <<>> => Tail(q) \in Seq(S) /\ Len(Tail(q)) = Len(q) - 1
BY AppendProperties, HeadTailProperties

-----------------------------------------------------------------------------
(* TypeOK, part by part *)

Addresses == UNION (Messages \cup {Seeds})

SessionTypes ==
    /\ pc \in [Nodes -> SessionPc]
    /\ obs \in [Nodes -> Observed \cup {Nil}]
    /\ ended \in [Nodes -> Ends \cup {Nil}]
    /\ eventId \in [Nodes -> Nat]

StoreTypes ==
    /\ advertised \in [Nodes -> Nat] /\ malformed \in [Nodes -> Nat] /\ valid \in [Nodes -> Nat]
    /\ outcome \in [Nodes -> Outcomes \cup {"NotRequested"}]
    /\ finished \subseteq Nodes
    /\ known \subseteq Addresses

BarrierTypes == line \in Seq(Nodes \cup {Ckpt}) /\ readers \subseteq Nodes /\ exclusive \in BOOLEAN

LogTypes ==
    /\ lock \in Actors \cup {Nil}
    /\ nextId \in Nat \ {0}
    /\ commands \in Seq(Command) /\ Len(commands) <= 1
    /\ reply \in [Actors -> Reply \cup {Nil}]

DiskTypes == file \in Seq(Record) /\ synced \in 0..Len(file) /\ lastId \in Nat

CkTypes ==
    /\ ck \in {"tick", "barrier", "lock", "ack", "clone", "write", "gone"}
    /\ ticks \in 0..MaxCheckpoints
    /\ shot \in [Nodes -> Shot \cup {Nil}] /\ shotKnown \subseteq Addresses
    /\ mark \in Nat

MainTypes ==
    /\ phase \in {"running", "stopping", "flush", "ack", "write", "exited"}
    /\ runOk \in BOOLEAN /\ finalMark \in Nat \cup {Nil}
    /\ exit \in {Nil, "success", "failure"}

OtherTypes ==
    /\ manifest \in Manifest \cup {Nil}
    /\ outputFailed \in BOOLEAN /\ early \in BOOLEAN
    /\ lost \subseteq Nodes /\ logFailed \in BOOLEAN /\ faults \in 0..MaxFaults

Parts == SessionTypes /\ StoreTypes /\ BarrierTypes /\ LogTypes /\ DiskTypes /\ CkTypes
            /\ MainTypes /\ OtherTypes

LEMMA TypeParts == (TypeOK <=> Parts) /\ (TypeOK <=> Parts)'
BY DEF TypeOK, Parts, SessionTypes, StoreTypes, BarrierTypes, LogTypes, DiskTypes, CkTypes,
       MainTypes, OtherTypes, Addresses


LEMMA TypeStep ==
    ASSUME IInv, Next
    PROVE  Parts'
<1> USE DEF sessionVars, storeVars, barrierVars, logVars, diskVars, ckVars, mainVars,
            flagVars, historyVars, vars
<1>a. /\ Parts
      /\ Ckpt \in Actors /\ Main \in Actors /\ Nodes \subseteq Actors
      /\ \A r \in Reply : r # Nil
      /\ Nil \notin Nat /\ MaxFaults \in Nat /\ MaxCheckpoints \in Nat
  BY Types, TypeParts, ObservationAssumption DEF IInv
<1>b. ASSUME NEW x \in Nodes \cup {Ckpt}, JoinLine(x), UNCHANGED <<readers, exclusive>>
      PROVE  BarrierTypes'
  BY <1>a, <1>b, SequenceTypes DEF Parts, BarrierTypes, JoinLine
<1>c. \A x : IsNext(x) => Tail(line) \in Seq(Nodes \cup {Ckpt})
  BY <1>a, SequenceTypes DEF Parts, BarrierTypes, IsNext
<1>d. ASSUME NEW x \in Actors, SendFlush(x), UNCHANGED <<nextId, reply>>
      PROVE  LogTypes'
  <2>1. commands = <<>> /\ commands' = Append(commands, Flush(x)) /\ lock' = x
    BY <1>d DEF SendFlush, IInv, LockInv
  <2>2. Flush(x) \in Command
    BY DEF Flush, Command
  <2>3. Len(commands) = 0 /\ commands \in Seq(Command)
    BY <1>a, <2>1 DEF Parts, LogTypes
  <2>4. commands' \in Seq(Command) /\ Len(commands') <= 1
    BY <2>1, <2>2, <2>3, SequenceTypes
  <2> QED
    BY <1>a, <1>d, <2>1, <2>4 DEF Parts, LogTypes
<1>e. ASSUME NEW x \in Actors, TakeReply(x), UNCHANGED <<nextId, commands>>
      PROVE  /\ LogTypes'
             /\ reply[x] \in Reply /\ reply[x].id \in Nat /\ reply[x].ok \in BOOLEAN
  <2>1. reply[x] \in Reply
    BY <1>a, <1>e DEF Parts, LogTypes, TakeReply
  <2> QED
    BY <1>a, <1>e, <2>1 DEF Parts, LogTypes, TakeReply, Reply
<1>g. ASSUME NEW o \in Observed, NEW n \in Nodes, Observe(n, o), UNCHANGED <<ended, eventId>>
      PROVE  SessionTypes'
  BY <1>a, <1>g DEF Parts, SessionTypes, Observe, Goto, SessionPc
<1>h. ASSUME NEW n \in Nodes PROVE ShotOf(n) \in Shot
  BY <1>a DEF Parts, StoreTypes, Shot, ShotOf
<1>1. ASSUME NEW n \in Nodes, Start(n) PROVE Parts'
  <2>1. /\ StoreTypes' /\ BarrierTypes' /\ LogTypes' /\ DiskTypes'
        /\ CkTypes' /\ MainTypes' /\ OtherTypes'
    BY <1>a, <1>1 DEF Start, Parts, StoreTypes, BarrierTypes, LogTypes, DiskTypes, CkTypes,
       MainTypes, OtherTypes
  <2>2. SessionTypes'
    BY <1>a, <1>1 DEF Start, Parts, SessionTypes, Goto, SessionPc, Ends
  <2> QED
    BY <2>1, <2>2 DEF Parts
<1>2. ASSUME NEW n \in Nodes, Receive(n) PROVE Parts'
  <2>1. /\ StoreTypes' /\ LogTypes' /\ DiskTypes' /\ CkTypes'
        /\ MainTypes' /\ OtherTypes'
    BY <1>a, <1>2 DEF Receive, Parts, StoreTypes, LogTypes, DiskTypes, CkTypes, MainTypes,
       OtherTypes
  <2>2. SessionTypes'
    <3>1. \A addrs \in Messages : [kind |-> "block", addrs |-> addrs] \in Observed
      BY DEF Observed, Kinds
    <3>2. [kind |-> "malformed", addrs |-> {}] \in Observed
      BY DEF Observed, Kinds
    <3> QED
      BY <1>g, <1>2, <3>1, <3>2 DEF Receive
  <2>3. BarrierTypes'
    BY <1>b, <1>2 DEF Receive, Observe
  <2> QED
    BY <2>1, <2>2, <2>3 DEF Parts
<1>3. ASSUME NEW n \in Nodes, EndCollection(n) PROVE Parts'
  <2>1. /\ StoreTypes' /\ BarrierTypes' /\ LogTypes' /\ DiskTypes'
        /\ CkTypes' /\ MainTypes' /\ OtherTypes'
    BY <1>a, <1>3 DEF EndCollection, Parts, StoreTypes, BarrierTypes, LogTypes, DiskTypes,
       CkTypes, MainTypes, OtherTypes
  <2>2. SessionTypes'
    <3>1. Closings \subseteq Ends
      BY ObservationAssumption DEF Ends
    <3> QED
      BY <1>a, <1>3, <3>1 DEF EndCollection, Parts, SessionTypes, Goto, SessionPc
  <2> QED
    BY <2>1, <2>2 DEF Parts
<1>4. ASSUME NEW n \in Nodes, RecordOutcome(n) PROVE Parts'
  <2>1. /\ StoreTypes' /\ LogTypes' /\ DiskTypes' /\ CkTypes'
        /\ MainTypes' /\ OtherTypes'
    BY <1>a, <1>4 DEF RecordOutcome, Parts, StoreTypes, LogTypes, DiskTypes, CkTypes,
       MainTypes, OtherTypes
  <2>2. SessionTypes'
    <3>1. [kind |-> "outcome", addrs |-> {}] \in Observed
      BY DEF Observed, Kinds
    <3> QED
      BY <1>g, <1>4, <3>1 DEF RecordOutcome
  <2>3. BarrierTypes'
    BY <1>b, <1>4 DEF RecordOutcome, Observe
  <2> QED
    BY <2>1, <2>2, <2>3 DEF Parts
<1>5. ASSUME NEW n \in Nodes, Enter(n) PROVE Parts'
  <2>1. /\ LogTypes' /\ DiskTypes' /\ CkTypes' /\ MainTypes'
        /\ OtherTypes'
    BY <1>a, <1>5 DEF Enter, Parts, LogTypes, DiskTypes, CkTypes, MainTypes, OtherTypes
  <2>2. SessionTypes'
    BY <1>a, <1>5 DEF Enter, Parts, SessionTypes, Goto, SessionPc
  <2>3. StoreTypes'
    <3>1. obs[n].kind = "outcome" => CollectionOutcome(ended[n], valid[n]) \in Outcomes
      <4> SUFFICES ASSUME obs[n].kind = "outcome"
                   PROVE  CollectionOutcome(ended[n], valid[n]) \in Outcomes
        OBVIOUS
      <4>1. /\ ended[n] \in Ends
            /\ ended[n] = "send" => valid[n] = 0
            /\ ended[n] = "reply" => valid[n] > 0
        BY <1>5 DEF Enter, IInv, SessionInv, SessionOf, Ending
      <4>2. valid[n] \in Nat
        BY <1>a DEF Parts, StoreTypes
      <4> QED
        BY <4>1, <4>2, OutcomeFacts
    <3> QED
      BY <1>a, <1>5, <3>1 DEF Enter, Parts, StoreTypes
  <2>4. BarrierTypes'
    BY <1>a, <1>c, <1>5 DEF Enter, Parts, BarrierTypes
  <2> QED
    BY <2>1, <2>2, <2>3, <2>4 DEF Parts
<1>6. ASSUME NEW n \in Nodes, TakeId(n) PROVE Parts'
  <2>1. /\ StoreTypes' /\ BarrierTypes' /\ DiskTypes' /\ CkTypes'
        /\ MainTypes' /\ OtherTypes'
    BY <1>a, <1>6 DEF TakeId, Parts, StoreTypes, BarrierTypes, DiskTypes, CkTypes, MainTypes,
       OtherTypes
  <2>2. SessionTypes'
    BY <1>a, <1>6 DEF TakeId, Parts, SessionTypes, LogTypes, Goto, SessionPc
  <2>3. LogTypes'
    BY <1>a, <1>6 DEF TakeId, Parts, LogTypes, Goto, SessionPc, Leave
  <2> QED
    BY <2>1, <2>2, <2>3 DEF Parts
<1>7. ASSUME NEW n \in Nodes, SendAppend(n) PROVE Parts'
  <2>1. /\ StoreTypes' /\ BarrierTypes' /\ DiskTypes' /\ CkTypes'
        /\ MainTypes' /\ OtherTypes'
    BY <1>a, <1>7 DEF SendAppend, Parts, StoreTypes, BarrierTypes, DiskTypes, CkTypes,
       MainTypes, OtherTypes
  <2>2. SessionTypes'
    BY <1>a, <1>7 DEF SendAppend, Parts, SessionTypes, Goto, SessionPc, Leave
  <2>3. LogTypes'
    <3>1. lock = n /\ commands = <<>> /\ Len(commands) = 0
      BY <1>7 DEF SendAppend, IInv, LockInv
    <3>2. eventId[n] \in Nat \ {0}
      <4>1. Pending /\ eventId[n] = nextId - 1
        BY <1>7, <3>1, <1>a DEF SendAppend, IInv, LockInv, FileInv, Numbering, Pending
      <4> QED
        BY <1>a, <4>1 DEF IInv, FileInv, Numbering, Parts, SessionTypes, LogTypes, DiskTypes
    <3>3. obs[n] \in Observed
      BY <1>7 DEF SendAppend, IInv, SessionInv, SessionOf, SessionPc
    <3>4. outcome[n] \in Outcomes \cup {"NotRequested"}
      BY <1>a DEF Parts, StoreTypes
    <3> DEFINE r == [id |-> eventId[n], node |-> n, kind |-> obs[n].kind,
                     addrs |-> obs[n].addrs, outcome |-> outcome[n]]
    <3>5. r \in Record
      BY <3>2, <3>3, <3>4 DEF Record, Observed
    <3>6. [from |-> n, rec |-> r] \in Command
      BY <1>a, <3>5 DEF Command
    <3>7. commands' = Append(commands, [from |-> n, rec |-> r])
      BY <1>7 DEF SendAppend
    <3>8. commands' \in Seq(Command) /\ Len(commands') <= 1
      BY <1>a, <3>1, <3>6, <3>7, SequenceTypes DEF Parts, LogTypes
    <3> QED
      BY <1>a, <1>7, <3>8 DEF SendAppend, Parts, LogTypes
  <2> QED
    BY <2>1, <2>2, <2>3 DEF Parts
<1>8. ASSUME NEW n \in Nodes, Acknowledged(n) PROVE Parts'
  <2>1. DiskTypes' /\ CkTypes' /\ MainTypes' /\ OtherTypes'
    BY <1>a, <1>8 DEF Acknowledged, Parts, DiskTypes, CkTypes, MainTypes, OtherTypes
  <2>2. SessionTypes'
    <3>1. obs[n].kind \in Kinds
      BY <1>8 DEF Acknowledged, IInv, SessionInv, SessionOf, SessionPc, Observed
    <3>2. \E l \in {"count", "closing", "finish"} : pc' = [pc EXCEPT ![n] = l]
      BY <1>8, <3>1 DEF Acknowledged, Kinds, Goto
    <3> QED
      BY <1>a, <1>8, <3>2 DEF Acknowledged, Parts, SessionTypes, SessionPc, Ends
  <2>3. StoreTypes'
    <3>1. obs[n].addrs \subseteq Addresses
      BY <1>8 DEF Acknowledged, IInv, SessionInv, SessionOf, SessionPc, Observed, Addresses
    <3> QED
      BY <1>a, <1>8, <3>1 DEF Acknowledged, Parts, StoreTypes
  <2>4. BarrierTypes'
    BY <1>a, <1>8 DEF Acknowledged, Parts, BarrierTypes, Goto, SessionPc, Leave
  <2>5. LogTypes'
    BY <1>a, <1>e, <1>8 DEF Acknowledged
  <2> QED
    BY <2>1, <2>2, <2>3, <2>4, <2>5 DEF Parts
<1>9. ASSUME NEW n \in Nodes, Refused(n) PROVE Parts'
  <2>1. StoreTypes' /\ DiskTypes' /\ CkTypes' /\ MainTypes'
    BY <1>a, <1>9 DEF Refused, Parts, StoreTypes, DiskTypes, CkTypes, MainTypes
  <2>2. SessionTypes'
    BY <1>a, <1>9 DEF Refused, Parts, SessionTypes, Goto, SessionPc, Leave
  <2>3. BarrierTypes'
    BY <1>a, <1>9 DEF Refused, Parts, BarrierTypes, Goto, SessionPc, Leave
  <2>4. LogTypes'
    BY <1>a, <1>e, <1>9 DEF Refused
  <2>5. OtherTypes'
    BY <1>a, <1>9 DEF Refused, Parts, OtherTypes, Goto, SessionPc, Leave
  <2> QED
    BY <2>1, <2>2, <2>3, <2>4, <2>5 DEF Parts
<1>10. ASSUME NEW n \in Nodes, MarkFailed(n) PROVE Parts'
  <2>1. /\ StoreTypes' /\ BarrierTypes' /\ LogTypes' /\ DiskTypes'
        /\ CkTypes' /\ MainTypes'
    BY <1>a, <1>10 DEF MarkFailed, Parts, StoreTypes, BarrierTypes, LogTypes, DiskTypes,
       CkTypes, MainTypes
  <2>2. SessionTypes'
    BY <1>a, <1>10 DEF MarkFailed, Parts, SessionTypes, Goto, SessionPc, Ends
  <2>3. OtherTypes'
    BY <1>a, <1>10 DEF MarkFailed, Parts, OtherTypes, Goto, SessionPc, Leave
  <2> QED
    BY <2>1, <2>2, <2>3 DEF Parts
<1>11. ASSUME NEW n \in Nodes, Count(n) PROVE Parts'
  <2>1. /\ BarrierTypes' /\ LogTypes' /\ DiskTypes' /\ CkTypes'
        /\ MainTypes' /\ OtherTypes'
    BY <1>a, <1>11 DEF Count, Parts, BarrierTypes, LogTypes, DiskTypes, CkTypes, MainTypes,
       OtherTypes
  <2>2. SessionTypes'
    BY <1>a, <1>11 DEF Count, Parts, SessionTypes, Goto, SessionPc, Ends
  <2>3. StoreTypes'
    BY <1>a, <1>11 DEF Count, Parts, StoreTypes, Goto, SessionPc, Leave
  <2> QED
    BY <2>1, <2>2, <2>3 DEF Parts
<1>12. ASSUME NEW n \in Nodes, Finish(n) PROVE Parts'
  <2>1. /\ BarrierTypes' /\ LogTypes' /\ DiskTypes' /\ CkTypes'
        /\ MainTypes' /\ OtherTypes'
    BY <1>a, <1>12 DEF Finish, Parts, BarrierTypes, LogTypes, DiskTypes, CkTypes, MainTypes,
       OtherTypes
  <2>2. SessionTypes'
    BY <1>a, <1>12 DEF Finish, Parts, SessionTypes, Goto, SessionPc, Leave
  <2>3. StoreTypes'
    BY <1>a, <1>12 DEF Finish, Parts, StoreTypes, Goto, SessionPc, Leave
  <2> QED
    BY <2>1, <2>2, <2>3 DEF Parts
<1>13. CASE WriterAppends
  <2>1. /\ SessionTypes' /\ StoreTypes' /\ BarrierTypes' /\ CkTypes'
        /\ MainTypes'
    BY <1>a, <1>13 DEF WriterAppends, Parts, SessionTypes, StoreTypes, BarrierTypes, CkTypes,
       MainTypes
  <2>2. LogTypes'
    <3>1. Tail(commands) \in Seq(Command) /\ Len(Tail(commands)) <= 1
      BY <1>a, <1>13, SequenceTypes DEF WriterAppends, Parts, LogTypes
    <3>2. /\ lock \in Actors /\ UNCHANGED <<lock, nextId>>
          /\ \/ reply' = [reply EXCEPT ![lock] = [ok |-> TRUE, id |-> nextId - 1]]
             \/ reply' = [reply EXCEPT ![lock] = [ok |-> FALSE, id |-> 0]]
      BY <1>a, <1>13, Appending
    <3>3. [ok |-> TRUE, id |-> nextId - 1] \in Reply /\ [ok |-> FALSE, id |-> 0] \in Reply
      BY <1>a DEF Reply, Parts, LogTypes, DiskTypes
    <3>4. commands' = Tail(commands)
      BY <1>13 DEF WriterAppends
    <3> QED
      BY <1>a, <3>1, <3>2, <3>3, <3>4 DEF Parts, LogTypes
  <2>3. DiskTypes'
    <3>1. /\ lock \in Nodes /\ RecordOf(lock) \in Record /\ UNCHANGED synced
          /\ \/ file' = Append(file, RecordOf(lock)) /\ lastId' = nextId - 1
             \/ UNCHANGED <<file, lastId>>
      BY <1>13, Appending
    <3>2. Append(file, RecordOf(lock)) \in Seq(Record)
          /\ Len(Append(file, RecordOf(lock))) = Len(file) + 1
      BY <1>a, <3>1, SequenceTypes DEF Parts, DiskTypes
    <3>3. nextId - 1 \in Nat /\ Len(file) \in Nat /\ synced \in 0..Len(file)
      BY <1>a, LenProperties DEF Parts, LogTypes, DiskTypes
    <3>4. CASE UNCHANGED <<file, lastId>>
      BY <1>a, <3>1, <3>4 DEF Parts, DiskTypes
    <3>5. CASE file' = Append(file, RecordOf(lock)) /\ lastId' = nextId - 1
      BY <3>1, <3>2, <3>3, <3>5 DEF DiskTypes
    <3> QED
      BY <3>1, <3>4, <3>5
  <2>4. OtherTypes'
    <3>1. /\ lock \in Nodes /\ UNCHANGED <<manifest, flagVars>>
          /\ \/ UNCHANGED <<lost, logFailed, faults>>
             \/ /\ lost' = lost \cup {lock} /\ logFailed' = TRUE
                /\ faults' = faults + 1 /\ faults < MaxFaults
      BY <1>13, Appending
    <3>2. faults' \in 0..MaxFaults
      BY <1>a, <3>1 DEF Parts, OtherTypes
    <3>3. logFailed' \in BOOLEAN /\ lost' \subseteq Nodes
      BY <1>a, <3>1 DEF Parts, OtherTypes
    <3> QED
      BY <1>a, <3>1, <3>2, <3>3 DEF Parts, OtherTypes
  <2> QED
    BY <2>1, <2>2, <2>3, <2>4 DEF Parts
<1>14. CASE WriterFlushes
  <2>1. /\ SessionTypes' /\ StoreTypes' /\ BarrierTypes' /\ CkTypes'
        /\ MainTypes'
    BY <1>a, <1>14 DEF WriterFlushes, Parts, SessionTypes, StoreTypes, BarrierTypes, CkTypes,
       MainTypes
  <2>2. LogTypes'
    <3>1. Tail(commands) \in Seq(Command) /\ Len(Tail(commands)) <= 1
      BY <1>a, <1>14, SequenceTypes DEF WriterFlushes, Parts, LogTypes
    <3>2. /\ lock \in Actors /\ UNCHANGED <<lock, nextId>>
          /\ \/ reply' = [reply EXCEPT ![lock] = [ok |-> TRUE, id |-> lastId]]
             \/ reply' = [reply EXCEPT ![lock] = [ok |-> FALSE, id |-> 0]]
      BY <1>a, <1>14, Flushing
    <3>3. [ok |-> TRUE, id |-> lastId] \in Reply /\ [ok |-> FALSE, id |-> 0] \in Reply
      BY <1>a DEF Reply, Parts, LogTypes, DiskTypes
    <3>4. commands' = Tail(commands)
      BY <1>14 DEF WriterFlushes
    <3> QED
      BY <1>a, <3>1, <3>2, <3>3, <3>4 DEF Parts, LogTypes
  <2>3. DiskTypes'
    <3>1. /\ UNCHANGED <<file, lastId>>
          /\ synced' = Len(file) \/ synced' \in synced..Len(file)
      BY <1>14, Flushing
    <3>2. Len(file) \in Nat /\ synced \in 0..Len(file)
      BY <1>a, LenProperties DEF Parts, DiskTypes
    <3>3. synced' \in 0..Len(file)
      BY <3>1, <3>2
    <3> QED
      BY <1>a, <3>1, <3>3 DEF Parts, DiskTypes
  <2>4. OtherTypes'
    <3>1. /\ UNCHANGED <<manifest, flagVars, lost>>
          /\ \/ UNCHANGED <<logFailed, faults>>
             \/ logFailed' = TRUE /\ faults' = faults + 1 /\ faults < MaxFaults
      BY <1>14, Flushing
    <3>2. faults' \in 0..MaxFaults
      BY <1>a, <3>1 DEF Parts, OtherTypes
    <3>3. logFailed' \in BOOLEAN /\ lost' \subseteq Nodes
      BY <1>a, <3>1 DEF Parts, OtherTypes
    <3> QED
      BY <1>a, <3>1, <3>2, <3>3 DEF Parts, OtherTypes
  <2> QED
    BY <2>1, <2>2, <2>3, <2>4 DEF Parts
<1>15. CASE CkTick
  <2>1. /\ SessionTypes' /\ StoreTypes' /\ LogTypes' /\ DiskTypes'
        /\ MainTypes' /\ OtherTypes'
    BY <1>a, <1>15 DEF CkTick, Parts, SessionTypes, StoreTypes, LogTypes, DiskTypes, MainTypes,
       OtherTypes
  <2>2. BarrierTypes'
    BY <1>b, <1>15 DEF CkTick
  <2>3. CkTypes'
    BY <1>a, <1>15 DEF CkTick, Parts, CkTypes, Goto, SessionPc, Leave
  <2> QED
    BY <2>1, <2>2, <2>3 DEF Parts
<1>16. CASE CkStop
  <2>1. /\ SessionTypes' /\ StoreTypes' /\ BarrierTypes' /\ LogTypes'
        /\ DiskTypes' /\ MainTypes' /\ OtherTypes'
    BY <1>a, <1>16 DEF CkStop, Parts, SessionTypes, StoreTypes, BarrierTypes, LogTypes,
       DiskTypes, MainTypes, OtherTypes
  <2>2. CkTypes'
    BY <1>a, <1>16 DEF CkStop, Parts, CkTypes, Goto, SessionPc, Leave
  <2> QED
    BY <2>1, <2>2 DEF Parts
<1>17. CASE CkEnter
  <2>1. /\ SessionTypes' /\ StoreTypes' /\ LogTypes' /\ DiskTypes'
        /\ MainTypes' /\ OtherTypes'
    BY <1>a, <1>17 DEF CkEnter, Parts, SessionTypes, StoreTypes, LogTypes, DiskTypes,
       MainTypes, OtherTypes
  <2>2. BarrierTypes'
    BY <1>a, <1>c, <1>17 DEF CkEnter, Parts, BarrierTypes
  <2>3. CkTypes'
    BY <1>a, <1>17 DEF CkEnter, Parts, CkTypes, Goto, SessionPc, Leave
  <2> QED
    BY <2>1, <2>2, <2>3 DEF Parts
<1>18. CASE CkFlush
  <2>1. /\ SessionTypes' /\ StoreTypes' /\ BarrierTypes' /\ DiskTypes'
        /\ MainTypes' /\ OtherTypes'
    BY <1>a, <1>18 DEF CkFlush, Parts, SessionTypes, StoreTypes, BarrierTypes, DiskTypes,
       MainTypes, OtherTypes
  <2>2. LogTypes'
    BY <1>a, <1>d, <1>18 DEF CkFlush
  <2>3. CkTypes'
    BY <1>a, <1>18 DEF CkFlush, Parts, CkTypes, Goto, SessionPc, Leave
  <2> QED
    BY <2>1, <2>2, <2>3 DEF Parts
<1>19. CASE CkFlushed
  <2>1. /\ SessionTypes' /\ StoreTypes' /\ BarrierTypes' /\ DiskTypes'
        /\ MainTypes' /\ OtherTypes'
    BY <1>a, <1>19 DEF CkFlushed, Parts, SessionTypes, StoreTypes, BarrierTypes, DiskTypes,
       MainTypes, OtherTypes
  <2>2. LogTypes'
    BY <1>a, <1>e, <1>19 DEF CkFlushed
  <2>3. CkTypes'
    BY <1>a, <1>e, <1>19 DEF CkFlushed, Parts, CkTypes
  <2> QED
    BY <2>1, <2>2, <2>3 DEF Parts
<1>20. CASE CkFlushFails
  <2>1. SessionTypes' /\ StoreTypes' /\ DiskTypes' /\ MainTypes'
    BY <1>a, <1>20 DEF CkFlushFails, Parts, SessionTypes, StoreTypes, DiskTypes, MainTypes
  <2>2. BarrierTypes'
    BY <1>a, <1>20 DEF CkFlushFails, Parts, BarrierTypes, Goto, SessionPc, Leave
  <2>3. LogTypes'
    BY <1>a, <1>e, <1>20 DEF CkFlushFails
  <2>4. CkTypes'
    BY <1>a, <1>20 DEF CkFlushFails, Parts, CkTypes, Goto, SessionPc, Leave
  <2>5. OtherTypes'
    BY <1>a, <1>20 DEF CkFlushFails, Parts, OtherTypes, Goto, SessionPc, Leave
  <2> QED
    BY <2>1, <2>2, <2>3, <2>4, <2>5 DEF Parts
<1>21. ASSUME NEW n \in Nodes, CkClone(n) PROVE Parts'
  <2>1. /\ SessionTypes' /\ StoreTypes' /\ BarrierTypes' /\ LogTypes'
        /\ DiskTypes' /\ MainTypes' /\ OtherTypes'
    BY <1>a, <1>21 DEF CkClone, Parts, SessionTypes, StoreTypes, BarrierTypes, LogTypes,
       DiskTypes, MainTypes, OtherTypes
  <2>2. CkTypes'
    BY <1>a, <1>h, <1>21 DEF CkClone, Parts, CkTypes
  <2> QED
    BY <2>1, <2>2 DEF Parts
<1>22. CASE CkCloned
  <2>1. /\ SessionTypes' /\ StoreTypes' /\ LogTypes' /\ DiskTypes'
        /\ MainTypes' /\ OtherTypes'
    BY <1>a, <1>22 DEF CkCloned, Parts, SessionTypes, StoreTypes, LogTypes, DiskTypes,
       MainTypes, OtherTypes
  <2>2. BarrierTypes'
    BY <1>a, <1>22 DEF CkCloned, Parts, BarrierTypes, Goto, SessionPc, Leave
  <2>3. CkTypes'
    BY <1>a, <1>22 DEF CkCloned, Parts, CkTypes, StoreTypes
  <2> QED
    BY <2>1, <2>2, <2>3 DEF Parts
<1>23. CASE CkWrite
  <2>1. /\ SessionTypes' /\ StoreTypes' /\ BarrierTypes' /\ LogTypes'
        /\ DiskTypes' /\ MainTypes'
    BY <1>a, <1>23 DEF CkWrite, Parts, SessionTypes, StoreTypes, BarrierTypes, LogTypes,
       DiskTypes, MainTypes
  <2>2. CkTypes'
    BY <1>a, <1>23 DEF CkWrite, Parts, CkTypes, Goto, SessionPc, Leave
  <2>3. OtherTypes'
    <3>1. shot \in [Nodes -> Shot] /\ shotKnown \subseteq Addresses /\ mark \in Nat
      BY <1>a, <1>23 DEF CkWrite, IInv, SnapshotInv, Parts, CkTypes
    <3>2. [final |-> FALSE, complete |-> FALSE, mark |-> mark, nodes |-> shot,
           known |-> shotKnown] \in Manifest
      BY <3>1 DEF Manifest, Addresses
    <3>3. manifest' \in Manifest \cup {Nil}
      BY <1>a, <1>23, <3>2 DEF CkWrite, Parts, OtherTypes
    <3>4. faults' \in 0..MaxFaults
      BY <1>a, <1>23 DEF CkWrite, Parts, OtherTypes
    <3> QED
      BY <1>a, <1>23, <3>3, <3>4 DEF CkWrite, Parts, OtherTypes
  <2> QED
    BY <2>1, <2>2, <2>3 DEF Parts
<1>24. CASE EarlyStop
  <2>1. /\ SessionTypes' /\ StoreTypes' /\ BarrierTypes' /\ LogTypes'
        /\ DiskTypes' /\ CkTypes' /\ MainTypes'
    BY <1>a, <1>24 DEF EarlyStop, Parts, SessionTypes, StoreTypes, BarrierTypes, LogTypes,
       DiskTypes, CkTypes, MainTypes
  <2>2. OtherTypes'
    BY <1>a, <1>24 DEF EarlyStop, Parts, OtherTypes, Goto, SessionPc, Leave
  <2> QED
    BY <2>1, <2>2 DEF Parts
<1>25. CASE RunReturns
  <2>1. /\ SessionTypes' /\ StoreTypes' /\ BarrierTypes' /\ LogTypes'
        /\ DiskTypes' /\ CkTypes' /\ OtherTypes'
    BY <1>a, <1>25 DEF RunReturns, Parts, SessionTypes, StoreTypes, BarrierTypes, LogTypes,
       DiskTypes, CkTypes, OtherTypes
  <2>2. MainTypes'
    BY <1>a, <1>25 DEF RunReturns, Parts, MainTypes, Goto, SessionPc, Leave
  <2> QED
    BY <2>1, <2>2 DEF Parts
<1>26. CASE CheckpointStopped
  <2>1. /\ SessionTypes' /\ StoreTypes' /\ BarrierTypes' /\ LogTypes'
        /\ DiskTypes' /\ CkTypes' /\ OtherTypes'
    BY <1>a, <1>26 DEF CheckpointStopped, Parts, SessionTypes, StoreTypes, BarrierTypes,
       LogTypes, DiskTypes, CkTypes, OtherTypes
  <2>2. MainTypes'
    BY <1>a, <1>26 DEF CheckpointStopped, Parts, MainTypes, Goto, SessionPc, Leave
  <2> QED
    BY <2>1, <2>2 DEF Parts
<1>27. CASE FinalFlush
  <2>1. /\ SessionTypes' /\ StoreTypes' /\ BarrierTypes' /\ DiskTypes'
        /\ CkTypes' /\ OtherTypes'
    BY <1>a, <1>27 DEF FinalFlush, Parts, SessionTypes, StoreTypes, BarrierTypes, DiskTypes,
       CkTypes, OtherTypes
  <2>2. LogTypes'
    BY <1>a, <1>d, <1>27 DEF FinalFlush
  <2>3. MainTypes'
    BY <1>a, <1>27 DEF FinalFlush, Parts, MainTypes, Goto, SessionPc, Leave
  <2> QED
    BY <2>1, <2>2, <2>3 DEF Parts
<1>28. CASE FinalFlushed
  <2>1. /\ SessionTypes' /\ StoreTypes' /\ BarrierTypes' /\ DiskTypes'
        /\ CkTypes'
    BY <1>a, <1>28 DEF FinalFlushed, Parts, SessionTypes, StoreTypes, BarrierTypes, DiskTypes,
       CkTypes
  <2>2. LogTypes'
    BY <1>a, <1>e, <1>28 DEF FinalFlushed
  <2>3. MainTypes'
    BY <1>a, <1>e, <1>28 DEF FinalFlushed, Parts, MainTypes
  <2>4. OtherTypes'
    BY <1>a, <1>28 DEF FinalFlushed, Parts, OtherTypes, Goto, SessionPc, Leave
  <2> QED
    BY <2>1, <2>2, <2>3, <2>4 DEF Parts
<1>29. CASE FinalWrite
  <2>1. /\ SessionTypes' /\ StoreTypes' /\ BarrierTypes' /\ LogTypes'
        /\ DiskTypes' /\ CkTypes'
    BY <1>a, <1>29 DEF FinalWrite, Parts, SessionTypes, StoreTypes, BarrierTypes, LogTypes,
       DiskTypes, CkTypes
  <2>2. MainTypes'
    BY <1>a, <1>29 DEF FinalWrite, Parts, MainTypes, Goto, SessionPc, Leave
  <2>3. OtherTypes'
    <3>1. [n \in Nodes |-> ShotOf(n)] \in [Nodes -> Shot]
      BY <1>h
    <3>2. known \subseteq Addresses /\ finalMark \in Nat \cup {Nil} /\ RunComplete \in BOOLEAN
      BY <1>a DEF Parts, StoreTypes, MainTypes, OtherTypes, RunComplete
    <3>3. [final |-> TRUE, complete |-> RunComplete, mark |-> finalMark,
           nodes |-> [n \in Nodes |-> ShotOf(n)], known |-> known] \in Manifest
      BY <3>1, <3>2 DEF Manifest, Addresses
    <3>4. manifest' \in Manifest \cup {Nil}
      BY <1>a, <1>29, <3>3 DEF FinalWrite, Parts, OtherTypes
    <3>5. faults' \in 0..MaxFaults
      BY <1>a, <1>29 DEF FinalWrite, Parts, OtherTypes
    <3> QED
      BY <1>a, <1>29, <3>4, <3>5 DEF FinalWrite, Parts, OtherTypes
  <2> QED
    BY <2>1, <2>2, <2>3 DEF Parts
<1>30. CASE Exited
  <2>1. /\ SessionTypes' /\ StoreTypes' /\ BarrierTypes' /\ LogTypes'
        /\ DiskTypes' /\ CkTypes' /\ MainTypes' /\ OtherTypes'
    BY <1>a, <1>30 DEF Exited, Parts, SessionTypes, StoreTypes, BarrierTypes, LogTypes,
       DiskTypes, CkTypes, MainTypes, OtherTypes
  <2> QED
    BY <2>1 DEF Parts
<1> QED
  BY <1>1, <1>2, <1>3, <1>4, <1>5, <1>6, <1>7, <1>8, <1>9, <1>10, <1>11, <1>12, <1>13, <1>14,
     <1>15, <1>16, <1>17, <1>18, <1>19, <1>20, <1>21, <1>22, <1>23, <1>24, <1>25, <1>26, <1>27,
        <1>28, <1>29, <1>30
  DEF Next, SessionStep, WriterStep, CheckpointStep, MainStep

-----------------------------------------------------------------------------
(* The invariant holds *)

LEMMA InitHolds == Init => IInv
<1> SUFFICES ASSUME Init PROVE IInv
  OBVIOUS
<1>1. /\ <<>> \in Seq(Record) /\ <<>> \in Seq(Command) /\ <<>> \in Seq(Nodes \cup {Ckpt})
      /\ Len(<<>>) = 0 /\ Range(<<>>) = {}
  BY DEF Range
<1>2. TypeOK
  <2>1. SessionTypes /\ StoreTypes /\ CkTypes
    BY ObservationAssumption DEF Init, SessionTypes, StoreTypes, CkTypes, SessionPc, Addresses
  <2>2. BarrierTypes /\ DiskTypes
    <3>1. synced \in 0..Len(file)
      BY <1>1 DEF Init
    <3> QED
      BY <1>1, <3>1 DEF Init, BarrierTypes, DiskTypes
  <2>3. MainTypes /\ OtherTypes
    <3>1. faults \in 0..MaxFaults
      BY ObservationAssumption DEF Init
    <3> QED
      BY <3>1 DEF Init, MainTypes, OtherTypes
  <2>4. LogTypes
    BY <1>1 DEF Init, LogTypes
  <2> QED
    BY <2>1, <2>2, <2>3, <2>4, TypeParts DEF Parts
<1>3. LockInv
  BY Types, <1>2 DEF Init, LockInv, Actors
<1>4. BarrierInv /\ SessionInv
  BY DEF Init, BarrierInv, SessionInv, SessionOf, SessionPc, Announced, Observing, Ending
<1>5. FileInv
  <2>1. ~Pending
    BY <1>2, Types DEF Init, Pending
  <2>2. \A x \in {Ckpt, Main} : reply[x] = Nil
    BY <1>2, Types DEF Init
  <2> QED
    BY <1>1, <2>1, <2>2 DEF Init, FileInv, Ascending, Numbering, Gapless, FlushAnswer
<1>6. \A n, k : Of(Range(file), n, k) = {}
  BY <1>1 DEF Init, Of
<1>7. IsFiniteSet({}) /\ Cardinality({}) = 0
  BY FS_EmptySet
<1>8. StoreInv
  <2>1. IsFiniteSet(Range(file)) /\ known \ Seeds \subseteq Advertised(Range(file))
    BY <1>1, <1>7 DEF Init
  <2>2. ASSUME NEW n \in Nodes PROVE StoreOf(n)
    <3>1. pc[n] = "idle" /\ advertised[n] = 0 /\ malformed[n] = 0 /\ valid[n] = 0
      BY DEF Init
    <3>2. ~Written(n) /\ ~Answered(n) /\ ~Between(n) /\ ~Announced(n)
      BY <3>1 DEF Written, Answered, Between, Announced, Observing
    <3>3. \A k : Logged(n, k) = 0
      BY <1>6, <1>7 DEF Logged
    <3>4. OutcomesIn(Range(file), n) = {}
      BY <1>6 DEF OutcomesIn
    <3> QED
      BY <3>1, <3>2, <3>3, <3>4 DEF StoreOf, One
  <2> QED
    BY <2>1, <2>2 DEF StoreInv
<1>9. OutcomeInv
  BY <1>1 DEF Init, OutcomeInv, Announced, Observing
<1>10. SnapshotInv /\ ManifestInv
  BY DEF Init, SnapshotInv, ManifestInv, Published
<1>11. MainInv
  BY DEF Init, MainInv
<1> QED
  BY <1>2, <1>3, <1>4, <1>5, <1>8, <1>9, <1>10, <1>11 DEF IInv

LEMMA Stutters == IInv /\ UNCHANGED vars => IInv'
<1> SUFFICES ASSUME IInv, UNCHANGED vars PROVE IInv'
  OBVIOUS
<1> USE DEF vars, sessionVars, storeVars, barrierVars, logVars, diskVars, ckVars, mainVars,
            flagVars, historyVars
<1>1. TypeOK'
  BY DEF IInv, TypeOK
<1>2. LockInv' /\ BarrierInv'
  BY DEF IInv, LockInv, BarrierInv, Observing, Request, RecordOf
<1>3. SessionInv'
  BY DEF IInv, SessionInv, SessionOf, Announced, Observing, Ending
<1>4. FileInv'
  BY DEF IInv, FileInv, Ascending, Numbering, Gapless, FlushAnswer, Pending
<1>5. StoreInv'
  BY DEF IInv, StoreInv, StoreOf, Logged, Written, Answered, Between, Announced, Observing
<1>6. OutcomeInv'
  BY DEF IInv, OutcomeInv, Announced, Observing
<1>7. SnapshotInv'
  BY DEF IInv, SnapshotInv, Caught, Synced, UpTo, Matches, Lags
<1>8. ManifestInv'
  BY DEF IInv, ManifestInv, Published, Synced, UpTo, Matches, Lags
<1>9. MainInv'
  BY DEF IInv, MainInv, Answered, Written, Caught
<1> QED
  BY <1>1, <1>2, <1>3, <1>4, <1>5, <1>6, <1>7, <1>8, <1>9 DEF IInv

LEMMA InvariantHolds == Spec => []IInv
<1>1. IInv /\ Next => IInv'
  BY TypeStep, TypeParts, LockStep, BarrierStep, SessionsStep, FileStep, StoreStep, OutcomeStep,
     SnapshotStep, ManifestStep, MainStepInv DEF IInv
<1>2. IInv /\ [Next]_vars => IInv'
  BY <1>1, Stutters
<1> QED
  BY InitHolds, <1>2, PTL DEF Spec

-----------------------------------------------------------------------------
(* What a crash leaves of the records up to a watermark is all of them.    *)
LEMMA DurableIsUpTo ==
    ASSUME IInv, Published
    PROVE  /\ manifest.mark \in Nat
           /\ Durable(manifest) = UpTo(manifest.mark)
<1>1. /\ file \in Seq(Record) /\ synced \in 0..Len(file) /\ Len(file) \in Nat
      /\ manifest.mark \in Nat /\ Synced(manifest.mark)
  BY LenProperties DEF IInv, TypeOK, ManifestInv, Published, Manifest
<1>2. PICK q : q = SubSeq(file, 1, synced)
  OBVIOUS
<1>3. DOMAIN q = 1..synced /\ \A i \in 1..synced : q[i] = file[i]
  BY <1>1, <1>2
<1>4. Range(q) = {file[i] : i \in 1..synced}
  BY <1>3 DEF Range
<1>5. Range(file) = {file[i] : i \in 1..Len(file)}
  BY <1>1, LenProperties DEF Range
<1>6. {r \in Range(q) : r.id <= manifest.mark} = UpTo(manifest.mark)
  BY <1>1, <1>4, <1>5 DEF UpTo, Synced
<1> QED
  BY <1>1, <1>2, <1>6 DEF Durable

(***************************************************************************)
(* Types are respected: among them, the channel never holds more than one  *)
(* command, since its sender keeps the mutex until it is answered.         *)
(***************************************************************************)
THEOREM TypeCorrect == Spec => []TypeOK
<1>1. IInv => TypeOK
  BY DEF IInv
<1> QED
  BY InvariantHolds, <1>1, PTL

(***************************************************************************)
(* Records are in the file in the order of their ids, and none is missing  *)
(* unless the writer refused it (AddrLog::append, under the mutex).        *)
(***************************************************************************)
THEOREM LogIsInOrder == Spec => []LogInOrder
<1>1. IInv => LogInOrder
  BY DEF IInv, FileInv, Ascending, Gapless, LogInOrder
<1> QED
  BY InvariantHolds, <1>1, PTL

(***************************************************************************)
(* Whenever the process dies, the manifest describes no address and no     *)
(* Reachable node without its durable record.                              *)
(***************************************************************************)
THEOREM SnapshotIsBacked == Spec => []SnapshotBacked
<1>1. IInv => SnapshotBacked
  <2> SUFFICES ASSUME IInv, Published PROVE SnapshotBacked
    BY DEF SnapshotBacked
  <2>1. PICK D : D = Durable(manifest)
    OBVIOUS
  <2>2. /\ manifest.known \ Seeds \subseteq Advertised(D)
        /\ \A n \in Nodes : Matches(manifest.nodes[n], n, D)
    BY <2>1, DurableIsUpTo DEF IInv, ManifestInv
  <2>3. ASSUME NEW n \in Nodes \ lost, manifest.nodes[n].finished
        PROVE  Of(D, n, "outcome") # {}
    <3>1. OutcomesIn(D, n) # {}
      BY <2>2, <2>3 DEF Matches
    <3> QED
      BY <3>1 DEF OutcomesIn
  <2> QED
    BY <2>1, <2>2, <2>3 DEF SnapshotBacked, Advertised
<1> QED
  BY InvariantHolds, <1>1, PTL

(***************************************************************************)
(* The aggregates of a published snapshot are those of its durable log.    *)
(***************************************************************************)
THEOREM AggregatesAgree == Spec => []AggregatesMatch
<1>1. IInv => AggregatesMatch
  <2> SUFFICES ASSUME IInv, Published PROVE AggregatesMatch
    BY DEF AggregatesMatch
  <2>1. PICK D : D = Durable(manifest)
    OBVIOUS
  <2>2. \A n \in Nodes : Matches(manifest.nodes[n], n, D)
    BY <2>1, DurableIsUpTo DEF IInv, ManifestInv
  <2> QED
    BY <2>1, <2>2 DEF AggregatesMatch, Matches, OutcomesIn
<1> QED
  BY InvariantHolds, <1>1, PTL

(***************************************************************************)
(* valid_addr_messages, counted outside of the barrier, is at most the     *)
(* block under way behind the log, and never in a final manifest.          *)
(***************************************************************************)
THEOREM ValidIsAtMostOneBehind == Spec => []ValidLags
<1>1. IInv => ValidLags
  <2> SUFFICES ASSUME IInv, Published PROVE ValidLags
    BY DEF ValidLags
  <2>1. PICK D : D = Durable(manifest)
    OBVIOUS
  <2>2. \A n \in Nodes :
           IF manifest.final
           THEN manifest.nodes[n].valid = Cardinality(Of(D, n, "block"))
           ELSE Lags(manifest.nodes[n], n, D)
    BY <2>1, DurableIsUpTo DEF IInv, ManifestInv
  <2> QED
    BY <2>1, <2>2 DEF ValidLags, Lags
<1> QED
  BY InvariantHolds, <1>1, PTL

(***************************************************************************)
(* A manifest that claims a complete run stands on a durable log that lost *)
(* nothing (async_main's run_complete).                                    *)
(***************************************************************************)
THEOREM CompleteIsIntact == Spec => []CompleteMeansIntact
<1>1. IInv => CompleteMeansIntact
  BY DEF IInv, ManifestInv, CompleteMeansIntact
<1> QED
  BY InvariantHolds, <1>1, PTL

(***************************************************************************)
(* An outcome record admits valid messages exactly when its node has a     *)
(* block record (getaddr's count against the writer's file).               *)
(***************************************************************************)
THEOREM OutcomesMatchBlocks == Spec => []OutcomeMatchesBlocks
<1>1. IInv => OutcomeMatchesBlocks
  <2> SUFFICES ASSUME IInv, NEW i \in 1..Len(file), file[i].kind = "outcome",
                      file[i].outcome # "LogFailed"
               PROVE  file[i].outcome \in ValidOutcomes
                        <=> Of(Range(file), file[i].node, "block") # {}
    BY DEF OutcomeMatchesBlocks, ValidOutcomes
  <2>1. file \in Seq(Record) /\ file[i] \in Record /\ file[i] \in Range(file)
    BY ElementOfSeq, RangeOfFile DEF IInv, TypeOK
  <2>2. PICK n \in Nodes : n = file[i].node
    BY <2>1 DEF Record
  <2>3. Announced(n) /\ file[i].outcome = outcome[n]
    BY <2>1, <2>2 DEF IInv, OutcomeInv
  <2>4. file[i].outcome \in ValidOutcomes <=> valid[n] > 0
    BY <2>3 DEF IInv, OutcomeInv
  <2>5. ~(Written(n) /\ obs[n].kind = "block") /\ pc[n] # "count"
    BY <2>3 DEF Announced, Observing, Written, Answered
  <2>6. IsFiniteSet(Of(Range(file), n, "block"))
    BY FS_Subset DEF IInv, StoreInv, Of
  <2>7. valid[n] \in Nat /\ Logged(n, "block") \in Nat
    BY <2>6, FS_CardinalityType DEF IInv, TypeOK, Logged
  <2>8. Logged(n, "block") = valid[n]
    BY <2>5, <2>7 DEF IInv, StoreInv, StoreOf, One
  <2>9. Logged(n, "block") = 0 <=> Of(Range(file), n, "block") = {}
    BY <2>6, FS_EmptySet DEF Logged
  <2> QED
    BY <2>2, <2>4, <2>7, <2>8, <2>9
<1> QED
  BY InvariantHolds, <1>1, PTL

(***************************************************************************)
(* The final snapshot has the last word, and watermarks never go back      *)
(* (main stops the checkpoint task before the final write).                *)
(***************************************************************************)
THEOREM FinalHasTheLastWord == Spec => FinalIsLast
<1> DEFINE Step == manifest # Nil /\ manifest' # manifest =>
                     /\ ~manifest.final
                     /\ manifest'.mark # Nil => manifest.mark <= manifest'.mark
<1>1. ASSUME IInv, Next, manifest # Nil, manifest' # manifest PROVE Step
  <2>1. CkWrite \/ FinalWrite
    <3> USE DEF vars, sessionVars, storeVars, barrierVars, logVars, diskVars, ckVars, mainVars,
                flagVars, historyVars
    <3>1. ASSUME NEW n \in Nodes, SessionStep(n) \/ Receive(n) PROVE FALSE
      BY <1>1, <3>1 DEF SessionStep, Start, Receive, EndCollection, RecordOutcome, Enter, TakeId,
         SendAppend, Acknowledged, Refused, MarkFailed, Count, Finish
    <3>2. ASSUME WriterStep PROVE FALSE
      BY <1>1, <3>2 DEF WriterStep, WriterAppends, WriterFlushes
    <3>3. CheckpointStep => CkWrite
      BY <1>1 DEF CheckpointStep, CkTick, CkStop, CkEnter, CkFlush, CkFlushed, CkFlushFails,
         CkClone,
         CkCloned
    <3>4. MainStep => FinalWrite
      BY <1>1 DEF MainStep, RunReturns, CheckpointStopped, FinalFlush, FinalFlushed
    <3>5. ~EarlyStop /\ ~Exited
      BY <1>1 DEF EarlyStop, Exited
    <3> QED
      BY <1>1, <3>1, <3>2, <3>3, <3>4, <3>5 DEF Next
  <2>2. phase # "exited"
    BY <1>1, <2>1 DEF CkWrite, FinalWrite, IInv, MainInv
  <2>3. ~manifest.final /\ manifest.mark # Nil /\ Published
    BY <1>1, <2>2 DEF IInv, ManifestInv, Published
  <2>4. manifest.mark <= lastId
    BY <1>1, <2>3 DEF IInv, ManifestInv, Synced
  <2>5. CASE CkWrite
    <3>1. ck = "write" /\ manifest'.mark = mark
      BY <1>1, <2>5 DEF CkWrite
    <3> QED
      BY <1>1, <2>3, <3>1 DEF IInv, ManifestInv
  <2>6. CASE FinalWrite
    <3>1. phase = "write" /\ manifest'.mark = finalMark
      BY <1>1, <2>6 DEF FinalWrite
    <3>2. finalMark # Nil => finalMark = lastId
      BY <1>1, <3>1 DEF IInv, MainInv, Caught
    <3> QED
      BY <2>3, <2>4, <3>1, <3>2
  <2> QED
    BY <2>1, <2>5, <2>6
<1>2. IInv /\ [Next]_vars => [Step]_vars
  BY <1>1
<1> QED
  BY InvariantHolds, <1>2, PTL DEF Spec, FinalIsLast
=============================================================================
