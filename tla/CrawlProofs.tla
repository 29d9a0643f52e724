---------------------------- MODULE CrawlProofs ----------------------------
(***************************************************************************)
(* Proofs about Crawl, for any number of addresses and workers and any     *)
(* value of the limits.                                                    *)
(***************************************************************************)
EXTENDS Crawl, FiniteSetTheorems, SequenceTheorems, TLAPS

-----------------------------------------------------------------------------
(* The inductive invariant *)

(* A worker holds an address under process exactly at these labels, and    *)
(* one it is enqueuing at PendPc.                                          *)
CurPc == {"reserve", "connect", "handshake", "collect", "upsert", "incr", "send", "undo",
          "requeue", "finish", "decr"}
PendPc == {"incr", "send", "undo"}

QueueInv ==
    \A t \in Transports :
        /\ IsInjective(queue[t])
        /\ \A a \in Range(queue[t]) : Route[a] = t /\ state[a] = "Queued"

CurInv ==
    \A w \in Workers :
        /\ cur[w] # Nil <=> pc[w] \in CurPc
        /\ cur[w] # Nil =>
              /\ Route[cur[w]] = Pool[w]
              /\ \A t \in Transports : cur[w] \notin Range(queue[t])
              /\ state[cur[w]] \in (IF pc[w] = "decr" THEN Terminal ELSE Active)

PendInv ==
    \A w \in Workers :
        /\ pend[w] # Nil <=> pc[w] \in PendPc
        /\ pend[w] # Nil =>
              /\ \A t \in Transports : pend[w] \notin Range(queue[t])
              /\ state[pend[w]] = (IF pc[w] = "undo" THEN "BudgetDiscarded" ELSE "Queued")
              /\ \A v \in Workers : cur[v] # pend[w]

ExclusiveInv ==
    \A v, w \in Workers : v # w =>
        /\ cur[v] = cur[w] => cur[v] = Nil
        /\ pend[v] = pend[w] => pend[v] = Nil

OwnedInv ==
    \A a \in Addrs : state[a] \in Active =>
        \/ \E t \in Transports : a \in Range(queue[t])
        \/ \E w \in Workers : cur[w] = a \/ pend[w] = a

VerdictInv ==
    \A w \in Workers : pc[w] \in {"finish", "requeue"} => term[w] \in Terminal

OwnInv == QueueInv /\ CurInv /\ PendInv /\ ExclusiveInv /\ OwnedInv /\ VerdictInv

(* Before run, only the main task acts; whoever closes the queues has a    *)
(* reason, and the reason lasts.                                           *)
CloseInv ==
    /\ phase = "seeding" =>
          /\ closed = {} /\ monitor = "idle" /\ signal = "idle"
          /\ \A w \in Workers : pc[w] = "top"
    /\ monitor = "exited" => outstanding = 0
    /\ signal \in {"closing", "closed"} => shutdown
    /\ \A w \in Workers : (why[w] = "limit" => nodeLimitReached) /\ (why[w] = "panic" => shutdown)
    /\ \A w \in Workers :
          pc[w] = "close" => outstanding = 0 \/ shutdown \/ nodeLimitReached
    /\ closed # {} => outstanding = 0 \/ shutdown \/ nodeLimitReached

Inv == TypeOK /\ OwnInv /\ OutstandingExact /\ CloseInv

-----------------------------------------------------------------------------
(* Queues as sets *)

(* Pushing a key adds it to the queue's elements, and keeps them distinct  *)
(* if it was not there (the try_send of enqueue and requeue).              *)
LEMMA PushFacts ==
    ASSUME NEW S, NEW s \in Seq(S), NEW e \in S
    PROVE  /\ Append(s, e) \in Seq(S)
           /\ Range(Append(s, e)) = Range(s) \cup {e}
           /\ IsInjective(s) /\ e \notin Range(s) => IsInjective(Append(s, e))
<1>1. /\ Append(s, e) \in Seq(S)
      /\ Len(Append(s, e)) = Len(s) + 1
      /\ \A i \in 1..Len(s) : Append(s, e)[i] = s[i]
      /\ Append(s, e)[Len(s) + 1] = e
  BY AppendProperties
<1>2. /\ DOMAIN s = 1..Len(s) /\ Len(s) \in Nat
      /\ DOMAIN Append(s, e) = 1..(Len(s) + 1)
  BY <1>1
<1> QED
  BY <1>1, <1>2 DEF Range, IsInjective

(* Receiving takes the head out of the elements (recv in worker_loop).     *)
LEMMA PopFacts ==
    ASSUME NEW S, NEW s \in Seq(S), s # <<>>, IsInjective(s)
    PROVE  /\ Tail(s) \in Seq(S)
           /\ Head(s) \in Range(s)
           /\ Head(s) \in S
           /\ Range(Tail(s)) = Range(s) \ {Head(s)}
           /\ IsInjective(Tail(s))
<1>1. /\ Head(s) = s[1]
      /\ Tail(s) \in Seq(S)
      /\ Len(Tail(s)) = Len(s) - 1
      /\ \A i \in 1..Len(Tail(s)) : Tail(s)[i] = s[i + 1]
  BY HeadTailProperties
<1>2. /\ DOMAIN s = 1..Len(s) /\ Len(s) \in Nat \ {0}
      /\ DOMAIN Tail(s) = 1..(Len(s) - 1)
  BY <1>1, EmptySeq
<1>3. \A i \in 2..Len(s) : i - 1 \in 1..(Len(s) - 1) /\ s[i] = Tail(s)[i - 1]
  BY <1>1, <1>2
<1>4. Head(s) \in Range(s) /\ Head(s) \in S
  BY <1>1, <1>2 DEF Range
<1>5. Range(Tail(s)) \subseteq Range(s) \ {Head(s)}
  BY <1>1, <1>2 DEF Range, IsInjective
<1>6. Range(s) \ {Head(s)} \subseteq Range(Tail(s))
  <2> SUFFICES ASSUME NEW i \in 1..Len(s), s[i] # Head(s)
               PROVE  s[i] \in Range(Tail(s))
    BY <1>2 DEF Range
  <2>1. i \in 2..Len(s)
    BY <1>1, <1>2
  <2> QED
    BY <1>2, <1>3, <2>1 DEF Range
<1>7. IsInjective(Tail(s))
  BY <1>1, <1>2 DEF IsInjective
<1> QED
  BY <1>1, <1>4, <1>5, <1>6, <1>7

-----------------------------------------------------------------------------
(* Type correctness *)

(* A worker that is about to decrement the counter holds a counted address, *)
(* so the counter is positive: it never wraps below zero.                   *)
LEMMA CounterPositive ==
    ASSUME Inv, NEW w \in Workers, cur[w] # Nil
    PROVE  outstanding >= 1
<1>1. cur[w] \in Counted
  BY DEF Inv, TypeOK, Counted
<1>2. IsFiniteSet(Counted)
  BY SetAssumption, FS_Subset DEF Counted
<1>3. Cardinality(Counted) \in Nat /\ Cardinality(Counted) # 0
  BY <1>1, <1>2, FS_CardinalityType, FS_EmptySet
<1> QED
  BY <1>3 DEF Inv, OutstandingExact

(* Every step keeps every variable in its type. *)
LEMMA TypeStep ==
    ASSUME Inv, [Next]_vars
    PROVE  TypeOK'
<1> USE SetAssumption, RouteAssumption, BoundAssumption
    DEF entryVars, budgetVars, queueVars, flagVars, batchVars, verdict, mainVars
<1>0. TypeOK
  BY DEF Inv
<1> USE <1>0
<1>1. ASSUME NEW a \in Seeds, Seed(a) PROVE TypeOK'
  <2>1. a \in Addrs /\ Route[a] \in Transports
    OBVIOUS
  <2>2. Append(queue[Route[a]], a) \in Seq(Addrs)
    BY <2>1, PushFacts DEF TypeOK
  <2>3. CASE state[a] # "absent"
    BY <1>1, <2>1, <2>3 DEF Seed, Later, TypeOK
  <2>4. CASE state[a] = "absent" /\ HasBudget
    <3>1. queue' \in [Transports -> Seq(Addrs)]
      <4>1. queue' = [queue EXCEPT ![Route[a]] = Append(@, a)]
        BY <1>1, <2>4 DEF Seed, Push
      <4> QED
        BY <2>1, <2>2, <4>1 DEF TypeOK
    <3>a. /\ state' = [state EXCEPT ![a] = "Queued"]
          /\ freshest' = [freshest EXCEPT ![a] = now]
      BY <1>1, <2>4 DEF Seed
    <3>2. /\ state' \in [Addrs -> NodeState \cup {"absent"}]
          /\ freshest' \in [Addrs -> Int]
      BY <3>a DEF TypeOK, NodeState, Active
    <3>3. entries' \in Nat /\ outstanding' \in Nat /\ budgetRejected' = budgetRejected
      BY <1>1, <2>4 DEF Seed, TypeOK
    <3> QED
      BY <1>1, <3>1, <3>2, <3>3 DEF Seed, TypeOK
  <2>5. CASE state[a] = "absent" /\ ~HasBudget
    BY <1>1, <2>1, <2>5 DEF Seed, TypeOK
  <2> QED
    BY <2>3, <2>4, <2>5
<1>2. ASSUME NEW w \in Workers, LoopTop(w) PROVE TypeOK'
  BY <1>2 DEF LoopTop, Running, Goto, TypeOK, WorkerPc, NodeState, Active, Terminal
<1>3. ASSUME NEW w \in Workers, Recv(w) PROVE TypeOK'
  BY <1>3, PopFacts, SMTT(60) DEF Recv, Running, Goto, TypeOK, WorkerPc, NodeState, Active, Terminal
<1>4. ASSUME NEW w \in Workers, RecvClosed(w) PROVE TypeOK'
  BY <1>4 DEF RecvClosed, Running, Goto, TypeOK, WorkerPc, NodeState, Active, Terminal
<1>5. ASSUME NEW w \in Workers, Begin(w) PROVE TypeOK'
  <2>1. cur[w] \in Addrs
    BY <1>5 DEF Begin, Running, TypeOK, Inv, OwnInv, CurInv, CurPc
  <2> QED
    BY <1>5, <2>1 DEF Begin, Running, Goto, TypeOK, WorkerPc, NodeState, Active
<1>6. ASSUME NEW w \in Workers, OverLimit(w) PROVE TypeOK'
  <2>1. pc' \in [Workers -> WorkerPc]
    BY <1>6 DEF OverLimit, TypeOK, Goto, WorkerPc
  <2>2. term' \in [Workers -> Terminal \cup {Nil}]
    BY <1>6 DEF OverLimit, TypeOK, Terminal
  <2>3. why' \in [Workers -> {"done", "limit", "panic"}]
    BY <1>6 DEF OverLimit, TypeOK
  <2> QED
    BY <1>6, <2>1, <2>2, <2>3 DEF OverLimit, TypeOK
<1>7. ASSUME NEW w \in Workers, Connect(w) PROVE TypeOK'
  <2>1. pc' \in [Workers -> WorkerPc]
    BY <1>7 DEF Connect, TypeOK, Goto, WorkerPc
  <2>2. connected' \in [Addrs -> BOOLEAN]
    BY <1>7 DEF Connect, TypeOK
  <2> QED
    BY <1>7, <2>1, <2>2 DEF Connect, TypeOK
<1>8. ASSUME NEW w \in Workers, ConnectFails(w) PROVE TypeOK'
  <2>1. pc' \in [Workers -> WorkerPc]
    BY <1>8 DEF ConnectFails, TypeOK, RetryOrFinish, Goto, WorkerPc
  <2>2. term' \in [Workers -> Terminal \cup {Nil}]
    BY <1>8 DEF ConnectFails, TypeOK, RetryOrFinish, ConnectFailure, Terminal
  <2>3. reason' \in [Workers -> FailKind \cup {Nil}]
    BY <1>8 DEF ConnectFails, TypeOK, RetryOrFinish, FailKind
  <2> QED
    BY <1>8, <2>1, <2>2, <2>3 DEF ConnectFails, TypeOK
<1>9. ASSUME NEW w \in Workers, Handshake(w) PROVE TypeOK'
  <2>1. pc' \in [Workers -> WorkerPc]
    BY <1>9 DEF Handshake, TypeOK, Goto, WorkerPc
  <2>2. term' \in [Workers -> Terminal \cup {Nil}]
    BY <1>9 DEF Handshake, TypeOK, Terminal
  <2>3. handshake' \in [Addrs -> BOOLEAN]
    BY <1>9 DEF Handshake, TypeOK
  <2> QED
    BY <1>9, <2>1, <2>2, <2>3 DEF Handshake, TypeOK
<1>10. ASSUME NEW w \in Workers, HandshakeTimesOut(w) PROVE TypeOK'
  <2>1. pc' \in [Workers -> WorkerPc]
    BY <1>10 DEF HandshakeTimesOut, TypeOK, RetryOrFinish, Goto, WorkerPc
  <2>2. term' \in [Workers -> Terminal \cup {Nil}]
    BY <1>10 DEF HandshakeTimesOut, TypeOK, RetryOrFinish, Terminal
  <2>3. reason' \in [Workers -> FailKind \cup {Nil}]
    BY <1>10 DEF HandshakeTimesOut, TypeOK, RetryOrFinish, FailKind
  <2> QED
    BY <1>10, <2>1, <2>2, <2>3 DEF HandshakeTimesOut, TypeOK
<1>11. ASSUME NEW w \in Workers, HandshakeFails(w) PROVE TypeOK'
  <2>1. pc' \in [Workers -> WorkerPc]
    BY <1>11 DEF HandshakeFails, TypeOK, RetryOrFinish, Goto, WorkerPc
  <2>2. term' \in [Workers -> Terminal \cup {Nil}]
    BY <1>11 DEF HandshakeFails, TypeOK, RetryOrFinish, Terminal
  <2>3. reason' \in [Workers -> FailKind \cup {Nil}]
    BY <1>11 DEF HandshakeFails, TypeOK, RetryOrFinish, FailKind
  <2> QED
    BY <1>11, <2>1, <2>2, <2>3 DEF HandshakeFails, TypeOK
<1>12. ASSUME NEW w \in Workers, EndCollection(w) PROVE TypeOK'
  BY <1>12 DEF EndCollection, Running, Goto, TypeOK, WorkerPc, NodeState, Active, Terminal
<1>13. ASSUME NEW w \in Workers, Upsert(w) PROVE TypeOK'
  <2>1. PICK c \in batch[w] : Upsert(w)!2!(c)
    BY <1>13 DEF Upsert
  <2>a. c \in Claim
    BY DEF TypeOK
  <2>2. c.addr \in Addrs /\ c.ts \in Int
    BY <2>a DEF Claim
  <2>3. freshest' \in [Addrs -> Int] /\ entries' \in Nat
    BY <2>1, <2>2 DEF TypeOK, Later
  <2>4. budgetRejected' \in BOOLEAN
    BY <2>1 DEF TypeOK
  <2>5. state' \in [Addrs -> NodeState \cup {"absent"}]
    BY <2>1, <2>2 DEF TypeOK, NodeState, Active
  <2>6. /\ batch' \in [Workers -> SUBSET Claim]
        /\ pend' \in [Workers -> Addrs \cup {Nil}]
        /\ pc' \in [Workers -> WorkerPc]
    BY <2>1, <2>2 DEF TypeOK, Goto, WorkerPc
  <2>7. UNCHANGED <<attempts, connected, handshake, failure, outstanding, queue, closed,
                    numProcessed, shutdown, nodeLimitReached, workerFailed, outputFailed, cur,
                    asOf, full, term, reason, why, phase, monitor, signal, now>>
    BY <1>13 DEF Upsert
  <2> QED
    BY <2>3, <2>4, <2>5, <2>6, <2>7 DEF TypeOK
<1>14. ASSUME NEW w \in Workers, EndBatch(w) PROVE TypeOK'
  <2>1. pc' \in [Workers -> WorkerPc]
    BY <1>14 DEF EndBatch, TypeOK, Goto, WorkerPc
  <2>2. term' \in [Workers -> Terminal \cup {Nil}]
    BY <1>14 DEF EndBatch, TypeOK, Terminal
  <2>3. outputFailed' \in BOOLEAN
    BY <1>14 DEF EndBatch, TypeOK
  <2>4. full' \in [Workers -> BOOLEAN] /\ asOf' \in [Workers -> Int]
    BY <1>14 DEF EndBatch, TypeOK
  <2> QED
    BY <1>14, <2>1, <2>2, <2>3, <2>4 DEF EndBatch, TypeOK
<1>15. ASSUME NEW w \in Workers, Incr(w) PROVE TypeOK'
  BY <1>15 DEF Incr, Running, Goto, TypeOK, WorkerPc, NodeState, Active, Terminal
<1>16. ASSUME NEW w \in Workers, Send(w) PROVE TypeOK'
  <2>1. pend[w] \in Addrs /\ Route[pend[w]] \in Transports
    BY <1>16 DEF Send, Running, TypeOK, Inv, OwnInv, PendInv, PendPc
  <2>2. Append(queue[Route[pend[w]]], pend[w]) \in Seq(Addrs)
    BY <2>1, PushFacts DEF TypeOK
  <2> QED
    BY <1>16, <2>1, <2>2 DEF Send, Push, Running, Goto, TypeOK, WorkerPc
<1>17. ASSUME NEW w \in Workers, SendRefused(w) PROVE TypeOK'
  <2>1. pc' \in [Workers -> WorkerPc]
    BY <1>17 DEF SendRefused, TypeOK, Goto, WorkerPc
  <2>2. state' \in [Addrs -> NodeState \cup {"absent"}]
    BY <1>17 DEF SendRefused, TypeOK, NodeState, Terminal
  <2> QED
    BY <1>17, <2>1, <2>2 DEF SendRefused, TypeOK
<1>18. ASSUME NEW w \in Workers, Undo(w) PROVE TypeOK'
  <2>1. outstanding >= 1
    BY <1>18, CounterPositive DEF Undo, Running, Inv, OwnInv, CurInv, CurPc
  <2> QED
    BY <1>18, <2>1 DEF Undo, Running, Goto, TypeOK, WorkerPc
<1>19. ASSUME NEW w \in Workers, Requeue(w) PROVE TypeOK'
  <2>1. cur[w] \in Addrs /\ Pool[w] \in Transports
    BY <1>19 DEF Requeue, Running, TypeOK, Inv, OwnInv, CurInv, CurPc
  <2>2. Append(queue[Pool[w]], cur[w]) \in Seq(Addrs)
    BY <2>1, PushFacts DEF TypeOK
  <2>3. queue' \in [Transports -> Seq(Addrs)]
    BY <1>19, <2>1, <2>2 DEF Requeue, Push, TypeOK
  <2>4. pc' \in [Workers -> WorkerPc]
    BY <1>19 DEF Requeue, TypeOK, Goto, WorkerPc
  <2>5. state' \in [Addrs -> NodeState \cup {"absent"}]
    BY <1>19 DEF Requeue, TypeOK, NodeState, Active
  <2>6. cur' \in [Workers -> Addrs \cup {Nil}]
    BY <1>19 DEF Requeue, TypeOK
  <2>7. term' \in [Workers -> Terminal \cup {Nil}] /\ reason' \in [Workers -> FailKind \cup {Nil}]
    BY <1>19 DEF Requeue, TypeOK
  <2> QED
    BY <1>19, <2>3, <2>4, <2>5, <2>6, <2>7 DEF Requeue, TypeOK
<1>20. ASSUME NEW w \in Workers, FinishMark(w) PROVE TypeOK'
  <2>1. term[w] \in Terminal
    BY <1>20 DEF FinishMark, Running, Inv, OwnInv, VerdictInv
  <2>2. pc' \in [Workers -> WorkerPc]
    BY <1>20 DEF FinishMark, TypeOK, Goto, WorkerPc
  <2>3. state' \in [Addrs -> NodeState \cup {"absent"}]
    BY <1>20, <2>1 DEF FinishMark, TypeOK, NodeState
  <2>4. failure' \in [Addrs -> FailKind \cup {Nil}]
    <3>1. failure' = failure \/ failure' = [failure EXCEPT ![cur[w]] = reason[w]]
      BY <1>20 DEF FinishMark
    <3>2. failure \in [Addrs -> FailKind \cup {Nil}] /\ reason[w] \in FailKind \cup {Nil}
      BY DEF TypeOK
    <3> QED
      BY <3>1, <3>2
  <2>5. cur' \in [Workers -> Addrs \cup {Nil}]
    BY <1>20 DEF FinishMark, TypeOK
  <2>6. term' \in [Workers -> Terminal \cup {Nil}] /\ reason' \in [Workers -> FailKind \cup {Nil}]
    BY <1>20 DEF FinishMark, TypeOK
  <2> QED
    BY <1>20, <2>2, <2>3, <2>4, <2>5, <2>6 DEF FinishMark, TypeOK
<1>21. ASSUME NEW w \in Workers, FinishDecr(w) PROVE TypeOK'
  <2>1. outstanding >= 1
    BY <1>21, CounterPositive DEF FinishDecr, Running, Inv, OwnInv, CurInv, CurPc
  <2> QED
    BY <1>21, <2>1 DEF FinishDecr, Running, Goto, TypeOK, WorkerPc
<1>22. ASSUME NEW w \in Workers, CloseNext(w) PROVE TypeOK'
  BY <1>22 DEF CloseNext, Running, Goto, TypeOK, WorkerPc, NodeState, Active, Terminal
<1>23. ASSUME NEW w \in Workers, CloseDone(w) PROVE TypeOK'
  BY <1>23 DEF CloseDone, Running, Goto, TypeOK, WorkerPc, NodeState, Active, Terminal
<1>24. ASSUME NEW w \in Workers, AddrMessage(w) PROVE TypeOK'
  BY <1>24 DEF AddrMessage, Running, Goto, TypeOK, WorkerPc, NodeState, Active, Terminal
<1>25. ASSUME NEW w \in Workers, Panic(w) PROVE TypeOK'
  BY <1>25 DEF Panic, Running, Goto, TypeOK, WorkerPc, NodeState, Active, Terminal, FailKind
<1>26. CASE StartRun
  BY <1>26 DEF StartRun, TypeOK
<1>27. CASE MonitorExit
  BY <1>27 DEF MonitorExit, TypeOK
<1>28. CASE CtrlC
  BY <1>28 DEF CtrlC, TypeOK
<1>29. CASE SignalCloses
  BY <1>29 DEF SignalCloses, TypeOK
<1>30. CASE CtrlCAgain
  BY <1>30 DEF CtrlCAgain, TypeOK
<1>31. CASE RunReturns
  BY <1>31 DEF RunReturns, TypeOK
<1>32. CASE Tick
  BY <1>32 DEF Tick, TypeOK
<1>33. CASE UNCHANGED vars
  BY <1>33 DEF vars, TypeOK
<1> QED
  BY <1>1, <1>2, <1>3, <1>4, <1>5, <1>6, <1>7, <1>8, <1>9, <1>10, <1>11, <1>12, <1>13, <1>14, <1>15, <1>16, <1>17, <1>18, <1>19, <1>20, <1>21, <1>22, <1>23, <1>24, <1>25, <1>26, <1>27, <1>28, <1>29, <1>30, <1>31, <1>32, <1>33 DEF Next, WorkerStep, MainStep, Terminated

-----------------------------------------------------------------------------
(* Ownership *)

(* The part of TypeOK that ownership needs. *)
OwnType ==
    /\ state \in [Addrs -> NodeState \cup {"absent"}]
    /\ queue \in [Transports -> Seq(Addrs)]
    /\ pc \in [Workers -> WorkerPc]
    /\ cur \in [Workers -> Addrs \cup {Nil}]
    /\ pend \in [Workers -> Addrs \cup {Nil}]
    /\ term \in [Workers -> Terminal \cup {Nil}]

(* Queues hold addresses. *)
LEMMA QueuedAddr ==
    ASSUME OwnType, NEW t \in Transports, NEW a \in Range(queue[t])
    PROVE  a \in Addrs
<1>1. queue[t] \in Seq(Addrs)
  BY DEF OwnType
<1>2. PICK i \in DOMAIN queue[t] : a = queue[t][i]
  BY DEF Range
<1> QED
  BY <1>1, <1>2

(* A queued address is in the queue of its own transport. *)
LEMMA QueuedAtRoute ==
    ASSUME QueueInv, NEW a \in Addrs
    PROVE  InQueue(a) <=> a \in Range(queue[Route[a]])
  BY RouteAssumption DEF QueueInv, InQueue

(* A step that leaves store states, queues and holdings alone and moves    *)
(* one worker between labels of the same kind keeps ownership.             *)
LEMMA FrameOwn ==
    ASSUME OwnType, OwnInv, NEW w \in Workers, NEW l \in WorkerPc,
           Goto(w, l), UNCHANGED <<state, queue, cur, pend>>,
           pc[w] \in CurPc <=> l \in CurPc,
           pc[w] \in PendPc <=> l \in PendPc,
           {pc[w], l} \cap {"decr", "undo"} = {},
           l \in {"finish", "requeue"} => term'[w] \in Terminal,
           \A v \in Workers : v # w => term'[v] = term[v]
    PROVE  OwnInv'
<1>1. QueueInv' /\ ExclusiveInv' /\ OwnedInv'
  BY DEF OwnInv, QueueInv, ExclusiveInv, OwnedInv
<1>2. CurInv' /\ PendInv'
  BY DEF OwnType, OwnInv, CurInv, PendInv, Goto
<1>3. VerdictInv'
  BY DEF OwnType, OwnInv, VerdictInv, Goto
<1> QED
  BY <1>1, <1>2, <1>3 DEF OwnInv

(* The counted addresses stay the same under such a step, unless it starts *)
(* or ends the pushing of a key.                                           *)
LEMMA FrameCounted ==
    ASSUME OwnType, OwnInv, NEW w \in Workers, NEW l \in WorkerPc,
           Goto(w, l), UNCHANGED <<queue, cur, pend>>,
           pc[w] # "incr", l # "incr"
    PROVE  Counted' = Counted
<1>1. \A v \in Workers : (pc'[v] # "incr") <=> (pc[v] # "incr")
  BY DEF OwnType, Goto
<1>2. \A a \in Addrs : InQueue(a)' <=> InQueue(a)
  BY DEF InQueue
<1> QED
  BY <1>1, <1>2 DEF Counted

(* Nothing that ownership is about changes. *)
LEMMA StutterOwn ==
    ASSUME OwnInv, UNCHANGED <<state, queue, cur, pend, pc, term>>
    PROVE  OwnInv' /\ Counted' = Counted
<1>1. OwnInv'
  BY DEF OwnInv, QueueInv, CurInv, PendInv, ExclusiveInv, OwnedInv, VerdictInv
<1>2. Counted' = Counted
  BY DEF Counted, InQueue
<1> QED
  BY <1>1, <1>2

(* A counted address is in the store. *)
LEMMA CountedPresent ==
    ASSUME OwnInv, NEW a \in Counted
    PROVE  state[a] # "absent"
<1>0. a \in Addrs /\ a # Nil
  BY SetAssumption DEF Counted
<1>1. CASE InQueue(a)
  BY <1>1 DEF OwnInv, QueueInv, InQueue
<1>2. CASE \E w \in Workers : cur[w] = a
  <2>1. PICK w \in Workers : cur[w] = a
    BY <1>2
  <2>2. state[cur[w]] \in Active \cup Terminal
    BY <1>0, <2>1 DEF OwnInv, CurInv
  <2> QED
    BY <2>1, <2>2 DEF Active, Terminal
<1>3. CASE \E w \in Workers : pend[w] = a
  BY <1>0, <1>3 DEF OwnInv, PendInv
<1> QED
  BY <1>1, <1>2, <1>3 DEF Counted

(* recv moves an address from the queue into the hands of one worker. *)
LEMMA RecvOwn ==
    ASSUME OwnType, OwnInv, NEW w \in Workers, Recv(w)
    PROVE  OwnInv' /\ Counted' = Counted
<1>0. PICK T \in Transports : T = Pool[w]
  BY RouteAssumption
<1>1. queue[T] \in Seq(Addrs) /\ queue[T] # <<>> /\ IsInjective(queue[T])
  BY <1>0 DEF Recv, OwnType, OwnInv, QueueInv
<1>2. PICK a \in Addrs : a = Head(queue[T])
  BY <1>1, PopFacts
<1>3. /\ a \in Range(queue[T])
      /\ Range(Tail(queue[T])) = Range(queue[T]) \ {a}
      /\ IsInjective(Tail(queue[T]))
  BY <1>1, <1>2, PopFacts
<1>4. /\ queue' = [queue EXCEPT ![T] = Tail(queue[T])]
      /\ cur' = [cur EXCEPT ![w] = a]
      /\ pc' = [pc EXCEPT ![w] = "reserve"]
      /\ pc[w] = "recv"
      /\ UNCHANGED <<state, pend, term>>
  BY <1>0, <1>2 DEF Recv, Running, Goto, entryVars, batchVars, verdict
<1>5. \A t \in Transports :
        Range(queue'[t]) = IF t = T THEN Range(queue[T]) \ {a} ELSE Range(queue[t])
  BY <1>3, <1>4 DEF OwnType
<1>6. \A t \in Transports : IsInjective(queue'[t])
  <2> TAKE t \in Transports
  <2>1. CASE t = T
    BY <1>3, <1>4, <2>1 DEF OwnType
  <2>2. CASE t # T
    BY <1>4, <2>2 DEF OwnType, OwnInv, QueueInv
  <2> QED
    BY <2>1, <2>2
<1>7. /\ cur[w] = Nil /\ pend[w] = Nil /\ a # Nil
      /\ Route[a] = T /\ state[a] = "Queued"
  BY <1>3, <1>4, SetAssumption DEF OwnInv, QueueInv, CurInv, PendInv, CurPc, PendPc
<1>8. \A v \in Workers : cur[v] # a /\ pend[v] # a
  BY <1>3, <1>7 DEF OwnInv, CurInv, PendInv
<1>9. \A t \in Transports : a \notin Range(queue'[t])
  BY <1>3, <1>5, <1>7 DEF OwnInv, QueueInv
<1>10. QueueInv'
  BY <1>4, <1>5, <1>6 DEF OwnInv, QueueInv
<1>11. CurInv'
  <2> SUFFICES ASSUME NEW v \in Workers PROVE CurInv!(v)'
    BY DEF CurInv
  <2>1. CASE v = w
    BY <1>0, <1>4, <1>7, <1>9, <2>1 DEF OwnType, CurPc, Active
  <2>2. CASE v # w
    BY <1>4, <1>5, <2>2 DEF OwnType, OwnInv, CurInv
  <2> QED
    BY <2>1, <2>2
<1>12. PendInv'
  BY <1>4, <1>5, <1>7, <1>8 DEF OwnType, OwnInv, PendInv, PendPc
<1>13. ExclusiveInv' /\ VerdictInv'
  BY <1>4, <1>8 DEF OwnType, OwnInv, ExclusiveInv, VerdictInv
<1>14. OwnedInv'
  <2> SUFFICES ASSUME NEW b \in Addrs, state[b] \in Active
               PROVE  OwnedInv!(b)!2'
    BY <1>4 DEF OwnedInv
  <2>1. CASE b = a
    BY <1>4, <2>1 DEF OwnType
  <2>2. CASE b # a
    BY <1>4, <1>5, <1>7, <2>2 DEF OwnType, OwnInv, OwnedInv
  <2> QED
    BY <2>1, <2>2
<1>15. Counted' = Counted
  BY <1>3, <1>4, <1>5, <1>7 DEF OwnType, Counted, InQueue
<1> QED
  BY <1>10, <1>11, <1>12, <1>13, <1>14, <1>15 DEF OwnInv

(* A push of an address that is not queued, seen on the sets of elements.  *)
LEMMA PushQueue ==
    ASSUME OwnType, QueueInv, NEW T \in Transports, NEW a \in Addrs,
           a \notin Range(queue[T]), Push(T, a)
    PROVE  \A t \in Transports :
              /\ IsInjective(queue'[t])
              /\ Range(queue'[t]) = IF t = T THEN Range(queue[T]) \cup {a} ELSE Range(queue[t])
<1>1. queue[T] \in Seq(Addrs) /\ IsInjective(queue[T])
  BY DEF OwnType, QueueInv
<1>2. /\ Range(Append(queue[T], a)) = Range(queue[T]) \cup {a}
      /\ IsInjective(Append(queue[T], a))
  BY <1>1, PushFacts
<1>3. queue' = [queue EXCEPT ![T] = Append(queue[T], a)]
  BY DEF Push
<1> TAKE t \in Transports
<1>4. CASE t = T
  BY <1>2, <1>3, <1>4 DEF OwnType
<1>5. CASE t # T
  BY <1>3, <1>5 DEF OwnType, QueueInv
<1> QED
  BY <1>4, <1>5

(* Seeding a new address counts and queues it; another seeding of the same *)
(* address, or one over budget, touches neither.                           *)
LEMMA SeedOwn ==
    ASSUME OwnType, OwnInv, NEW a \in Seeds, Seed(a)
    PROVE  /\ OwnInv'
           /\ \/ Counted' = Counted /\ outstanding' = outstanding
              \/ a \in Addrs \ Counted /\ Counted' = Counted \cup {a}
                 /\ outstanding' = outstanding + 1
<1>0. a \in Addrs /\ a # Nil /\ Route[a] \in Transports
  BY SetAssumption, RouteAssumption
<1>1. UNCHANGED <<pc, cur, pend, term>>
  BY DEF Seed, batchVars, verdict
<1>2. CASE state' = state /\ outstanding' = outstanding /\ queue' = queue
  BY <1>1, <1>2, StutterOwn
<1>3. CASE state[a] = "absent" /\ HasBudget
  <2>1. /\ state' = [state EXCEPT ![a] = "Queued"]
        /\ outstanding' = outstanding + 1
        /\ Push(Route[a], a)
    BY <1>3 DEF Seed
  <2>2. a \notin Counted
    BY <1>3, CountedPresent
  <2>3. /\ \A t \in Transports : a \notin Range(queue[t])
        /\ \A w \in Workers : cur[w] # a
    BY <1>0, <2>2 DEF Counted, InQueue
  <2>4. \A w \in Workers : pend[w] # a
    BY <1>0, <1>3 DEF OwnInv, PendInv
  <2>5. \A t \in Transports :
          /\ IsInjective(queue'[t])
          /\ Range(queue'[t]) = IF t = Route[a] THEN Range(queue[t]) \cup {a} ELSE Range(queue[t])
    BY <1>0, <2>1, <2>3, PushQueue DEF OwnInv
  <2>6. QueueInv'
    <3> SUFFICES ASSUME NEW t \in Transports, NEW b \in Range(queue'[t])
                 PROVE  Route[b] = t /\ state'[b] = "Queued"
      BY <2>5 DEF QueueInv
    <3>1. CASE b = a
      BY <1>0, <2>1, <2>3, <2>5, <3>1 DEF OwnType
    <3>2. CASE b # a
      <4>1. b \in Range(queue[t])
        BY <2>5, <3>2
      <4>2. b \in Addrs /\ Route[b] = t /\ state[b] = "Queued"
        BY <4>1, QueuedAddr DEF OwnInv, QueueInv
      <4> QED
        BY <2>1, <3>2, <4>2 DEF OwnType
    <3> QED
      BY <3>1, <3>2
  <2>7. CurInv'
    <3> SUFFICES ASSUME NEW w \in Workers
                 PROVE  /\ cur[w] # Nil <=> pc[w] \in CurPc
                        /\ cur[w] # Nil =>
                             /\ Route[cur[w]] = Pool[w]
                             /\ \A t \in Transports : cur[w] \notin Range(queue'[t])
                             /\ state'[cur[w]] \in (IF pc[w] = "decr" THEN Terminal ELSE Active)
      BY <1>1 DEF CurInv
    <3>1. /\ cur[w] # Nil <=> pc[w] \in CurPc
          /\ cur[w] # Nil =>
               /\ Route[cur[w]] = Pool[w]
               /\ \A t \in Transports : cur[w] \notin Range(queue[t])
               /\ state[cur[w]] \in (IF pc[w] = "decr" THEN Terminal ELSE Active)
      BY DEF OwnInv, CurInv
    <3>2. \A t \in Transports : cur[w] # a /\ cur[w] \notin Range(queue[t])
                                => cur[w] \notin Range(queue'[t])
      BY <2>5
    <3>3. cur[w] # Nil => cur[w] # a /\ state'[cur[w]] = state[cur[w]]
      BY <2>1, <2>3 DEF OwnType
    <3> QED
      BY <3>1, <3>2, <3>3, Zenon
  <2>8. PendInv'
    BY <1>0, <1>1, <2>1, <2>4, <2>5 DEF OwnType, OwnInv, PendInv
  <2>9. ExclusiveInv' /\ VerdictInv'
    BY <1>1 DEF OwnInv, ExclusiveInv, VerdictInv
  <2>10. OwnedInv'
    BY <1>0, <1>1, <2>1, <2>5 DEF OwnType, OwnInv, OwnedInv
  <2>11. Counted' = Counted \cup {a}
    BY <1>0, <1>1, <2>5 DEF Counted, InQueue
  <2> QED
    BY <1>0, <2>1, <2>2, <2>6, <2>7, <2>8, <2>9, <2>10, <2>11 DEF OwnInv
<1> QED
  BY <1>2, <1>3 DEF Seed

(* A step of worker w that only changes the store state of the address it  *)
(* processes, between active states, keeps ownership.                      *)
LEMMA BeginOwn ==
    ASSUME OwnType, OwnInv, NEW w \in Workers, Begin(w)
    PROVE  OwnInv' /\ Counted' = Counted
<1>1. /\ pc[w] = "reserve"
      /\ pc' = [pc EXCEPT ![w] = "connect"]
      /\ state' = [state EXCEPT ![cur[w]] = "Processing"]
      /\ UNCHANGED <<queue, cur, pend, term>>
  BY DEF Begin, Running, Goto, queueVars, batchVars, verdict
<1>2. cur[w] \in Addrs /\ cur[w] # Nil
  BY <1>1 DEF OwnType, OwnInv, CurInv, CurPc
<1>3. QueueInv'
  BY <1>1, <1>2 DEF OwnType, OwnInv, QueueInv, CurInv
<1>4. CurInv'
  <2> SUFFICES ASSUME NEW v \in Workers PROVE CurInv!(v)'
    BY DEF CurInv
  <2>1. CASE v = w
    BY <1>1, <1>2, <2>1 DEF OwnType, OwnInv, CurInv, CurPc, Active
  <2>2. CASE v # w
    BY <1>1, <1>2, <2>2 DEF OwnType, OwnInv, CurInv, ExclusiveInv
  <2> QED
    BY <2>1, <2>2
<1>5. PendInv'
  BY <1>1, <1>2 DEF OwnType, OwnInv, PendInv, PendPc
<1>6. ExclusiveInv' /\ VerdictInv'
  BY <1>1 DEF OwnType, OwnInv, ExclusiveInv, VerdictInv
<1>7. OwnedInv'
  BY <1>1, <1>2 DEF OwnType, OwnInv, OwnedInv
<1>8. Counted' = Counted
  BY <1>1, FrameCounted DEF Goto, WorkerPc
<1> QED
  BY <1>3, <1>4, <1>5, <1>6, <1>7, <1>8 DEF OwnInv

(* The effect of frontier_upsert on ownership: either no address becomes   *)
(* owned, and none that was Queued or Processing changes; or one that was  *)
(* not active is Queued and in the hands of the upserting worker.          *)
LEMMA UpsertOwn ==
    ASSUME OwnType, OwnInv, NEW w \in Workers, NEW c \in Claim, c \in batch[w], Upsert(w)!2!(c),
           Running(w, "upsert"), UNCHANGED <<queueVars, cur, term>>
    PROVE  OwnInv' /\ Counted' = Counted
<1>0. PICK a \in Addrs : a = c.addr
  BY DEF Claim
<1> DEFINE enqueue == Considered(a) /\ ~Stale(IF state[a] # "absent" THEN Later(a, c.ts) ELSE c.ts, asOf[w])
<1>1. /\ pc[w] = "upsert"
      /\ pc' = [pc EXCEPT ![w] = IF enqueue THEN "incr" ELSE "upsert"]
      /\ pend' = [pend EXCEPT ![w] = IF enqueue THEN a ELSE Nil]
      /\ state' = [state EXCEPT ![a] = IF enqueue THEN "Queued"
                                       ELSE IF Considered(a) THEN "StaleDiscarded"
                                       ELSE state[a]]
      /\ UNCHANGED <<queue, cur, term>>
  BY <1>0 DEF Running, Goto, queueVars
<1>2. enqueue => Considered(a)
  OBVIOUS
<1> HIDE DEF enqueue
<1>3. pend[w] = Nil /\ a # Nil
  BY <1>0, <1>1, SetAssumption DEF OwnInv, PendInv, PendPc
<1>4. Considered(a) => state[a] \in {"absent", "StaleDiscarded"}
  BY DEF Considered
<1>5. Considered(a) =>
        /\ \A t \in Transports : a \notin Range(queue[t])
        /\ \A v \in Workers : cur[v] # a /\ pend[v] # a
  BY <1>3, <1>4 DEF OwnInv, QueueInv, CurInv, PendInv, Active, Terminal
<1>6. \A b \in Addrs : b # a => state'[b] = state[b]
  BY <1>1 DEF OwnType
<1>7. QueueInv'
  BY <1>0, <1>1, <1>2, <1>4, <1>5, <1>6, QueuedAddr DEF OwnType, OwnInv, QueueInv
<1>8. CurInv'
  <2> SUFFICES ASSUME NEW v \in Workers PROVE CurInv!(v)'
    BY DEF CurInv
  <2>1. pc'[v] \in CurPc <=> pc[v] \in CurPc
    BY <1>1 DEF OwnType, CurPc
  <2>2. (pc'[v] = "decr") <=> (pc[v] = "decr")
    BY <1>1 DEF OwnType
  <2>3. cur[v] # Nil => state'[cur[v]] = state[cur[v]]
    BY <1>0, <1>1, <1>2, <1>5 DEF OwnType
  <2> QED
    BY <1>1, <2>1, <2>2, <2>3 DEF OwnInv, CurInv
<1>9. PendInv'
  <2> SUFFICES ASSUME NEW v \in Workers PROVE PendInv!(v)'
    BY DEF PendInv
  <2>1. CASE v = w
    BY <1>0, <1>1, <1>2, <1>3, <1>5, <2>1 DEF OwnType, PendPc
  <2>2. CASE v # w
    <3>1. pc'[v] = pc[v] /\ pend'[v] = pend[v]
      BY <1>1, <2>2 DEF OwnType
    <3>2. pend[v] # Nil => state'[pend[v]] = state[pend[v]]
      BY <1>0, <1>1, <1>2, <1>5 DEF OwnType
    <3> QED
      BY <1>1, <3>1, <3>2 DEF OwnInv, PendInv
  <2> QED
    BY <2>1, <2>2
<1>10. ExclusiveInv'
  BY <1>1, <1>2, <1>5 DEF OwnType, OwnInv, ExclusiveInv
<1>11. VerdictInv'
  BY <1>1 DEF OwnType, OwnInv, VerdictInv
<1>12. OwnedInv'
  <2> SUFFICES ASSUME NEW b \in Addrs, state'[b] \in Active
               PROVE  OwnedInv!(b)!2'
    BY DEF OwnedInv
  <2>1. CASE b = a /\ enqueue
    BY <1>1, <2>1 DEF OwnType
  <2>2. CASE ~(b = a /\ enqueue)
    <3>1. state[b] \in Active
      BY <1>0, <1>1, <1>4, <2>2 DEF OwnType, Active
    <3>2. OwnedInv!(b)!2
      BY <3>1 DEF OwnInv, OwnedInv
    <3>3. \A v \in Workers : pend[v] = b => pend'[v] = b
      BY <1>1, <1>3, SetAssumption DEF OwnType
    <3> QED
      BY <1>1, <3>2, <3>3
  <2> QED
    BY <2>1, <2>2
<1>13. Counted' = Counted
  <2>1. \A v \in Workers, b \in Addrs :
          (pend'[v] = b /\ pc'[v] # "incr") <=> (pend[v] = b /\ pc[v] # "incr")
    BY <1>0, <1>1, <1>3, SetAssumption DEF OwnType
  <2>2. \A b \in Addrs : InQueue(b)' <=> InQueue(b)
    BY <1>1 DEF InQueue
  <2> QED
    BY <1>1, <2>1, <2>2 DEF Counted
<1> QED
  BY <1>7, <1>8, <1>9, <1>10, <1>11, <1>12, <1>13 DEF OwnInv

(* The push of enqueue: from the worker's hand into the queue. *)
LEMMA SendOwn ==
    ASSUME OwnType, OwnInv, NEW w \in Workers, Send(w)
    PROVE  OwnInv' /\ Counted' = Counted
<1>0. pc[w] = "send" /\ pend[w] \in Addrs /\ pend[w] # Nil
  BY DEF Send, Running, OwnType, OwnInv, PendInv, PendPc
<1>1. PICK a \in Addrs, T \in Transports : a = pend[w] /\ T = Route[a]
  BY <1>0, RouteAssumption
<1>2. /\ pc' = [pc EXCEPT ![w] = "upsert"]
      /\ pend' = [pend EXCEPT ![w] = Nil]
      /\ UNCHANGED <<state, cur, term>>
      /\ Push(T, a)
  BY <1>1 DEF Send, Goto, entryVars, verdict
<1>3. /\ state[a] = "Queued"
      /\ \A t \in Transports : a \notin Range(queue[t])
      /\ \A v \in Workers : cur[v] # a
      /\ \A v \in Workers : v # w => pend[v] # a
  BY <1>0, <1>1 DEF OwnInv, PendInv, ExclusiveInv
<1>4. \A t \in Transports :
        /\ IsInjective(queue'[t])
        /\ Range(queue'[t]) = IF t = T THEN Range(queue[T]) \cup {a} ELSE Range(queue[t])
  BY <1>2, <1>3, PushQueue DEF OwnInv
<1>5. QueueInv'
  BY <1>1, <1>2, <1>3, <1>4 DEF OwnInv, QueueInv
<1>6. CurInv'
  <2> SUFFICES ASSUME NEW v \in Workers
               PROVE  /\ cur[v] # Nil <=> pc'[v] \in CurPc
                      /\ cur[v] # Nil =>
                           /\ Route[cur[v]] = Pool[v]
                           /\ \A t \in Transports : cur[v] \notin Range(queue'[t])
                           /\ state[cur[v]] \in (IF pc'[v] = "decr" THEN Terminal ELSE Active)
    BY <1>2 DEF CurInv
  <2>1. /\ cur[v] # Nil <=> pc[v] \in CurPc
        /\ cur[v] # Nil =>
             /\ Route[cur[v]] = Pool[v]
             /\ \A t \in Transports : cur[v] \notin Range(queue[t])
             /\ state[cur[v]] \in (IF pc[v] = "decr" THEN Terminal ELSE Active)
    BY DEF OwnInv, CurInv
  <2>2. \A t \in Transports : cur[v] \notin Range(queue[t]) => cur[v] \notin Range(queue'[t])
    BY <1>3, <1>4
  <2>3. (pc'[v] \in CurPc <=> pc[v] \in CurPc) /\ (pc'[v] = "decr" <=> pc[v] = "decr")
    BY <1>0, <1>2 DEF OwnType, CurPc
  <2> QED
    BY <2>1, <2>2, <2>3, Zenon
<1>7. PendInv'
  BY <1>2, <1>3, <1>4 DEF OwnType, OwnInv, PendInv, PendPc
<1>8. ExclusiveInv' /\ VerdictInv'
  BY <1>2 DEF OwnType, OwnInv, ExclusiveInv, VerdictInv
<1>9. OwnedInv'
  <2> SUFFICES ASSUME NEW b \in Addrs, state[b] \in Active
               PROVE  OwnedInv!(b)!2'
    BY <1>2 DEF OwnedInv
  <2>1. CASE b = a
    BY <1>4, <2>1
  <2>2. CASE b # a
    <3>1. OwnedInv!(b)!2
      BY DEF OwnInv, OwnedInv
    <3>2. \A v \in Workers : pend[v] = b => pend'[v] = b
      BY <1>1, <1>2, <2>2 DEF OwnType
    <3> QED
      BY <1>2, <1>4, <3>1, <3>2
  <2> QED
    BY <2>1, <2>2
<1>10. Counted' = Counted
  <2>1. \A b \in Addrs : InQueue(b)' <=> InQueue(b) \/ b = a
    BY <1>4 DEF InQueue
  <2>2. \A v \in Workers, b \in Addrs :
          (pend'[v] = b /\ pc'[v] # "incr") <=> (v # w /\ pend[v] = b /\ pc[v] # "incr")
    BY <1>2, SetAssumption DEF OwnType
  <2>3. pend[w] = a /\ pc[w] # "incr"
    BY <1>0, <1>1
  <2> QED
    BY <1>1, <1>2, <2>1, <2>2, <2>3 DEF Counted
<1> QED
  BY <1>5, <1>6, <1>7, <1>8, <1>9, <1>10 DEF OwnInv

(* A refused push leaves the address in the worker's hand, discarded. *)
LEMMA SendRefusedOwn ==
    ASSUME OwnType, OwnInv, NEW w \in Workers, SendRefused(w)
    PROVE  OwnInv' /\ Counted' = Counted
<1>1. /\ pc[w] = "send"
      /\ pc' = [pc EXCEPT ![w] = "undo"]
      /\ state' = [state EXCEPT ![pend[w]] = "BudgetDiscarded"]
      /\ UNCHANGED <<queue, cur, pend, term>>
  BY DEF SendRefused, Running, Goto, queueVars, batchVars, verdict
<1>2. pend[w] \in Addrs /\ pend[w] # Nil
  BY <1>1 DEF OwnType, OwnInv, PendInv, PendPc
<1>3. QueueInv'
  BY <1>1, <1>2 DEF OwnType, OwnInv, QueueInv, PendInv
<1>4. CurInv'
  <2> SUFFICES ASSUME NEW v \in Workers PROVE CurInv!(v)'
    BY DEF CurInv
  <2>1. pc'[v] \in CurPc <=> pc[v] \in CurPc
    BY <1>1 DEF OwnType, CurPc
  <2>2. (pc'[v] = "decr") <=> (pc[v] = "decr")
    BY <1>1 DEF OwnType
  <2>3. cur[v] # pend[w]
    BY <1>2 DEF OwnInv, PendInv
  <2> QED
    BY <1>1, <1>2, <2>1, <2>2, <2>3 DEF OwnType, OwnInv, CurInv
<1>5. PendInv'
  <2> SUFFICES ASSUME NEW v \in Workers PROVE PendInv!(v)'
    BY DEF PendInv
  <2>1. CASE v = w
    BY <1>1, <1>2, <2>1 DEF OwnType, OwnInv, PendInv, PendPc
  <2>2. CASE v # w
    BY <1>1, <1>2, <2>2 DEF OwnType, OwnInv, PendInv, ExclusiveInv
  <2> QED
    BY <2>1, <2>2
<1>6. ExclusiveInv' /\ VerdictInv'
  BY <1>1 DEF OwnType, OwnInv, ExclusiveInv, VerdictInv
<1>7. OwnedInv'
  BY <1>1, <1>2 DEF OwnType, OwnInv, OwnedInv, Active
<1>8. Counted' = Counted
  BY <1>1, FrameCounted DEF Goto, WorkerPc
<1> QED
  BY <1>3, <1>4, <1>5, <1>6, <1>7, <1>8 DEF OwnInv

(* The undo lets go of the discarded address and of its count. *)
LEMMA UndoOwn ==
    ASSUME OwnType, OwnInv, NEW w \in Workers, Undo(w)
    PROVE  OwnInv' /\ pend[w] \in Counted /\ Counted' = Counted \ {pend[w]}
<1>1. /\ pc[w] = "undo"
      /\ pc' = [pc EXCEPT ![w] = "upsert"]
      /\ pend' = [pend EXCEPT ![w] = Nil]
      /\ UNCHANGED <<state, queue, cur, term>>
  BY DEF Undo, Running, Goto, entryVars, queueVars, verdict
<1>2. /\ pend[w] \in Addrs /\ pend[w] # Nil /\ state[pend[w]] = "BudgetDiscarded"
      /\ ~InQueue(pend[w])
      /\ \A v \in Workers : cur[v] # pend[w] /\ (v # w => pend[v] # pend[w])
  BY <1>1 DEF OwnType, OwnInv, PendInv, ExclusiveInv, PendPc, InQueue
<1>3. QueueInv'
  BY <1>1 DEF OwnInv, QueueInv
<1>4. CurInv'
  BY <1>1 DEF OwnType, OwnInv, CurInv, CurPc
<1>5. PendInv'
  BY <1>1 DEF OwnType, OwnInv, PendInv, PendPc
<1>6. ExclusiveInv' /\ VerdictInv'
  BY <1>1 DEF OwnType, OwnInv, ExclusiveInv, VerdictInv
<1>7. OwnedInv'
  <2> SUFFICES ASSUME NEW b \in Addrs, state[b] \in Active
               PROVE  OwnedInv!(b)!2'
    BY <1>1 DEF OwnedInv
  <2>1. OwnedInv!(b)!2
    BY DEF OwnInv, OwnedInv
  <2>2. \A v \in Workers : pend[v] = b => pend'[v] = b
    BY <1>1, <1>2 DEF OwnType, Active
  <2> QED
    BY <1>1, <2>1, <2>2
<1>8. pend[w] \in Counted
  BY <1>1, <1>2 DEF Counted
<1>9. Counted' = Counted \ {pend[w]}
  <2>1. \A b \in Addrs : InQueue(b)' <=> InQueue(b)
    BY <1>1 DEF InQueue
  <2>2. \A v \in Workers, b \in Addrs :
          (pend'[v] = b /\ pc'[v] # "incr") <=> (v # w /\ pend[v] = b /\ pc[v] # "incr")
    BY <1>1, SetAssumption DEF OwnType
  <2> QED
    BY <1>1, <1>2, <2>1, <2>2 DEF Counted
<1> QED
  BY <1>3, <1>4, <1>5, <1>6, <1>7, <1>8, <1>9 DEF OwnInv

(* requeue hands the address back to its queue, or keeps it to finish it. *)
LEMMA RequeueOwn ==
    ASSUME OwnType, OwnInv, NEW w \in Workers, Requeue(w)
    PROVE  OwnInv' /\ Counted' = Counted
<1>0. /\ pc[w] = "requeue" /\ cur[w] \in Addrs /\ cur[w] # Nil /\ pend[w] = Nil
      /\ Pool[w] \in Transports /\ Route[cur[w]] = Pool[w]
      /\ state[cur[w]] \in Active /\ term[w] \in Terminal
  <2>1. pc[w] = "requeue"
    BY DEF Requeue, Running
  <2>2. cur[w] \in Addrs /\ cur[w] # Nil
    BY <2>1 DEF OwnType, OwnInv, CurInv, CurPc
  <2>3. pend[w] = Nil
    BY <2>1 DEF OwnInv, PendInv, PendPc
  <2>4. Pool[w] \in Transports
    BY RouteAssumption
  <2>5. Route[cur[w]] = Pool[w] /\ state[cur[w]] \in Active
    BY <2>1, <2>2 DEF OwnInv, CurInv
  <2>6. term[w] \in Terminal
    BY <2>1 DEF OwnInv, VerdictInv
  <2> QED
    BY <2>1, <2>2, <2>3, <2>4, <2>5, <2>6
<1>1. PICK a \in Addrs, T \in Transports : a = cur[w] /\ T = Pool[w]
  BY <1>0
<1>2. /\ state' = [state EXCEPT ![a] = "Queued"]
      /\ UNCHANGED pend
      /\ \A b \in Addrs : b # a => state'[b] = state[b]
  BY <1>1 DEF Requeue, batchVars, OwnType
<1>3. /\ \A t \in Transports : a \notin Range(queue[t])
      /\ \A v \in Workers : pend[v] # a /\ (v # w => cur[v] # a)
  BY <1>0, <1>1 DEF OwnInv, CurInv, PendInv, ExclusiveInv
<1>4. CASE Accepts(Pool[w])
  <2>1. /\ Push(T, a)
        /\ cur' = [cur EXCEPT ![w] = Nil]
        /\ pc' = [pc EXCEPT ![w] = "top"]
        /\ term' = [term EXCEPT ![w] = Nil]
    BY <1>1, <1>4 DEF Requeue, Goto
  <2>2. \A t \in Transports :
          /\ IsInjective(queue'[t])
          /\ Range(queue'[t]) = IF t = T THEN Range(queue[T]) \cup {a} ELSE Range(queue[t])
    BY <1>3, <2>1, PushQueue DEF OwnInv
  <2>3. QueueInv'
    <3> SUFFICES ASSUME NEW t \in Transports, NEW b \in Range(queue'[t])
                 PROVE  Route[b] = t /\ state'[b] = "Queued"
      BY <2>2 DEF QueueInv
    <3>1. CASE b = a
      BY <1>0, <1>1, <1>2, <1>3, <2>2, <3>1 DEF OwnType
    <3>2. CASE b # a
      <4>1. b \in Range(queue[t])
        BY <2>2, <3>2
      <4>2. b \in Addrs /\ Route[b] = t /\ state[b] = "Queued"
        BY <4>1, QueuedAddr DEF OwnInv, QueueInv
      <4> QED
        BY <1>2, <3>2, <4>2
    <3> QED
      BY <3>1, <3>2
  <2>4. CurInv'
    <3> SUFFICES ASSUME NEW v \in Workers PROVE CurInv!(v)'
      BY DEF CurInv
    <3>1. CASE v = w
      BY <2>1, <3>1 DEF OwnType, CurPc
    <3>2. CASE v # w
      BY <1>2, <1>3, <2>1, <2>2, <3>2 DEF OwnType, OwnInv, CurInv
    <3> QED
      BY <3>1, <3>2
  <2>5. PendInv'
    <3> SUFFICES ASSUME NEW v \in Workers PROVE PendInv!(v)'
      BY DEF PendInv
    <3>1. (pc'[v] \in PendPc <=> pc[v] \in PendPc) /\ ((pc'[v] = "undo") <=> (pc[v] = "undo"))
      BY <1>0, <2>1 DEF OwnType, PendPc
    <3>2. pend[v] # Nil => \A u \in Workers : cur'[u] # pend[v]
      BY <2>1 DEF OwnType, OwnInv, PendInv
    <3>3. pend[v] # Nil => pend[v] \in Addrs /\ state'[pend[v]] = state[pend[v]]
      BY <1>2, <1>3 DEF OwnType
    <3> QED
      BY <1>2, <1>3, <2>2, <3>1, <3>2, <3>3 DEF OwnInv, PendInv
  <2>6. ExclusiveInv' /\ VerdictInv'
    BY <1>2, <2>1 DEF OwnType, OwnInv, ExclusiveInv, VerdictInv
  <2>7. OwnedInv'
    <3> SUFFICES ASSUME NEW b \in Addrs, state'[b] \in Active
                 PROVE  OwnedInv!(b)!2'
      BY DEF OwnedInv
    <3>1. CASE b = a
      BY <2>2, <3>1
    <3>2. CASE b # a
      <4>1. OwnedInv!(b)!2
        BY <1>2, <3>2 DEF OwnInv, OwnedInv
      <4>2. \A v \in Workers : cur[v] = b => cur'[v] = b
        BY <1>1, <2>1, <3>2 DEF OwnType
      <4> QED
        BY <1>2, <2>2, <4>1, <4>2
    <3> QED
      BY <3>1, <3>2
  <2>8. Counted' = Counted
    <3>1. \A b \in Addrs : InQueue(b)' <=> InQueue(b) \/ b = a
      BY <2>2 DEF InQueue
    <3>2. \A v \in Workers, b \in Addrs : cur'[v] = b <=> v # w /\ cur[v] = b
      BY <2>1, SetAssumption DEF OwnType
    <3>3. \A v \in Workers : pc'[v] # "incr" <=> pc[v] # "incr"
      BY <1>0, <2>1 DEF OwnType
    <3> QED
      BY <1>1, <1>2, <3>1, <3>2, <3>3 DEF Counted
  <2> QED
    BY <2>3, <2>4, <2>5, <2>6, <2>7, <2>8 DEF OwnInv
<1>5. CASE ~Accepts(Pool[w])
  <2>1. pc' = [pc EXCEPT ![w] = "finish"] /\ UNCHANGED <<queue, cur, term>>
    BY <1>5 DEF Requeue, Goto
  <2>2. QueueInv'
    BY <1>1, <1>2, <1>3, <2>1 DEF OwnType, OwnInv, QueueInv
  <2>3. CurInv'
    <3> SUFFICES ASSUME NEW v \in Workers PROVE CurInv!(v)'
      BY DEF CurInv
    <3>1. CASE v = w
      BY <1>0, <1>1, <1>2, <2>1, <3>1 DEF OwnType, OwnInv, CurInv, CurPc, Active
    <3>2. CASE v # w
      BY <1>2, <1>3, <2>1, <3>2 DEF OwnType, OwnInv, CurInv
    <3> QED
      BY <3>1, <3>2
  <2>4. PendInv'
    <3> SUFFICES ASSUME NEW v \in Workers PROVE PendInv!(v)'
      BY DEF PendInv
    <3>1. (pc'[v] \in PendPc <=> pc[v] \in PendPc) /\ ((pc'[v] = "undo") <=> (pc[v] = "undo"))
      BY <1>0, <2>1 DEF OwnType, PendPc
    <3>3. pend[v] # Nil => pend[v] \in Addrs /\ state'[pend[v]] = state[pend[v]]
      BY <1>2, <1>3 DEF OwnType
    <3> QED
      BY <1>2, <1>3, <2>1, <3>1, <3>3 DEF OwnInv, PendInv
  <2>5. ExclusiveInv' /\ VerdictInv'
    BY <1>0, <1>2, <2>1 DEF OwnType, OwnInv, ExclusiveInv, VerdictInv
  <2>6. OwnedInv'
    BY <1>1, <1>2, <2>1 DEF OwnType, OwnInv, OwnedInv
  <2>7. Counted' = Counted
    BY <1>0, <1>2, <2>1, FrameCounted DEF Goto, WorkerPc
  <2> QED
    BY <2>2, <2>3, <2>4, <2>5, <2>6, <2>7 DEF OwnInv
<1> QED
  BY <1>4, <1>5

(* finish marks the address, which the worker keeps until the decrement. *)
LEMMA FinishMarkOwn ==
    ASSUME OwnType, OwnInv, NEW w \in Workers, FinishMark(w)
    PROVE  OwnInv' /\ Counted' = Counted
<1>0. /\ pc[w] = "finish" /\ cur[w] \in Addrs /\ cur[w] # Nil /\ pend[w] = Nil
      /\ state[cur[w]] \in Active /\ term[w] \in Terminal
  BY DEF FinishMark, Running, OwnType, OwnInv, CurInv, PendInv, VerdictInv, CurPc, PendPc
<1>1. /\ state' = [state EXCEPT ![cur[w]] = term[w]]
      /\ pc' = [pc EXCEPT ![w] = "decr"]
      /\ term' = [term EXCEPT ![w] = Nil]
      /\ UNCHANGED <<queue, cur, pend>>
  BY <1>0 DEF FinishMark, Goto, queueVars, batchVars
<1>2. /\ \A t \in Transports : cur[w] \notin Range(queue[t])
      /\ \A v \in Workers : pend[v] # cur[w] /\ (v # w => cur[v] # cur[w])
  BY <1>0 DEF OwnInv, CurInv, PendInv, ExclusiveInv
<1>3. QueueInv'
  BY <1>1, <1>2 DEF OwnType, OwnInv, QueueInv
<1>4. CurInv'
  <2> SUFFICES ASSUME NEW v \in Workers PROVE CurInv!(v)'
    BY DEF CurInv
  <2>1. CASE v = w
    BY <1>0, <1>1, <2>1 DEF OwnType, OwnInv, CurInv, CurPc
  <2>2. CASE v # w
    BY <1>1, <1>2, <2>2 DEF OwnType, OwnInv, CurInv
  <2> QED
    BY <2>1, <2>2
<1>5. PendInv'
  <2> SUFFICES ASSUME NEW v \in Workers PROVE PendInv!(v)'
    BY DEF PendInv
  <2>1. (pc'[v] \in PendPc <=> pc[v] \in PendPc) /\ ((pc'[v] = "undo") <=> (pc[v] = "undo"))
    BY <1>0, <1>1 DEF OwnType, PendPc
  <2>2. pend[v] # Nil => state'[pend[v]] = state[pend[v]]
    BY <1>1, <1>2 DEF OwnType
  <2> QED
    BY <1>1, <2>1, <2>2 DEF OwnInv, PendInv
<1>6. ExclusiveInv' /\ VerdictInv'
  BY <1>1 DEF OwnType, OwnInv, ExclusiveInv, VerdictInv
<1>7. OwnedInv'
  BY <1>0, <1>1 DEF OwnType, OwnInv, OwnedInv, Active, Terminal
<1>8. Counted' = Counted
  BY <1>0, <1>1, FrameCounted DEF Goto, WorkerPc
<1> QED
  BY <1>3, <1>4, <1>5, <1>6, <1>7, <1>8 DEF OwnInv

(* The decrement lets go of the settled address and of its count. *)
LEMMA FinishDecrOwn ==
    ASSUME OwnType, OwnInv, NEW w \in Workers, FinishDecr(w)
    PROVE  OwnInv' /\ cur[w] \in Counted /\ Counted' = Counted \ {cur[w]}
<1>1. PICK l \in {"top", "close"} : pc' = [pc EXCEPT ![w] = l]
  BY DEF FinishDecr, Goto
<1>2. /\ pc[w] = "decr"
      /\ cur' = [cur EXCEPT ![w] = Nil]
      /\ UNCHANGED <<state, queue, pend, term>>
  BY DEF FinishDecr, Running, entryVars, queueVars, batchVars, verdict
<1>3. /\ cur[w] \in Addrs /\ cur[w] # Nil /\ state[cur[w]] \in Terminal
      /\ ~InQueue(cur[w])
      /\ \A v \in Workers : pend[v] # cur[w] /\ (v # w => cur[v] # cur[w])
  BY <1>2 DEF OwnType, OwnInv, CurInv, PendInv, ExclusiveInv, CurPc, InQueue
<1>4. QueueInv'
  BY <1>2 DEF OwnInv, QueueInv
<1>5. CurInv'
  BY <1>1, <1>2 DEF OwnType, OwnInv, CurInv, CurPc
<1>6. PendInv'
  <2>1. \A v \in Workers : /\ (pc'[v] \in PendPc <=> pc[v] \in PendPc)
                           /\ ((pc'[v] = "undo") <=> (pc[v] = "undo"))
    BY <1>1, <1>2 DEF OwnType, PendPc
  <2> QED
    BY <1>2, <2>1 DEF OwnType, OwnInv, PendInv
<1>7. ExclusiveInv' /\ VerdictInv'
  BY <1>1, <1>2 DEF OwnType, OwnInv, ExclusiveInv, VerdictInv
<1>8. OwnedInv'
  <2> SUFFICES ASSUME NEW b \in Addrs, state[b] \in Active
               PROVE  OwnedInv!(b)!2'
    BY <1>2 DEF OwnedInv
  <2>1. OwnedInv!(b)!2
    BY DEF OwnInv, OwnedInv
  <2>2. \A v \in Workers : cur[v] = b => cur'[v] = b
    BY <1>2, <1>3 DEF OwnType, Active, Terminal
  <2> QED
    BY <1>2, <2>1, <2>2
<1>9. cur[w] \in Counted
  BY <1>3 DEF Counted
<1>10. Counted' = Counted \ {cur[w]}
  <2>1. \A b \in Addrs : InQueue(b)' <=> InQueue(b)
    BY <1>2 DEF InQueue
  <2>2. \A v \in Workers, b \in Addrs : cur'[v] = b <=> v # w /\ cur[v] = b
    BY <1>2, SetAssumption DEF OwnType
  <2>3. \A v \in Workers : pc'[v] # "incr" <=> pc[v] # "incr"
    BY <1>1, <1>2 DEF OwnType
  <2> QED
    BY <1>2, <1>3, <2>1, <2>2, <2>3 DEF Counted
<1> QED
  BY <1>4, <1>5, <1>6, <1>7, <1>8, <1>9, <1>10 DEF OwnInv

(* The increment of enqueue starts counting the address in hand. *)
LEMMA IncrOwn ==
    ASSUME OwnType, OwnInv, NEW w \in Workers, Incr(w)
    PROVE  /\ OwnInv'
           /\ pend[w] \in Addrs \ Counted
           /\ Counted' = Counted \cup {pend[w]}
<1>1. /\ pc[w] = "incr"
      /\ pc' = [pc EXCEPT ![w] = "send"]
      /\ UNCHANGED <<state, queue, cur, pend, term>>
  BY DEF Incr, Running, Goto, entryVars, queueVars, batchVars, verdict
<1>2. OwnInv'
  BY <1>1, FrameOwn DEF Goto, WorkerPc, CurPc, PendPc
<1>3. /\ pend[w] \in Addrs /\ pend[w] # Nil /\ ~InQueue(pend[w])
      /\ \A v \in Workers : cur[v] # pend[w] /\ (v # w => pend[v] # pend[w])
  BY <1>1 DEF OwnType, OwnInv, PendInv, ExclusiveInv, PendPc, InQueue
<1>4. pend[w] \notin Counted
  BY <1>1, <1>3 DEF Counted
<1>5. Counted' = Counted \cup {pend[w]}
  <2>1. \A b \in Addrs : InQueue(b)' <=> InQueue(b)
    BY <1>1 DEF InQueue
  <2>2. \A v \in Workers : pc'[v] # "incr" <=> (v = w \/ pc[v] # "incr")
    BY <1>1 DEF OwnType
  <2> QED
    BY <1>1, <1>3, <2>1, <2>2 DEF Counted
<1> QED
  BY <1>2, <1>3, <1>4, <1>5

(* What a step may do to the counter and to the addresses it counts. *)
CountStep ==
    \/ Counted' = Counted /\ outstanding' = outstanding
    \/ \E a \in Addrs \ Counted :
          Counted' = Counted \cup {a} /\ outstanding' = outstanding + 1
    \/ \E a \in Counted :
          Counted' = Counted \ {a} /\ outstanding' = outstanding - 1

LEMMA FrameStep ==
    ASSUME OwnType, OwnInv, NEW w \in Workers, NEW l \in WorkerPc,
           Goto(w, l), UNCHANGED <<state, queue, cur, pend, outstanding>>,
           pc[w] \in CurPc <=> l \in CurPc,
           {pc[w], l} \cap {"decr", "undo", "incr", "send"} = {},
           l \in {"finish", "requeue"} => term'[w] \in Terminal,
           \A v \in Workers : v # w => term'[v] = term[v]
    PROVE  OwnInv' /\ CountStep
<1>1. OwnInv'
  BY FrameOwn DEF PendPc
<1>2. Counted' = Counted
  BY FrameCounted
<1> QED
  BY <1>1, <1>2 DEF CountStep

(* Every step keeps ownership, and the counter in step with the addresses. *)
LEMMA OwnStep ==
    ASSUME TypeOK, OwnInv, [Next]_vars
    PROVE  OwnInv' /\ CountStep
<1>0. OwnType
  BY DEF TypeOK, OwnType
<1> USE <1>0 DEF entryVars, queueVars, batchVars, verdict, mainVars
<1>1. ASSUME NEW a \in Seeds, Seed(a) PROVE OwnInv' /\ CountStep
  BY <1>1, SeedOwn DEF CountStep
<1>2. ASSUME NEW w \in Workers, LoopTop(w) PROVE OwnInv' /\ CountStep
  <2>1. PICK l \in {"recv", "stopped"} : Goto(w, l)
    BY <1>2 DEF LoopTop
  <2>2. pc[w] = "top" /\ UNCHANGED <<state, queue, cur, pend, outstanding>>
    BY <1>2 DEF LoopTop, Running
  <2>3. UNCHANGED term
    BY <1>2 DEF LoopTop
  <2> QED
    BY <2>1, <2>2, <2>3, FrameStep DEF WorkerPc, CurPc
<1>3. ASSUME NEW w \in Workers, RecvClosed(w) PROVE OwnInv' /\ CountStep
  <2>1. PICK l \in {"stopped"} : Goto(w, l)
    BY <1>3 DEF RecvClosed
  <2>2. pc[w] = "recv" /\ UNCHANGED <<state, queue, cur, pend, outstanding>>
    BY <1>3 DEF RecvClosed, Running
  <2>3. UNCHANGED term
    BY <1>3 DEF RecvClosed
  <2> QED
    BY <2>1, <2>2, <2>3, FrameStep DEF WorkerPc, CurPc
<1>4. ASSUME NEW w \in Workers, OverLimit(w) PROVE OwnInv' /\ CountStep
  <2>1. PICK l \in {"finish"} : Goto(w, l)
    BY <1>4 DEF OverLimit
  <2>2. pc[w] = "reserve" /\ UNCHANGED <<state, queue, cur, pend, outstanding>>
    BY <1>4 DEF OverLimit, Running
  <2>3. /\ l \in {"finish", "requeue"} => term'[w] \in Terminal
        /\ \A v \in Workers : v # w => term'[v] = term[v]
    BY <1>4, <2>1, <2>2 DEF OverLimit, OwnType, Terminal
  <2> QED
    BY <2>1, <2>2, <2>3, FrameStep DEF WorkerPc, CurPc
<1>5. ASSUME NEW w \in Workers, Connect(w) PROVE OwnInv' /\ CountStep
  <2>1. PICK l \in {"handshake"} : Goto(w, l)
    BY <1>5 DEF Connect
  <2>2. pc[w] = "connect" /\ UNCHANGED <<state, queue, cur, pend, outstanding>>
    BY <1>5 DEF Connect, Running
  <2>3. UNCHANGED term
    BY <1>5 DEF Connect
  <2> QED
    BY <2>1, <2>2, <2>3, FrameStep DEF WorkerPc, CurPc
<1>6. ASSUME NEW w \in Workers, ConnectFails(w) PROVE OwnInv' /\ CountStep
  <2>1. PICK l \in {"requeue", "finish"} : Goto(w, l)
    BY <1>6 DEF ConnectFails, RetryOrFinish
  <2>2. pc[w] = "connect" /\ UNCHANGED <<state, queue, cur, pend, outstanding>>
    BY <1>6 DEF ConnectFails, Running
  <2>3. /\ l \in {"finish", "requeue"} => term'[w] \in Terminal
        /\ \A v \in Workers : v # w => term'[v] = term[v]
    BY <1>6, <2>1, <2>2 DEF ConnectFails, RetryOrFinish, OwnType, Terminal, ConnectFailure
  <2> QED
    BY <2>1, <2>2, <2>3, FrameStep DEF WorkerPc, CurPc
<1>7. ASSUME NEW w \in Workers, Handshake(w) PROVE OwnInv' /\ CountStep
  <2>1. PICK l \in {"collect", "finish"} : Goto(w, l)
    BY <1>7 DEF Handshake
  <2>2. pc[w] = "handshake" /\ UNCHANGED <<state, queue, cur, pend, outstanding>>
    BY <1>7 DEF Handshake, Running
  <2>3. /\ l \in {"finish", "requeue"} => term'[w] \in Terminal
        /\ \A v \in Workers : v # w => term'[v] = term[v]
    BY <1>7, <2>1, <2>2 DEF Handshake, Terminal, Goto, OwnType
  <2> QED
    BY <2>1, <2>2, <2>3, FrameStep DEF WorkerPc, CurPc
<1>8. ASSUME NEW w \in Workers, HandshakeTimesOut(w) PROVE OwnInv' /\ CountStep
  <2>1. PICK l \in {"requeue", "finish"} : Goto(w, l)
    BY <1>8 DEF HandshakeTimesOut, RetryOrFinish
  <2>2. pc[w] = "handshake" /\ UNCHANGED <<state, queue, cur, pend, outstanding>>
    BY <1>8 DEF HandshakeTimesOut, Running
  <2>3. /\ l \in {"finish", "requeue"} => term'[w] \in Terminal
        /\ \A v \in Workers : v # w => term'[v] = term[v]
    BY <1>8, <2>1, <2>2 DEF HandshakeTimesOut, RetryOrFinish, OwnType, Terminal
  <2> QED
    BY <2>1, <2>2, <2>3, FrameStep DEF WorkerPc, CurPc
<1>9. ASSUME NEW w \in Workers, HandshakeFails(w) PROVE OwnInv' /\ CountStep
  <2>1. PICK l \in {"requeue", "finish"} : Goto(w, l)
    BY <1>9 DEF HandshakeFails, RetryOrFinish
  <2>2. pc[w] = "handshake" /\ UNCHANGED <<state, queue, cur, pend, outstanding>>
    BY <1>9 DEF HandshakeFails, Running
  <2>3. /\ l \in {"finish", "requeue"} => term'[w] \in Terminal
        /\ \A v \in Workers : v # w => term'[v] = term[v]
    BY <1>9, <2>1, <2>2 DEF HandshakeFails, RetryOrFinish, OwnType, Terminal
  <2> QED
    BY <2>1, <2>2, <2>3, FrameStep DEF WorkerPc, CurPc
<1>10. ASSUME NEW w \in Workers, EndCollection(w) PROVE OwnInv' /\ CountStep
  <2>1. PICK l \in {"finish"} : Goto(w, l)
    BY <1>10 DEF EndCollection
  <2>2. pc[w] = "collect" /\ UNCHANGED <<state, queue, cur, pend, outstanding>>
    BY <1>10 DEF EndCollection, Running
  <2>3. /\ l \in {"finish", "requeue"} => term'[w] \in Terminal
        /\ \A v \in Workers : v # w => term'[v] = term[v]
    BY <1>10, <2>1, <2>2 DEF EndCollection, OwnType, Terminal
  <2> QED
    BY <2>1, <2>2, <2>3, FrameStep DEF WorkerPc, CurPc
<1>11. ASSUME NEW w \in Workers, EndBatch(w) PROVE OwnInv' /\ CountStep
  <2>1. pc[w] = "upsert" /\ UNCHANGED <<state, queue, cur, pend, outstanding>>
    BY <1>11 DEF EndBatch, Running
  <2>2. CASE Goto(w, "finish") /\ term' = [term EXCEPT ![w] = "Reachable"]
    <3>1. /\ term'[w] \in Terminal
          /\ \A v \in Workers : v # w => term'[v] = term[v]
      BY <2>2 DEF OwnType, Terminal
    <3> QED
      BY <2>1, <2>2, <3>1, FrameStep DEF WorkerPc, CurPc
  <2>3. CASE Goto(w, "collect") /\ UNCHANGED term
    BY <2>1, <2>3, FrameStep DEF WorkerPc, CurPc
  <2> QED
    BY <1>11, <2>2, <2>3 DEF EndBatch
<1>12. ASSUME NEW w \in Workers, AddrMessage(w) PROVE OwnInv' /\ CountStep
  <2>1. PICK l \in {"upsert"} : Goto(w, l)
    BY <1>12 DEF AddrMessage
  <2>2. pc[w] = "collect" /\ UNCHANGED <<state, queue, cur, pend, outstanding>>
    BY <1>12 DEF AddrMessage, Running
  <2>3. UNCHANGED term
    BY <1>12 DEF AddrMessage
  <2> QED
    BY <2>1, <2>2, <2>3, FrameStep DEF WorkerPc, CurPc
<1>13. ASSUME NEW w \in Workers, Panic(w) PROVE OwnInv' /\ CountStep
  <2>1. PICK l \in {"finish"} : Goto(w, l)
    BY <1>13 DEF Panic
  <2>2. /\ pc[w] \in {"connect", "handshake", "collect"}
        /\ UNCHANGED <<state, queue, cur, pend, outstanding>>
    BY <1>13 DEF Panic, Running
  <2>3. /\ l \in {"finish", "requeue"} => term'[w] \in Terminal
        /\ \A v \in Workers : v # w => term'[v] = term[v]
    BY <1>13, <2>1, <2>2 DEF Panic, OwnType, Terminal
  <2> QED
    BY <2>1, <2>2, <2>3, FrameStep DEF WorkerPc, CurPc
<1>14. ASSUME NEW w \in Workers, CloseDone(w) PROVE OwnInv' /\ CountStep
  <2>1. PICK l \in {"top", "stopped"} : Goto(w, l)
    BY <1>14 DEF CloseDone
  <2>2. pc[w] = "close" /\ UNCHANGED <<state, queue, cur, pend, outstanding>>
    BY <1>14 DEF CloseDone, Running
  <2>3. UNCHANGED term
    BY <1>14 DEF CloseDone
  <2> QED
    BY <2>1, <2>2, <2>3, FrameStep DEF WorkerPc, CurPc
<1>15. ASSUME NEW w \in Workers, Recv(w) PROVE OwnInv' /\ CountStep
  BY <1>15, RecvOwn DEF Recv, CountStep
<1>16. ASSUME NEW w \in Workers, Begin(w) PROVE OwnInv' /\ CountStep
  BY <1>16, BeginOwn DEF Begin, CountStep
<1>17. ASSUME NEW w \in Workers, Send(w) PROVE OwnInv' /\ CountStep
  BY <1>17, SendOwn DEF Send, CountStep
<1>18. ASSUME NEW w \in Workers, SendRefused(w) PROVE OwnInv' /\ CountStep
  BY <1>18, SendRefusedOwn DEF SendRefused, CountStep
<1>19. ASSUME NEW w \in Workers, Requeue(w) PROVE OwnInv' /\ CountStep
  BY <1>19, RequeueOwn DEF Requeue, CountStep
<1>20. ASSUME NEW w \in Workers, FinishMark(w) PROVE OwnInv' /\ CountStep
  BY <1>20, FinishMarkOwn DEF FinishMark, CountStep
<1>21. ASSUME NEW w \in Workers, Incr(w) PROVE OwnInv' /\ CountStep
  BY <1>21, IncrOwn DEF Incr, CountStep
<1>22. ASSUME NEW w \in Workers, Undo(w) PROVE OwnInv' /\ CountStep
  BY <1>22, UndoOwn DEF Undo, CountStep
<1>23. ASSUME NEW w \in Workers, FinishDecr(w) PROVE OwnInv' /\ CountStep
  BY <1>23, FinishDecrOwn DEF FinishDecr, CountStep
<1>24. ASSUME NEW w \in Workers, Upsert(w) PROVE OwnInv' /\ CountStep
  <2>1. PICK c \in batch[w] : Upsert(w)!2!(c)
    BY <1>24 DEF Upsert
  <2>2. c \in Claim
    BY DEF TypeOK
  <2>3. Running(w, "upsert") /\ UNCHANGED <<queueVars, cur, term, outstanding>>
    BY <1>24 DEF Upsert
  <2> QED
    BY <2>1, <2>2, <2>3, UpsertOwn DEF CountStep
<1>25. ASSUME NEW w \in Workers, CloseNext(w) PROVE OwnInv' /\ CountStep
  BY <1>25, StutterOwn DEF CloseNext, CountStep
<1>26. CASE StartRun
  BY <1>26, StutterOwn DEF StartRun, CountStep
<1>27. CASE MonitorExit
  BY <1>27, StutterOwn DEF MonitorExit, CountStep
<1>28. CASE CtrlC
  BY <1>28, StutterOwn DEF CtrlC, CountStep
<1>29. CASE SignalCloses
  BY <1>29, StutterOwn DEF SignalCloses, CountStep
<1>30. CASE CtrlCAgain
  BY <1>30, StutterOwn DEF CtrlCAgain, CountStep
<1>31. CASE RunReturns
  BY <1>31, StutterOwn DEF RunReturns, CountStep
<1>32. CASE Tick
  BY <1>32, StutterOwn DEF Tick, CountStep
<1>33. CASE UNCHANGED vars
  BY <1>33, StutterOwn DEF vars, CountStep
<1> QED
  BY <1>1, <1>2, <1>3, <1>4, <1>5, <1>6, <1>7, <1>8, <1>9, <1>10, <1>11, <1>12, <1>13, <1>14, <1>15, <1>16, <1>17, <1>18, <1>19, <1>20, <1>21, <1>22, <1>23, <1>24, <1>25, <1>26, <1>27, <1>28, <1>29, <1>30, <1>31, <1>32, <1>33 DEF Next, WorkerStep, MainStep, Terminated

-----------------------------------------------------------------------------
(* The counter *)

LEMMA CountedFinite ==
    /\ IsFiniteSet(Counted)
    /\ Cardinality(Counted) \in Nat
    /\ Cardinality(Counted) = 0 <=> Counted = {}
<1>1. Counted \in SUBSET Addrs
  BY DEF Counted
<1> QED
  BY <1>1, SetAssumption, FS_Subset, FS_CardinalityType, FS_EmptySet

LEMMA OutstandingStep ==
    ASSUME Inv, CountStep
    PROVE  OutstandingExact'
<1>1. CASE Counted' = Counted /\ outstanding' = outstanding
  BY <1>1 DEF Inv, OutstandingExact
<1>2. ASSUME NEW a \in Addrs \ Counted,
             Counted' = Counted \cup {a}, outstanding' = outstanding + 1
      PROVE  OutstandingExact'
  BY <1>2, CountedFinite, FS_AddElement DEF Inv, OutstandingExact
<1>3. ASSUME NEW a \in Counted,
             Counted' = Counted \ {a}, outstanding' = outstanding - 1
      PROVE  OutstandingExact'
  BY <1>3, CountedFinite, FS_RemoveElement DEF Inv, OutstandingExact
<1> QED
  BY <1>1, <1>2, <1>3 DEF CountStep

(* At zero, no address is active and no worker holds one. *)
LEMMA QuietIdle ==
    ASSUME Inv, outstanding = 0
    PROVE  /\ \A w \in Workers : cur[w] = Nil /\ pend[w] = Nil /\ pc[w] \notin CurPc
           /\ \A a \in Addrs : state[a] \notin Active
<1>1. Counted = {}
  BY CountedFinite DEF Inv, OutstandingExact
<1>2. \A w \in Workers : cur[w] = Nil
  BY <1>1 DEF Inv, TypeOK, Counted
<1>3. \A w \in Workers : pc[w] \notin CurPc
  BY <1>2 DEF Inv, OwnInv, CurInv
<1>4. \A w \in Workers : pend[w] = Nil
  BY <1>3 DEF Inv, OwnInv, PendInv, CurPc, PendPc
<1>5. \A a \in Addrs : state[a] \notin Active
  <2> SUFFICES ASSUME NEW a \in Addrs, state[a] \in Active PROVE FALSE
    OBVIOUS
  <2>1. InQueue(a)
    BY <1>2, <1>4, SetAssumption DEF Inv, OwnInv, OwnedInv, InQueue
  <2> QED
    BY <1>1, <2>1 DEF Counted
<1> QED
  BY <1>2, <1>3, <1>4, <1>5

-----------------------------------------------------------------------------
(* Reasons to close *)

LEMMA CloseStep ==
    ASSUME Inv, TypeOK', [Next]_vars
    PROVE  CloseInv'
<1> USE DEF Inv, entryVars, budgetVars, queueVars, flagVars, batchVars, verdict, mainVars
<1>0. outstanding = 0 => \A w \in Workers : pc[w] \notin CurPc
  BY QuietIdle
<1>1. ASSUME NEW a \in Seeds, Seed(a) PROVE CloseInv'
  BY <1>1 DEF Seed, CloseInv
<1>2. ASSUME NEW w \in Workers, LoopTop(w) PROVE CloseInv'
  BY <1>2 DEF LoopTop, Running, Goto, TypeOK, CloseInv
<1>3. ASSUME NEW w \in Workers, Recv(w) PROVE CloseInv'
  BY <1>3 DEF Recv, Running, Goto, TypeOK, CloseInv
<1>4. ASSUME NEW w \in Workers, RecvClosed(w) PROVE CloseInv'
  BY <1>4 DEF RecvClosed, Running, Goto, TypeOK, CloseInv
<1>5. ASSUME NEW w \in Workers, Begin(w) PROVE CloseInv'
  BY <1>5 DEF Begin, Running, Goto, TypeOK, CloseInv
<1>6. ASSUME NEW w \in Workers, OverLimit(w) PROVE CloseInv'
  BY <1>6 DEF OverLimit, Running, Goto, TypeOK, CloseInv
<1>7. ASSUME NEW w \in Workers, Connect(w) PROVE CloseInv'
  BY <1>7 DEF Connect, Running, Goto, TypeOK, CloseInv
<1>8. ASSUME NEW w \in Workers, ConnectFails(w) PROVE CloseInv'
  BY <1>8 DEF ConnectFails, Running, Goto, TypeOK, CloseInv, RetryOrFinish
<1>9. ASSUME NEW w \in Workers, Handshake(w) PROVE CloseInv'
  BY <1>9 DEF Handshake, Running, Goto, TypeOK, CloseInv
<1>10. ASSUME NEW w \in Workers, HandshakeTimesOut(w) PROVE CloseInv'
  BY <1>10 DEF HandshakeTimesOut, Running, Goto, TypeOK, CloseInv, RetryOrFinish
<1>11. ASSUME NEW w \in Workers, HandshakeFails(w) PROVE CloseInv'
  BY <1>11 DEF HandshakeFails, Running, Goto, TypeOK, CloseInv, RetryOrFinish
<1>12. ASSUME NEW w \in Workers, EndCollection(w) PROVE CloseInv'
  BY <1>12 DEF EndCollection, Running, Goto, TypeOK, CloseInv
<1>13. ASSUME NEW w \in Workers, Upsert(w) PROVE CloseInv'
  BY <1>13 DEF Upsert, Running, Goto, TypeOK, CloseInv
<1>14. ASSUME NEW w \in Workers, EndBatch(w) PROVE CloseInv'
  BY <1>14 DEF EndBatch, Running, Goto, TypeOK, CloseInv
<1>15. ASSUME NEW w \in Workers, Incr(w) PROVE CloseInv'
  BY <1>0, <1>15 DEF Incr, Running, Goto, TypeOK, CloseInv, CurPc
<1>16. ASSUME NEW w \in Workers, Send(w) PROVE CloseInv'
  BY <1>16 DEF Send, Running, Goto, TypeOK, CloseInv
<1>17. ASSUME NEW w \in Workers, SendRefused(w) PROVE CloseInv'
  BY <1>17 DEF SendRefused, Running, Goto, TypeOK, CloseInv
<1>18. ASSUME NEW w \in Workers, Undo(w) PROVE CloseInv'
  BY <1>0, <1>18 DEF Undo, Running, Goto, TypeOK, CloseInv, CurPc
<1>19. ASSUME NEW w \in Workers, Requeue(w) PROVE CloseInv'
  BY <1>19 DEF Requeue, Running, Goto, TypeOK, CloseInv
<1>20. ASSUME NEW w \in Workers, FinishMark(w) PROVE CloseInv'
  BY <1>20 DEF FinishMark, Running, Goto, TypeOK, CloseInv
<1>21. ASSUME NEW w \in Workers, FinishDecr(w) PROVE CloseInv'
  BY <1>0, <1>21 DEF FinishDecr, Running, Goto, TypeOK, CloseInv, CurPc, WasLast
<1>22. ASSUME NEW w \in Workers, CloseNext(w) PROVE CloseInv'
  BY <1>22 DEF CloseNext, Running, Goto, TypeOK, CloseInv
<1>23. ASSUME NEW w \in Workers, CloseDone(w) PROVE CloseInv'
  BY <1>23 DEF CloseDone, Running, Goto, TypeOK, CloseInv
<1>24. ASSUME NEW w \in Workers, AddrMessage(w) PROVE CloseInv'
  BY <1>24 DEF AddrMessage, Running, Goto, TypeOK, CloseInv
<1>25. ASSUME NEW w \in Workers, Panic(w) PROVE CloseInv'
  BY <1>25 DEF Panic, Running, Goto, TypeOK, CloseInv
<1>26. CASE StartRun
  BY <1>26 DEF StartRun, CloseInv, TypeOK
<1>27. CASE MonitorExit
  BY <1>27 DEF MonitorExit, CloseInv, TypeOK, NoWork
<1>28. CASE CtrlC
  BY <1>28 DEF CtrlC, CloseInv, TypeOK
<1>29. CASE SignalCloses
  BY <1>29 DEF SignalCloses, CloseInv, TypeOK
<1>30. CASE CtrlCAgain
  BY <1>30 DEF CtrlCAgain, CloseInv, TypeOK
<1>31. CASE RunReturns
  BY <1>31 DEF RunReturns, CloseInv, TypeOK
<1>32. CASE Tick
  BY <1>32 DEF Tick, CloseInv, TypeOK
<1>33. CASE UNCHANGED vars
  BY <1>33 DEF vars, CloseInv
<1> QED
  BY <1>1, <1>2, <1>3, <1>4, <1>5, <1>6, <1>7, <1>8, <1>9, <1>10, <1>11, <1>12, <1>13, <1>14, <1>15, <1>16, <1>17, <1>18, <1>19, <1>20, <1>21, <1>22, <1>23, <1>24, <1>25, <1>26, <1>27, <1>28, <1>29, <1>30, <1>31, <1>32, <1>33 DEF Next, WorkerStep, MainStep, Terminated

-----------------------------------------------------------------------------
(* The invariant *)

LEMMA InitInv == Init => Inv
<1> SUFFICES ASSUME Init PROVE Inv
  OBVIOUS
<1> USE SetAssumption, RouteAssumption, BoundAssumption DEF Init
<1>1. TypeOK
  <2>1. queue \in [Transports -> Seq(Addrs)]
    OBVIOUS
  <2>2. /\ state \in [Addrs -> NodeState \cup {"absent"}]
        /\ attempts \in [Addrs -> Nat]
        /\ freshest \in [Addrs -> Int]
        /\ connected \in [Addrs -> BOOLEAN] /\ handshake \in [Addrs -> BOOLEAN]
        /\ failure \in [Addrs -> FailKind \cup {Nil}]
    OBVIOUS
  <2>3. /\ pc \in [Workers -> WorkerPc]
        /\ cur \in [Workers -> Addrs \cup {Nil}]
        /\ pend \in [Workers -> Addrs \cup {Nil}]
        /\ batch \in [Workers -> SUBSET Claim]
        /\ asOf \in [Workers -> Int]
        /\ full \in [Workers -> BOOLEAN]
    BY DEF WorkerPc
  <2>4. /\ term \in [Workers -> Terminal \cup {Nil}]
        /\ reason \in [Workers -> FailKind \cup {Nil}]
        /\ why \in [Workers -> {"done", "limit", "panic"}]
    OBVIOUS
  <2> QED
    BY <2>1, <2>2, <2>3, <2>4 DEF TypeOK
<1>2. \A t \in Transports : Range(queue[t]) = {} /\ IsInjective(queue[t])
  <2>1. DOMAIN <<>> = {}
    OBVIOUS
  <2>2. \A t \in Transports : queue[t] = <<>>
    OBVIOUS
  <2> HIDE DEF Init
  <2> QED
    BY <2>1, <2>2 DEF Range, IsInjective
<1>3. OwnInv
  BY <1>2 DEF OwnInv, QueueInv, CurInv, PendInv, ExclusiveInv, OwnedInv, VerdictInv, CurPc,
              PendPc, Active
<1>4. Counted = {}
  BY <1>2 DEF Counted, InQueue
<1>5. OutstandingExact
  BY <1>4, FS_EmptySet DEF OutstandingExact
<1>6. CloseInv
  BY DEF CloseInv
<1> QED
  BY <1>1, <1>3, <1>5, <1>6 DEF Inv

LEMMA InvStep == Inv /\ [Next]_vars => Inv'
<1> SUFFICES ASSUME Inv, [Next]_vars PROVE Inv'
  OBVIOUS
<1>1. TypeOK'
  BY TypeStep
<1>2. OwnInv' /\ CountStep
  BY OwnStep DEF Inv
<1>3. OutstandingExact'
  BY <1>2, OutstandingStep
<1>4. CloseInv'
  BY <1>1, CloseStep
<1> QED
  BY <1>1, <1>2, <1>3, <1>4 DEF Inv

LEMMA InvAlways == Spec => []Inv
BY InitInv, InvStep, PTL DEF Spec

-----------------------------------------------------------------------------
(* Theorems *)

(***************************************************************************)
(* Every variable keeps its type: in particular the outstanding counter of *)
(* the store, which the code keeps unsigned, is never decremented below 0. *)
(***************************************************************************)
THEOREM TypeCorrect == Spec => []TypeOK
<1>1. Inv => TypeOK
  BY DEF Inv
<1> QED
  BY <1>1, InvAlways, PTL

(***************************************************************************)
(* worker_loop, enqueue, requeue and finish pass every active address from *)
(* one owner to the next: it is never lost and never crawled twice at once.*)
(***************************************************************************)
THEOREM OwnerIsUnique == Spec => []UniqueOwner
<1>1. Inv => UniqueOwner
  <2> SUFFICES ASSUME Inv PROVE UniqueOwner
    OBVIOUS
  <2>1. \A w \in Workers : \A a \in HeldBy(w) : ~InQueue(a)
    BY DEF Inv, OwnInv, CurInv, PendInv, HeldBy, InQueue
  <2>2. \A v, w \in Workers : v # w => HeldBy(v) \cap HeldBy(w) = {}
    BY DEF Inv, OwnInv, PendInv, ExclusiveInv, HeldBy
  <2>3. \A w \in Workers : cur[w] = pend[w] => cur[w] = Nil
    BY DEF Inv, OwnInv, PendInv
  <2>4. \A a \in Addrs : state[a] \in Active =>
           InQueue(a) \/ \E w \in Workers : a \in HeldBy(w)
    BY SetAssumption DEF Inv, OwnInv, OwnedInv, HeldBy, InQueue
  <2>5. \A t \in Transports :
           IsInjective(queue[t]) /\ \A a \in Range(queue[t]) : Route[a] = t
    BY DEF Inv, OwnInv, QueueInv
  <2> QED
    BY <2>1, <2>2, <2>3, <2>4, <2>5 DEF UniqueOwner
<1> QED
  BY <1>1, InvAlways, PTL

(***************************************************************************)
(* The outstanding counter of the store is the number of addresses in      *)
(* flight, although incr_outstanding, the channel operations and           *)
(* decr_outstanding are separate steps of concurrent workers.              *)
(***************************************************************************)
THEOREM CounterExact == Spec => []OutstandingExact
<1>1. Inv => OutstandingExact
  BY DEF Inv
<1> QED
  BY <1>1, InvAlways, PTL

(***************************************************************************)
(* close_all is a sound verdict: without a shutdown or a node limit the    *)
(* queues are closed only when no address is left to crawl.                *)
(***************************************************************************)
THEOREM CloseIsSound == Spec => []NoPrematureClose
<1>1. Inv => NoPrematureClose
  <2> SUFFICES ASSUME Inv, closed # {}, ~shutdown, ~nodeLimitReached
               PROVE  \A a \in Addrs : state[a] \notin Active
    BY DEF NoPrematureClose
  <2>1. outstanding = 0
    BY DEF Inv, CloseInv
  <2> QED
    BY <2>1, QuietIdle
<1> QED
  BY <1>1, InvAlways, PTL

(***************************************************************************)
(* monitor_loop leaves only when the crawl is over, and it stays over: the *)
(* comment above its test is right.                                        *)
(***************************************************************************)
THEOREM MonitorExitIsSound == Spec => []MonitorExitSound
<1>1. Inv => MonitorExitSound
  <2> SUFFICES ASSUME Inv, monitor = "exited"
               PROVE  /\ \A a \in Addrs : state[a] \notin Active
                      /\ \A w \in Workers : HeldBy(w) = {}
    BY DEF MonitorExitSound
  <2>1. outstanding = 0
    BY DEF Inv, CloseInv
  <2> QED
    BY <2>1, QuietIdle DEF HeldBy
<1> QED
  BY <1>1, InvAlways, PTL

(* What TerminalStable asks of one step. *)
KeepsVerdicts ==
    \A a \in Addrs : state[a] \in Terminal => state'[a] = state[a] /\ failure'[a] = failure[a]

LEMMA VerdictStep ==
    ASSUME Inv, [Next]_vars
    PROVE  KeepsVerdicts
<1>0. /\ state \in [Addrs -> NodeState \cup {"absent"}]
      /\ failure \in [Addrs -> FailKind \cup {Nil}]
      /\ cur \in [Workers -> Addrs \cup {Nil}]
      /\ pend \in [Workers -> Addrs \cup {Nil}]
  BY DEF Inv, TypeOK
<1>1. \A w \in Workers : pc[w] \in CurPc \ {"decr"} => state[cur[w]] \in Active
  BY DEF Inv, OwnInv, CurInv
<1>2. Active \cap Terminal = {} /\ "StaleDiscarded" \notin Terminal /\ "absent" \notin Terminal
  BY DEF Active, Terminal
<1> USE <1>0 DEF KeepsVerdicts
<1>3. ASSUME NEW a \in Seeds, Seed(a) PROVE KeepsVerdicts
  BY <1>2, <1>3, SetAssumption DEF Seed
<1>4. ASSUME NEW w \in Workers, Begin(w) PROVE KeepsVerdicts
  BY <1>1, <1>2, <1>4 DEF Begin, Running, CurPc
<1>5. ASSUME NEW w \in Workers, Upsert(w) PROVE KeepsVerdicts
  <2>1. PICK c \in batch[w] :
           state' = [state EXCEPT ![c.addr] =
                        IF Considered(c.addr) /\ ~Stale(IF state[c.addr] # "absent"
                                                        THEN Later(c.addr, c.ts)
                                                        ELSE c.ts, asOf[w])
                        THEN "Queued"
                        ELSE IF Considered(c.addr) THEN "StaleDiscarded" ELSE @]
    BY <1>5 DEF Upsert
  <2>2. failure' = failure
    BY <1>5 DEF Upsert
  <2> QED
    BY <1>2, <2>1, <2>2 DEF Considered
<1>6. ASSUME NEW w \in Workers, SendRefused(w) PROVE KeepsVerdicts
  <2>1. state[pend[w]] = "Queued"
    BY <1>6 DEF SendRefused, Running, Inv, OwnInv, PendInv, PendPc
  <2> QED
    BY <1>2, <1>6, <2>1 DEF SendRefused, Active
<1>7. ASSUME NEW w \in Workers, Requeue(w) PROVE KeepsVerdicts
  BY <1>1, <1>2, <1>7 DEF Requeue, Running, CurPc
<1>8. ASSUME NEW w \in Workers, FinishMark(w) PROVE KeepsVerdicts
  BY <1>1, <1>2, <1>8 DEF FinishMark, Running, CurPc
<1>9. CASE UNCHANGED <<state, failure>>
  BY <1>9
<1>10. \/ \E a \in Seeds : Seed(a)
       \/ \E w \in Workers : \/ Begin(w) \/ Upsert(w) \/ SendRefused(w) \/ Requeue(w)
                             \/ FinishMark(w)
       \/ UNCHANGED <<state, failure>>
  BY DEF Next, WorkerStep, MainStep, Terminated, vars, entryVars, LoopTop, Recv, RecvClosed,
         OverLimit, Connect, ConnectFails, Handshake, HandshakeTimesOut, HandshakeFails,
         EndCollection, EndBatch, Incr, Send, Undo, FinishDecr, CloseNext, CloseDone,
         AddrMessage, Panic, StartRun, MonitorExit, CtrlC, SignalCloses, CtrlCAgain,
         RunReturns, Tick
<1> QED
  BY <1>3, <1>4, <1>5, <1>6, <1>7, <1>8, <1>9, <1>10

(***************************************************************************)
(* A verdict is final: once finish (or a refused push) has put an address  *)
(* in a terminal state, no worker, retry or peer claim changes the state   *)
(* or the recorded failure.                                                *)
(***************************************************************************)
THEOREM VerdictsAreFinal == Spec => TerminalStable
<1>1. Inv /\ [Next]_vars =>
        [\A a \in Addrs : state[a] \in Terminal =>
            state'[a] = state[a] /\ failure'[a] = failure[a]]_vars
  BY VerdictStep DEF KeepsVerdicts
<1> QED
  BY <1>1, InvAlways, PTL DEF Spec, TerminalStable

-----------------------------------------------------------------------------
(***************************************************************************)
(* Crawl implements Frontier, for any addresses, workers and limits, and   *)
(* what this rests on: the budget bounds the queues, so a push is refused  *)
(* only by a closed queue, and a queue is closed early only for a shutdown *)
(* or the node limit; a verdict agrees with the attempts and the evidence  *)
(* of the entry; a worker stops only with its queue drained for good.      *)
(***************************************************************************)
Failed == {"HandshakeFailed", "Unreachable"}
CollectPc == {"collect", "upsert", "incr", "send", "undo"}
ConnectedPc == {"handshake"} \cup CollectPc

KnownAddrs == {a \in Addrs : state[a] # "absent"}

BudgetInv == entries = Cardinality(KnownAddrs) /\ entries <= MaxAddresses

(* Addresses come from the seeds and from claims about enabled networks.   *)
SourceInv ==
    /\ KnownAddrs \subseteq Enabled \cup Seeds
    /\ \A w \in Workers : \A c \in batch[w] : c.addr \in Enabled

(* Where a worker is tells how far its address has come, and at "finish"   *)
(* that the verdict is one this state allows.                              *)
Progress(w) ==
    /\ pc[w] = "reserve" => state[cur[w]] = "Queued"
    /\ pc[w] \in {"connect", "requeue"} \cup ConnectedPc =>
          state[cur[w]] = "Processing" /\ attempts[cur[w]] > 0
    /\ pc[w] = "requeue" => term[w] \in Failed /\ attempts[cur[w]] < MaxAttempts
    /\ pc[w] = "finish" /\ state[cur[w]] = "Processing" =>
          /\ term[w] # "BudgetDiscarded"
          /\ term[w] = "Unreachable" => attempts[cur[w]] >= MaxAttempts
    /\ pc[w] = "finish" /\ state[cur[w]] = "Queued" =>
          /\ nodeLimitReached \/ shutdown
          /\ term[w] = "BudgetDiscarded" \/ (term[w] \in Failed /\ attempts[cur[w]] > 0)

(* What the worker knows of its address, and what its verdict rests on.    *)
Evidence(w) ==
    /\ pc[w] \in ConnectedPc => connected[cur[w]]
    /\ pc[w] \in CollectPc => handshake[cur[w]]
    /\ pc[w] \in {"finish", "requeue"} =>
          /\ term[w] = "Reachable" => handshake[cur[w]]
          /\ term[w] = "Unreachable" => ~connected[cur[w]]
          /\ term[w] = "HandshakeFailed" => connected[cur[w]] \/ reason[w] = "worker"

(* A batch is judged by a clock that was read before. *)
TimeInv ==
    /\ StaleJustified
    /\ StartNow <= now
    /\ \A w \in Workers : asOf[w] <= now
    /\ phase = "seeding" => \A a \in Addrs : state[a] # "StaleDiscarded"

StoppedInv ==
    \A w \in Workers :
        pc[w] = "stopped" => shutdown \/ (Pool[w] \in closed /\ queue[Pool[w]] = <<>>)

WorkInv == \A w \in Workers : Progress(w) /\ Evidence(w)

RInv == BudgetInv /\ SourceInv /\ WorkInv /\ EvidenceKept /\ TimeInv /\ StoppedInv

-----------------------------------------------------------------------------
(* The budget bounds the queues *)

LEMMA KnownFinite == IsFiniteSet(KnownAddrs)
BY SetAssumption, FS_Subset DEF KnownAddrs

(* A queue has no room only if all the known addresses are in it.          *)
LEMMA QueueFits ==
    ASSUME TypeOK, QueueInv, BudgetInv, NEW a \in KnownAddrs, NEW t \in Transports,
           a \notin Range(queue[t])
    PROVE  Len(queue[t]) < MaxAddresses
<1> DEFINE others == KnownAddrs \ {a}
           n == Len(queue[t])
<1>1. IsFiniteSet(others) /\ Cardinality(others) = Cardinality(KnownAddrs) - 1
  BY KnownFinite, FS_RemoveElement
<1>2. queue[t] \in Seq(Addrs) /\ n \in Nat /\ DOMAIN queue[t] = 1..n
  BY DEF TypeOK
<1>3. \A i \in 1..n : queue[t][i] \in others
  <2>1. \A i \in 1..n : queue[t][i] \in Range(queue[t]) /\ queue[t][i] \in Addrs
    BY <1>2 DEF Range
  <2> QED
    BY <2>1 DEF QueueInv, KnownAddrs
<1>4. IsFiniteSet(1..n) /\ Cardinality(1..n) = n
  <2>1. n \in Int /\ 1 \in Int
    BY <1>2
  <2>2. IsFiniteSet(1..n) /\ Cardinality(1..n) = IF 1 > n THEN 0 ELSE n - 1 + 1
    BY <2>1, FS_Interval
  <2> QED
    BY <1>2, <2>2
<1>5. queue[t] \in [1..n -> others]
  BY <1>2, <1>3
<1>6. ~(Cardinality(others) < n)
  <2>1. SUFFICES ASSUME Cardinality(others) < n PROVE FALSE
    OBVIOUS
  <2>2. \E i, j \in 1..n : i # j /\ queue[t][i] = queue[t][j]
    BY <1>1, <1>4, <1>5, <2>1, FS_PigeonHole
  <2> QED
    BY <1>2, <2>2 DEF QueueInv, IsInjective
<1>7. Cardinality(KnownAddrs) \in Nat /\ MaxAddresses \in Nat
  BY KnownFinite, FS_CardinalityType, BoundAssumption
<1> QED
  BY <1>1, <1>2, <1>6, <1>7 DEF BudgetInv

(* The state of an address changes from "absent" only as it is counted.    *)
LEMMA Discovered ==
    ASSUME TypeOK, BudgetInv, NEW a \in Addrs, state[a] = "absent", HasBudget,
           entries' = entries + 1, NEW s \in NodeState, state' = [state EXCEPT ![a] = s]
    PROVE  BudgetInv' /\ KnownAddrs' = KnownAddrs \cup {a}
<1>1. KnownAddrs' = KnownAddrs \cup {a} /\ a \notin KnownAddrs
  BY DEF KnownAddrs, TypeOK, NodeState, Active, Terminal
<1>2. Cardinality(KnownAddrs \cup {a}) = Cardinality(KnownAddrs) + 1
  BY <1>1, KnownFinite, FS_AddElement
<1>3. entries \in Nat /\ MaxAddresses \in Nat
  BY BoundAssumption DEF TypeOK
<1> QED
  BY <1>1, <1>2, <1>3 DEF BudgetInv, HasBudget

(* The actions that change the state of an address.                        *)
Moves(w) == Begin(w) \/ Upsert(w) \/ SendRefused(w) \/ Requeue(w) \/ FinishMark(w)

LEMMA OnlyMoves ==
    ASSUME [Next]_vars
    PROVE  \/ \E a \in Seeds : Seed(a)
           \/ \E w \in Workers : Moves(w)
           \/ UNCHANGED <<state, entries>>
BY DEF Next, WorkerStep, MainStep, Terminated, vars, entryVars, budgetVars, LoopTop, Recv,
       RecvClosed, OverLimit, Connect, ConnectFails, Handshake, HandshakeTimesOut,
       HandshakeFails, EndCollection, EndBatch, Incr, Send, Undo, FinishDecr, CloseNext,
       CloseDone, AddrMessage, Panic, StartRun, MonitorExit, CtrlC, SignalCloses, CtrlCAgain,
       RunReturns, Tick, Moves

LEMMA BudgetStep ==
    ASSUME Inv, BudgetInv, SourceInv, [Next]_vars
    PROVE  BudgetInv' /\ KnownAddrs' \subseteq Enabled \cup Seeds
<1> USE DEF Inv
<1>1. KnownAddrs \subseteq Enabled \cup Seeds
  BY DEF SourceInv
<1>2. KnownAddrs' = KnownAddrs /\ entries' = entries => BudgetInv'
  BY DEF BudgetInv
<1>3. ASSUME NEW a \in Seeds, Seed(a) PROVE BudgetInv' /\ KnownAddrs' \subseteq Enabled \cup Seeds
  <2>1. CASE state[a] # "absent"
    BY <1>1, <1>2, <1>3, <2>1 DEF Seed, KnownAddrs
  <2>2. CASE state[a] = "absent" /\ HasBudget
    <3>1. a \in Addrs /\ "Queued" \in NodeState
      BY SetAssumption DEF NodeState, Active
    <3>2. entries' = entries + 1 /\ state' = [state EXCEPT ![a] = "Queued"]
      BY <1>3, <2>2 DEF Seed
    <3> QED
      BY <1>1, <2>2, <3>1, <3>2, Discovered
  <2>3. CASE state[a] = "absent" /\ ~HasBudget
    BY <1>1, <1>2, <1>3, <2>3 DEF Seed, KnownAddrs
  <2> QED
    BY <2>1, <2>2, <2>3
<1>4. ASSUME NEW w \in Workers, Upsert(w)
      PROVE  BudgetInv' /\ KnownAddrs' \subseteq Enabled \cup Seeds
  <2>1. PICK c \in batch[w] :
          LET a       == c.addr
              known   == state[a] # "absent"
              ts      == IF known THEN Later(a, c.ts) ELSE c.ts
              enqueue == Considered(a) /\ ~Stale(ts, asOf[w])
          IN /\ entries' = IF ~known /\ HasBudget THEN entries + 1 ELSE entries
             /\ state' = [state EXCEPT ![a] = IF enqueue THEN "Queued"
                                              ELSE IF Considered(a) THEN "StaleDiscarded"
                                              ELSE @]
    BY <1>4 DEF Upsert
  <2>2. c.addr \in Addrs /\ c.addr \in Enabled
    BY SetAssumption DEF SourceInv
  <2>3. CASE state[c.addr] = "absent" /\ HasBudget
    <3>1. PICK s \in {"Queued", "StaleDiscarded"} : state' = [state EXCEPT ![c.addr] = s]
      BY <2>1, <2>3 DEF Considered
    <3>2. s \in NodeState /\ entries' = entries + 1
      BY <2>1, <2>3 DEF NodeState, Active
    <3> QED
      BY <1>1, <2>2, <2>3, <3>1, <3>2, Discovered
  <2>4. CASE ~(state[c.addr] = "absent" /\ HasBudget)
    <3>1. entries' = entries
      BY <2>1, <2>4
    <3>2. \A b \in Addrs : state'[b] = "absent" <=> state[b] = "absent"
      BY <2>1, <2>2, <2>4 DEF TypeOK, Considered
    <3> QED
      BY <1>1, <1>2, <3>1, <3>2 DEF KnownAddrs
  <2> QED
    BY <2>3, <2>4
<1>5. ASSUME NEW w \in Workers, Begin(w) \/ SendRefused(w) \/ Requeue(w) \/ FinishMark(w)
      PROVE  BudgetInv' /\ KnownAddrs' \subseteq Enabled \cup Seeds
  <2>1. entries' = entries
    BY <1>5 DEF Begin, SendRefused, Requeue, FinishMark, budgetVars
  <2>2. \A b \in Addrs : state'[b] = "absent" <=> state[b] = "absent"
    <3>1. pc[w] \in CurPc => cur[w] \in Addrs /\ (pc[w] # "decr" => state[cur[w]] \in Active)
      BY SetAssumption DEF OwnInv, CurInv, TypeOK
    <3>2. pc[w] \in PendPc => pend[w] \in Addrs /\ (pc[w] # "undo" => state[pend[w]] = "Queued")
      BY SetAssumption DEF OwnInv, PendInv, TypeOK
    <3>3. pc[w] = "finish" => term[w] \in Terminal
      BY DEF OwnInv, VerdictInv
    <3> QED
      BY <1>5, <3>1, <3>2, <3>3
         DEF Begin, SendRefused, Requeue, FinishMark, Running, TypeOK, CurPc, PendPc, Active, Terminal
  <2> QED
    BY <1>1, <1>2, <2>1, <2>2 DEF KnownAddrs
<1>6. CASE UNCHANGED <<state, entries>>
  BY <1>1, <1>2, <1>6 DEF KnownAddrs
<1> QED
  BY <1>3, <1>4, <1>5, <1>6, OnlyMoves DEF Moves

LEMMA SourceStep ==
    ASSUME Inv, BudgetInv, SourceInv, [Next]_vars
    PROVE  SourceInv'
<1>1. \A w \in Workers : \A c \in batch'[w] : c.addr \in Enabled
  <2>0. batch \in [Workers -> SUBSET Claim] /\ \A w \in Workers : \A c \in batch[w] : c.addr \in Enabled
    BY DEF Inv, TypeOK, SourceInv
  <2>1. ASSUME NEW w \in Workers, AddrMessage(w)
        PROVE  \A v \in Workers : \A c \in batch'[v] : c.addr \in Enabled
    BY <2>0, <2>1 DEF AddrMessage
  <2>2. ASSUME NEW w \in Workers, Upsert(w)
        PROVE  \A v \in Workers : \A c \in batch'[v] : c.addr \in Enabled
    BY <2>0, <2>2 DEF Upsert
  <2>3. CASE UNCHANGED batch
    BY <2>0, <2>3
  <2>4. UNCHANGED batch \/ \E w \in Workers : AddrMessage(w) \/ Upsert(w)
    BY DEF Next, WorkerStep, MainStep, Terminated, vars, batchVars, LoopTop, Recv, RecvClosed,
           Begin, OverLimit, Connect, ConnectFails, Handshake, HandshakeTimesOut,
           HandshakeFails, EndCollection, EndBatch, Incr, Send, SendRefused, Undo, Requeue,
           FinishMark, FinishDecr, CloseNext, CloseDone, Panic, Seed, StartRun, MonitorExit,
           CtrlC, SignalCloses, CtrlCAgain, RunReturns, Tick
  <2> QED
    BY <2>1, <2>2, <2>3, <2>4
<1> QED
  BY <1>1, BudgetStep DEF SourceInv

-----------------------------------------------------------------------------
(* Progress and evidence of a worker *)

Acts(w) == WorkerStep(w) \/ AddrMessage(w) \/ Panic(w)

(* What the steps rest on, in one place: types, and who holds what.        *)
LEMMA Held ==
    ASSUME Inv, NEW w \in Workers
    PROVE  /\ pc[w] \in CurPc => cur[w] \in Addrs
           /\ pc[w] \in PendPc => pend[w] \in Addrs
           /\ pc[w] \in CurPc \ {"decr"} => state[cur[w]] \in Active
           /\ pc[w] \in CurPc =>
                 \A v \in Workers \ {w} : cur[v] # cur[w]
           /\ pc[w] \in CurPc =>
                 \A v \in Workers : pc[v] \in PendPc => pend[v] # cur[w]
           /\ pc[w] \in {"incr", "send"} => state[pend[w]] = "Queued"
BY SetAssumption DEF Inv, TypeOK, OwnInv, CurInv, PendInv, ExclusiveInv, PendPc, CurPc

(* A step of another worker leaves the entry of this one's address alone,  *)
(* but for its timestamp.                                                  *)
LEMMA OtherFrame ==
    ASSUME Inv, NEW w \in Workers, NEW v \in Workers \ {w}, Acts(w), pc[v] \in CurPc \ {"decr"}
    PROVE  /\ state'[cur[v]] = state[cur[v]] /\ attempts'[cur[v]] = attempts[cur[v]]
           /\ connected'[cur[v]] = connected[cur[v]] /\ handshake'[cur[v]] = handshake[cur[v]]
<1>1. cur[v] \in Addrs /\ state[cur[v]] \in Active /\ cur[w] # cur[v]
  BY Held
<1>2. pc[w] \in PendPc => pend[w] # cur[v]
  BY Held
<1> USE DEF Inv, TypeOK
<1>3. CASE Upsert(w)
  <2>1. PICK c \in batch[w] :
           state' = [state EXCEPT ![c.addr] =
                        IF Considered(c.addr) /\ ~Stale(IF state[c.addr] # "absent"
                                                        THEN Later(c.addr, c.ts)
                                                        ELSE c.ts, asOf[w])
                        THEN "Queued"
                        ELSE IF Considered(c.addr) THEN "StaleDiscarded" ELSE @]
    BY <1>3 DEF Upsert
  <2>2. state'[cur[v]] = state[cur[v]]
    BY <1>1, <2>1 DEF Considered, Active
  <2> QED
    BY <1>3, <2>2 DEF Upsert
<1>4. CASE SendRefused(w)
  BY <1>2, <1>4 DEF SendRefused, Running, PendPc
<1>5. CASE Begin(w) \/ Connect(w) \/ Handshake(w) \/ Requeue(w) \/ FinishMark(w)
  BY <1>1, <1>5 DEF Begin, Connect, Handshake, Requeue, FinishMark
<1>6. CASE UNCHANGED <<state, attempts, connected, handshake>>
  BY <1>6
<1>7. \/ Upsert(w) \/ SendRefused(w) \/ Begin(w) \/ Connect(w) \/ Handshake(w) \/ Requeue(w)
      \/ FinishMark(w)
      \/ UNCHANGED <<state, attempts, connected, handshake>>
  BY DEF Acts, WorkerStep, entryVars, LoopTop, Recv, RecvClosed, OverLimit, ConnectFails,
         HandshakeTimesOut, HandshakeFails, EndCollection, EndBatch, Incr, Send, Undo,
         FinishDecr, CloseNext, CloseDone, AddrMessage, Panic
<1> QED
  BY <1>3, <1>4, <1>5, <1>6, <1>7

LEMMA OtherSame ==
    ASSUME Inv, NEW w \in Workers, NEW v \in Workers \ {w}, Acts(w)
    PROVE  /\ pc'[v] = pc[v] /\ cur'[v] = cur[v] /\ term'[v] = term[v] /\ reason'[v] = reason[v]
           /\ nodeLimitReached => nodeLimitReached'
           /\ shutdown => shutdown'
<1> USE DEF Inv, TypeOK, Goto, RetryOrFinish, batchVars, verdict, flagVars
<1>1. CASE \/ LoopTop(w) \/ Recv(w) \/ RecvClosed(w) \/ Begin(w) \/ OverLimit(w) \/ Panic(w)
  BY <1>1 DEF LoopTop, Recv, RecvClosed, Begin, OverLimit, Panic
<1>2. CASE \/ Connect(w) \/ ConnectFails(w) \/ Handshake(w) \/ HandshakeTimesOut(w)
           \/ HandshakeFails(w) \/ EndCollection(w)
  BY <1>2 DEF Connect, ConnectFails, Handshake, HandshakeTimesOut, HandshakeFails, EndCollection
<1>3. CASE AddrMessage(w) \/ Upsert(w) \/ EndBatch(w)
  BY <1>3 DEF AddrMessage, Upsert, EndBatch
<1>4. CASE Incr(w) \/ Send(w) \/ SendRefused(w) \/ Undo(w)
  BY <1>4 DEF Incr, Send, SendRefused, Undo
<1>5. CASE Requeue(w) \/ FinishMark(w) \/ FinishDecr(w) \/ CloseNext(w) \/ CloseDone(w)
  BY <1>5 DEF Requeue, FinishMark, FinishDecr, CloseNext, CloseDone
<1> QED
  BY <1>1, <1>2, <1>3, <1>4, <1>5 DEF Acts, WorkerStep

LEMMA OtherWork ==
    ASSUME Inv, NEW w \in Workers, NEW v \in Workers \ {w}, Acts(w), Progress(v), Evidence(v)
    PROVE  Progress(v)' /\ Evidence(v)'
<1>1. CASE pc[v] \in CurPc \ {"decr"}
  BY <1>1, OtherFrame, OtherSame DEF Progress, Evidence
<1>2. CASE pc[v] \notin CurPc \ {"decr"}
  BY <1>2, OtherSame DEF Progress, Evidence, CurPc, ConnectedPc, CollectPc
<1> QED
  BY <1>1, <1>2

(* A push of an address that is known is refused for a reason.             *)
LEMMA RefusedForCause ==
    ASSUME Inv, BudgetInv, NEW a \in Addrs, state[a] \in Active, NEW t \in Transports,
           a \notin Range(queue[t]), ~Accepts(t)
    PROVE  shutdown \/ nodeLimitReached
<1>1. a \in KnownAddrs
  BY DEF KnownAddrs, Active
<1>2. Len(queue[t]) < MaxAddresses
  BY <1>1, QueueFits DEF Inv, OwnInv
<1>3. closed # {}
  BY <1>2 DEF Accepts
<1>4. outstanding # 0
  BY QuietIdle
<1> QED
  BY <1>3, <1>4 DEF Inv, CloseInv

LEMMA OwnWork ==
    ASSUME Inv, BudgetInv, NEW w \in Workers, Acts(w), Progress(w), Evidence(w)
    PROVE  Progress(w)' /\ Evidence(w)'
<1> USE DEF Running, Goto, RetryOrFinish, Failed, ConnectedPc, CollectPc
<1>1. /\ pc \in [Workers -> WorkerPc] /\ term \in [Workers -> Terminal \cup {Nil}]
      /\ reason \in [Workers -> FailKind \cup {Nil}]
      /\ state \in [Addrs -> NodeState \cup {"absent"}] /\ attempts \in [Addrs -> Nat]
      /\ connected \in [Addrs -> BOOLEAN] /\ handshake \in [Addrs -> BOOLEAN]
      /\ cur \in [Workers -> Addrs \cup {Nil}] /\ MaxAttempts \in Nat
  BY BoundAssumption DEF Inv, TypeOK
<1>2. pc[w] \in CurPc => cur[w] \in Addrs
  BY Held
<1>3. CASE \/ LoopTop(w) \/ RecvClosed(w) \/ FinishDecr(w) \/ CloseNext(w) \/ CloseDone(w)
  BY <1>1, <1>3 DEF LoopTop, RecvClosed, FinishDecr, CloseNext, CloseDone, Progress, Evidence
<1>4. CASE Recv(w)
  <2>1. Head(queue[Pool[w]]) \in Range(queue[Pool[w]]) /\ Pool[w] \in Transports
    <3>1. Pool[w] \in Transports
      BY RouteAssumption
    <3>2. queue[Pool[w]] \in Seq(Addrs) /\ queue[Pool[w]] # <<>> /\ IsInjective(queue[Pool[w]])
      BY <1>4, <3>1 DEF Recv, Inv, TypeOK, OwnInv, QueueInv
    <3> QED
      BY <3>1, <3>2, PopFacts
  <2>2. state[Head(queue[Pool[w]])] = "Queued"
    BY <2>1 DEF Inv, OwnInv, QueueInv
  <2> QED
    BY <1>1, <1>4, <2>2 DEF Recv, Progress, Evidence, entryVars
<1>5. CASE Begin(w)
  BY <1>1, <1>2, <1>5 DEF Begin, Progress, Evidence, CurPc
<1>6. CASE OverLimit(w)
  BY <1>1, <1>6 DEF OverLimit, Progress, Evidence, entryVars
<1>7. CASE Panic(w)
  BY <1>1, <1>7 DEF Panic, Progress, Evidence, entryVars
<1>8. CASE Connect(w)
  BY <1>1, <1>2, <1>8 DEF Connect, Progress, Evidence, CurPc
<1>9. CASE ConnectFails(w)
  <2>1. ConnectFailure(w) \in Failed
    BY DEF ConnectFailure
  <2>2. /\ ConnectFailure(w) = "Unreachable" => ~connected[cur[w]]
        /\ ConnectFailure(w) = "HandshakeFailed" => connected[cur[w]]
    BY DEF ConnectFailure
  <2> HIDE DEF Failed
  <2>3. ConnectFailure(w) \notin {"Reachable", "BudgetDiscarded"}
    BY <2>1 DEF Failed
  <2>4. /\ pc'[w] = IF CanRetry(w) THEN "requeue" ELSE "finish"
        /\ term'[w] = ConnectFailure(w)
        /\ UNCHANGED <<state, attempts, connected, handshake, cur>>
        /\ pc[w] = "connect"
    BY <1>1, <1>9 DEF ConnectFails, entryVars
  <2>5. state[cur[w]] = "Processing" /\ attempts[cur[w]] > 0 /\ attempts[cur[w]] \in Nat
    BY <1>1, <1>2, <2>4 DEF Progress, CurPc
  <2> QED
    BY <1>1, <2>1, <2>2, <2>3, <2>4, <2>5 DEF Progress, Evidence, CanRetry
<1>10. CASE Handshake(w)
  BY <1>1, <1>2, <1>10 DEF Handshake, Progress, Evidence, CurPc
<1>11. CASE HandshakeTimesOut(w)
  BY <1>1, <1>2, <1>11 DEF HandshakeTimesOut, Progress, Evidence, CurPc, CanRetry, entryVars
<1>12. CASE HandshakeFails(w)
  BY <1>1, <1>2, <1>12 DEF HandshakeFails, Progress, Evidence, CurPc, CanRetry, entryVars
<1>13. CASE EndCollection(w) \/ AddrMessage(w) \/ EndBatch(w)
  BY <1>1, <1>2, <1>13 DEF EndCollection, AddrMessage, EndBatch, Progress, Evidence, CurPc, entryVars
<1>14. CASE Upsert(w)
  <2>1. PICK c \in batch[w] :
           state' = [state EXCEPT ![c.addr] =
                        IF Considered(c.addr) /\ ~Stale(IF state[c.addr] # "absent"
                                                        THEN Later(c.addr, c.ts)
                                                        ELSE c.ts, asOf[w])
                        THEN "Queued"
                        ELSE IF Considered(c.addr) THEN "StaleDiscarded" ELSE @]
    BY <1>14 DEF Upsert
  <2>2. pc[w] = "upsert" /\ cur' = cur /\ pc'[w] \in {"incr", "upsert"}
    BY <1>1, <1>14 DEF Upsert
  <2>3. state[cur[w]] \in Active
    BY <2>2, Held DEF CurPc
  <2>4. state'[cur[w]] = state[cur[w]]
    BY <1>1, <1>2, <2>1, <2>2, <2>3 DEF Considered, Active, CurPc
  <2> QED
    BY <1>1, <1>14, <2>2, <2>4 DEF Upsert, Progress, Evidence
<1>15. CASE Incr(w) \/ Send(w) \/ Undo(w)
  BY <1>1, <1>2, <1>15 DEF Incr, Send, Undo, Progress, Evidence, CurPc, entryVars
<1>16. CASE SendRefused(w)
  <2>1. pend[w] # cur[w]
    BY <1>16, Held DEF SendRefused, CurPc, PendPc
  <2> QED
    BY <1>1, <1>2, <1>16, <2>1 DEF SendRefused, Progress, Evidence, CurPc
<1>17. CASE Requeue(w)
  <2>1. /\ pc[w] = "requeue" /\ cur[w] \in Addrs /\ Pool[w] \in Transports
        /\ state[cur[w]] \in Active /\ cur[w] \notin Range(queue[Pool[w]])
    BY <1>17, Held, RouteAssumption, SetAssumption DEF Requeue, CurPc, Inv, OwnInv, CurInv
  <2>2. ~Accepts(Pool[w]) => shutdown \/ nodeLimitReached
    BY <2>1, RefusedForCause
  <2>3. CASE Accepts(Pool[w])
    BY <1>1, <1>17, <2>3 DEF Requeue, Progress, Evidence
  <2>4. CASE ~Accepts(Pool[w])
    <3>1. /\ pc'[w] = "finish" /\ state'[cur[w]] = "Queued"
          /\ UNCHANGED <<attempts, connected, handshake, cur, term, reason, shutdown, nodeLimitReached>>
      BY <1>1, <1>17, <2>1, <2>4 DEF Requeue, flagVars
    <3> QED
      BY <2>1, <2>2, <2>4, <3>1 DEF Progress, Evidence
  <2> QED
    BY <2>3, <2>4
<1>18. CASE FinishMark(w)
  BY <1>1, <1>18 DEF FinishMark, Progress, Evidence
<1> QED
  BY <1>3, <1>4, <1>5, <1>6, <1>7, <1>8, <1>9, <1>10, <1>11, <1>12, <1>13, <1>14, <1>15, <1>16,
     <1>17, <1>18 DEF Acts, WorkerStep

(* Before the workers run, and beside them. *)
LEMMA MainKeepsWork ==
    ASSUME Inv, WorkInv, MainStep
    PROVE  WorkInv'
<1> SUFFICES ASSUME NEW w \in Workers PROVE Progress(w)' /\ Evidence(w)'
  BY DEF WorkInv
<1>1. Progress(w) /\ Evidence(w)
  BY DEF WorkInv
<1>2. ASSUME NEW a \in Seeds, Seed(a) PROVE Progress(w)' /\ Evidence(w)'
  <2>1. pc[w] = "top" /\ pc' = pc
    BY <1>2 DEF Seed, Inv, CloseInv
  <2> QED
    BY <2>1 DEF Progress, Evidence, ConnectedPc, CollectPc
<1>3. CASE /\ UNCHANGED <<state, attempts, connected, handshake, pc, cur, term, reason,
                          nodeLimitReached>>
           /\ shutdown => shutdown'
  BY <1>1, <1>3 DEF Progress, Evidence
<1>4. \/ \E a \in Seeds : Seed(a)
      \/ /\ UNCHANGED <<state, attempts, connected, handshake, pc, cur, term, reason,
                        nodeLimitReached>>
         /\ shutdown => shutdown'
  BY DEF MainStep, StartRun, MonitorExit, CtrlC, SignalCloses, CtrlCAgain, RunReturns, Tick,
         Terminated, vars, entryVars, flagVars, verdict
<1> QED
  BY <1>2, <1>3, <1>4

LEMMA WorkStep ==
    ASSUME Inv, BudgetInv, WorkInv, Next
    PROVE  WorkInv'
<1>1. ASSUME NEW w \in Workers, Acts(w) PROVE WorkInv'
  BY <1>1, OwnWork, OtherWork DEF WorkInv
<1> QED
  BY <1>1, MainKeepsWork DEF Next, Acts

-----------------------------------------------------------------------------
LEMMA EvidenceStep ==
    ASSUME Inv, WorkInv, EvidenceKept, [Next]_vars
    PROVE  EvidenceKept'
<1> USE DEF Running, Goto
<1>1. /\ state \in [Addrs -> NodeState \cup {"absent"}]
      /\ connected \in [Addrs -> BOOLEAN] /\ handshake \in [Addrs -> BOOLEAN]
      /\ failure \in [Addrs -> FailKind \cup {Nil}]
  BY DEF Inv, TypeOK
<1>2. ASSUME NEW a \in Seeds, Seed(a) PROVE EvidenceKept'
  BY <1>1, <1>2 DEF Seed, EvidenceKept
<1>3. ASSUME NEW w \in Workers, Begin(w) \/ SendRefused(w) \/ Requeue(w) PROVE EvidenceKept'
  BY <1>1, <1>3 DEF Begin, SendRefused, Requeue, EvidenceKept
<1>4. ASSUME NEW w \in Workers, Connect(w) \/ Handshake(w) PROVE EvidenceKept'
  <2>1. state[cur[w]] = "Processing"
    BY <1>4 DEF Connect, Handshake, WorkInv, Progress, ConnectedPc, CollectPc
  <2> QED
    BY <1>1, <1>4, <2>1 DEF Connect, Handshake, EvidenceKept
<1>5. ASSUME NEW w \in Workers, Upsert(w) PROVE EvidenceKept'
  <2>1. PICK c \in batch[w] :
           state' = [state EXCEPT ![c.addr] =
                        IF Considered(c.addr) /\ ~Stale(IF state[c.addr] # "absent"
                                                        THEN Later(c.addr, c.ts)
                                                        ELSE c.ts, asOf[w])
                        THEN "Queued"
                        ELSE IF Considered(c.addr) THEN "StaleDiscarded" ELSE @]
    BY <1>5 DEF Upsert
  <2>2. UNCHANGED <<connected, handshake, failure>>
    BY <1>5 DEF Upsert
  <2> QED
    BY <1>1, <2>1, <2>2 DEF EvidenceKept
<1>6. ASSUME NEW w \in Workers, FinishMark(w) PROVE EvidenceKept'
  <2>1. Evidence(w) /\ pc[w] = "finish" /\ cur[w] \in Addrs
    BY <1>6, Held DEF FinishMark, WorkInv, CurPc
  <2>2. UNCHANGED <<connected, handshake>>
    BY <1>6 DEF FinishMark
  <2>3. \/ UNCHANGED <<state, failure>>
        \/ /\ state' = [state EXCEPT ![cur[w]] = term[w]]
           /\ failure' = [failure EXCEPT ![cur[w]] = reason[w]]
    BY <1>6 DEF FinishMark
  <2> QED
    BY <1>1, <2>1, <2>2, <2>3 DEF Evidence, EvidenceKept
<1>7. CASE UNCHANGED <<state, connected, handshake, failure>>
  BY <1>7 DEF EvidenceKept
<1>8. \/ \E a \in Seeds : Seed(a)
      \/ \E w \in Workers : \/ Begin(w) \/ SendRefused(w) \/ Requeue(w) \/ Connect(w)
                            \/ Handshake(w) \/ Upsert(w) \/ FinishMark(w)
      \/ UNCHANGED <<state, connected, handshake, failure>>
  BY DEF Next, WorkerStep, MainStep, Terminated, vars, entryVars, LoopTop, Recv, RecvClosed,
         OverLimit, ConnectFails, HandshakeTimesOut, HandshakeFails, EndCollection, EndBatch,
         Incr, Send, Undo, FinishDecr, CloseNext, CloseDone, AddrMessage, Panic, StartRun,
         MonitorExit, CtrlC, SignalCloses, CtrlCAgain, RunReturns, Tick
<1> QED
  BY <1>2, <1>3, <1>4, <1>5, <1>6, <1>7, <1>8

LEMMA ClockStep ==
    ASSUME Inv, TimeInv, [Next]_vars
    PROVE  StartNow <= now' /\ now <= now' /\ \A w \in Workers : asOf'[w] <= now'
<1>1. now \in Int /\ asOf \in [Workers -> Int] /\ StartNow \in Int
  BY BoundAssumption DEF Inv, TypeOK
<1>2. now' = now \/ now' = now + 1
  <2>1. ASSUME NEW w \in Workers, WorkerStep(w) PROVE now' = now
    BY <2>1, SMTT(60) DEF WorkerStep, mainVars, LoopTop, Recv, RecvClosed, Begin, OverLimit, Connect,
         ConnectFails, Handshake, HandshakeTimesOut, HandshakeFails, EndCollection, Upsert,
         EndBatch, Incr, Send, SendRefused, Undo, Requeue, FinishMark, FinishDecr,
         CloseNext, CloseDone
  <2>2. ASSUME NEW w \in Workers, AddrMessage(w) \/ Panic(w) PROVE now' = now
    BY <2>2 DEF AddrMessage, Panic, mainVars
  <2>3. MainStep \/ UNCHANGED vars => now' = now \/ now' = now + 1
    BY SMTT(60) DEF MainStep, mainVars, Terminated, vars, Seed, StartRun, MonitorExit, CtrlC,
         SignalCloses, CtrlCAgain, RunReturns, Tick
  <2> QED
    BY <2>1, <2>2, <2>3 DEF Next
<1>3. ASSUME NEW w \in Workers, AddrMessage(w)
      PROVE  \A v \in Workers : asOf'[v] = asOf[v] \/ asOf'[v] = now
  BY <1>1, <1>3 DEF AddrMessage
<1>4. ASSUME NEW w \in Workers, EndBatch(w)
      PROVE  \A v \in Workers : asOf'[v] = asOf[v] \/ asOf'[v] = StartNow
  BY <1>1, <1>4 DEF EndBatch
<1>5. UNCHANGED asOf \/ \E w \in Workers : AddrMessage(w) \/ EndBatch(w)
  <2>1. ASSUME NEW w \in Workers, WorkerStep(w) PROVE UNCHANGED asOf \/ EndBatch(w)
    BY <2>1, SMTT(60) DEF WorkerStep, batchVars, LoopTop, Recv, RecvClosed, Begin, OverLimit,
         Connect, ConnectFails, Handshake, HandshakeTimesOut, HandshakeFails, EndCollection,
         Upsert, Incr, Send, SendRefused, Undo, Requeue, FinishMark, FinishDecr, CloseNext,
         CloseDone
  <2>2. ASSUME NEW w \in Workers, Panic(w) PROVE UNCHANGED asOf
    BY <2>2 DEF Panic, batchVars
  <2>3. MainStep \/ UNCHANGED vars => UNCHANGED asOf
    BY SMTT(60) DEF MainStep, batchVars, Terminated, vars, Seed, StartRun, MonitorExit, CtrlC,
         SignalCloses, CtrlCAgain, RunReturns, Tick
  <2> QED
    BY <2>1, <2>2, <2>3 DEF Next
<1>6. \A v \in Workers : asOf'[v] = asOf[v] \/ asOf'[v] = now \/ asOf'[v] = StartNow
  BY <1>3, <1>4, <1>5
<1> QED
  BY <1>1, <1>2, <1>6 DEF TimeInv

LEMMA TimeStep ==
    ASSUME Inv, Inv', TimeInv, [Next]_vars
    PROVE  TimeInv'
<1>1. /\ state \in [Addrs -> NodeState \cup {"absent"}] /\ freshest \in [Addrs -> Int]
      /\ now \in Int /\ now' \in Int /\ Threshold \in Nat
      /\ asOf \in [Workers -> Int] /\ batch \in [Workers -> SUBSET Claim]
  BY BoundAssumption, TypeStep DEF Inv, TypeOK
<1>2. StartNow <= now' /\ now <= now' /\ \A w \in Workers : asOf'[w] <= now'
  BY ClockStep
<1>3. \A a \in Addrs : state[a] = "StaleDiscarded" => freshest[a] < now' - Threshold
  BY <1>1, <1>2 DEF TimeInv, StaleJustified
<1>4. ASSUME NEW a \in Seeds, Seed(a)
      PROVE  StaleJustified' /\ (phase' = "seeding" => \A b \in Addrs : state'[b] # "StaleDiscarded")
  <2>1. \A b \in Addrs : state[b] # "StaleDiscarded"
    BY <1>4 DEF Seed, TimeInv
  <2>2. \A b \in Addrs : state'[b] # "StaleDiscarded"
    BY <1>1, <1>4, <2>1 DEF Seed
  <2> QED
    BY <2>2 DEF StaleJustified
<1>5. ASSUME NEW w \in Workers, Upsert(w) PROVE StaleJustified'
  <2>1. PICK c \in batch[w] :
          LET a       == c.addr
              known   == state[a] # "absent"
              ts      == IF known THEN Later(a, c.ts) ELSE c.ts
              enqueue == Considered(a) /\ ~Stale(ts, asOf[w])
          IN /\ freshest' = [freshest EXCEPT ![a] = IF known \/ HasBudget THEN ts ELSE @]
             /\ state' = [state EXCEPT ![a] = IF enqueue THEN "Queued"
                                              ELSE IF Considered(a) THEN "StaleDiscarded"
                                              ELSE @]
    BY <1>5 DEF Upsert
  <2> DEFINE ts == IF state[c.addr] # "absent" THEN Later(c.addr, c.ts) ELSE c.ts
  <2>2. c.addr \in Addrs /\ ts \in Int
    <3>1. c \in Claim /\ Timestamps \subseteq Int
      BY <1>1, BoundAssumption
    <3>2. c.addr \in Addrs /\ c.ts \in Int
      BY <3>1 DEF Claim
    <3>3. freshest[c.addr] \in Int
      BY <1>1, <3>2
    <3> QED
      BY <3>2, <3>3 DEF Later
  <2>3. state'[c.addr] = "StaleDiscarded" =>
           freshest'[c.addr] = ts /\ Stale(ts, asOf[w])
    BY <1>1, <2>1, <2>2 DEF Considered
  <2>4. asOf[w] <= now
    BY DEF TimeInv
  <2>5. \A b \in Addrs \ {c.addr} : state'[b] = state[b] /\ freshest'[b] = freshest[b]
    BY <1>1, <2>1
  <2>6. asOf[w] \in Int
    BY <1>1
  <2> HIDE DEF ts
  <2>7. state'[c.addr] = "StaleDiscarded" => freshest'[c.addr] < now' - Threshold
    BY <1>1, <1>2, <2>2, <2>3, <2>4, <2>6 DEF Stale
  <2> QED
    BY <1>3, <2>5, <2>7 DEF StaleJustified
<1>6. ASSUME NEW w \in Workers, Begin(w) \/ SendRefused(w) \/ Requeue(w) \/ FinishMark(w)
      PROVE  StaleJustified'
  <2>1. pc[w] = "finish" => term[w] \in Terminal
    BY DEF Inv, OwnInv, VerdictInv
  <2>2. \A b \in Addrs : state'[b] = "StaleDiscarded" => state[b] = "StaleDiscarded"
    BY <1>1, <1>6, <2>1
       DEF Begin, SendRefused, Requeue, FinishMark, Running, Terminal
  <2>3. freshest' = freshest
    BY <1>6 DEF Begin, SendRefused, Requeue, FinishMark
  <2> QED
    BY <1>3, <2>2, <2>3 DEF StaleJustified
<1>7. ASSUME state' = state, freshest' = freshest PROVE StaleJustified'
  BY <1>3, <1>7 DEF StaleJustified
<1>8. \/ \E a \in Seeds : Seed(a)
      \/ \E w \in Workers : Upsert(w) \/ Begin(w) \/ SendRefused(w) \/ Requeue(w) \/ FinishMark(w)
      \/ state' = state /\ freshest' = freshest
  BY DEF Next, WorkerStep, MainStep, Terminated, vars, entryVars, LoopTop, Recv, RecvClosed,
         OverLimit, Connect, ConnectFails, Handshake, HandshakeTimesOut, HandshakeFails,
         EndCollection, EndBatch, Incr, Send, Undo, FinishDecr, CloseNext, CloseDone,
         AddrMessage, Panic, StartRun, MonitorExit, CtrlC, SignalCloses, CtrlCAgain,
         RunReturns, Tick
<1>9. StaleJustified'
  BY <1>4, <1>5, <1>6, <1>7, <1>8
<1>10. phase' = "seeding" => \A a \in Addrs : state'[a] # "StaleDiscarded"
  <2>1. SUFFICES ASSUME phase' = "seeding" PROVE \A a \in Addrs : state'[a] # "StaleDiscarded"
    OBVIOUS
  <2>2. (\E a \in Seeds : Seed(a)) \/ (UNCHANGED state /\ phase = "seeding")
    <3>1. ASSUME NEW w \in Workers, WorkerStep(w) PROVE FALSE
      BY <2>1, <3>1, SMTT(60) DEF WorkerStep, mainVars, Running, LoopTop, Recv, RecvClosed, Begin, OverLimit, Connect,
           ConnectFails, Handshake, HandshakeTimesOut, HandshakeFails, EndCollection, Upsert,
           EndBatch, Incr, Send, SendRefused, Undo, Requeue, FinishMark, FinishDecr,
           CloseNext, CloseDone
    <3>2. ASSUME NEW w \in Workers, AddrMessage(w) \/ Panic(w) PROVE FALSE
      BY <2>1, <3>2 DEF AddrMessage, Panic, mainVars, Running
    <3>3. MainStep \/ UNCHANGED vars =>
            (\E a \in Seeds : Seed(a)) \/ (UNCHANGED state /\ phase = "seeding")
      BY <2>1, SMTT(60) DEF MainStep, entryVars, mainVars, Terminated, vars, StartRun, MonitorExit, CtrlC,
           SignalCloses, CtrlCAgain, RunReturns, Tick
    <3> QED
      BY <3>1, <3>2, <3>3 DEF Next
  <2> QED
    BY <1>4, <2>1, <2>2 DEF TimeInv
<1> QED
  BY <1>2, <1>9, <1>10 DEF TimeInv

-----------------------------------------------------------------------------
(* A queue that is closed and drained stays so, and a worker leaves its    *)
(* loop for no other reason, shutdowns aside.                              *)
Drained(t) == t \in closed /\ queue[t] = <<>>

LEMMA DrainedStays ==
    ASSUME Inv, [Next]_vars, NEW t \in Transports, Drained(t)
    PROVE  Drained(t)'
<1>1. queue \in [Transports -> Seq(Addrs)]
  BY DEF Inv, TypeOK
<1>2. ASSUME NEW a \in Seeds, Seed(a) PROVE Drained(t)'
  BY <1>2 DEF Seed, Drained, Inv, CloseInv
<1>3. ASSUME NEW w \in Workers, Recv(w) \/ Send(w) \/ Requeue(w) PROVE Drained(t)'
  BY <1>1, <1>3 DEF Recv, Send, Requeue, Accepts, Push, Drained
<1>4. CASE UNCHANGED queue
  <2>1. closed \subseteq closed'
    <3>1. ASSUME NEW w \in Workers, WorkerStep(w) PROVE closed \subseteq closed'
      BY <3>1 DEF WorkerStep, queueVars, LoopTop, Recv, RecvClosed,
           Begin, OverLimit, Connect, ConnectFails, Handshake, HandshakeTimesOut,
           HandshakeFails, EndCollection, Upsert, EndBatch, Incr, Send, SendRefused, Undo,
           Requeue, FinishMark, FinishDecr, CloseNext, CloseDone
    <3>2. ASSUME NEW w \in Workers, AddrMessage(w) \/ Panic(w) PROVE closed \subseteq closed'
      BY <3>2 DEF AddrMessage, Panic, queueVars
    <3>3. ASSUME StartRun PROVE closed \subseteq closed'
      <4>1. closed \subseteq Transports
        BY DEF Inv, TypeOK
      <4>2. closed' = Transports \/ closed' = closed
        BY <3>3 DEF StartRun
      <4> QED
        BY <4>1, <4>2
    <3>4. CASE MainStep \/ UNCHANGED vars
      BY <3>3, <3>4 DEF MainStep, Terminated, vars, queueVars, Seed, MonitorExit, CtrlC,
           SignalCloses, CtrlCAgain, RunReturns, Tick
    <3> QED
      BY <3>1, <3>2, <3>4 DEF Next
  <2> QED
    BY <1>4, <2>1 DEF Drained
<1>5. \/ \E a \in Seeds : Seed(a)
      \/ \E w \in Workers : Recv(w) \/ Send(w) \/ Requeue(w)
      \/ UNCHANGED queue
  <2>1. ASSUME NEW w \in Workers, WorkerStep(w)
        PROVE  Recv(w) \/ Send(w) \/ Requeue(w) \/ UNCHANGED queue
    BY <2>1 DEF WorkerStep, queueVars, LoopTop, RecvClosed, Begin,
         OverLimit, Connect, ConnectFails, Handshake, HandshakeTimesOut, HandshakeFails,
         EndCollection, Upsert, EndBatch, Incr, SendRefused, Undo, FinishMark, FinishDecr,
         CloseNext, CloseDone
  <2>2. ASSUME NEW w \in Workers, AddrMessage(w) \/ Panic(w) PROVE UNCHANGED queue
    BY <2>2 DEF AddrMessage, Panic, queueVars
  <2>3. MainStep \/ UNCHANGED vars => (\E a \in Seeds : Seed(a)) \/ UNCHANGED queue
    BY DEF MainStep, Terminated, vars, queueVars, StartRun, MonitorExit, CtrlC, SignalCloses,
         CtrlCAgain, RunReturns, Tick
  <2> QED
    BY <2>1, <2>2, <2>3 DEF Next
<1> QED
  BY <1>2, <1>3, <1>4, <1>5

LEMMA StoppedStep ==
    ASSUME Inv, StoppedInv, [Next]_vars
    PROVE  StoppedInv'
<1> SUFFICES ASSUME NEW w \in Workers, pc'[w] = "stopped", ~shutdown' PROVE Drained(Pool[w])'
  BY DEF StoppedInv, Drained
<1>1. Pool[w] \in Transports /\ pc \in [Workers -> WorkerPc]
  BY RouteAssumption DEF Inv, TypeOK
<1>2. ~shutdown
  <2>1. ASSUME NEW v \in Workers, WorkerStep(v) PROVE ~shutdown
    BY <2>1, SMTT(60) DEF WorkerStep, flagVars, LoopTop, Recv, RecvClosed, Begin, OverLimit, Connect,
         ConnectFails, Handshake, HandshakeTimesOut, HandshakeFails, EndCollection, Upsert,
         EndBatch, Incr, Send, SendRefused, Undo, Requeue, FinishMark, FinishDecr,
         CloseNext, CloseDone
  <2>2. ASSUME NEW v \in Workers, AddrMessage(v) \/ Panic(v) PROVE ~shutdown
    BY <2>2 DEF AddrMessage, Panic, flagVars
  <2>3. MainStep \/ UNCHANGED vars => ~shutdown
    BY SMTT(60) DEF MainStep, flagVars, Terminated, vars, Seed, StartRun, MonitorExit, CtrlC,
         SignalCloses, CtrlCAgain, RunReturns, Tick
  <2> QED
    BY <2>1, <2>2, <2>3 DEF Next
<1>3. CASE pc[w] = "stopped"
  BY <1>1, <1>2, <1>3, DrainedStays DEF StoppedInv, Drained
<1>4. CASE RecvClosed(w)
  BY <1>4 DEF RecvClosed, Running, Drained, queueVars
<1>5. CASE LoopTop(w)
  BY <1>1, <1>2, <1>5 DEF LoopTop, Goto
<1>6. CASE CloseDone(w)
  BY <1>1, <1>2, <1>6 DEF CloseDone, Goto, Inv, CloseInv
<1>7. ASSUME NEW v \in Workers, Acts(v), pc[w] # "stopped"
      PROVE  RecvClosed(w) \/ LoopTop(w) \/ CloseDone(w)
  <2>1. v = w
    BY <1>7, OtherSame
  <2> QED
    BY <1>1, <1>7, <2>1
       DEF Acts, WorkerStep, Goto, RetryOrFinish, Recv, Begin, OverLimit, Connect, ConnectFails,
           Handshake, HandshakeTimesOut, HandshakeFails, EndCollection, Upsert, EndBatch, Incr,
           Send, SendRefused, Undo, Requeue, FinishMark, FinishDecr, CloseNext, AddrMessage,
           Panic
<1>8. pc[w] = "stopped" \/ \E v \in Workers : Acts(v)
  BY DEF Next, Acts, MainStep, Terminated, vars, Seed, StartRun, MonitorExit, CtrlC,
         SignalCloses, CtrlCAgain, RunReturns, Tick
<1> QED
  BY <1>3, <1>4, <1>5, <1>6, <1>7, <1>8

-----------------------------------------------------------------------------
LEMMA InitRInv == Init => RInv
<1> SUFFICES ASSUME Init PROVE RInv
  OBVIOUS
<1>1. KnownAddrs = {}
  BY DEF Init, KnownAddrs
<1>2. BudgetInv
  BY <1>1, FS_EmptySet, BoundAssumption DEF Init, BudgetInv
<1>3. SourceInv /\ StoppedInv /\ EvidenceKept
  BY <1>1 DEF Init, SourceInv, StoppedInv, EvidenceKept
<1>4. WorkInv
  BY DEF Init, WorkInv, Progress, Evidence, ConnectedPc, CollectPc
<1>5. TimeInv
  BY BoundAssumption DEF Init, TimeInv, StaleJustified
<1> QED
  BY <1>2, <1>3, <1>4, <1>5 DEF RInv

LEMMA StutterRInv == RInv /\ UNCHANGED vars => RInv'
BY DEF vars, entryVars, budgetVars, queueVars, flagVars, batchVars, verdict, mainVars, RInv,
       BudgetInv, KnownAddrs, SourceInv, WorkInv, Progress, Evidence, EvidenceKept, TimeInv,
       StaleJustified, StoppedInv

LEMMA RInvStep == Inv /\ RInv /\ [Next]_vars => RInv'
<1> SUFFICES ASSUME Inv, RInv, [Next]_vars PROVE RInv'
  OBVIOUS
<1>1. CASE UNCHANGED vars
  BY <1>1, StutterRInv
<1>2. CASE Next
  BY <1>2, InvStep, BudgetStep, SourceStep, WorkStep, EvidenceStep, TimeStep, StoppedStep DEF RInv
<1> QED
  BY <1>1, <1>2

LEMMA RInvAlways == Spec => [](Inv /\ RInv)
<1>1. Init => Inv /\ RInv
  BY InitInv, InitRInv
<1>2. Inv /\ RInv /\ [Next]_vars => Inv' /\ RInv'
  BY InvStep, RInvStep
<1> QED
  BY <1>1, <1>2, PTL DEF Spec

-----------------------------------------------------------------------------
(* A push is refused by a closed queue only: the bound of the channels,    *)
(* which is the budget of the store, is never met (enqueue and requeue).   *)
THEOREM PushMeetsNoBound == Spec => []QueueNeverFull
<1>1. ASSUME Inv, RInv, NEW w \in Workers, pc[w] = "send"
      PROVE  Len(queue[Route[pend[w]]]) < MaxAddresses
  <2>1. pend[w] \in Addrs /\ state[pend[w]] = "Queued"
    BY <1>1, Held DEF PendPc
  <2>2. pend[w] \in KnownAddrs /\ Route[pend[w]] \in Transports
    BY <2>1, RouteAssumption DEF KnownAddrs
  <2>3. pend[w] \notin Range(queue[Route[pend[w]]])
    BY <1>1, <2>1, <2>2, SetAssumption DEF Inv, OwnInv, PendInv
  <2> QED
    BY <1>1, <2>2, <2>3, QueueFits DEF Inv, OwnInv, RInv
<1>2. ASSUME Inv, RInv, NEW w \in Workers, pc[w] = "requeue"
      PROVE  Len(queue[Pool[w]]) < MaxAddresses
  <2>1. cur[w] \in Addrs /\ state[cur[w]] \in Active
    BY <1>2, Held DEF CurPc
  <2>2. cur[w] \in KnownAddrs /\ Pool[w] \in Transports
    BY <2>1, RouteAssumption DEF KnownAddrs, Active
  <2>3. cur[w] \notin Range(queue[Pool[w]])
    BY <1>2, <2>1, <2>2, SetAssumption DEF Inv, OwnInv, CurInv
  <2> QED
    BY <1>2, <2>2, <2>3, QueueFits DEF Inv, OwnInv, RInv
<1>3. Inv /\ RInv => QueueNeverFull
  BY <1>1, <1>2 DEF QueueNeverFull
<1> QED
  BY <1>3, RInvAlways, PTL

(* The verdict on a node rests on evidence from all of its attempts, also  *)
(* when its retry is cut short (process, retry_or_finish, requeue).        *)
THEOREM EvidenceIsKept == Spec => []EvidenceKept
<1>1. RInv => EvidenceKept
  BY DEF RInv
<1> QED
  BY <1>1, RInvAlways, PTL

(* A stale address is stale by every claim about it, at any later time     *)
(* (frontier_upsert, with the clock read once per message).                *)
THEOREM StaleIsJustified == Spec => []StaleJustified
<1>1. RInv => StaleJustified
  BY DEF RInv, TimeInv
<1> QED
  BY <1>1, RInvAlways, PTL

-----------------------------------------------------------------------------
(* The refinement *)

(* Every address that can be found has a pool that serves it, which        *)
(* into_settings ensures for a crawl.                                      *)
Served == \A a \in Enabled \cup Seeds : \E w \in Workers : Pool[w] = Route[a]

Word(s) == CASE s = "absent" -> "unknown"
             [] s = "StaleDiscarded" -> "stale"
             [] s = "Queued" -> "pending"
             [] s = "Processing" -> "taken"
             [] s \in Terminal -> "settled"

LEMMA Words ==
    /\ Word("absent") = "unknown" /\ Word("StaleDiscarded") = "stale"
    /\ Word("Queued") = "pending" /\ Word("Processing") = "taken"
    /\ \A s \in Terminal : Word(s) = "settled"
BY DEF Word, Terminal

LEMMA StatusAt ==
    /\ StatusOf = [a \in Addrs |-> Word(state[a])]
    /\ \A a \in Addrs : StatusOf[a] = Word(state[a])
BY DEF StatusOf, Word

LEMMA StatusMoves ==
    ASSUME TypeOK, NEW a \in Addrs, NEW s, state' = [state EXCEPT ![a] = s]
    PROVE  StatusOf' = [StatusOf EXCEPT ![a] = Word(s)]
<1>1. \A b \in Addrs : state'[b] = IF b = a THEN s ELSE state[b]
  BY DEF TypeOK
<1>2. StatusOf' = [b \in Addrs |-> Word(state'[b])]
  BY DEF StatusOf, Word
<1>3. StatusOf = [b \in Addrs |-> Word(state[b])]
  BY StatusAt
<1> QED
  BY <1>1, <1>2, <1>3

LEMMA VerdictStays ==
    ASSUME TypeOK, NEW a \in Addrs, NEW s, s \notin Terminal, state[a] \notin Terminal,
           state' = [state EXCEPT ![a] = s], failure' = failure
    PROVE  VerdictOf' = VerdictOf
BY DEF TypeOK, VerdictOf

LEMMA VerdictGiven ==
    ASSUME TypeOK, NEW a \in Addrs, NEW s \in Terminal, NEW r,
           state' = [state EXCEPT ![a] = s], failure' = [failure EXCEPT ![a] = r]
    PROVE  VerdictOf' = [VerdictOf EXCEPT ![a] = [outcome |-> s, reason |-> r]]
<1>1. \A b \in Addrs : /\ state'[b] = IF b = a THEN s ELSE state[b]
                       /\ failure'[b] = IF b = a THEN r ELSE failure[b]
  BY DEF TypeOK
<1> QED
  BY <1>1 DEF VerdictOf

LEMMA Unseen ==
    ASSUME UNCHANGED <<state, failure, attempts, numProcessed, nodeLimitReached, shutdown>>,
           phase' = "returned" <=> phase = "returned"
    PROVE  UNCHANGED F!vars
BY DEF F!vars, StatusOf, VerdictOf

(* A step about one address, of a crawl that goes on. *)
About(a) == F!Find(a) \/ F!Revive(a) \/ F!Take(a) \/ F!Return(a) \/ F!Settle(a) \/ F!GiveUp(a)

LEMMA StepAbout ==
    ASSUME phase # "returned", phase' = phase, NEW a \in Addrs, About(a)
    PROVE  F!Next
BY DEF F!Next, About

(* The Cardinality that Frontier brings along is the one of FiniteSets.     *)
LEMMA SameCount ==
    ASSUME NEW S
    PROVE  F!Cardinality(S) = Cardinality(S)
BY DEF F!Cardinality, Cardinality

LEMMA KnownSame ==
    ASSUME TypeOK
    PROVE  F!Known = KnownAddrs
<1>1. \A a \in Addrs : state[a] \in NodeState \cup {"absent"}
  BY DEF TypeOK
<1>2. \A s \in NodeState : Word(s) # "unknown"
  BY Words DEF NodeState, Active
<1> QED
  BY <1>1, <1>2, StatusAt, Words DEF F!Known, KnownAddrs

LEMMA SeedRefines ==
    ASSUME Inv, RInv, NEW a \in Seeds, Seed(a)
    PROVE  F!Next \/ UNCHANGED F!vars
<1>1. a \in Addrs /\ TypeOK /\ phase = "seeding" /\ phase' = phase
  BY SetAssumption DEF Seed, Inv, mainVars
<1>2. UNCHANGED <<failure, attempts, numProcessed, nodeLimitReached, shutdown>>
  BY DEF Seed, flagVars
<1>3. CASE state[a] = "absent" /\ HasBudget
  <2>1. state' = [state EXCEPT ![a] = "Queued"]
    BY <1>3 DEF Seed
  <2>2. StatusOf' = [StatusOf EXCEPT ![a] = Word("Queued")] /\ StatusOf[a] = Word(state[a])
    BY <1>1, <2>1, StatusMoves, StatusAt
  <2>3. VerdictOf' = VerdictOf
    BY <1>1, <1>2, <1>3, <2>1, VerdictStays DEF Terminal
  <2>4. Cardinality(F!Known) < MaxAddresses
    BY <1>1, <1>3, KnownSame DEF RInv, BudgetInv, HasBudget
  <2>5. F!Find(a)
    <3>1. StatusOf[a] = "unknown" /\ StatusOf' = [StatusOf EXCEPT ![a] = "pending"]
      BY <1>3, <2>2, Words
    <3> QED
      BY <1>2, <2>3, <2>4, <3>1, SameCount DEF F!Find
  <2> QED
    BY <1>1, <2>5, StepAbout DEF About
<1>4. CASE ~(state[a] = "absent" /\ HasBudget)
  <2>1. state' = state
    BY <1>4 DEF Seed
  <2> QED
    BY <1>1, <1>2, <2>1, Unseen
<1> QED
  BY <1>3, <1>4

LEMMA UpsertRefines ==
    ASSUME Inv, RInv, NEW w \in Workers, Upsert(w)
    PROVE  F!Next \/ UNCHANGED F!vars
<1>1. TypeOK /\ phase = "running" /\ phase' = phase
  BY DEF Upsert, Running, Inv, mainVars
<1>2. UNCHANGED <<failure, attempts, numProcessed, nodeLimitReached, shutdown>>
  BY DEF Upsert, flagVars
<1>3. PICK c \in batch[w] :
         state' = [state EXCEPT ![c.addr] =
                      IF Considered(c.addr) /\ ~Stale(IF state[c.addr] # "absent"
                                                      THEN Later(c.addr, c.ts)
                                                      ELSE c.ts, asOf[w])
                      THEN "Queued"
                      ELSE IF Considered(c.addr) THEN "StaleDiscarded" ELSE @]
  BY DEF Upsert
<1> DEFINE a == c.addr
<1>4. a \in Addrs
  BY SetAssumption DEF RInv, SourceInv
<1>5. CASE Considered(a)
  <2>1. PICK s \in {"Queued", "StaleDiscarded"} : state' = [state EXCEPT ![a] = s]
    BY <1>3, <1>5
  <2>2. state[a] = "StaleDiscarded" \/ (state[a] = "absent" /\ HasBudget)
    BY <1>5 DEF Considered
  <2>3. VerdictOf' = VerdictOf
    BY <1>1, <1>2, <1>4, <2>1, <2>2, VerdictStays DEF Terminal
  <2>4. StatusOf' = [StatusOf EXCEPT ![a] = Word(s)] /\ StatusOf[a] = Word(state[a])
    BY <1>1, <1>4, <2>1, StatusMoves, StatusAt
  <2>5. CASE state[a] = "absent" /\ HasBudget
    <3>1. Cardinality(F!Known) < MaxAddresses
      BY <1>1, <2>5, KnownSame DEF RInv, BudgetInv, HasBudget
    <3>2. StatusOf[a] = "unknown" /\ Word(s) \in {"stale", "pending"}
      BY <2>4, <2>5, Words
    <3>3. F!Find(a)
      BY <1>2, <2>3, <2>4, <3>1, <3>2, SameCount DEF F!Find
    <3> QED
      BY <1>1, <1>4, <3>3, StepAbout DEF About
  <2>6. CASE state[a] = "StaleDiscarded" /\ s = "Queued"
    <3>1. F!Revive(a)
      BY <1>2, <2>3, <2>4, <2>6, Words DEF F!Revive
    <3> QED
      BY <1>1, <1>4, <3>1, StepAbout DEF About
  <2>7. CASE state[a] = "StaleDiscarded" /\ s = "StaleDiscarded"
    <3>1. state' = state
      BY <1>1, <2>1, <2>7 DEF TypeOK
    <3> QED
      BY <1>1, <1>2, <3>1, Unseen
  <2> QED
    BY <2>2, <2>5, <2>6, <2>7
<1>6. CASE ~Considered(a)
  <2>1. state' = state
    BY <1>1, <1>3, <1>6 DEF TypeOK
  <2> QED
    BY <1>1, <1>2, <2>1, Unseen
<1> QED
  BY <1>5, <1>6

LEMMA BeginRefines ==
    ASSUME Inv, RInv, NEW w \in Workers, Begin(w)
    PROVE  F!Next
<1>1. TypeOK /\ phase = "running" /\ phase' = phase /\ cur[w] \in Addrs
  BY Held DEF Begin, Running, Inv, mainVars, CurPc
<1>2. state[cur[w]] = "Queued" /\ state' = [state EXCEPT ![cur[w]] = "Processing"]
  BY DEF Begin, Running, RInv, WorkInv, Progress
<1>3. /\ StatusOf' = [StatusOf EXCEPT ![cur[w]] = "taken"] /\ StatusOf[cur[w]] = "pending"
      /\ VerdictOf' = VerdictOf
  <2>1. StatusOf' = [StatusOf EXCEPT ![cur[w]] = Word("Processing")]
    BY <1>1, <1>2, StatusMoves
  <2>2. StatusOf[cur[w]] = Word(state[cur[w]])
    BY <1>1, StatusAt
  <2>3. VerdictOf' = VerdictOf
    BY <1>1, <1>2, VerdictStays DEF Begin, Terminal
  <2> QED
    BY <1>2, <2>1, <2>2, <2>3, Words
<1>4. F!Take(cur[w])
  BY <1>3 DEF F!Take, Begin, HasSlot, flagVars
<1> QED
  BY <1>1, <1>4, StepAbout DEF About

LEMMA SendRefusedRefines ==
    ASSUME Inv, RInv, NEW w \in Workers, SendRefused(w)
    PROVE  F!Next
<1> DEFINE a == pend[w]
<1>1. TypeOK /\ phase = "running" /\ phase' = phase
  BY DEF SendRefused, Running, Inv, mainVars
<1>2. a \in Addrs /\ state[a] = "Queued" /\ state' = [state EXCEPT ![a] = "BudgetDiscarded"]
  BY Held DEF SendRefused, Running, PendPc
<1>3. \A t \in Transports : a \notin Range(queue[t])
  BY <1>2, SetAssumption DEF Inv, OwnInv, PendInv
<1>4. shutdown \/ nodeLimitReached
  BY <1>2, <1>3, RefusedForCause, RouteAssumption DEF SendRefused, RInv, Active
<1>5. failure' = [failure EXCEPT ![a] = failure[a]] /\ "BudgetDiscarded" \in Terminal
  BY <1>1 DEF SendRefused, TypeOK, Terminal
<1>6. StatusOf' = [StatusOf EXCEPT ![a] = "settled"] /\ StatusOf[a] = "pending"
  <2>1. StatusOf' = [StatusOf EXCEPT ![a] = Word("BudgetDiscarded")]
    BY <1>1, <1>2, StatusMoves
  <2>2. StatusOf[a] = Word(state[a])
    BY <1>2, StatusAt
  <2> QED
    BY <1>2, <1>5, <2>1, <2>2, Words
<1>7. VerdictOf' = [VerdictOf EXCEPT ![a] = [outcome |-> "BudgetDiscarded", reason |-> failure[a]]]
  BY <1>1, <1>2, <1>5, VerdictGiven
<1>8. [outcome |-> "BudgetDiscarded", reason |-> failure[a]] \in F!Verdict
  BY <1>1, <1>2 DEF F!Verdict, TypeOK
<1>9. F!GiveUp(a)
  BY <1>4, <1>6, <1>7, <1>8 DEF F!GiveUp, F!Settled, SendRefused, flagVars
<1> QED
  BY <1>1, <1>2, <1>9, StepAbout DEF About

LEMMA RequeueRefines ==
    ASSUME Inv, RInv, NEW w \in Workers, Requeue(w)
    PROVE  F!Next
<1>1. TypeOK /\ phase = "running" /\ phase' = phase /\ cur[w] \in Addrs
  BY Held DEF Requeue, Running, Inv, mainVars, CurPc
<1>2. /\ state[cur[w]] = "Processing" /\ state' = [state EXCEPT ![cur[w]] = "Queued"]
      /\ attempts[cur[w]] < MaxAttempts
  BY DEF Requeue, Running, RInv, WorkInv, Progress
<1>3. /\ StatusOf' = [StatusOf EXCEPT ![cur[w]] = "pending"] /\ StatusOf[cur[w]] = "taken"
      /\ VerdictOf' = VerdictOf
  <2>1. StatusOf' = [StatusOf EXCEPT ![cur[w]] = Word("Queued")]
    BY <1>1, <1>2, StatusMoves
  <2>2. StatusOf[cur[w]] = Word(state[cur[w]])
    BY <1>1, StatusAt
  <2>3. VerdictOf' = VerdictOf
    BY <1>1, <1>2, VerdictStays DEF Requeue, Terminal
  <2> QED
    BY <1>2, <2>1, <2>2, <2>3, Words
<1>4. F!Return(cur[w])
  BY <1>2, <1>3 DEF F!Return, Requeue, flagVars
<1> QED
  BY <1>1, <1>4, StepAbout DEF About

LEMMA FinishMarkRefines ==
    ASSUME Inv, RInv, NEW w \in Workers, FinishMark(w)
    PROVE  F!Next
<1> DEFINE a == cur[w]
           v == [outcome |-> term[w], reason |-> reason[w]]
<1>1. TypeOK /\ phase = "running" /\ phase' = phase /\ pc[w] = "finish"
  BY DEF FinishMark, Running, Inv, mainVars
<1>2. a \in Addrs /\ state[a] \in Active /\ term[w] \in Terminal
  BY <1>1, Held DEF CurPc, Inv, OwnInv, VerdictInv
<1>3. /\ state' = [state EXCEPT ![a] = term[w]] /\ failure' = [failure EXCEPT ![a] = reason[w]]
      /\ UNCHANGED <<attempts, numProcessed, nodeLimitReached, shutdown>>
  BY <1>2 DEF FinishMark, flagVars
<1>4. StatusOf' = [StatusOf EXCEPT ![a] = "settled"] /\ StatusOf[a] = Word(state[a])
  <2>1. StatusOf' = [StatusOf EXCEPT ![a] = Word(term[w])]
    BY <1>1, <1>2, <1>3, StatusMoves
  <2>2. StatusOf[a] = Word(state[a])
    BY <1>2, StatusAt
  <2> QED
    BY <1>2, <2>1, <2>2, Words
<1>5. VerdictOf' = [VerdictOf EXCEPT ![a] = v]
  BY <1>1, <1>2, <1>3, VerdictGiven
<1>6. v \in F!Verdict
  BY <1>1, <1>2 DEF F!Verdict, F!Failures, TypeOK, Terminal
<1>7. F!Settled(a, v)
  BY <1>3, <1>4, <1>5 DEF F!Settled
<1>8. Progress(w)
  BY DEF RInv, WorkInv
<1>9. CASE state[a] = "Processing"
  <2>1. term[w] # "BudgetDiscarded" /\ (term[w] = "Unreachable" => attempts[a] >= MaxAttempts)
    BY <1>1, <1>8, <1>9 DEF Progress
  <2>2. F!Settle(a)
    BY <1>4, <1>6, <1>7, <1>9, <2>1, Words DEF F!Settle
  <2> QED
    BY <1>1, <1>2, <2>2, StepAbout DEF About
<1>10. CASE state[a] = "Queued"
  <2>1. /\ nodeLimitReached \/ shutdown
        /\ term[w] = "BudgetDiscarded" \/ (term[w] \in Failed /\ attempts[a] > 0)
    BY <1>1, <1>8, <1>10 DEF Progress
  <2>2. F!GiveUp(a)
    BY <1>4, <1>6, <1>7, <1>10, <2>1, Words DEF F!GiveUp, F!Failures, Failed
  <2> QED
    BY <1>1, <1>2, <2>2, StepAbout DEF About
<1> QED
  BY <1>2, <1>9, <1>10 DEF Active

(* Workers stop with their queues drained, so no address is left once all  *)
(* of them have, if each transport had one.                                *)
LEMMA ReturnRefines ==
    ASSUME Inv, RInv, Served, RunReturns
    PROVE  F!Next
<1>1. /\ phase = "running" /\ phase' = "returned" /\ \A w \in Workers : pc[w] = "stopped"
      /\ UNCHANGED <<state, failure, attempts, numProcessed, nodeLimitReached, shutdown>>
  BY DEF RunReturns, entryVars, flagVars
<1>2. \A w \in Workers : cur[w] = Nil /\ pend[w] = Nil
  BY <1>1 DEF Inv, OwnInv, CurInv, PendInv, CurPc, PendPc
<1>3. shutdown \/ \A a \in Addrs : state[a] \notin Active
  <2>1. SUFFICES ASSUME ~shutdown, NEW a \in Addrs, state[a] \in Active PROVE FALSE
    OBVIOUS
  <2>2. a # Nil
    BY SetAssumption
  <2>3. PICK t \in Transports : a \in Range(queue[t])
    BY <1>2, <2>1, <2>2 DEF Inv, OwnInv, OwnedInv
  <2>4. Route[a] = t
    BY <2>3 DEF Inv, OwnInv, QueueInv
  <2>5. a \in Enabled \cup Seeds
    BY <2>1 DEF RInv, SourceInv, KnownAddrs, Active
  <2>6. PICK w \in Workers : Pool[w] = t
    BY <2>4, <2>5 DEF Served
  <2>7. queue[t] = <<>>
    BY <1>1, <2>1, <2>6 DEF RInv, StoppedInv
  <2> QED
    BY <2>3, <2>7 DEF Range
<1>4. \A a \in Addrs : state[a] \notin Active => StatusOf[a] \notin {"pending", "taken"}
  <2>1. \A s \in (NodeState \cup {"absent"}) \ Active : Word(s) \notin {"pending", "taken"}
    BY Words DEF NodeState, Active
  <2>2. \A a \in Addrs : state[a] \in NodeState \cup {"absent"}
    BY DEF Inv, TypeOK
  <2> QED
    BY <2>1, <2>2, StatusAt
<1>5. shutdown \/ F!Open = {}
  BY <1>3, <1>4 DEF F!Open
<1>6. UNCHANGED <<StatusOf, VerdictOf>>
  BY <1>1 DEF StatusOf, VerdictOf
<1> QED
  BY <1>1, <1>5, <1>6 DEF F!Next, F!End

LEMMA AbstractStep ==
    ASSUME Inv, RInv, Served, [Next]_vars
    PROVE  F!Next \/ UNCHANGED F!vars
<1>1. CASE \E a \in Seeds : Seed(a)
  BY <1>1, SeedRefines
<1>2. CASE \E w \in Workers : \/ Upsert(w) \/ Begin(w) \/ SendRefused(w) \/ Requeue(w)
                              \/ FinishMark(w)
  BY <1>2, UpsertRefines, BeginRefines, SendRefusedRefines, RequeueRefines, FinishMarkRefines
<1>3. ASSUME NEW w \in Workers, OverLimit(w) PROVE F!Next
  <2>1. /\ phase = "running" /\ phase' = phase /\ nodeLimitReached' = TRUE
        /\ UNCHANGED <<state, failure, attempts, numProcessed, shutdown>>
    BY <1>3 DEF OverLimit, Running, entryVars, mainVars
  <2>2. MaxNodes # NoLimit /\ numProcessed >= MaxNodes
    BY <1>3, BoundAssumption DEF OverLimit, HasSlot, Inv, TypeOK
  <2>3. UNCHANGED <<StatusOf, VerdictOf>>
    BY <2>1 DEF StatusOf, VerdictOf
  <2>4. F!Refuse
    BY <2>1, <2>2, <2>3 DEF F!Refuse
  <2> QED
    BY <2>1, <2>4 DEF F!Next
<1>4. ASSUME CtrlC \/ \E w \in Workers : Panic(w) PROVE F!Next
  <2>1. /\ phase = "running" /\ phase' = phase /\ shutdown' = TRUE
        /\ UNCHANGED <<state, failure, attempts, numProcessed, nodeLimitReached>>
    BY <1>4 DEF CtrlC, Panic, Running, entryVars, mainVars
  <2>2. UNCHANGED <<StatusOf, VerdictOf>>
    BY <2>1 DEF StatusOf, VerdictOf
  <2>3. F!Interrupt
    BY <2>1, <2>2 DEF F!Interrupt
  <2> QED
    BY <2>1, <2>3 DEF F!Next
<1>5. CASE RunReturns
  BY <1>5, ReturnRefines
<1>6. ASSUME UNCHANGED <<state, failure, attempts, numProcessed, nodeLimitReached, shutdown>>,
             phase' = "returned" <=> phase = "returned"
      PROVE  UNCHANGED F!vars
  BY <1>6, Unseen
<1>7. \/ \E a \in Seeds : Seed(a)
      \/ \E w \in Workers : \/ Upsert(w) \/ Begin(w) \/ SendRefused(w) \/ Requeue(w)
                            \/ FinishMark(w) \/ OverLimit(w) \/ Panic(w)
      \/ CtrlC \/ RunReturns
      \/ /\ UNCHANGED <<state, failure, attempts, numProcessed, nodeLimitReached, shutdown>>
         /\ phase' = "returned" <=> phase = "returned"
  BY DEF Next, WorkerStep, MainStep, Terminated, vars, entryVars, flagVars, mainVars, LoopTop,
         Recv, RecvClosed, Connect, ConnectFails, Handshake, HandshakeTimesOut, HandshakeFails,
         EndCollection, EndBatch, Incr, Send, Undo, FinishDecr, CloseNext, CloseDone,
         AddrMessage, StartRun, MonitorExit, SignalCloses, CtrlCAgain, Tick
<1> QED
  BY <1>1, <1>2, <1>3, <1>4, <1>5, <1>6, <1>7

LEMMA AbstractInit == Init => F!Init
<1> SUFFICES ASSUME Init PROVE F!Init
  OBVIOUS
<1>1. \A a \in Addrs : state[a] = "absent"
  BY DEF Init
<1>2. StatusOf = [a \in Addrs |-> "unknown"]
  BY <1>1, StatusAt, Words
<1>3. VerdictOf = [a \in Addrs |-> Nil]
  BY <1>1 DEF VerdictOf, Terminal
<1> QED
  BY <1>2, <1>3 DEF Init, F!Init

(* The crawler implements Frontier, whenever each address that can be      *)
(* found has a pool that serves it: whatever its workers do concurrently,  *)
(* what becomes of an address is what the abstract crawl would do with it. *)
THEOREM CrawlImplementsFrontier ==
    ASSUME Served
    PROVE  Spec => ImplementsFrontier
<1>1. Inv /\ RInv /\ [Next]_vars => [F!Next]_F!vars
  BY AbstractStep
<1> QED
  BY <1>1, AbstractInit, RInvAlways, PTL DEF Spec, ImplementsFrontier, F!Spec
=============================================================================
