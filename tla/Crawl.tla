------------------------------- MODULE Crawl -------------------------------
(***************************************************************************)
(* The crawler core: the node store, the three per-transport work queues,  *)
(* the worker pools that drain them, the status monitor, the Ctrl+C        *)
(* handler and `run`, which joins the workers (src/src/crawler.rs and      *)
(* src/src/store.rs).  The network is the environment: a connect, a        *)
(* handshake or a getaddr exchange ends in any way the code distinguishes. *)
(*                                                                         *)
(* A worker is a state machine whose pc names the next shared-memory       *)
(* operation it will perform.  Operations on the entry a worker owns are   *)
(* merged with a neighbouring step; operations on the outstanding counter, *)
(* the queues and the flags stay separate, because their interleavings are *)
(* what the properties are about.                                          *)
(***************************************************************************)
EXTENDS Integers, Sequences, FiniteSets, Functions

CONSTANTS
    Addrs,           \* the (host, port) keys that seeds and peers can name
    Workers,         \* worker tasks of all three pools
    Pool,            \* Pool[w]: transport whose queue worker w drains
    Route,           \* Route[a]: transport of the address's network
    Enabled,         \* addresses whose network is enabled (is_enabled)
    Seeds,           \* addresses the DNS seeds, or the probe's list, can yield
    MaxAttempts,     \* handshake_attempts
    MaxNodes,        \* --max-nodes, or NoLimit
    NoLimit,
    MaxAddresses,    \* --max-addresses: store budget and queue capacity
    Threshold,       \* freshness threshold, 0 when the filter is off
    Timestamps,      \* timestamps a peer may advertise
    StartNow,        \* epoch at launch
    MaxNow,          \* bound: the clock stops here
    MaxBatch,        \* bound: distinct claims in one addr message
    RetryOnTimeout,  \* retry_on_timeout
    ProbeMode,       \* probe_mode: no getaddr
    Nil

Transports == {"ip", "tor", "i2p"}

(***************************************************************************)
(* Assumptions on the constants: into_settings rejects max_addresses = 0   *)
(* (settings.rs:396); the rest only types the parameters.                  *)
(***************************************************************************)
ASSUME SetAssumption ==
    /\ IsFiniteSet(Addrs)
    /\ IsFiniteSet(Workers)
    /\ Nil \notin Addrs
    /\ Enabled \subseteq Addrs
    /\ Seeds \subseteq Addrs

ASSUME RouteAssumption ==
    /\ Pool \in [Workers -> Transports]
    /\ Route \in [Addrs -> Transports]

ASSUME BoundAssumption ==
    /\ MaxAttempts \in Nat
    /\ MaxAddresses \in Nat \ {0}
    /\ NoLimit \notin Nat
    /\ MaxNodes \in Nat \cup {NoLimit}
    /\ Threshold \in Nat
    /\ MaxBatch \in Nat
    /\ StartNow \in Int
    /\ MaxNow \in Int
    /\ Timestamps \subseteq Int
    /\ RetryOnTimeout \in BOOLEAN
    /\ ProbeMode \in BOOLEAN

Active == {"Queued", "Processing"}
Terminal == {"Reachable", "HandshakeFailed", "Unreachable", "BudgetDiscarded"}
NodeState == Active \cup Terminal \cup {"StaleDiscarded"}

(* FailKind by phase: the connect kinds, HandshakeTimeout, the remaining   *)
(* handshake kinds, and WorkerFailed.                                      *)
FailKind == {"connect", "timeout", "handshake", "worker"}

(* One claim of an addr message: an address and the timestamp it carries.  *)
Claim == [addr : Addrs, ts : Timestamps]

VARIABLES
    \* NodeStore: "absent" stands for a key that is not in the map
    state, freshest, attempts, connected, handshake, failure,
    entries, budgetRejected, outstanding,
    \* Queues
    queue, closed,
    \* Crawler counters and flags
    numProcessed, shutdown, nodeLimitReached, workerFailed, outputFailed,
    \* worker_loop, process and the calls they make
    pc, cur, pend, batch, asOf, full, term, reason, why,
    \* run, monitor_loop, signal_loop, and the wall clock
    phase, monitor, signal, now

entryVars  == <<state, freshest, attempts, connected, handshake, failure>>
budgetVars == <<entries, budgetRejected>>
queueVars  == <<queue, closed>>
flagVars   == <<shutdown, nodeLimitReached, workerFailed, outputFailed>>
batchVars  == <<pend, batch, asOf, full>>
verdict    == <<term, reason, why>>
mainVars   == <<phase, monitor, signal, now>>
vars == <<entryVars, budgetVars, outstanding, queueVars, numProcessed, flagVars,
          pc, cur, batchVars, verdict, mainVars>>

WorkerPc == {"top", "recv", "reserve", "connect", "handshake", "collect", "upsert",
             "incr", "send", "undo", "requeue", "finish", "decr", "close", "stopped"}

TypeOK ==
    /\ state \in [Addrs -> NodeState \cup {"absent"}]
    /\ freshest \in [Addrs -> Int]
    /\ attempts \in [Addrs -> Nat]
    /\ connected \in [Addrs -> BOOLEAN]
    /\ handshake \in [Addrs -> BOOLEAN]
    /\ failure \in [Addrs -> FailKind \cup {Nil}]
    /\ entries \in Nat
    /\ budgetRejected \in BOOLEAN
    /\ outstanding \in Nat
    /\ queue \in [Transports -> Seq(Addrs)]
    /\ closed \subseteq Transports
    /\ numProcessed \in Nat
    /\ shutdown \in BOOLEAN /\ nodeLimitReached \in BOOLEAN
    /\ workerFailed \in BOOLEAN /\ outputFailed \in BOOLEAN
    /\ pc \in [Workers -> WorkerPc]
    /\ cur \in [Workers -> Addrs \cup {Nil}]
    /\ pend \in [Workers -> Addrs \cup {Nil}]
    /\ batch \in [Workers -> SUBSET Claim]
    /\ asOf \in [Workers -> Int]
    /\ full \in [Workers -> BOOLEAN]
    /\ term \in [Workers -> Terminal \cup {Nil}]
    /\ reason \in [Workers -> FailKind \cup {Nil}]
    /\ why \in [Workers -> {"done", "limit", "panic"}]
    /\ phase \in {"seeding", "running", "returned", "killed"}
    /\ monitor \in {"idle", "watching", "exited"}
    /\ signal \in {"idle", "armed", "closing", "closed"}
    /\ now \in Int

Init ==
    /\ state = [a \in Addrs |-> "absent"]
    /\ freshest = [a \in Addrs |-> StartNow]
    /\ attempts = [a \in Addrs |-> 0]
    /\ connected = [a \in Addrs |-> FALSE]
    /\ handshake = [a \in Addrs |-> FALSE]
    /\ failure = [a \in Addrs |-> Nil]
    /\ entries = 0 /\ budgetRejected = FALSE /\ outstanding = 0
    /\ queue = [t \in Transports |-> <<>>]
    /\ closed = {}
    /\ numProcessed = 0
    /\ shutdown = FALSE /\ nodeLimitReached = FALSE
    /\ workerFailed = FALSE /\ outputFailed = FALSE
    /\ pc = [w \in Workers |-> "top"]
    /\ cur = [w \in Workers |-> Nil]
    /\ pend = [w \in Workers |-> Nil]
    /\ batch = [w \in Workers |-> {}]
    /\ asOf = [w \in Workers |-> StartNow]
    /\ full = [w \in Workers |-> FALSE]
    /\ term = [w \in Workers |-> Nil]
    /\ reason = [w \in Workers |-> Nil]
    /\ why = [w \in Workers |-> "done"]
    /\ phase = "seeding" /\ monitor = "idle" /\ signal = "idle"
    /\ now = StartNow

-----------------------------------------------------------------------------
(* Queues: a bounded async_channel accepts until it is full or closed, and *)
(* a closed one is still drained.  close_all closes ip, tor, i2p in turn.  *)

(* try_send returns Ok. *)
Accepts(t) == t \notin closed /\ Len(queue[t]) < MaxAddresses

Push(t, a) == queue' = [queue EXCEPT ![t] = Append(@, a)]

(* Close is idempotent and every caller goes through the three queues in   *)
(* the same order, so a caller's next effective step closes the first open *)
(* queue.                                                                  *)
NextOpen(t) ==
    /\ t \notin closed
    /\ t = "tor" => "ip" \in closed
    /\ t = "i2p" => {"ip", "tor"} \subseteq closed

(* Mutant: an address exactly at the threshold counts as stale. *)
StaleAtThreshold(ts, at) == Threshold > 0 /\ ts <= at - Threshold

Stale(ts, at) == Threshold > 0 /\ ts < at - Threshold

HasSlot == MaxNodes # NoLimit => numProcessed < MaxNodes

(* Mutant: the budget test is off by one. *)
BudgetOffByOne == entries <= MaxAddresses

HasBudget == entries < MaxAddresses

(* Mutants: a Queued address is taken for a new one; a settled address is  *)
(* reconsidered.                                                           *)
ConsiderQueued(a) ==
    \/ state[a] \in {"StaleDiscarded", "Queued"}
    \/ state[a] = "absent" /\ HasBudget
ConsiderSettled(a) ==
    \/ state[a] \in {"StaleDiscarded", "Unreachable"}
    \/ state[a] = "absent" /\ HasBudget

(* frontier_upsert goes on to judge the freshness of an address that was   *)
(* StaleDiscarded, or that is new and fits the budget.                     *)
Considered(a) ==
    \/ state[a] = "StaleDiscarded"
    \/ state[a] = "absent" /\ HasBudget

(* Mutant: termination judged by the queues alone. *)
QueuesEmpty == \A t \in Transports : queue[t] = <<>>

(* fetch_sub(1) returns 1. *)
WasLast == outstanding = 1

(* The monitor's test. *)
NoWork == outstanding = 0

Later(a, ts) == IF freshest[a] < ts THEN ts ELSE freshest[a]

Goto(w, l) == pc' = [pc EXCEPT ![w] = l]

Running(w, l) == phase = "running" /\ pc[w] = l

-----------------------------------------------------------------------------
(* Seeding, before any task runs: seed_from_dns (enabled networks only) or *)
(* the probe's target list.  observe_seed followed by enqueue_seed.        *)
Seed(a) ==
    /\ phase = "seeding"
    /\ IF state[a] # "absent"
       THEN /\ freshest' = [freshest EXCEPT ![a] = Later(a, now)]
            /\ UNCHANGED <<state, entries, budgetRejected, outstanding, queue>>
       ELSE IF HasBudget
       THEN /\ entries' = entries + 1
            /\ freshest' = [freshest EXCEPT ![a] = now]
            /\ outstanding' = outstanding + 1
            /\ state' = [state EXCEPT ![a] = "Queued"]
            /\ Push(Route[a], a)
            /\ UNCHANGED budgetRejected
       ELSE /\ budgetRejected' = TRUE
            /\ UNCHANGED <<state, freshest, entries, outstanding, queue>>
    /\ UNCHANGED <<attempts, connected, handshake, failure, closed, numProcessed,
                   flagVars, pc, cur, batchVars, verdict, mainVars>>

(* run up to the join loop: an empty frontier closes the queues, then the  *)
(* pools, the monitor and the signal task are spawned.                     *)
StartRun ==
    /\ phase = "seeding"
    /\ phase' = "running"
    /\ monitor' = "watching"
    /\ signal' = "armed"
    /\ closed' = IF outstanding = 0 THEN Transports ELSE closed
    /\ UNCHANGED <<entryVars, budgetVars, outstanding, queue, numProcessed, flagVars,
                   pc, cur, batchVars, verdict, now>>

-----------------------------------------------------------------------------
(* worker_loop *)

(* The shutdown check at the top of the loop. *)
LoopTop(w) ==
    /\ Running(w, "top")
    /\ Goto(w, IF shutdown THEN "stopped" ELSE "recv")
    /\ UNCHANGED <<entryVars, budgetVars, outstanding, queueVars, numProcessed, flagVars,
                   cur, batchVars, verdict, mainVars>>

(* recv().await: the oldest key of the pool's queue. *)
Recv(w) ==
    /\ Running(w, "recv")
    /\ queue[Pool[w]] # <<>>
    /\ cur' = [cur EXCEPT ![w] = Head(queue[Pool[w]])]
    /\ queue' = [queue EXCEPT ![Pool[w]] = Tail(@)]
    /\ Goto(w, "reserve")
    /\ UNCHANGED <<entryVars, budgetVars, outstanding, closed, numProcessed, flagVars,
                   batchVars, verdict, mainVars>>

(* recv().await on a queue that is closed and drained. *)
RecvClosed(w) ==
    /\ Running(w, "recv")
    /\ queue[Pool[w]] = <<>>
    /\ Pool[w] \in closed
    /\ Goto(w, "stopped")
    /\ UNCHANGED <<entryVars, budgetVars, outstanding, queueVars, numProcessed, flagVars,
                   cur, batchVars, verdict, mainVars>>

(* reserve_node_slot succeeds; the entry becomes Processing and process    *)
(* counts the attempt.                                                     *)
Begin(w) ==
    /\ Running(w, "reserve")
    /\ HasSlot
    /\ numProcessed' = numProcessed + 1
    /\ state' = [state EXCEPT ![cur[w]] = "Processing"]
    /\ attempts' = [attempts EXCEPT ![cur[w]] = @ + 1]
    /\ Goto(w, "connect")
    /\ UNCHANGED <<freshest, connected, handshake, failure, budgetVars, outstanding,
                   queueVars, flagVars, cur, batchVars, verdict, mainVars>>

(* reserve_node_slot fails: the key is discarded and the queues closed. *)
OverLimit(w) ==
    /\ Running(w, "reserve")
    /\ ~HasSlot
    /\ nodeLimitReached' = TRUE
    /\ term' = [term EXCEPT ![w] = "BudgetDiscarded"]
    /\ why' = [why EXCEPT ![w] = "limit"]
    /\ Goto(w, "finish")
    /\ UNCHANGED <<entryVars, budgetVars, outstanding, queueVars, numProcessed, shutdown,
                   workerFailed, outputFailed, cur, batchVars, reason, mainVars>>

(* The spawned process task panics; worker_loop sees the join error. *)
Panic(w) ==
    /\ \E l \in {"connect", "handshake", "collect"} : Running(w, l)
    /\ workerFailed' = TRUE
    /\ shutdown' = TRUE
    /\ term' = [term EXCEPT ![w] = "HandshakeFailed"]
    /\ reason' = [reason EXCEPT ![w] = "worker"]
    /\ why' = [why EXCEPT ![w] = "panic"]
    /\ Goto(w, "finish")
    /\ UNCHANGED <<entryVars, budgetVars, outstanding, queueVars, numProcessed,
                   nodeLimitReached, outputFailed, cur, batchVars, mainVars>>

-----------------------------------------------------------------------------
(* process: connect, handshake, getaddr *)

(* retry_or_finish: note the verdict, then requeue or finish. *)
RetryOrFinish(w, retry, terminal, kind) ==
    /\ Goto(w, IF retry THEN "requeue" ELSE "finish")
    /\ term' = [term EXCEPT ![w] = terminal]
    /\ reason' = [reason EXCEPT ![w] = kind]

CanRetry(w) == attempts[cur[w]] < MaxAttempts

Connect(w) ==
    /\ Running(w, "connect")
    /\ connected' = [connected EXCEPT ![cur[w]] = TRUE]
    /\ Goto(w, "handshake")
    /\ UNCHANGED <<state, freshest, attempts, handshake, failure, budgetVars, outstanding,
                   queueVars, numProcessed, flagVars, cur, batchVars, verdict, mainVars>>

(* Mutant: the last attempt alone decides. *)
ConnectFailureLastOnly(w) == "Unreachable"

(* A node that connected on an earlier attempt is not unreachable. *)
ConnectFailure(w) == IF connected[cur[w]] THEN "HandshakeFailed" ELSE "Unreachable"

ConnectFails(w) ==
    /\ Running(w, "connect")
    /\ RetryOrFinish(w, CanRetry(w), ConnectFailure(w), "connect")
    /\ UNCHANGED <<entryVars, budgetVars, outstanding, queueVars, numProcessed, flagVars,
                   cur, batchVars, why, mainVars>>

(* HandshakeResult::Version.  The probe finishes here; the crawler collects. *)
Handshake(w) ==
    /\ Running(w, "handshake")
    /\ handshake' = [handshake EXCEPT ![cur[w]] = TRUE]
    /\ IF ProbeMode
       THEN /\ Goto(w, "finish")
            /\ term' = [term EXCEPT ![w] = "Reachable"]
       ELSE /\ Goto(w, "collect")
            /\ UNCHANGED term
    /\ UNCHANGED <<state, freshest, attempts, connected, failure, budgetVars, outstanding,
                   queueVars, numProcessed, flagVars, cur, batchVars, reason, why, mainVars>>

(* HandshakeResult::Timeout *)
HandshakeTimesOut(w) ==
    /\ Running(w, "handshake")
    /\ RetryOrFinish(w, RetryOnTimeout /\ CanRetry(w), "HandshakeFailed", "timeout")
    /\ UNCHANGED <<entryVars, budgetVars, outstanding, queueVars, numProcessed, flagVars,
                   cur, batchVars, why, mainVars>>

(* HandshakeResult::Failed *)
HandshakeFails(w) ==
    /\ Running(w, "handshake")
    /\ RetryOrFinish(w, CanRetry(w), "HandshakeFailed", "handshake")
    /\ UNCHANGED <<entryVars, budgetVars, outstanding, queueVars, numProcessed, flagVars,
                   cur, batchVars, why, mainVars>>

(* An addr or addrv2 message was parsed and logged: handle_addr_message    *)
(* reads the clock and walks the enabled claims.  A message with more than *)
(* one entry (repeated ones included) is the getaddr reply and ends the    *)
(* collection.                                                             *)
AddrMessage(w) ==
    /\ Running(w, "collect")
    /\ \E claims \in SUBSET Claim, many \in BOOLEAN :
          /\ Cardinality(claims) <= MaxBatch
          /\ Cardinality(claims) > 1 => many
          /\ claims = {} => ~many
          /\ batch' = [batch EXCEPT ![w] = {c \in claims : c.addr \in Enabled}]
          /\ full' = [full EXCEPT ![w] = many]
    /\ asOf' = [asOf EXCEPT ![w] = now]
    /\ Goto(w, "upsert")
    /\ UNCHANGED <<entryVars, budgetVars, outstanding, queueVars, numProcessed, flagVars,
                   cur, pend, verdict, mainVars>>

(* getaddr returns (any outcome; LogFailed when the observation log        *)
(* refused a record) and process records the outcome in entry and log.     *)
EndCollection(w) ==
    /\ Running(w, "collect")
    /\ \E logFailed \in BOOLEAN : outputFailed' = (outputFailed \/ logFailed)
    /\ term' = [term EXCEPT ![w] = "Reachable"]
    /\ Goto(w, "finish")
    /\ UNCHANGED <<entryVars, budgetVars, outstanding, queueVars, numProcessed, shutdown,
                   nodeLimitReached, workerFailed, cur, batchVars, reason, why, mainVars>>

(* frontier_upsert on the next claim of the shuffled batch, under the      *)
(* shard lock.  The budget is reserved before the freshness test.          *)
Upsert(w) ==
    /\ Running(w, "upsert")
    /\ \E c \in batch[w] :
        LET a       == c.addr
            known   == state[a] # "absent"
            ts      == IF known THEN Later(a, c.ts) ELSE c.ts
            enqueue == Considered(a) /\ ~Stale(ts, asOf[w])
        IN /\ batch' = [batch EXCEPT ![w] = @ \ {c}]
           /\ freshest' = [freshest EXCEPT ![a] = IF known \/ HasBudget THEN ts ELSE @]
           /\ entries' = IF ~known /\ HasBudget THEN entries + 1 ELSE entries
           /\ budgetRejected' = (budgetRejected \/ (~known /\ ~HasBudget))
           /\ state' = [state EXCEPT ![a] = IF enqueue THEN "Queued"
                                            ELSE IF Considered(a) THEN "StaleDiscarded"
                                            ELSE @]
           /\ pend' = [pend EXCEPT ![w] = IF enqueue THEN a ELSE Nil]
           /\ Goto(w, IF enqueue THEN "incr" ELSE "upsert")
    /\ UNCHANGED <<attempts, connected, handshake, failure, outstanding, queueVars,
                   numProcessed, flagVars, cur, asOf, full, verdict, mainVars>>

(* The batch is done: a complete reply ends the collection, else go on. *)
EndBatch(w) ==
    /\ Running(w, "upsert")
    /\ batch[w] = {}
    /\ full' = [full EXCEPT ![w] = FALSE]
    /\ asOf' = [asOf EXCEPT ![w] = StartNow]
    /\ IF full[w]
       THEN /\ \E logFailed \in BOOLEAN : outputFailed' = (outputFailed \/ logFailed)
            /\ term' = [term EXCEPT ![w] = "Reachable"]
            /\ Goto(w, "finish")
       ELSE /\ Goto(w, "collect")
            /\ UNCHANGED <<term, outputFailed>>
    /\ UNCHANGED <<entryVars, budgetVars, outstanding, queueVars, numProcessed, shutdown,
                   nodeLimitReached, workerFailed, cur, pend, batch, reason, why, mainVars>>

-----------------------------------------------------------------------------
(* enqueue, in the order of the code: count, push, undo if refused *)

(* Mutant: the key is pushed without being counted. *)
IncrForgotten(w) ==
    /\ Running(w, "incr")
    /\ Goto(w, "send")
    /\ UNCHANGED <<entryVars, budgetVars, outstanding, queueVars, numProcessed, flagVars, cur,
                   batchVars, verdict, mainVars>>

Incr(w) ==
    /\ Running(w, "incr")
    /\ outstanding' = outstanding + 1
    /\ Goto(w, "send")
    /\ UNCHANGED <<entryVars, budgetVars, queueVars, numProcessed, flagVars, cur, batchVars,
                   verdict, mainVars>>

Send(w) ==
    /\ Running(w, "send")
    /\ Accepts(Route[pend[w]])
    /\ Push(Route[pend[w]], pend[w])
    /\ pend' = [pend EXCEPT ![w] = Nil]
    /\ Goto(w, "upsert")
    /\ UNCHANGED <<entryVars, budgetVars, outstanding, closed, numProcessed, flagVars, cur,
                   batch, asOf, full, verdict, mainVars>>

SendRefused(w) ==
    /\ Running(w, "send")
    /\ ~Accepts(Route[pend[w]])
    /\ state' = [state EXCEPT ![pend[w]] = "BudgetDiscarded"]
    /\ Goto(w, "undo")
    /\ UNCHANGED <<freshest, attempts, connected, handshake, failure, budgetVars, outstanding,
                   queueVars, numProcessed, flagVars, cur, batchVars, verdict, mainVars>>

(* Mutant: a refused push leaves its count behind. *)
UndoForgotten(w) ==
    /\ Running(w, "undo")
    /\ pend' = [pend EXCEPT ![w] = Nil]
    /\ Goto(w, "upsert")
    /\ UNCHANGED <<entryVars, budgetVars, outstanding, queueVars, numProcessed, flagVars, cur,
                   batch, asOf, full, verdict, mainVars>>

Undo(w) ==
    /\ Running(w, "undo")
    /\ outstanding' = outstanding - 1
    /\ pend' = [pend EXCEPT ![w] = Nil]
    /\ Goto(w, "upsert")
    /\ UNCHANGED <<entryVars, budgetVars, queueVars, numProcessed, flagVars, cur, batch, asOf,
                   full, verdict, mainVars>>

-----------------------------------------------------------------------------
(* Mutant: the key is marked Queued but not pushed again. *)
RequeueDropped(w) ==
    /\ Running(w, "requeue")
    /\ state' = [state EXCEPT ![cur[w]] = "Queued"]
    /\ cur' = [cur EXCEPT ![w] = Nil]
    /\ term' = [term EXCEPT ![w] = Nil]
    /\ reason' = [reason EXCEPT ![w] = Nil]
    /\ Goto(w, "top")
    /\ UNCHANGED <<freshest, attempts, connected, handshake, failure, budgetVars, outstanding,
                   queueVars, numProcessed, flagVars, batchVars, why, mainVars>>

(* requeue: back to Queued without touching outstanding; finish with the   *)
(* caller's verdict when the queue refuses the key.                        *)
Requeue(w) ==
    /\ Running(w, "requeue")
    /\ state' = [state EXCEPT ![cur[w]] = "Queued"]
    /\ IF Accepts(Pool[w])
       THEN /\ Push(Pool[w], cur[w])
            /\ cur' = [cur EXCEPT ![w] = Nil]
            /\ term' = [term EXCEPT ![w] = Nil]
            /\ reason' = [reason EXCEPT ![w] = Nil]
            /\ Goto(w, "top")
       ELSE /\ Goto(w, "finish")
            /\ UNCHANGED <<queue, cur, term, reason>>
    /\ UNCHANGED <<freshest, attempts, connected, handshake, failure, budgetVars, outstanding,
                   closed, numProcessed, flagVars, batchVars, why, mainVars>>

(* finish, first half: the entry moves to its terminal state under the     *)
(* shard lock, if it is still active.                                      *)
FinishMark(w) ==
    /\ Running(w, "finish")
    /\ IF state[cur[w]] \in Active
       THEN /\ state' = [state EXCEPT ![cur[w]] = term[w]]
            /\ failure' = [failure EXCEPT ![cur[w]] = reason[w]]
            /\ Goto(w, "decr")
            /\ UNCHANGED cur
       ELSE /\ Goto(w, IF why[w] = "done" THEN "top" ELSE "close")
            /\ cur' = [cur EXCEPT ![w] = Nil]
            /\ UNCHANGED <<state, failure>>
    /\ term' = [term EXCEPT ![w] = Nil]
    /\ reason' = [reason EXCEPT ![w] = Nil]
    /\ UNCHANGED <<freshest, attempts, connected, handshake, budgetVars, outstanding, queueVars,
                   numProcessed, flagVars, batchVars, why, mainVars>>

(* finish, second half: whoever takes the counter from 1 to 0 closes the   *)
(* queues; a worker over the limit or after a panic closes them anyway.    *)
FinishDecr(w) ==
    /\ Running(w, "decr")
    /\ outstanding' = outstanding - 1
    /\ cur' = [cur EXCEPT ![w] = Nil]
    /\ Goto(w, IF WasLast \/ why[w] # "done" THEN "close" ELSE "top")
    /\ UNCHANGED <<entryVars, budgetVars, queueVars, numProcessed, flagVars, batchVars,
                   verdict, mainVars>>

CloseNext(w) ==
    /\ Running(w, "close")
    /\ \E t \in Transports : NextOpen(t) /\ closed' = closed \cup {t}
    /\ UNCHANGED <<entryVars, budgetVars, outstanding, queue, numProcessed, flagVars, pc, cur,
                   batchVars, verdict, mainVars>>

CloseDone(w) ==
    /\ Running(w, "close")
    /\ closed = Transports
    /\ Goto(w, IF why[w] = "panic" THEN "stopped" ELSE "top")
    /\ why' = [why EXCEPT ![w] = "done"]
    /\ UNCHANGED <<entryVars, budgetVars, outstanding, queueVars, numProcessed, flagVars, cur,
                   batchVars, term, reason, mainVars>>

-----------------------------------------------------------------------------
(* monitor_loop, signal_loop, the join loop of run, the clock *)

MonitorExit ==
    /\ phase = "running"
    /\ monitor = "watching"
    /\ NoWork
    /\ monitor' = "exited"
    /\ UNCHANGED <<entryVars, budgetVars, outstanding, queueVars, numProcessed, flagVars, pc,
                   cur, batchVars, verdict, phase, signal, now>>

(* First Ctrl+C: request the drain, then close the queues one by one. *)
CtrlC ==
    /\ phase = "running"
    /\ signal = "armed"
    /\ shutdown' = TRUE
    /\ signal' = "closing"
    /\ UNCHANGED <<entryVars, budgetVars, outstanding, queueVars, numProcessed,
                   nodeLimitReached, workerFailed, outputFailed, pc, cur, batchVars, verdict,
                   phase, monitor, now>>

SignalCloses ==
    /\ phase = "running"
    /\ signal = "closing"
    /\ \/ /\ \E t \in Transports : NextOpen(t) /\ closed' = closed \cup {t}
          /\ UNCHANGED signal
       \/ /\ closed = Transports
          /\ signal' = "closed"
          /\ UNCHANGED closed
    /\ UNCHANGED <<entryVars, budgetVars, outstanding, queue, numProcessed, flagVars, pc, cur,
                   batchVars, verdict, phase, monitor, now>>

(* Second Ctrl+C: exit(130) without output. *)
CtrlCAgain ==
    /\ phase = "running"
    /\ signal = "closed"
    /\ phase' = "killed"
    /\ UNCHANGED <<entryVars, budgetVars, outstanding, queueVars, numProcessed, flagVars, pc,
                   cur, batchVars, verdict, monitor, signal, now>>

(* Every worker has been joined; monitor and signal task are aborted. *)
RunReturns ==
    /\ phase = "running"
    /\ \A w \in Workers : pc[w] = "stopped"
    /\ phase' = "returned"
    /\ UNCHANGED <<entryVars, budgetVars, outstanding, queueVars, numProcessed, flagVars, pc,
                   cur, batchVars, verdict, monitor, signal, now>>

Tick ==
    /\ phase = "running"
    /\ now < MaxNow
    /\ now' = now + 1
    /\ UNCHANGED <<entryVars, budgetVars, outstanding, queueVars, numProcessed, flagVars, pc,
                   cur, batchVars, verdict, phase, monitor, signal>>

Terminated == phase \in {"returned", "killed"} /\ UNCHANGED vars

-----------------------------------------------------------------------------
(* The steps a worker takes on its own, and those the environment decides. *)
WorkerStep(w) ==
    \/ LoopTop(w) \/ Recv(w) \/ RecvClosed(w) \/ Begin(w) \/ OverLimit(w)
    \/ Connect(w) \/ ConnectFails(w)
    \/ Handshake(w) \/ HandshakeTimesOut(w) \/ HandshakeFails(w)
    \/ EndCollection(w) \/ Upsert(w) \/ EndBatch(w)
    \/ Incr(w) \/ Send(w) \/ SendRefused(w) \/ Undo(w)
    \/ Requeue(w) \/ FinishMark(w) \/ FinishDecr(w) \/ CloseNext(w) \/ CloseDone(w)

MainStep ==
    \/ \E a \in Seeds : Seed(a)
    \/ StartRun \/ MonitorExit \/ CtrlC \/ SignalCloses \/ CtrlCAgain \/ RunReturns
    \/ Tick \/ Terminated

Next ==
    \/ \E w \in Workers : WorkerStep(w) \/ AddrMessage(w) \/ Panic(w)
    \/ MainStep

Spec == Init /\ [][Next]_vars

(***************************************************************************)
(* Fairness.  The tokio runtime polls every ready task, and connecting and *)
(* receiving are bounded (connect timeout, handshake deadline), so a       *)
(* worker always takes its next step, given a peer that reads what it is   *)
(* sent: writes have no timeout.  A peer may keep sending small addr       *)
(* messages, but the hard deadline of getaddr is checked before every      *)
(* receive, so a collection that is entered again and again ends.          *)
(***************************************************************************)
Fairness ==
    /\ WF_vars(StartRun) /\ WF_vars(RunReturns) /\ WF_vars(SignalCloses)
    /\ \A w \in Workers : WF_vars(WorkerStep(w)) /\ SF_vars(EndCollection(w))

FairSpec == Spec /\ Fairness
-----------------------------------------------------------------------------
(* Properties *)

InQueue(a) == \E t \in Transports : a \in Range(queue[t])

HeldBy(w) == {cur[w], pend[w]} \ {Nil}

(***************************************************************************)
(* Every address that is Queued or Processing is in exactly one place: one *)
(* slot of the queue of its transport, or the hands of one worker, which   *)
(* processes it (cur) or is about to push it (pend).  The store's shard    *)
(* lock, enqueue, requeue and finish share this duty: an address owned     *)
(* twice is crawled twice at once and finished twice, one owned by nobody  *)
(* is lost and the crawl hangs.                                            *)
(***************************************************************************)
UniqueOwner ==
    /\ \A t \in Transports : IsInjective(queue[t])
    /\ \A t \in Transports : \A a \in Range(queue[t]) : Route[a] = t
    /\ \A w \in Workers : \A a \in HeldBy(w) : ~InQueue(a)
    /\ \A v, w \in Workers : v # w => HeldBy(v) \cap HeldBy(w) = {}
    /\ \A w \in Workers : cur[w] = pend[w] => cur[w] = Nil
    /\ \A a \in Addrs : state[a] \in Active =>
          InQueue(a) \/ \E w \in Workers : a \in HeldBy(w)

(* The addresses between the increment of enqueue and the decrement of     *)
(* finish, or of the undo of a refused push.                               *)
Counted == {a \in Addrs : \/ InQueue(a)
                         \/ \E w \in Workers : \/ cur[w] = a
                                               \/ pend[w] = a /\ pc[w] # "incr"}

(***************************************************************************)
(* The outstanding counter, which incr_outstanding and decr_outstanding    *)
(* change in steps of their own, is at every moment the number of          *)
(* addresses in flight, retries and refused pushes included.               *)
(***************************************************************************)
OutstandingExact == outstanding = Cardinality(Counted)

(***************************************************************************)
(* close_all as a verdict of termination: unless a shutdown or the node    *)
(* limit closed it, no queue is closed while an address still waits to be  *)
(* crawled (finish and the empty-frontier test of run).                    *)
(***************************************************************************)
NoPrematureClose ==
    closed # {} /\ ~shutdown /\ ~nodeLimitReached =>
        \A a \in Addrs : state[a] \notin Active

(***************************************************************************)
(* monitor_loop exits on outstanding == 0, which its comment reads as "the *)
(* crawl has genuinely terminated": then, and ever after, no address is    *)
(* active and no worker holds one.                                         *)
(***************************************************************************)
MonitorExitSound ==
    monitor = "exited" =>
        /\ \A a \in Addrs : state[a] \notin Active
        /\ \A w \in Workers : HeldBy(w) = {}

(***************************************************************************)
(* The try_send of enqueue and of requeue never meets a full queue: a key  *)
(* is refused only by a closed one, although the channels are bounded.     *)
(* The budget of the store bounds the entries, and a queue holds each at   *)
(* most once.                                                              *)
(***************************************************************************)
QueueNeverFull ==
    \A w \in Workers :
        /\ pc[w] = "send" => Len(queue[Route[pend[w]]]) < MaxAddresses
        /\ pc[w] = "requeue" => Len(queue[Pool[w]]) < MaxAddresses

(***************************************************************************)
(* The classification of process keeps its evidence over retries: a        *)
(* Reachable node has handshake data (write_reachable relies on it), an    *)
(* Unreachable one never accepted a connection on any attempt, and a       *)
(* HandshakeFailed one did, or its task panicked.                          *)
(***************************************************************************)
EvidenceKept ==
    \A a \in Addrs :
        /\ state[a] = "Reachable" => handshake[a]
        /\ state[a] = "Unreachable" => ~connected[a]
        /\ state[a] = "HandshakeFailed" => connected[a] \/ failure[a] = "worker"

(***************************************************************************)
(* README.md:62 of --max-nodes: a "strict cap on distinct nodes started".  *)
(* Then the limit is reached only when MaxNodes distinct nodes were        *)
(* started; reserve_node_slot counts every attempt.                        *)
(***************************************************************************)
LimitCountsNodes ==
    nodeLimitReached => Cardinality({a \in Addrs : attempts[a] > 0}) >= MaxNodes

(***************************************************************************)
(* SPECIFICATION_v2.md:465, "Every processed node reaches exactly one      *)
(* terminal state", of the three it lists.  A node waiting for its retry   *)
(* when the limit is reached becomes BudgetDiscarded in worker_loop.       *)
(***************************************************************************)
ProcessedClassified ==
    phase = "returned" /\ ~shutdown =>
        \A a \in Addrs : attempts[a] > 0 =>
            state[a] \in {"Reachable", "HandshakeFailed", "Unreachable"}

(***************************************************************************)
(* An address in StaleDiscarded is justified in it at every later moment:  *)
(* the freshest timestamp seen for it, over all claims of all peers, is    *)
(* older than the threshold (frontier_upsert).                             *)
(***************************************************************************)
StaleJustified ==
    \A a \in Addrs : state[a] = "StaleDiscarded" => freshest[a] < now - Threshold

(***************************************************************************)
(* Terminal means terminal: no step of any worker, seed or peer claim      *)
(* changes the verdict on an address, or its recorded reason.              *)
(***************************************************************************)
TerminalStable ==
    [][\A a \in Addrs : state[a] \in Terminal =>
          state'[a] = state[a] /\ failure'[a] = failure[a]]_vars

(* What has become of an address, as Frontier tells it. *)
StatusOf == [a \in Addrs |-> CASE state[a] = "absent" -> "unknown"
                               [] state[a] = "StaleDiscarded" -> "stale"
                               [] state[a] = "Queued" -> "pending"
                               [] state[a] = "Processing" -> "taken"
                               [] state[a] \in Terminal -> "settled"]

VerdictOf == [a \in Addrs |-> IF state[a] \in Terminal
                              THEN [outcome |-> state[a], reason |-> failure[a]]
                              ELSE Nil]

F == INSTANCE Frontier WITH
        Budget <- MaxAddresses, Limit <- MaxNodes, Reasons <- FailKind, None <- Nil,
        status <- StatusOf, verdict <- VerdictOf, tries <- attempts, started <- numProcessed,
        limited <- nodeLimitReached, cut <- shutdown, over <- phase = "returned"

(***************************************************************************)
(* The crawler keeps the promise of Frontier: no address is found beyond   *)
(* the budget or taken while another worker has it, a retry is within      *)
(* handshake_attempts, a verdict is given once and kept, nobody is         *)
(* Unreachable before the last attempt, only the node limit or a shutdown  *)
(* lets a pending address be discarded, and run returns with nothing       *)
(* pending unless it was shut down.                                        *)
(***************************************************************************)
ImplementsFrontier == F!Spec

(***************************************************************************)
(* The crawl ends: run returns, or a second Ctrl+C ends the process.       *)
(***************************************************************************)
Terminates == <>(phase \in {"returned", "killed"})

(***************************************************************************)
(* Every address that is queued is settled by some worker, unless the      *)
(* operator or a panic shuts the crawl down (worker_loop, requeue, and the *)
(* probe's promise to process the nodes it is given).                      *)
(***************************************************************************)
QueuedSettled ==
    \A a \in Addrs : state[a] = "Queued" ~> (state[a] \notin Active \/ shutdown)
=============================================================================
