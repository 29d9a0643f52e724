# new-p2p-crawler: models, checks and proofs

TLA+ models of the Bitcoin P2P crawler in `src/`, the TLC configurations that
check them on small instances, and TLAPS proofs of all the properties but
liveness, for all instances. Source references are to `src/src/*.rs`.

## 1. The system

| component | state it keeps | operations | talks to |
|---|---|---|---|
| node store (`store.rs`) | sharded map key -> entry (state, freshest timestamp, handshake, attempts, failure), `entries`, `outstanding`, `budget_rejected` | `observe_seed`, `frontier_upsert`, `with_entry`, `incr/decr_outstanding`, `snapshot` | called by everything |
| queues, worker pools (`crawler.rs`) | three bounded channels of keys, their closed flags, `num_processed` | `enqueue`, `finish`, `requeue`, `worker_loop`, `reserve_node_slot`, `close_all` | store; one pool per transport, keys cross pools |
| run, monitor, Ctrl+C (`crawler.rs`, `bin/probe.rs`) | `shutdown`, `node_limit_reached`, `worker_failed`, `output_failed` | `run`, `monitor_loop`, `signal_loop`, seeding | queues, store |
| peer session (`crawler.rs`) | one connection, attempt number | `connect`, `handshake`, `recv_matching`, `getaddr`, `handle_addr_message` | framing, codec, store, log |
| observation log (`addrlog.rs`) | next event id behind an async mutex, bounded channel, writer thread, file | `write_block`, `write_outcome`, `write_malformed`, `flush` | sessions, checkpoint, main |
| checkpoints, final output (`main.rs`, `output.rs`) | ticker, stop signal, snapshot generations, manifest | `spawn_checkpoint`, `CheckpointTask::stop`, `write_all`, `write_snapshot` | observation barrier, log, store |
| framing, transports (`transport.rs`) | receive buffer, start of the current frame; shared SAM session | `recv_one`, `try_parse_envelope`, `connect_*`, `SamSession` | session |
| wire codec, addresses (`protocol.rs`, `address.rs`) | none | parse and build messages, `classify` | session, store |
| front ends, settings, preflight, dns, logging (`main.rs`, `bin/probe.rs`, `settings.rs`, `preflight.rs`, `dns.rs`, `logging.rs`) | run directory and its files, exit code | both `main`s, `into_settings`, `run_preflight`, `seed_from_dns`, `logging::init` | the file system, other launches, all of the above |

What is hard in it: workers of three pools share a store, three queues, a
counter that decides termination and flags that end the run early, all in
separate atomic steps; retries go back through the queues; Ctrl+C, the node
limit and a panic close the queues while others push; the log is written by a
thread behind a mutex, a channel and acknowledgements, while a checkpoint takes
a read-write barrier to cut a consistent snapshot; the process may be killed at
any moment and what is on disk must make sense.

What makes each part correct:
* frontier and queues: an active address has one owner, the counter is exact, queues close only at the end, the crawl ends;
* verdicts: a terminal state is final and agrees with the evidence gathered over all attempts;
* limits: the budget and the node limit are strict and never lose an address;
* wire: a payload is accepted exactly when it is the encoding of what was read from it;
* launch: a run directory has one owner, seeds have pools, the exit code says what happened;
* log and snapshots: records in id order, a manifest never describes more than the durable log, a run called complete lost nothing, the final manifest stays.

`PROJECT.json` lists the hazards at their lines, with the properties that would
catch them.

## 2. Modules

| module | models |
|---|---|
| `Frontier` | abstract: what a crawl promises about each address |
| `Crawl` | store, queues, worker pools, run, monitor, Ctrl+C, the probe's seeding; implements `Frontier` |
| `CrawlProofs` | theorems about `Crawl` |
| `Observation` | getaddr sessions, observation barrier, log, writer, checkpoint, final write |
| `ObservationProofs` | theorems about `Observation` |
| `Envelopes` | abstract: the stream of envelopes a `Connection` promises |
| `Framing` | `recv_one`, `try_parse_envelope`: chunks, pipelining, both deadlines, the buffer limit; implements `Envelopes` |
| `FramingProofs` | theorems about `Framing` |
| `Session` | one node's attempts message by message: handshake, ping, deadline, reasons, attempt history |
| `SessionProofs` | theorems about `Session` |
| `Wire` | CompactSize, addr, addrv2, version, `classify`, against the encodings that are legal |
| `WireProofs` | theorems about `Wire` |
| `Manifests` | abstract: which generations a crash may leave `snapshot_manifest.json` naming |
| `SnapshotFs` | `write_snapshot`, `publish_manifest`, with a crash at any moment; implements `Manifests` |
| `SnapshotFsProofs` | theorems about `SnapshotFs` |
| `SamCache` | the shared SAM session and its eviction |
| `SamCacheProofs` | theorems about `SamCache` |
| `Startup` | launches of both binaries from command line to exit code: settings, run directory, debug log, preflight, DNS seeds |
| `StartupProofs` | theorems about `Startup` |
| `MCCrawl`, `MCObservation`, `MCFraming`, `MCWire`, `MCStartup` | instances for TLC (the other modules are run as they are) |

How they fit: `Session` receives what `Envelopes` promises, which `Framing`
keeps. `Crawl` has the attempts of `Session` without their messages, for many
nodes at once. `Observation` takes a node up after its handshake, and `Crawl`
has its collections without the log. `SnapshotFs` opens the one step
`CkWrite`/`FinalWrite` of `Observation`. `SamCache` opens the I2P case of
`Connect`. `Wire` opens the bodies of the envelopes `Session` and `Observation`
take as read. `Startup` has `run` and the final write as steps with any outcome,
and shows what `Crawl` assumes of its configuration: that every address it can
find has a pool (`Served` in `CrawlProofs`, `SeedsServed` here). No constant
or bound is shared between them but by these names.

### Crawl: state and actions

A worker is a state machine whose `pc` names its next operation on shared
memory. Operations on the entry a worker owns are merged with a neighbouring
step; operations on the counter, the queues and the flags stay apart.

| code | definition |
|---|---|
| `NodeEntry` fields, "not in the map" | `state` (`"absent"`), `freshest`, `attempts`, `connected` (`time_connect_ms.is_some()`), `handshake`, `failure` |
| `entries`, `budget_rejected` (zero or not), `outstanding` | `entries`, `budgetRejected`, `outstanding` |
| `Queues` | `queue`, `closed`; `Accepts`, `Push`, `NextOpen` |
| `observe_seed` + `enqueue_seed`, start of `run` | `Seed`, `StartRun` |
| `worker_loop` | `LoopTop`, `Recv`, `RecvClosed`, `Begin`, `OverLimit`, `Panic` |
| `process`, `connect`, `handshake` results | `Connect`, `ConnectFails`, `Handshake`, `HandshakeTimesOut`, `HandshakeFails` |
| `getaddr`, `handle_addr_message` | `AddrMessage`, `Upsert` (one claim), `EndBatch`, `EndCollection` |
| `enqueue` | `Incr`, `Send` or `SendRefused` then `Undo` |
| `requeue`, `finish`, `close_all` | `Requeue`, `FinishMark`, `FinishDecr`, `CloseNext`, `CloseDone` |
| `monitor_loop`, `signal_loop`, join loop | `MonitorExit`, `CtrlC`, `SignalCloses`, `CtrlCAgain`, `RunReturns` |

`close_all` is three steps, because another worker may push between two of
them. Every caller closes in the same order and closing twice does nothing, so
"close the first open queue" stands for any caller's next effective step.
A batch is a set of claims walked in any order (the code shuffles it). The
`try_send` of seeding cannot fail: nothing is closed and the queue capacity is
the store budget (`QueueNeverFull` is the general form).

### Frontier: what Crawl implements

The refinement mapping (`F` in `Crawl`, `ImplementsFrontier`):

| `Frontier` | in `Crawl` |
|---|---|
| `status` | `unknown`: not in the map; `stale`: `StaleDiscarded`; `pending`: `Queued`; `taken`: `Processing`; `settled`: a terminal state |
| `verdict` | the terminal state and `failure` |
| `tries`, `started` | `attempts`, `num_processed` |
| `limited`, `cut`, `over` | `node_limit_reached`, `shutdown`, `run` has returned |

Queues, counters, labels and closed flags do not appear: an address in no queue
and in no hand would be `pending` for ever, and `End` could then not be taken. A
verdict may come from `pending` only at the limit or after Ctrl+C, and an
address is called unreachable only after its last try.

### Observation: state and actions

A session is a worker from the handshake of one node to its `finish`; a node is
collected at most once, so the node names the session, and all sessions may run
at once (any smaller pool allows fewer interleavings).

| code | definition |
|---|---|
| `observation_barrier` (tokio `RwLock`, FIFO) | `line`, `readers`, `exclusive`; `JoinLine`, `Enter`, `CkEnter`, `Leave` |
| `AddrLog`: mutex, id, channel, oneshots | `lock`, `nextId`, `commands`, `reply`; `TakeId`, `SendAppend`, `SendFlush`, `TakeReply` |
| writer thread, `BufWriter`, disk | `file` (records written), `synced` (prefix that survives a crash), `lastId`; `WriterAppends`, `WriterFlushes` |
| `getaddr` loop and outcome table | `Start`, `Receive`, `EndCollection`, `Count`, `MarkFailed`, `OutcomeOf` |
| tail of `process` | `RecordOutcome`, `Finish` |
| checkpoint task | `CkTick`, `CkStop`, `CkEnter`, `CkFlush`, `CkFlushed`, `CkFlushFails`, `CkClone` (one entry), `CkCloned`, `CkWrite` |
| after `run` in `async_main` | `RunReturns`, `CheckpointStopped`, `FinalFlush`, `FinalFlushed`, `FinalWrite` |

A crash needs no action: the invariants about the published manifest speak of
the synced prefix of the log in every state, hence of what is found after a
crash in that state. A failed append adds no complete record; a failed flush
leaves what it could not write in the buffer, for the next flush (`BufWriter`
keeps it). `lost` and `logFailed` are history, read by properties only.

### Framing: state and actions

A byte is its position in the peer's stream. `recv_buf` is the interval
`base+1..got`; what the parser finds at its start follows from `base` (a header
when `base` is the start of an envelope, no magic otherwise). So losing or
repeating a byte is visible as a wrong `base`, for payloads of any content.
`age` is the time since `frame_started`, up to the hard deadline; `left` and
`wait` count down to the end of the call and of the read. `since` is history, the
time since the last envelope was returned: a clock that shows more (`age > since`)
is one carried over from an earlier envelope.

| code | definition |
|---|---|
| `recv_one`: entry, loop, returns | `Call`, `ReturnEnvelope`, `RejectEnvelope`, `Expire`, `GiveUp` |
| the read under `timeout` and its results | `StartRead` (`ReadTimeout`), `Read` (`Exceeds`), `ReadEof`, `ReadFails`, `ReadTimesOut` |
| `try_parse_envelope` | `Ready`, `Invalid`, `Partial` |
| peer, clock | `PeerSends`, `PeerCloses`, `Tick` |

### Session: state and actions

| code | definition |
|---|---|
| entry: `state`, `failure`, `time_connect_ms`, `first_version_send_ts`, `attempts` | `state`, `failure`, `timeConnect`, `firstSend` (which attempt), `attempts` |
| `process` | `Begin`, `Connect`, `ConnectFails`, `HandshakeFails`, `VersionTimesOut`, `ReceiveVerack` |
| `handshake` | `SendVersion`, `Negotiate`, `SendVerack`, `SendFails`, `ReceiveVersion`, `ReceiveMalformed` |
| `recv_matching`, `answer_ping` | `LoopTop`, `ReceiveOther`, `ReceiveNothing`, `ReceiveFails`, `IgnorePing`, `SendPong`, `RejectPing`, `PongFails` |
| `update_attempt`, `retry_or_finish`, `requeue`, the classifiers | `Updated`, `RetryOrFinish`, `Requeue`, `ClassifyConnect`, `ClassifyHandshake` |

`seen` and `said` are history: what happened on the wire in each attempt, and
what the crawler said on the current connection (the first pong stands for all).
The properties compare them with what the entry records. `ProtocolOrder` says
nothing of pongs before the crawler's verack, where the code and the
specification disagree (`PingsAnswered`, see 7).

### SnapshotFs: state and actions

Each file-system operation of `write_snapshot` and `publish_manifest` is an
action; any may fail (`Fails`), which ends that generation, and the caller goes
on to the next. The directory of the run and `snapshots/` are logs of entry
changes with a synced prefix. A crash needs no action: nothing reads the
directories again, so the invariants quantify over `AfterCrash`, all that a
crash now could leave. Assumed of the file system: entry changes of one
directory survive as a prefix that includes the synced ones (a journaling file
system), and nothing is assumed of a file that was not synced. The entry of the
run directory itself is not synced by the code and taken to exist.

`Manifests` says the same as a state machine of four variables: a generation is
begun, its manifest may replace the last one, and it is reported or abandoned.
The mapping takes `begun` to `gen`, `open` to `step # "idle"`, `reported` to
`returned` and `recoverable` to what `Current` reads in the prefixes a crash
may leave of the run directory. `RenameManifest` is `Replace`, `SyncRun` is
`Report`, `Fails` is `Abandon`; the other operations stutter. The invariants
say where a crash may lead from one state; this says how that changes, so that
a generation abandoned after its manifest was replaced stays possible beside the
one before, until the next report leaves only its own.

### SamCache: state and actions

| code | definition |
|---|---|
| `sam` (tokio mutex, FIFO) | `cached`, `line`, `holder` |
| `sam_session` | `Ask`, `Hit`, `Miss`, `Create`, `CreateFails` |
| I2P branch of `connect` | `Connect`, `ConnectFails`, `InvalidId`, `Evict` |
| the `Arc`s and control sockets | `session`, `Held`: a session lives while the cache or a worker holds it |
| router | `created`, `lost`; `RouterLoses` |

### Wire: state and actions

A byte is a digit of base `Base`, so that a TLC instance reaches every boundary
of CompactSize with short messages; `FF`, `FC` and the prefixes are the largest
digits. `payload` is the message, `pos` the cursor, `out` what the parser
returns, `seen` (history) the entries consumed, unknown networks included.

| code | definition |
|---|---|
| `Cursor::compact_size`, `write_compact_size` | `CompactAt`, `CompactBytes` |
| `parse_addr`, `parse_addrv2` | `ReadCount`, `ReadEntry`, `Finish` |
| `decode_addrv2`, mapped addresses of `addr` | `InvalidEncoding`, `HostOf`, `LegacyHost`, `LegacyNetwork` |
| `parse_version`, `build_version` | `ReadVersion`, `VersionBytes` |
| `classify`, `ip_to_host` | `Classify` |

The properties compare a parser with the encodings of all legal values
(`Encodings`), which is written from the builders and from the layout the
parser reads, not with the parser itself. `Entry` and `VersionData` give each
field its width, the records the code parses into. The user agent is kept as its
bytes, where the code keeps its text, or their hex if they are not UTF-8.
`AcceptsExactly` leaves open what a message with a Tor v2 entry yields, where the
code and the fix log disagree (`TorV2Ignored`, see 7); that such a message is
accepted exactly when its encoding is canonical, it requires.

### Startup: state and actions

| code | definition |
|---|---|
| `into_settings`, `NetworkType::transport` | `Accepts`, `EnabledNetworks`, `Unserved`, `Configure` |
| `create_dir`, `logging::init` | `MakeRunDir`, `InitLogging` |
| `run_preflight`, `probe_ip`, `print_table`'s verdict | `Preflight`, `ProbeIp`, `Judge` |
| `AddrLog::create` | `OpenLog` |
| `seed_from_dns`, the probe's targets | `Seed`, `SeedNetwork` |
| checkpoints, `run`, the final flush and write, exit codes | `Checkpoint`, `RunReturns`, `FinalFlush`, `FinalWrite`, `FinalCode` |

Any number of launches, with any of the command lines in `Configs`, share the
results directory; each may be killed at any moment, and a retry is another
launch. The resolver may answer each of the preflight's two probes and the
seeding differently. `owner` says which launch made a directory, so `DirsOf` of a
launch is what it left behind besides files.

## 3. Plan

Order of the work: the core (`Crawl`), the log (`Observation`), then the parts
each of them takes as one step (`Framing`, `Session`, `SnapshotFs`, `SamCache`),
what surrounds them (`Wire`, `Startup`), the abstract specifications
(`Frontier`, `Envelopes`, `Manifests`), and the proofs. What is left:
relating the attempts of `Session` to one address of `Frontier`.

## 4. Runs

| run | instance | question |
|---|---|---|
| `crawl_core` | 3 addresses, 2 workers of one pool, 2 attempts, one claim per message | ownership, counter, closing, evidence |
| `crawl_live` | 3 addresses (one tor), an ip and a tor worker, budget 2, node limit 2, 2 attempts, 2 claims per message, threshold 2, one clock tick, fair workers | the crawl ends; budget and queue capacity, stale discards justified, `Frontier` implemented, at the limits too |
| `log_core` | 2 nodes, one message each, one checkpoint, one fault, fair tasks | order of the log, snapshots backed by it, `valid` at most one behind, no deadlock |
| `log_final` | 1 node, 2 messages, all endings, 2 checkpoints, 2 faults | final manifest, run completeness, typed outcomes |
| `framing_core` | all streams of 2 envelopes of 0, 1, 2 or 4 bytes, sound or not; header 2, payload limit 4, chunk 3 | each envelope has the hard deadline of its own, what is complete comes out, `Envelopes` implemented |
| `session_core` | i2p, 3 attempts, no retry after silence, any peer | history, first version sent and verdict explained, retries, order of messages, the deadline |
| `snapshot_crash` | 4 files, 3 generations | what a crash can leave, `Manifests` implemented |
| `sam_core` | 3 workers, 3 sessions | eviction, sharing, waiting |
| `wire_core` | messages at every boundary of base 12, cut, extended and changed in each byte | what is accepted, why the rest is refused, which network an address is of |
| `startup_core` | 2 launches, 2 run names, 11 command lines, 4 answers of the resolvers | run directories, seeds of a crawler, exit codes and what is left behind |
| `log_unreported`, `session_stall` | as small as shows it | findings, see 7 |

Bounds, and why they are enough. `MaxBatch` (claims per message), `MaxNow` (the
clock), `MaxMessages`, `MaxCheckpoints`, `MaxFaults`, `MaxGenerations` and
`MaxSessions` cap what the environment may do. Two workers give every race of
the core, which is always between the last decrement and one push, or between
two claims of one address; two attempts give one retry, three addresses one in
each hand and one in a queue. Two sessions and a checkpoint give every order of
three parties at the barrier, the mutex and the channel; two faults a failure of
the log followed by one of the output. In `Framing`, a chunk larger than a
header and smaller than the limit cuts every envelope in every place and carries
the end of one with the start of the next; the constants of the code (24,
4,000,000, 8192) have the same order, and the proofs hold for all of them. Three
attempts of a session give a first, a middle and a last one. Three generations
give a failed one between two good ones, or two failed in a row. Three workers
give one that evicts late, one that created the successor and one that uses it.
In `Wire`, base 12 stands for 256: all that matters of it is the order of the
three prefix digits, of `0xfc` and of the widths, and `MAX_ADDR_TO_SEND` 2,
length limit 40 (the largest address has 32 bytes), agent limit 10 and version
thresholds 20 and 700 lie between the values they separate, as the real ones do.
In `Startup`, two launches suffice because a directory's owner meets the others
one at a time; the answers are longer than `ProbeLimit` 2 (5 in the code), so
that the limit matters.
Deadlock is checked in every run: the only states without a successor but
stuttering are a finished or killed process and a settled node (`Terminated`,
`Exited`, `Done`, `Over`). Symmetry (workers of one pool) is used only in
`crawl_core`, where no liveness is checked.

Each property has a mutant in `PROJECT.json`: a plausible bug, kept in the
module next to the definition it would replace, under which the property fails.

## 5. Fairness

`Crawl`: weak fairness of `StartRun`, `RunReturns` and of each worker's steps.
Tokio polls every ready task, and connecting and receiving are bounded by a
connect timeout or a deadline. `SignalCloses` is straight-line code. A peer may
send single-address messages for as long as it likes, but the hard deadline is
tested before every receive, so a collection entered again and again ends:
strong fairness of `EndCollection`. Ctrl+C, panics, incoming messages and
`MonitorExit` get none. `Observation`: weak fairness of each session, the
writer, the checkpoint and main; `Receive` and `EarlyStop` get none. `Session`:
weak fairness of the task's steps and of the clock. `SamCache`: weak fairness of
each worker (creation and connection are bounded by the connect timeout, and
tokio's mutex is handed on in FIFO order).

One assumption goes beyond the code: writes have no timeout (`Connection::send`),
so all of the above supposes a peer that reads what it is sent, or goes away.
`SpecUnread` of `Session` drops it for pongs, and `session_stall` shows what
follows.

## 6. Proofs

`CrawlProofs` proves, for any finite sets of addresses and workers and any
limits satisfying the `ASSUME`s of `Crawl`:

| theorem | statement |
|---|---|
| `TypeCorrect` | `Spec => []TypeOK` |
| `OwnerIsUnique` | `Spec => []UniqueOwner` |
| `CounterExact` | `Spec => []OutstandingExact` |
| `CloseIsSound` | `Spec => []NoPrematureClose` |
| `MonitorExitIsSound` | `Spec => []MonitorExitSound` |
| `VerdictsAreFinal` | `Spec => TerminalStable` |

The inductive invariant is `Inv == TypeOK /\ OwnInv /\ OutstandingExact /\ CloseInv`.
`UniqueOwner` alone is not inductive: it does not say at which labels a worker
holds an address, nor in which state that address then is. `OwnInv` adds this:
queued keys are `Queued` and on their own transport (`QueueInv`), a worker holds
an address under process exactly between `reserve` and `decr` (`CurInv`), one it
enqueues exactly between `incr` and `undo` (`PendInv`), no two workers share one
(`ExclusiveInv`), nothing active is unowned (`OwnedInv`), and a verdict is ready
where it is needed (`VerdictInv`). `CloseInv` records why a queue may be closed.

`OwnStep` shows that each action keeps `OwnInv` and that it adds one address to
`Counted` and one to the counter, or removes one from each, or leaves both
(`CountStep`); `OutstandingStep` turns this into `OutstandingExact`.
`CounterPositive` gives `outstanding >= 1` before each decrement, which
`TypeStep` needs. `QuietIdle` says that at zero nobody holds an address, which
`CloseStep` needs: nothing can raise the counter again. The theorems follow from
`InvAlways` by one implication each.

`FramingProofs` proves, for any set of streams laid out as `StreamsAssumption`
says and any sizes and timeouts:

| theorem | statement |
|---|---|
| `TypeCorrect` | `Spec => []TypeOK` |
| `PlaceKept` | `Spec => []NothingLost` |
| `ClockIsTracked` | `Spec => []ClockTracksBuffer` |
| `DeadlineIsHard` | `Spec => []HardDeadline` |
| `CompleteComesOut` | `Spec => CompleteIsReturned` |
| `FramingImplementsEnvelopes` | `Spec => ImplementsEnvelopes` |

Its inductive invariant is `IInv == TypeOK /\ NothingLost /\ ClockTracksBuffer /\ CallInv`;
`CallInv` says what holds while a call is on: no failure yet, and during a read
that the buffer is `Partial` and the timer within both deadlines. The argument
rests on `HeadIsNext`: when `base` is the end of the last envelope returned,
envelopes being contiguous, the only header at the start of the buffer is that
of the next one. So a return is the next envelope (`ReturnsNext`), an error
about an envelope is about the next one (`InvalidIsNext`), and a read overflows
only behind an envelope within a chunk of the limit (`OverflowingRead`).
`AbstractStep` puts these together: every step of `Framing` is a step of
`Envelopes` or a stutter. `HardDeadline` contains `ClockTracksBuffer`: a deadline
met by a clock that belongs to another envelope would be worth nothing.

The second half of `CrawlProofs` adds, under the same assumptions:

| theorem | statement |
|---|---|
| `PushMeetsNoBound` | `Spec => []QueueNeverFull` |
| `EvidenceIsKept` | `Spec => []EvidenceKept` |
| `StaleIsJustified` | `Spec => []StaleJustified` |
| `CrawlImplementsFrontier` | `Served` implies `Spec => ImplementsFrontier` |

`RInv` strengthens `Inv` with the budget (`entries` counts the known addresses,
and a queue holds distinct ones), with what each label says about the address in
hand (`Progress`, `Evidence`), with the reason of a closed queue, and with
`StoppedInv`: a worker stops only when its queue is closed and empty. The last
is what the end of a run rests on: without an interruption, no address can be
left once each pool has stopped, provided each had a worker. This is the
assumption `Served`, which `into_settings` establishes for a crawl
(`SeedsServed`) and nothing establishes for a probe (see 7).

`ObservationProofs`, for any nodes, messages, checkpoints and faults:

| theorem | statement |
|---|---|
| `TypeCorrect` | `Spec => []TypeOK` |
| `LogIsInOrder` | `Spec => []LogInOrder` |
| `SnapshotIsBacked` | `Spec => []SnapshotBacked` |
| `AggregatesAgree` | `Spec => []AggregatesMatch` |
| `ValidIsAtMostOneBehind` | `Spec => []ValidLags` |
| `CompleteIsIntact` | `Spec => []CompleteMeansIntact` |
| `OutcomesMatchBlocks` | `Spec => []OutcomeMatchesBlocks` |
| `FinalHasTheLastWord` | `Spec => FinalIsLast` |

The properties speak of a published snapshot and the log, and no step relates
the two at once, so the invariant follows a fact from where it arises. `LockInv`:
the mutex leaves at most one command or answer under way, hence ids grow along
the file. `BarrierInv` and `StoreInv`: outside of an observation the store's
aggregates are those of the file, and while the checkpoint holds the barrier
there is no observation. `SnapshotInv`: so each entry cloned agrees with the
file up to the watermark, all of which the flush made durable. Later records have
larger ids, so what a watermark covers never changes again (`Grows`,
`CaughtUp`), and `ManifestInv` carries the agreement to the end. `MainInv` says
the same of the final write, which runs when no session is left.

`SessionProofs`, for any network, number of attempts, and peer:

| theorem | statement |
|---|---|
| `TypeCorrect` | `Spec => []TypeOK` |
| `AttemptsAreExplained` | `Spec => []AttemptsExplained` |
| `VerdictIsExplained` | `Spec => []VerdictExplained` |
| `RetriesAreJustified` | `Spec => []RetriesJustified` |
| `ProtocolIsInOrder` | `Spec => []ProtocolOrder` |

`Current` says what the history of the connection under way holds at each label
of the task, `Speech` what has been said on it (the handshake in one of a few
orders, with at most one pong somewhere in it), `FirstSend` that the entry's
`first_version_send_ts` is of the first attempt that sent one; `History` says the same of every
attempt that is over, and `Verdict` of the entry once it is settled. An attempt
ends by a failure (`AttemptFails`), for which `Over` gives the two ways on, or
by the verack.

`SnapshotFsProofs`, for any number of files and generations:

| theorem | statement |
|---|---|
| `ManifestIsBacked` | `Spec => []ManifestBacked` |
| `ReturnedIsKept` | `Spec => []ReturnedSurvives` |
| `FinalNameIsComplete` | `Spec => []FinalNameComplete` |
| `SnapshotFsImplementsManifests` | `Spec => ImplementsManifests` |

The invariant orders the two logs: a manifest renamed in the log of the run
directory names a generation whose rename is in the synced part of the log of
`snapshots/`, whose files were all synced before. A crash keeps prefixes that
include the synced parts, so it keeps the order. For `Manifests`,
`NamedAfter` is the generation named after the first n changes of the log:
appending a change adds one value to those a crash may leave (`NamedFromLonger`),
which is the last one again unless the change is a rename (`MakeLeavesNothing`),
and for a rename is the generation itself, none being newer (`NewestIsNamed`).

`SamCacheProofs`, for any number of workers and sessions:

| theorem | statement |
|---|---|
| `TypeCorrect` | `Spec => []TypeOK` |
| `StreamsAreKept` | `Spec => []StreamsKept` |
| `SessionIsShared` | `Spec => []OneSession` |
| `RefusalIsLearnt` | `Spec => []NotRefusedAgain` |

`StartupProofs`, for any launches, names, command lines and resolvers:

| theorem | statement |
|---|---|
| `TypeCorrect` | `Spec => []TypeOK` |
| `DirectoryIsExclusive` | `Spec => []RunDirExclusive` |
| `SeedsAreServed` | `Spec => []SeedsServed` |
| `ExitIsHonest` | `Spec => []ExitHonest` |

`LaunchInv` tells, for each label of a launch, which directory and files it made, what its
preflight found and which of its steps succeeded.

`WireProofs`, for any payload of any length, any base above 10 (256 is the
code's), and any limits on counts, lengths and versions that fit their fields:

| theorem | statement |
|---|---|
| `TypeCorrect` | `Spec => []TypeOK` |
| `AcceptanceExact` | `Spec => []AcceptsExactly` |
| `RefusalRight` | `Spec => []RefusalExplained` |
| `NetworkAgreement` | `Spec => []NetworkAgrees` |
| `VersionReadBack` | `Spec => []VersionExact` |

The argument goes up in layers, each saying "what is read is the one value whose
encoding is there": digits (`U16Exact`, `U32Exact`, `U64Exact`, `SignedExact`),
CompactSize (`CompactExact`: the shortest form and no other), one entry
(`EntryExact`), a vector. "Is there" is `At(p, b)`: the payload agrees with the
digits `b` from `p` on, as far as it goes, so one formula serves whole, cut and
extended messages, and a cut encoding is one that agrees and does not fit. The
encoding of a vector is `FlattenSeq` of those of its entries; `FlattenUnfold` to
`ConcatSplit` take it apart at any entry without induction on its definition
(`FlattenSeq` is a recursive function, and the library's theorem on such
functions cannot be used): `FlattensExists` shows with `LeastNumber` that the
function exists, `FlattensAgree` that it is determined.

The invariant `IInv` has, besides types, `Consumed` (the bytes before `pos` are
the encoding of the count and of `seen`, and `out` is what `seen` advertises),
`Settled` (a vector is accepted only at the end of the payload) and `FollowsAll`:
for every legal vector whose encoding the payload agrees with, `seen` is a front
of that vector and the verdict, once there is one, is that of the two lengths.
The last is what refusals rest on, and it is about all legal vectors at once:
the parser does not know which one it is reading. `VersionExact` is inductive
together with `IInv`: parsing is one step, and `ParsedReads` shows both
directions for it, by the fixed places up to the user agent (`ShortExact`) and
those behind it (`TailExact`).

The assumptions are the named `ASSUME`s of the modules: types of the constants,
and that the markers (`Nil`, `None`, `Ckpt`, `Main`, `NoLimit`) are none of the
values they are told apart from; in `Wire` (`BaseAssumption`,
`MessageAssumption`) that every limit fits the field it is compared with, and
that the contents the reference encodings start from have every field within its
width. TLC evaluates them in the runs.

Only model-checked: all liveness (`Terminates`, `Exits`, `Settles`,
`AttemptsEnd`; out of the prover's reach). Every other property of a passing run
is proved. `MonitorExitSound`
of `Crawl`, `NothingLost` of `Framing` and the type
invariants of the other modules are proved and have no run of their own.

## 7. Findings

* `log_unreported`: when the flush of the last checkpoint fails after `run` looked at `output_failed`, and the final flush succeeds, the process exits with success.
* `session_stall`: `send` has no timeout, and pongs are sent inside the receive loops; a peer that sends pings and does not read keeps its worker beyond the "overall deadline".

Smaller disagreements between the documents and the code, met while modelling.
They are not among the runs; each has a property that fails, and a configuration
that shows it (run it on the module its name starts with, `MCCrawl` for the
first ones):

| configuration | property | what the code does |
|---|---|---|
| `MCCrawl_probe.cfg` | `QueuedSettled` | a probe target whose transport has no workers (its network disabled, concurrency 0) is queued for ever and the probe does not end (bin/probe.rs:129); `SeedsServed` speaks of crawlers only, and both pools of `crawl_live` have workers, so no run meets this |
| `MCCrawl_distinct.cfg` | `LimitCountsNodes` | `--max-nodes` counts attempts (crawler.rs:303); README.md:62 promises distinct nodes |
| `MCCrawl_classified.cfg` | `ProcessedClassified` | at the limit, a node processed and waiting for a retry becomes `BudgetDiscarded`; SPECIFICATION_v2.md:465 promises one of three verdicts |
| `MCObservation_split.cfg` | `ValidMatches` | `valid_addr_messages` is updated after the barrier is left (crawler.rs:821), against crawler.rs:877-878 |
| `Session_silence.cfg` | `TimeoutMeansSilence` | a peer that talked up to the deadline without a version is recorded as `handshake_timeout`, "silent" in README.md:124 |
| `Session_ping.cfg` | `PingsAnswered` | a ping that arrives while the peer's version is awaited is skipped: `recv_matching` is passed no version to answer it with (crawler.rs:640), on which the form of a ping depends (transport.rs:130). SPECIFICATION_v2.md:247-248 and 556-557 have any ping answered at once; FINDINGS_FIX_LOG.md:22 (C17) checks pings against the negotiated form and does not mention earlier ones |
| `MCWire_torv2.cfg` | `TorV2Ignored` | a Tor v2 entry of an `addrv2` message is decoded and returned (protocol.rs:505-509, tested at protocol.rs:655); FINDINGS_FIX_LOG.md:38-39 says such entries are ignored |
| `Session_desync.cfg` | `DesyncMeansUnsound` | a ping of the wrong length is recorded as `protocol_desync`, "bad magic/checksum or oversize payload" in README.md:127 |

The buffer limit of `recv_one` counts what follows an envelope too, so a sound
envelope within a chunk of 4,000,000 bytes can be refused as `InvalidData`
(transport.rs:113), which transport.rs:65-66 does not mention; `Envelopes` states
the promise with this exception (`Refusable`).

A legacy `addr` message that carries an fc00::/8 address files it as `ipv6`,
while `classify` calls its host `cjdns`; `NetworkAgrees` names this as the one
exception (FINDINGS_FIX_LOG.md:37 keeps it on purpose).

## 8. Not modelled

The texts of CSV, JSON and log lines, of the report and the preflight table, of
node strings, of SAM and SOCKS5 exchanges; the parsing of numeric options
(`numeric` says whether it succeeds); durations; the budget counter beyond "zero
or not"; panics outside of `process` between connect and the end of collection
(the rest of a worker has no fallible step, and a panic of `worker_loop` itself
has no source in the code); a `recv` cancelled (nothing cancels it). In `Crawl`,
a collection may fail its log record in any run, also where no log is
configured. `Wire` has the messages whose content the crawler reads; ping, pong,
verack, sendaddrv2 and getaddr are bare labels in `Session`. Checksums and magic
are the `sound` flag of `Framing`.
