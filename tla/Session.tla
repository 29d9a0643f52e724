------------------------------ MODULE Session ------------------------------
(***************************************************************************)
(* One node's attempts, message by message: connect, the version           *)
(* handshake with its receive loop and its absolute deadline, the reason   *)
(* recorded for a failure, and the decision to try again                   *)
(* (src/src/crawler.rs: process, handshake, recv_matching,                 *)
(* retry_or_finish, the two classifiers).                                  *)
(*                                                                         *)
(* Crawl has the same attempts without their messages, among other nodes.  *)
(* Here the peer says anything, for as long as it likes, and Framing's     *)
(* promise (Envelopes) is what recv_one returns.  After the handshake the  *)
(* node is settled: the collection of addresses is in Observation.         *)
(***************************************************************************)
EXTENDS Naturals, Sequences, Functions

CONSTANTS
    Network,          \* the kind of transport: "direct", "onion" or "i2p"
    MaxAttempts,      \* handshake_attempts
    RetryOnTimeout    \* retry_on_timeout

ASSUME SessionAssumption ==
    /\ Network \in {"direct", "onion", "i2p"}
    /\ MaxAttempts \in Nat \ {0}
    /\ RetryOnTimeout \in BOOLEAN

VARIABLES
    \* the entry of the node, and its attempts: outcome and failure of each
    state, failure, timeConnect, firstSend, attempts,
    \* the task: label, inside recv_one, a ping to answer, the peer's version
    pc, receiving, ping, version,
    \* the deadline of the handshake has passed, the queues are closed
    late, closed,
    \* history: what was seen and said on the connection of each attempt
    seen, said

entryVars == <<state, failure, timeConnect, firstSend, attempts>>
vars == <<entryVars, pc, receiving, ping, version, late, closed, seen, said>>

None == "none"

-----------------------------------------------------------------------------
(* What the peer may send.  A version is before pings carry a nonce (at    *)
(* most 60000), before BIP155 (below 70016), or after.                     *)
Versions == {"legacy", "plain", "modern"}
Pings == {"nonce", "empty", "odd"}   \* 8 bytes, none, or another length

Envelope ==
    [command : {"version"}, body : Versions \cup {"malformed"}]
        \cup [command : {"ping"}, body : Pings]
        \cup [command : {"verack", "other"}, body : {None}]

(* validate_ping_payload *)
ValidPing(p, v) == IF v = "legacy" THEN p = "empty" ELSE p = "nonce"

(* The errors of recv_one and of a write. *)
HandshakeErrors == {"InvalidData", "UnexpectedEof", "ConnectionReset", "BrokenPipe", "TimedOut"}
WriteErrors == {"ConnectionReset", "BrokenPipe", "TimedOut"}

ClassifyHandshake(error) ==
    CASE error = "InvalidData" -> "protocol_desync"
      [] error \in {"UnexpectedEof", "ConnectionReset", "BrokenPipe"} -> "connection_closed"
      [] OTHER -> "handshake_other"

ConnectErrors == {"TimedOut", "ConnectionRefused", "ConnectionReset", "Unreachable", "Other"}

ClassifyConnect(error) ==
    CASE error = "TimedOut" -> "connect_timeout"
      [] error = "ConnectionRefused" -> "connect_refused"
      [] error = "ConnectionReset" -> "connect_reset"
      [] error = "Unreachable" -> "connect_unreachable"
      [] error = "Other" -> [direct |-> "connect_other", onion |-> "proxy_error",
                             i2p |-> "sam_error"][Network]

ConnectKinds == {ClassifyConnect(e) : e \in ConnectErrors}
HandshakeKinds ==
    {ClassifyHandshake(e) : e \in HandshakeErrors}
        \cup {"version_send_failed", "negotiation_send_failed", "verack_send_failed",
              "peer_verack_timeout", "handshake_timeout", "malformed_version"}
Kinds == ConnectKinds \cup HandshakeKinds

Terminal == {"Reachable", "HandshakeFailed", "Unreachable"}
Outcomes == {"started", "connect_failed", "connected", "version_sent", "handshake_timeout",
             "handshake_failed", "handshake_complete"}
Labels == {"queued", "connect", "sendVersion", "awaitVersion", "negotiate", "sendVerack",
           "awaitVerack", "settled"}

(* What the history records of a connection. *)
Events == {"connected", "sent", "envelope", "version", "malformed", "verack", "unsound",
           "gone", "writeFailed", "late"}

TypeOK ==
    /\ state \in {"Queued", "Processing"} \cup Terminal
    /\ failure \in Kinds \cup {None}
    /\ timeConnect \in BOOLEAN
    /\ firstSend \in 0..MaxAttempts
    /\ attempts \in Seq([outcome : Outcomes, failure : Kinds \cup {None}])
    /\ pc \in Labels
    /\ receiving \in BOOLEAN
    /\ ping \in Pings \cup {None}
    /\ version \in Versions \cup {None}
    /\ late \in BOOLEAN
    /\ closed \in BOOLEAN
    /\ seen \in Seq(SUBSET Events)
    /\ said \in Seq({"version", "sendaddrv2", "verack", "pong"})

Init ==
    /\ state = "Queued"
    /\ failure = None
    /\ timeConnect = FALSE
    /\ firstSend = 0
    /\ attempts = <<>>
    /\ pc = "queued"
    /\ receiving = FALSE
    /\ ping = None
    /\ version = None
    /\ late = FALSE
    /\ closed = FALSE
    /\ seen = <<>>
    /\ said = <<>>

-----------------------------------------------------------------------------
Attempt == Len(attempts)

(* The history of the current connection. *)
See(events) == seen' = [seen EXCEPT ![Attempt] = @ \cup events]

(* Mutant: the first attempt is updated. *)
UpdatedFirst(outcome, kind) ==
    [attempts EXCEPT ![1] =
        [outcome |-> outcome, failure |-> IF kind = None THEN @.failure ELSE kind]]

(* update_attempt: the last attempt gets its outcome, and a reason if any. *)
Updated(outcome, kind) ==
    [attempts EXCEPT ![Attempt] =
        [outcome |-> outcome, failure |-> IF kind = None THEN @.failure ELSE kind]]

(* finish *)
Settle(terminal, kind) ==
    /\ state' = terminal
    /\ failure' = kind
    /\ pc' = "settled"

(* requeue: a closed queue makes the failure final. *)
Requeue(terminal, kind) ==
    IF closed
      THEN Settle(terminal, kind)
      ELSE state' = "Queued" /\ pc' = "queued" /\ UNCHANGED failure

RetryOrFinish(retry, terminal, kind) ==
    IF retry THEN Requeue(terminal, kind) ELSE Settle(terminal, kind)

(* Mutant: one attempt too many. *)
CanRetryOneMore == Attempt <= MaxAttempts

CanRetry == Attempt < MaxAttempts

(* The connection is dropped with the end of the attempt. *)
Drop ==
    /\ receiving' = FALSE
    /\ ping' = None

-----------------------------------------------------------------------------
(* process: connect *)

Begin ==
    /\ pc = "queued"
    /\ state' = "Processing"
    /\ attempts' = Append(attempts, [outcome |-> "started", failure |-> None])
    /\ seen' = Append(seen, {})
    /\ said' = <<>>
    /\ version' = None
    /\ late' = FALSE
    /\ pc' = "connect"
    /\ UNCHANGED <<failure, timeConnect, firstSend, receiving, ping, closed>>

Connect ==
    /\ pc = "connect"
    /\ timeConnect' = TRUE
    /\ attempts' = Updated("connected", None)
    /\ See({"connected"})
    /\ late' = FALSE
    /\ pc' = "sendVersion"
    /\ UNCHANGED <<state, failure, firstSend, receiving, ping, version, closed, said>>

(* Mutant: only the last attempt counts. *)
ConnectFailureLastOnly == "Unreachable"

ConnectFailure == IF timeConnect THEN "HandshakeFailed" ELSE "Unreachable"

ConnectFails ==
    /\ pc = "connect"
    /\ \E error \in ConnectErrors :
          /\ attempts' = Updated("connect_failed", ClassifyConnect(error))
          /\ RetryOrFinish(CanRetry, ConnectFailure, ClassifyConnect(error))
    /\ Drop
    /\ UNCHANGED <<timeConnect, firstSend, version, late, closed, seen, said>>

-----------------------------------------------------------------------------
(* handshake *)

HandshakeFails(kind) ==
    /\ attempts' = Updated("handshake_failed", kind)
    /\ RetryOrFinish(CanRetry, "HandshakeFailed", kind)
    /\ Drop
    /\ UNCHANGED <<timeConnect, firstSend, version, late, closed, said>>

Say(message) == said' = Append(said, message)

SendVersion ==
    /\ pc = "sendVersion"
    /\ Say("version")
    /\ firstSend' = IF firstSend = 0 THEN Attempt ELSE firstSend
    /\ attempts' = Updated("version_sent", None)
    /\ See({"sent"})
    /\ pc' = "awaitVersion"
    /\ UNCHANGED <<state, failure, timeConnect, receiving, ping, version, late, closed>>

(* sendaddrv2 only to a peer that negotiates it. *)
Negotiate ==
    /\ pc = "negotiate"
    /\ IF version = "modern" THEN Say("sendaddrv2") ELSE UNCHANGED said
    /\ pc' = "sendVerack"
    /\ UNCHANGED <<entryVars, receiving, ping, version, late, closed, seen>>

SendVerack ==
    /\ pc = "sendVerack"
    /\ Say("verack")
    /\ pc' = "awaitVerack"
    /\ UNCHANGED <<entryVars, receiving, ping, version, late, closed, seen>>

SendFailure ==
    [sendVersion |-> "version_send_failed", negotiate |-> "negotiation_send_failed",
     sendVerack |-> "verack_send_failed"]

SendFails ==
    /\ pc \in DOMAIN SendFailure
    /\ pc = "negotiate" => version = "modern"
    /\ See({"writeFailed"})
    /\ HandshakeFails(SendFailure[pc])

-----------------------------------------------------------------------------
(* recv_matching, first for the version, then for the verack *)

Awaited == [awaitVersion |-> "version", awaitVerack |-> "verack"]

(* Mutant: the deadline of the whole wait is not tested. *)
LoopTopUnbounded ==
    /\ pc \in DOMAIN Awaited
    /\ ~receiving
    /\ ping = None
    /\ receiving' = TRUE
    /\ UNCHANGED <<entryVars, pc, ping, version, late, closed, seen, said>>

LoopTop ==
    /\ pc \in DOMAIN Awaited
    /\ ~receiving
    /\ ping = None
    /\ ~late
    /\ receiving' = TRUE
    /\ UNCHANGED <<entryVars, pc, ping, version, late, closed, seen, said>>

TimesOut ==
    /\ pc \in DOMAIN Awaited
    /\ ~receiving
    /\ ping = None
    /\ late

(* Silence up to the deadline is tried again only if configured. *)
VersionTimesOut ==
    /\ pc = "awaitVersion"
    /\ TimesOut
    /\ attempts' = Updated("handshake_timeout", "handshake_timeout")
    /\ RetryOrFinish(RetryOnTimeout /\ CanRetry, "HandshakeFailed", "handshake_timeout")
    /\ Drop
    /\ UNCHANGED <<timeConnect, firstSend, version, late, closed, seen, said>>

VerackTimesOut ==
    /\ pc = "awaitVerack"
    /\ TimesOut
    /\ HandshakeFails("peer_verack_timeout")
    /\ UNCHANGED seen

(* recv_one returned an envelope: the one awaited, a ping that is answered *)
(* once the peer's version is known, or one that is skipped.               *)
ReceiveVersion(body) ==
    /\ pc = "awaitVersion"
    /\ receiving
    /\ body # "malformed"
    /\ receiving' = FALSE
    /\ version' = body
    /\ See({"envelope", "version"})
    /\ pc' = "negotiate"
    /\ UNCHANGED <<entryVars, ping, late, closed, said>>

ReceiveMalformed ==
    /\ pc = "awaitVersion"
    /\ receiving
    /\ See({"envelope", "malformed"})
    /\ HandshakeFails("malformed_version")

ReceiveVerack ==
    /\ pc = "awaitVerack"
    /\ receiving
    /\ attempts' = Updated("handshake_complete", None)
    /\ See({"envelope", "verack"})
    /\ Settle("Reachable", None)
    /\ Drop
    /\ UNCHANGED <<timeConnect, firstSend, version, late, closed, said>>

Answered(e) == e.command = "ping" /\ pc = "awaitVerack"

ReceiveOther(e) ==
    /\ pc \in DOMAIN Awaited
    /\ receiving
    /\ e.command # Awaited[pc]
    /\ receiving' = FALSE
    /\ ping' = IF Answered(e) THEN e.body ELSE None
    /\ See({"envelope"})
    /\ UNCHANGED <<entryVars, pc, version, late, closed, said>>

(* recv_one returned Ok(None): the loop looks at the deadline again. *)
ReceiveNothing ==
    /\ pc \in DOMAIN Awaited
    /\ receiving
    /\ receiving' = FALSE
    /\ UNCHANGED <<entryVars, pc, ping, version, late, closed, seen, said>>

EventOf(error) ==
    IF error = "InvalidData" THEN {"unsound"}
    ELSE IF error = "TimedOut" THEN {} ELSE {"gone"}

ReceiveFails ==
    /\ pc \in DOMAIN Awaited
    /\ receiving
    /\ \E error \in HandshakeErrors :
          /\ See(EventOf(error))
          /\ HandshakeFails(ClassifyHandshake(error))

(* answer_ping: a peer from before nonces gets no pong; said keeps the     *)
(* first pong only.                                                        *)
IgnorePing ==
    /\ ping # None
    /\ ValidPing(ping, version)
    /\ version = "legacy"
    /\ ping' = None
    /\ UNCHANGED <<entryVars, pc, receiving, version, late, closed, seen, said>>

(* Mutant: a peer from before nonces gets a pong as well. *)
SendPongAnyway ==
    /\ ping # None
    /\ ValidPing(ping, version)
    /\ ping' = None
    /\ IF "pong" \in Range(said) THEN UNCHANGED said ELSE Say("pong")
    /\ UNCHANGED <<entryVars, pc, receiving, version, late, closed, seen>>

SendPong ==
    /\ ping # None
    /\ ValidPing(ping, version)
    /\ version # "legacy"
    /\ ping' = None
    /\ IF "pong" \in Range(said) THEN UNCHANGED said ELSE Say("pong")
    /\ UNCHANGED <<entryVars, pc, receiving, version, late, closed, seen>>

RejectPing ==
    /\ ping # None
    /\ ~ValidPing(ping, version)
    /\ HandshakeFails(ClassifyHandshake("InvalidData"))
    /\ UNCHANGED seen

PongFails ==
    /\ ping # None
    /\ ValidPing(ping, version)
    /\ version # "legacy"
    /\ \E error \in WriteErrors :
          /\ See(EventOf(error))
          /\ HandshakeFails(ClassifyHandshake(error))

-----------------------------------------------------------------------------
(* Time and the rest of the crawl *)

DeadlinePasses ==
    /\ pc \in Labels \ {"queued", "connect", "settled"}
    /\ ~late
    /\ late' = TRUE
    /\ See({"late"})
    /\ UNCHANGED <<entryVars, pc, receiving, ping, version, closed, said>>

QueuesClose ==
    /\ ~closed
    /\ closed' = TRUE
    /\ UNCHANGED <<entryVars, pc, receiving, ping, version, late, seen, said>>

Receive ==
    \/ \E body \in Versions : ReceiveVersion(body)
    \/ ReceiveMalformed
    \/ ReceiveVerack
    \/ \E e \in Envelope : ReceiveOther(e)
    \/ ReceiveNothing
    \/ ReceiveFails

Prompt ==
    \/ Begin \/ Connect \/ ConnectFails
    \/ SendVersion \/ Negotiate \/ SendVerack \/ SendFails
    \/ LoopTop \/ VersionTimesOut \/ VerackTimesOut
    \/ Receive \/ IgnorePing \/ RejectPing

(* The write of a pong: it has no timeout of its own.                      *)
Pong == SendPong \/ PongFails

Step == Prompt \/ Pong

Done ==
    /\ pc = "settled"
    /\ UNCHANGED vars

Next == Step \/ DeadlinePasses \/ QueuesClose \/ Done

(* Connecting and receiving are bounded by timeouts, and the clock moves   *)
(* on; what the peer sends is not up to the task.  Spec assumes a peer     *)
(* that reads what it is sent, or else goes away: SpecUnread does not, and *)
(* a pong may then wait for ever for room in the socket's buffers.  (The   *)
(* other messages are a few bytes, once per connection: there is room.)    *)
Fairness == WF_vars(Step) /\ WF_vars(DeadlinePasses)
FairnessUnread == WF_vars(Prompt) /\ WF_vars(DeadlinePasses)

Spec == Init /\ [][Next]_vars /\ Fairness
SpecUnread == Init /\ [][Next]_vars /\ FairnessUnread

-----------------------------------------------------------------------------
(* Properties *)

(* Each attempt's recorded outcome and reason agree with what happened on  *)
(* its own connection: update_attempt, called from five places on the      *)
(* entry's last attempt, never credits another one or another cause; and   *)
(* first_version_send_ts is of the first attempt whose version was         *)
(* written, whichever attempts failed to connect or to write before it.    *)
AttemptsExplained ==
    /\ \A i \in DOMAIN attempts :
          LET a == attempts[i] IN
          /\ a.outcome = "connect_failed" => "connected" \notin seen[i]
          /\ a.outcome = "handshake_complete" =>
                a.failure = None /\ {"sent", "version", "verack"} \subseteq seen[i]
          /\ a.failure = "handshake_timeout" =>
                {"sent", "late"} \subseteq seen[i] /\ "version" \notin seen[i]
          /\ a.failure = "peer_verack_timeout" =>
                {"version", "late"} \subseteq seen[i] /\ "verack" \notin seen[i]
          /\ a.failure = "malformed_version" =>
                "malformed" \in seen[i] /\ "version" \notin seen[i]
          /\ a.failure = "connection_closed" => "gone" \in seen[i]
          /\ "sent" \in seen[i] => firstSend \in 1..i
    /\ firstSend # 0 => "sent" \in seen[firstSend]

(* The verdict agrees with the evidence of all attempts: a node is         *)
(* reachable only when its version and then its verack arrived on one      *)
(* connection, unreachable only when no attempt connected, and the reason  *)
(* is the one of the last attempt.                                         *)
VerdictExplained ==
    /\ state = "Reachable" => {"version", "verack"} \subseteq seen[Attempt]
    /\ state = "Unreachable" => \A i \in DOMAIN seen : "connected" \notin seen[i]
    /\ state = "HandshakeFailed" =>
          /\ \E i \in DOMAIN seen : "connected" \in seen[i]
          /\ \A i \in DOMAIN seen : "verack" \notin seen[i]
    /\ state \in {"HandshakeFailed", "Unreachable"} => failure = attempts[Attempt].failure

(* A node is tried again only after a failure that allows it, at most      *)
(* MaxAttempts times, and given up early only for silence up to the        *)
(* deadline or because the queues closed.                                  *)
RetriesJustified ==
    /\ Attempt <= MaxAttempts
    /\ \A i \in 1..(Attempt - 1) :
          /\ attempts[i].failure # None
          /\ attempts[i].failure = "handshake_timeout" => RetryOnTimeout
    /\ state \in {"HandshakeFailed", "Unreachable"} /\ ~closed =>
          \/ Attempt = MaxAttempts
          \/ attempts[Attempt].failure = "handshake_timeout" /\ ~RetryOnTimeout

(* On every connection the crawler says version first and nothing of the   *)
(* handshake twice; sendaddrv2 only to a peer that negotiates it, and then *)
(* between version and verack, where BIP155 wants it; verack only once the *)
(* peer's version is known; and, after that, no pong to a peer from before *)
(* nonces.  Whatever the peer sends in between (handshake, recv_matching,  *)
(* answer_ping).                                                           *)
ProtocolOrder ==
    /\ said # <<>> => said[1] = "version"
    /\ \A i, j \in DOMAIN said : said[i] = said[j] => i = j
    /\ \A j \in DOMAIN said :
          /\ said[j] = "sendaddrv2" =>
                version = "modern" /\ \A i \in 1..j : said[i] # "verack"
          /\ said[j] = "verack" =>
                /\ version # None
                /\ version = "modern" => \E i \in 1..j : said[i] = "sendaddrv2"
          /\ said[j] = "pong" /\ version = "legacy" => \A i \in 1..j : said[i] # "verack"

(* The node is settled however long the peer goes on sending: the absolute *)
(* deadline of recv_matching is tested before every receive.  It does not  *)
(* hold for a peer that sends pings and never reads the pongs (SpecUnread).*)
Settles == <>(pc = "settled")

(* README: handshake_timeout means a peer that stayed silent for the whole *)
(* deadline.  It does not hold: a peer that sends anything but a version   *)
(* ends the same way, and is not tried again.                              *)
TimeoutMeansSilence ==
    \A i \in DOMAIN attempts :
        attempts[i].failure = "handshake_timeout" => "envelope" \notin seen[i]

(* README: protocol_desync means bad magic, bad checksum or oversize       *)
(* payload.  It does not hold: a ping of the wrong length, in a sound      *)
(* envelope, is recorded as one.                                           *)
DesyncMeansUnsound ==
    \A i \in DOMAIN attempts :
        attempts[i].failure = "protocol_desync" => "unsound" \in seen[i]

(* SPECIFICATION_v2.md: any ping met while the peer's version is awaited   *)
(* is answered.  It does not hold: before the version is known, the form   *)
(* of a ping is not either, and recv_matching skips it.                    *)
PingsAnswered ==
    [][ReceiveOther([command |-> "ping", body |-> "nonce"]) => ping' = "nonce"]_vars
=============================================================================
