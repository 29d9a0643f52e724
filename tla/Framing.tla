------------------------------ MODULE Framing ------------------------------
(***************************************************************************)
(* The framed receive of a Connection (src/src/transport.rs): bytes arrive *)
(* in chunks cut anywhere, recv_one collects them in recv_buf and returns  *)
(* one envelope, nothing on a timeout, or an error that ends the           *)
(* connection.                                                             *)
(*                                                                         *)
(* A byte is its position in the peer's stream: recv_buf holds the bytes   *)
(* base+1..got, the kernel those up to sent.  What a parser finds at the   *)
(* start of the buffer follows from base: the header of an envelope, or,   *)
(* off every boundary, bytes that are not the network magic.  Time is      *)
(* relative: age counts from frame_started up to the hard deadline, left   *)
(* and wait down to the end of the call and of the read.                   *)
(***************************************************************************)
EXTENDS Integers, Sequences

CONSTANTS
    Streams,      \* what a peer may send: sequences of envelopes
    Header,       \* bytes of an envelope header, 24 in the code
    MaxPayload,   \* MAX_PROTOCOL_MESSAGE_LENGTH, 4,000,000
    Chunk,        \* bytes one read can return, 8192
    Hard,         \* ENVELOPE_HARD_TIMEOUT
    Timeouts,     \* per_timeout of the callers
    None

(* What is wrong with an envelope, if anything: its magic, its command     *)
(* field or its length, all found in the header, or its checksum.          *)
HeaderFaults == {"magic", "command", "oversize"}
Faults == HeaderFaults \cup {"checksum", "none"}

(* An envelope and its place in the stream. *)
Envelope == [at : Nat, size : Nat, fault : Faults]

EndOf(e) == e.at + Header + e.size

(* Envelopes follow one another from the first byte of the stream. *)
Contiguous(s) ==
    /\ s[1].at = 0
    /\ \A i, j \in DOMAIN s : i < j =>
          /\ EndOf(s[i]) <= s[j].at
          /\ j = i + 1 => EndOf(s[i]) = s[j].at

(* Only an oversize envelope announces more than MaxPayload. *)
SizesHonest(s) ==
    \A i \in DOMAIN s : (s[i].size > MaxPayload) <=> (s[i].fault = "oversize")

ASSUME StreamsAssumption ==
    \A s \in Streams : s \in Seq(Envelope) /\ s # <<>> /\ Contiguous(s) /\ SizesHonest(s)

ASSUME LimitsAssumption ==
    /\ Header \in Nat \ {0}
    /\ MaxPayload \in Nat
    /\ Chunk \in Nat \ {0}
    /\ Hard \in Nat \ {0}
    /\ Timeouts \subseteq Nat
    /\ None \notin Nat

VARIABLES
    stream, sent, closed,      \* the peer: what it says, how far it is, whether it left
    base, got, age,            \* recv_buf as an interval of the stream, frame_started
    call, left, wait,          \* the call in progress
    delivered, failure,        \* envelopes returned so far, the error returned
    since                      \* history: time since the last one, up to Hard

peerVars == <<stream, sent, closed>>
vars == <<peerVars, base, got, age, call, left, wait, delivered, failure, since>>

Failures == {"invalid", "overflow", "closed", "reset", "expired"}

TypeOK ==
    /\ stream \in Streams
    /\ sent \in 0..EndOf(stream[Len(stream)])
    /\ closed \in BOOLEAN
    /\ base \in 0..got
    /\ got \in 0..sent
    /\ age \in 0..Hard \cup {None}
    /\ call \in {"idle", "turn", "read"}
    /\ left \in Nat
    /\ wait \in Nat
    /\ delivered \in 0..Len(stream)
    /\ failure \in Failures \cup {"none"}
    /\ since \in 0..Hard

Init ==
    /\ stream \in Streams
    /\ sent = 0
    /\ closed = FALSE
    /\ base = 0
    /\ got = 0
    /\ age = None
    /\ call = "idle"
    /\ left = 0
    /\ wait = 0
    /\ delivered = 0
    /\ failure = "none"
    /\ since = 0

-----------------------------------------------------------------------------
(* try_parse_envelope: what the buffer holds. *)

Buffered == got - base

(* The envelope whose header is at the start of the buffer: none when the  *)
(* buffer is off every boundary.                                           *)
Heads == {i \in DOMAIN stream : stream[i].at = base}

HeaderRead == Buffered >= Header

Whole(e) == Buffered >= Header + e.size

(* Mutant: the checksum is not compared. *)
ReadyUnchecked ==
    /\ HeaderRead
    /\ \E i \in Heads : stream[i].fault \in {"none", "checksum"} /\ Whole(stream[i])

Ready ==
    /\ HeaderRead
    /\ \E i \in Heads : stream[i].fault = "none" /\ Whole(stream[i])

Invalid ==
    /\ HeaderRead
    /\ \A i \in Heads :
          \/ stream[i].fault \in HeaderFaults
          \/ stream[i].fault = "checksum" /\ Whole(stream[i])

Partial == ~Ready /\ ~Invalid

-----------------------------------------------------------------------------
(* recv_one *)

Call ==
    /\ call = "idle"
    /\ failure = "none"
    /\ \E t \in Timeouts : left' = t
    /\ call' = "turn"
    /\ UNCHANGED <<peerVars, base, got, age, wait, delivered, failure, since>>

(* Mutant: the clock of this envelope goes on for the next. *)
ReturnEnvelopeClockKept ==
    /\ call = "turn"
    /\ Ready
    /\ \E i \in Heads : base' = EndOf(stream[i])
    /\ age' = IF base' = got THEN None ELSE age
    /\ delivered' = delivered + 1
    /\ call' = "idle"
    /\ since' = 0
    /\ UNCHANGED <<peerVars, got, left, wait, failure>>

(* The clock of the next envelope starts now when some of it is there. *)
ReturnEnvelope ==
    /\ call = "turn"
    /\ Ready
    /\ \E i \in Heads : base' = EndOf(stream[i])
    /\ age' = IF base' = got THEN None ELSE 0
    /\ delivered' = delivered + 1
    /\ call' = "idle"
    /\ since' = 0
    /\ UNCHANGED <<peerVars, got, left, wait, failure>>

FailWith(why) ==
    /\ failure' = why
    /\ call' = "idle"

RejectEnvelope ==
    /\ call = "turn"
    /\ Invalid
    /\ FailWith("invalid")
    /\ UNCHANGED <<peerVars, base, got, age, left, wait, delivered, since>>

Expire ==
    /\ call = "turn"
    /\ Partial
    /\ age = Hard
    /\ FailWith("expired")
    /\ UNCHANGED <<peerVars, base, got, age, left, wait, delivered, since>>

(* Mutant: the time is tested before the buffer is parsed. *)
GiveUpUnparsed ==
    /\ call = "turn"
    /\ age # Hard
    /\ left = 0
    /\ call' = "idle"
    /\ UNCHANGED <<peerVars, base, got, age, left, wait, delivered, failure, since>>

(* Ok(None): the time of the call is over. *)
GiveUp ==
    /\ call = "turn"
    /\ Partial
    /\ age # Hard
    /\ left = 0
    /\ call' = "idle"
    /\ UNCHANGED <<peerVars, base, got, age, left, wait, delivered, failure, since>>

HardRemaining == IF age = None THEN Hard ELSE Hard - age

ReadTimeout == IF left < HardRemaining THEN left ELSE HardRemaining

StartRead ==
    /\ call = "turn"
    /\ Partial
    /\ age # Hard
    /\ left > 0
    /\ wait' = ReadTimeout
    /\ call' = "read"
    /\ UNCHANGED <<peerVars, base, got, age, left, delivered, failure, since>>

Exceeds(n) == n > Header + MaxPayload

(* The read returns all that has arrived, up to a chunk, even when its     *)
(* timer has run out as well.                                              *)
Read ==
    /\ call = "read"
    /\ got < sent
    /\ got' = IF sent - got < Chunk THEN sent ELSE got + Chunk
    /\ age' = IF Buffered = 0 THEN 0 ELSE age
    /\ IF Exceeds(got' - base)
         THEN FailWith("overflow")
         ELSE call' = "turn" /\ UNCHANGED failure
    /\ UNCHANGED <<peerVars, base, left, wait, delivered, since>>

ReadEof ==
    /\ call = "read"
    /\ got = sent
    /\ closed
    /\ FailWith("closed")
    /\ UNCHANGED <<peerVars, base, got, age, left, wait, delivered, since>>

ReadFails ==
    /\ call = "read"
    /\ FailWith("reset")
    /\ UNCHANGED <<peerVars, base, got, age, left, wait, delivered, since>>

(* Ok(None) again: recv_buf keeps what it has.  Bytes that are on their    *)
(* way may miss the timer.                                                 *)
ReadTimesOut ==
    /\ call = "read"
    /\ wait = 0
    /\ call' = "idle"
    /\ UNCHANGED <<peerVars, base, got, age, left, wait, delivered, failure, since>>

-----------------------------------------------------------------------------
(* The peer and the clock *)

PeerSends ==
    /\ ~closed
    /\ sent' \in (sent + 1)..EndOf(stream[Len(stream)])
    /\ UNCHANGED <<stream, closed, base, got, age, call, left, wait, delivered, failure, since>>

PeerCloses ==
    /\ ~closed
    /\ closed' = TRUE
    /\ UNCHANGED <<stream, sent, base, got, age, call, left, wait, delivered, failure, since>>

Less(n) == IF n = 0 THEN 0 ELSE n - 1

Tick ==
    /\ age' = IF age \in {None, Hard} THEN age ELSE age + 1
    /\ left' = Less(left)
    /\ wait' = Less(wait)
    /\ since' = IF since = Hard THEN Hard ELSE since + 1
    /\ UNCHANGED <<peerVars, base, got, call, delivered, failure>>

Receive ==
    \/ Call \/ ReturnEnvelope \/ RejectEnvelope \/ Expire \/ GiveUp
    \/ StartRead \/ Read \/ ReadEof \/ ReadFails \/ ReadTimesOut

Next == Receive \/ PeerSends \/ PeerCloses \/ Tick

Spec == Init /\ [][Next]_vars

-----------------------------------------------------------------------------
(* Properties *)

(* The bytes consumed are exactly those of the envelopes returned: no      *)
(* timeout, chunk boundary or pipelined envelope makes recv_one lose its   *)
(* place in the stream.                                                    *)
NothingLost ==
    base = IF delivered = 0 THEN 0 ELSE EndOf(stream[delivered])

(* frame_started is set exactly while recv_buf holds bytes, and never to a *)
(* time before the last envelope was returned: a clock carried over from   *)
(* it would make the next one expire early, a missing one never.           *)
ClockTracksBuffer ==
    /\ (age = None) <=> (base = got)
    /\ age # None => age <= since

(* An envelope gets the hard deadline, its own and all of it: its clock is *)
(* its own, and no read goes on waiting once the envelope at the head of   *)
(* recv_buf has been incomplete for that long, however long the caller     *)
(* waits.                                                                  *)
HardDeadline ==
    /\ ClockTracksBuffer
    /\ age = Hard => ~(call = "read" /\ wait > 0)

(* A call never ends for lack of time, by Ok(None) or by the hard          *)
(* deadline, while an envelope is complete in recv_buf: pipelined          *)
(* envelopes come out call by call without waiting, and a caller that      *)
(* comes late still gets what arrived in time.                             *)
CompleteIsReturned ==
    [][call # "idle" /\ call' = "idle" /\ delivered' = delivered
         /\ failure' \in {"none", "expired"} => ~Ready]_vars

(* recv_one implements the abstract stream of envelopes.  The buffer limit *)
(* is an InvalidData error like the others; it is out of reach of          *)
(* envelopes that stay a chunk below the largest payload.                  *)
Abstract == INSTANCE Envelopes WITH
    LargestSafe <- MaxPayload + 1 - Chunk,
    failure <- IF failure = "overflow" THEN "invalid" ELSE failure
ImplementsEnvelopes == Abstract!Spec
=============================================================================
