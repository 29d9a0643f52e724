----------------------------- MODULE Envelopes -----------------------------
(***************************************************************************)
(* What a Connection promises its callers (src/src/transport.rs,           *)
(* recv_one): the envelopes of the peer's stream, one by one and in order, *)
(* each of them sound, until the connection fails; `InvalidData` is said   *)
(* of an envelope that is unsound or unusually large.  Framing implements  *)
(* this.                                                                   *)
(***************************************************************************)
EXTENDS Naturals, Sequences

CONSTANTS
    Streams,       \* what a peer may send: sequences of envelopes
    LargestSafe    \* the size up to which a sound envelope is never refused

VARIABLES stream, delivered, failure

vars == <<stream, delivered, failure>>

(* How a connection ends: an unsound envelope, the end of the stream, an   *)
(* error of the socket, or an envelope that stays incomplete for too long. *)
Failures == {"invalid", "closed", "reset", "expired"}

Sound(e) == e.fault = "none"

Refusable(e) == ~Sound(e) \/ e.size > LargestSafe

Init ==
    /\ stream \in Streams
    /\ delivered = 0
    /\ failure = "none"

Deliver ==
    /\ failure = "none"
    /\ delivered < Len(stream)
    /\ Sound(stream[delivered + 1])
    /\ delivered' = delivered + 1
    /\ UNCHANGED <<stream, failure>>

Fail(why) ==
    /\ failure = "none"
    /\ why = "invalid" => delivered < Len(stream) /\ Refusable(stream[delivered + 1])
    /\ failure' = why
    /\ UNCHANGED <<stream, delivered>>

Next == Deliver \/ \E why \in Failures : Fail(why)

Spec == Init /\ [][Next]_vars
=============================================================================
