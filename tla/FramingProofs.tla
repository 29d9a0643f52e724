--------------------------- MODULE FramingProofs ---------------------------
(***************************************************************************)
(* Theorems about Framing, for every set of streams and all limits.        *)
(* NothingLost rests on TypeOK and on the layout of the stream only.  The  *)
(* rest needs two facts about the call in progress (CallInv): a read is    *)
(* begun with an incomplete envelope at the head of the buffer and never   *)
(* waits beyond its hard deadline, and no call follows an error.           *)
(***************************************************************************)
EXTENDS Framing, TLAPS

CallInv ==
    /\ call = "read" => Partial
    /\ call = "read" /\ age # None => age + wait <= Hard
    /\ failure # "none" => call = "idle"

IInv == TypeOK /\ NothingLost /\ ClockTracksBuffer /\ CallInv

-----------------------------------------------------------------------------
(* The layout of a stream. *)
LEMMA Layout ==
    ASSUME NEW s \in Streams
    PROVE  /\ Len(s) \in Nat /\ Len(s) >= 1 /\ DOMAIN s = 1..Len(s)
           /\ s[1].at = 0
           /\ \A i \in 1..Len(s) :
                 /\ s[i].at \in Nat /\ s[i].size \in Nat /\ s[i].fault \in Faults
                 /\ EndOf(s[i]) \in Nat
                 /\ s[i].at + Header + s[i].size = EndOf(s[i])
                 /\ s[i].at < EndOf(s[i])
           /\ \A i, j \in 1..Len(s) : i < j =>
                 EndOf(s[i]) <= s[j].at /\ (j = i + 1 => EndOf(s[i]) = s[j].at)
<1>1. s \in Seq(Envelope) /\ s # <<>> /\ Contiguous(s)
  BY StreamsAssumption
<1>2. Len(s) \in Nat /\ Len(s) >= 1 /\ DOMAIN s = 1..Len(s)
  BY <1>1
<1>3. \A i \in 1..Len(s) : s[i] \in Envelope
  BY <1>1, <1>2
<1>4. \A i \in 1..Len(s) : s[i].at \in Nat /\ s[i].size \in Nat /\ s[i].fault \in Faults
  BY <1>3 DEF Envelope
<1>5. \A i \in 1..Len(s) :
         /\ EndOf(s[i]) \in Nat
         /\ s[i].at + Header + s[i].size = EndOf(s[i])
         /\ s[i].at < EndOf(s[i])
  BY <1>4, LimitsAssumption DEF EndOf
<1> QED
  BY <1>1, <1>2, <1>4, <1>5 DEF Contiguous

(* On a boundary, the head of the buffer is the envelope that comes next,  *)
(* and there is one as soon as the peer has sent some of it.               *)
LEMMA HeadIsNext ==
    ASSUME TypeOK, NothingLost
    PROVE  /\ \A i \in Heads : i = delivered + 1
           /\ sent > base => delivered + 1 \in Heads
<1>1. stream \in Streams /\ delivered \in 0..Len(stream)
  BY DEF TypeOK
<1>2. /\ Len(stream) \in Nat /\ Len(stream) >= 1 /\ DOMAIN stream = 1..Len(stream)
      /\ stream[1].at = 0
      /\ \A i \in 1..Len(stream) :
            stream[i].at \in Nat /\ EndOf(stream[i]) \in Nat /\ stream[i].at < EndOf(stream[i])
      /\ \A i, j \in 1..Len(stream) : i < j =>
            EndOf(stream[i]) <= stream[j].at
              /\ (j = i + 1 => EndOf(stream[i]) = stream[j].at)
  BY <1>1, Layout
<1>3. delivered < Len(stream) => stream[delivered + 1].at = base
  <2>1. CASE delivered = 0
    BY <2>1, <1>2 DEF NothingLost
  <2>2. CASE delivered # 0
    BY <2>2, <1>1, <1>2 DEF NothingLost
  <2> QED
    BY <2>1, <2>2
<1>4. ASSUME NEW i \in Heads PROVE i = delivered + 1
  <2>1. i \in 1..Len(stream) /\ stream[i].at = base
    BY <1>2 DEF Heads
  <2>2. CASE i <= delivered
    <3>1. delivered \in 1..Len(stream) /\ base = EndOf(stream[delivered])
      BY <2>1, <2>2, <1>1, <1>2 DEF NothingLost
    <3>2. stream[i].at < EndOf(stream[delivered])
      <4>1. CASE i = delivered
        BY <4>1, <3>1, <1>2
      <4>2. CASE i < delivered
        BY <4>2, <3>1, <2>1, <1>2
      <4> QED
        BY <4>1, <4>2, <2>1, <2>2, <3>1
    <3> QED
      BY <3>1, <3>2, <2>1, <1>2
  <2>3. CASE i > delivered + 1
    <3>1. delivered + 1 \in 1..Len(stream)
      BY <2>1, <2>3, <1>1, <1>2
    <3>2. stream[delivered + 1].at < stream[i].at
      BY <3>1, <2>1, <2>3, <1>2
    <3> QED
      BY <3>1, <3>2, <2>1, <1>1, <1>2, <1>3
  <2> QED
    BY <2>1, <2>2, <2>3, <1>1, <1>2
<1>5. ASSUME sent > base PROVE delivered + 1 \in Heads
  <2> DEFINE total == EndOf(stream[Len(stream)])
  <2>1. total \in Nat
    BY <1>2
  <2>2. base \in Nat /\ sent \in 0..total
    BY <2>1 DEF TypeOK
  <2>3. base < total
    BY <1>5, <2>1, <2>2
  <2>4. ASSUME delivered = Len(stream) PROVE FALSE
    <3>1. delivered # 0
      BY <2>4, <1>2
    <3>2. base = total
      BY <2>4, <3>1 DEF NothingLost
    <3> QED
      BY <2>2, <2>3, <3>2
  <2>5. delivered < Len(stream)
    <3> HIDE DEF total
    <3> QED
      BY <2>4, <1>1, Layout
  <2>6. delivered + 1 \in DOMAIN stream
    BY <2>5, <1>1, Layout
  <2> QED
    BY <2>5, <2>6, <1>3 DEF Heads
<1> QED
  BY <1>4, <1>5

(* A buffer that holds a header has a head, so it is invalid only for what *)
(* is wrong with that envelope; an incomplete one lacks bytes.             *)
LEMMA InvalidIsNext ==
    ASSUME TypeOK, NothingLost, Invalid
    PROVE  delivered + 1 \in Heads /\ stream[delivered + 1].fault # "none"
<1>1. sent > base
  BY LimitsAssumption, Layout DEF Invalid, HeaderRead, Buffered, TypeOK
<1>2. delivered + 1 \in Heads
  BY <1>1, HeadIsNext
<1> QED
  BY <1>2 DEF Invalid, HeaderFaults

LEMMA PartialLacks ==
    ASSUME TypeOK, NothingLost, Partial, NEW i \in Heads
    PROVE  Buffered < Header + stream[i].size
<1>1. i \in DOMAIN stream /\ i = delivered + 1
  BY HeadIsNext DEF Heads
<1>2. stream[i].size \in Nat /\ stream[i].fault \in Faults /\ Buffered \in Int
  <2>1. got \in Int /\ base \in Int
    BY Layout DEF TypeOK
  <2> QED
    BY <1>1, <2>1, Layout DEF TypeOK, Buffered
<1>3. CASE ~HeaderRead
  BY <1>2, <1>3, LimitsAssumption DEF HeaderRead
<1>4. CASE HeaderRead
  <2>1. \A j \in Heads : j = i
    BY <1>1, HeadIsNext
  <2>2. PICK j \in Heads :
            ~(stream[j].fault \in HeaderFaults
                \/ (stream[j].fault = "checksum" /\ Whole(stream[j])))
    BY <1>4 DEF Partial, Invalid
  <2>3. stream[i].fault = "none" => ~Whole(stream[i])
    BY <1>4 DEF Partial, Ready
  <2>4. ~Whole(stream[i])
    BY <1>2, <2>1, <2>2, <2>3 DEF Faults
  <2> QED
    BY <2>4, <1>2, LimitsAssumption DEF Whole
<1> QED
  BY <1>3, <1>4

-----------------------------------------------------------------------------
LEMMA InitIInv == Init => IInv
<1> SUFFICES ASSUME Init PROVE IInv
  OBVIOUS
<1>1. EndOf(stream[Len(stream)]) \in Nat /\ Len(stream) \in Nat
  BY Layout DEF Init
<1>2. TypeOK
  <2>1. stream \in Streams /\ sent \in 0..EndOf(stream[Len(stream)]) /\ delivered \in 0..Len(stream)
    BY <1>1 DEF Init
  <2>2. base \in 0..got /\ got \in 0..sent /\ left \in Nat /\ wait \in Nat /\ since \in 0..Hard
    BY LimitsAssumption DEF Init
  <2> QED
    BY <2>1, <2>2 DEF Init, TypeOK
<1>3. NothingLost /\ ClockTracksBuffer /\ CallInv
  BY DEF Init, NothingLost, ClockTracksBuffer, CallInv, Buffered
<1> QED
  BY <1>2, <1>3 DEF IInv

(* The envelope returned is the next one, and what it occupies is there.   *)
LEMMA ReturnsNext ==
    ASSUME TypeOK, NothingLost, ReturnEnvelope
    PROVE  /\ delivered + 1 \in 1..Len(stream)
           /\ stream[delivered + 1].fault = "none"
           /\ base' = EndOf(stream[delivered + 1])
           /\ base' \in base..got
           /\ delivered' = delivered + 1
<1>1. PICK i \in Heads : base' = EndOf(stream[i])
  BY DEF ReturnEnvelope
<1>2. PICK j \in Heads : stream[j].fault = "none" /\ Whole(stream[j])
  BY DEF ReturnEnvelope, Ready
<1>3. i = delivered + 1 /\ j = delivered + 1
  BY HeadIsNext
<1>4. i \in 1..Len(stream) /\ stream[i].at = base
  BY Layout DEF Heads, TypeOK
<1>5. /\ stream[i].size \in Nat
      /\ EndOf(stream[i]) = base + Header + stream[i].size
      /\ got \in Nat /\ base \in Nat
  BY <1>4, Layout DEF TypeOK
<1>6. base' \in base..got
  BY <1>1, <1>2, <1>3, <1>5, LimitsAssumption DEF Whole, Buffered
<1> QED
  BY <1>1, <1>2, <1>3, <1>4, <1>6 DEF ReturnEnvelope

LEMMA TypeStep ==
    ASSUME TypeOK, NothingLost, [Next]_vars
    PROVE  TypeOK'
<1> DEFINE total == EndOf(stream[Len(stream)])
<1>0. total \in Nat /\ Len(stream) \in Nat
  BY Layout DEF TypeOK
<1>00. base \in Nat /\ got \in Nat /\ sent \in Nat /\ base <= got /\ got <= sent
         /\ sent <= total /\ delivered \in 0..Len(stream)
  BY <1>0 DEF TypeOK
<1> USE DEF TypeOK
<1>1. CASE Call
  BY <1>1, LimitsAssumption DEF Call, peerVars
<1>2. CASE ReturnEnvelope
  <2>1. delivered' \in 0..Len(stream) /\ base' \in 0..got
    BY <1>2, <1>0, <1>00, ReturnsNext
  <2>2. age' \in 0..Hard \cup {None}
    BY <1>2, LimitsAssumption DEF ReturnEnvelope
  <2>3. since' \in 0..Hard
    BY <1>2, LimitsAssumption DEF ReturnEnvelope
  <2> QED
    BY <1>2, <2>1, <2>2, <2>3 DEF ReturnEnvelope, peerVars
<1>3. CASE RejectEnvelope
  BY <1>3 DEF RejectEnvelope, FailWith, Failures, peerVars
<1>4. CASE Expire
  BY <1>4 DEF Expire, FailWith, Failures, peerVars
<1>5. CASE GiveUp
  BY <1>5 DEF GiveUp, peerVars
<1>6. CASE StartRead
  <2>1. wait' \in Nat
    BY <1>6, LimitsAssumption DEF StartRead, ReadTimeout, HardRemaining
  <2> QED
    BY <1>6, <2>1 DEF StartRead, peerVars
<1>7. CASE Read
  <2>1. got' \in got..sent
    BY <1>7, <1>00, LimitsAssumption DEF Read
  <2>2. base \in 0..got' /\ got' \in 0..sent
    BY <2>1, <1>00
  <2>3. age' \in 0..Hard \cup {None}
    BY <1>7, LimitsAssumption DEF Read
  <2>4. call' \in {"idle", "turn", "read"} /\ failure' \in Failures \cup {"none"}
    BY <1>7 DEF Read, FailWith, Failures
  <2> QED
    BY <1>7, <2>2, <2>3, <2>4 DEF Read, peerVars
<1>8. CASE ReadEof
  BY <1>8 DEF ReadEof, FailWith, Failures, peerVars
<1>9. CASE ReadFails
  BY <1>9 DEF ReadFails, FailWith, Failures, peerVars
<1>10. CASE ReadTimesOut
  BY <1>10 DEF ReadTimesOut, peerVars
<1>11. CASE PeerSends
  <2>1. sent' \in 0..total /\ got \in 0..sent'
    BY <1>11, <1>0, <1>00 DEF PeerSends
  <2> QED
    BY <1>11, <2>1 DEF PeerSends
<1>12. CASE PeerCloses
  BY <1>12 DEF PeerCloses
<1>13. CASE Tick
  <2>1. age' \in 0..Hard \cup {None}
    BY <1>13, LimitsAssumption DEF Tick
  <2>2. left' \in Nat /\ wait' \in Nat
    BY <1>13 DEF Tick, Less
  <2>3. since' \in 0..Hard
    BY <1>13, LimitsAssumption DEF Tick
  <2> QED
    BY <1>13, <2>1, <2>2, <2>3 DEF Tick, peerVars
<1>14. CASE UNCHANGED vars
  BY <1>14 DEF vars, peerVars
<1> QED
  BY <1>1, <1>2, <1>3, <1>4, <1>5, <1>6, <1>7, <1>8, <1>9, <1>10, <1>11, <1>12, <1>13, <1>14
     DEF Next, Receive

LEMMA LostStep ==
    ASSUME TypeOK, NothingLost, [Next]_vars
    PROVE  NothingLost'
<1>1. CASE ReturnEnvelope
  <2>1. /\ delivered \in Nat
        /\ delivered' = delivered + 1
        /\ base' = EndOf(stream[delivered + 1])
    BY <1>1, ReturnsNext, Layout DEF TypeOK
  <2>2. stream' = stream
    BY <1>1 DEF ReturnEnvelope, peerVars
  <2> QED
    BY <2>1, <2>2 DEF NothingLost, EndOf
<1>2. CASE UNCHANGED <<stream, base, delivered>>
  BY <1>2 DEF NothingLost, EndOf
<1> QED
  BY <1>1, <1>2
     DEF Next, Receive, Call, RejectEnvelope, Expire, GiveUp, StartRead, Read, ReadEof, ReadFails,
         ReadTimesOut, PeerSends, PeerCloses, Tick, vars, peerVars

LEMMA ClockStep ==
    ASSUME TypeOK, NothingLost, ClockTracksBuffer, [Next]_vars
    PROVE  ClockTracksBuffer'
<1>0. base \in Nat /\ got \in Nat /\ sent \in Nat /\ base <= got
  BY Layout DEF TypeOK
<1>00. /\ None \notin Nat /\ Hard \in Nat /\ age \in 0..Hard \cup {None}
       /\ since \in 0..Hard
  BY LimitsAssumption DEF TypeOK
<1>1. CASE ReturnEnvelope
  <2>1. base' \in base..got /\ got' = got
    BY <1>1, ReturnsNext DEF ReturnEnvelope
  <2>2. age' = None <=> base' = got
    BY <1>1, <1>00 DEF ReturnEnvelope
  <2>3. age' # None => age' <= since'
    BY <1>1, <1>00 DEF ReturnEnvelope
  <2> QED
    BY <2>1, <2>2, <2>3 DEF ClockTracksBuffer
<1>2. CASE Read
  <2>1. got' > got /\ got' \in Nat /\ base' = base
    BY <1>2, <1>0, LimitsAssumption DEF Read
  <2>2. age' # None
    <3>1. Buffered = 0 <=> base = got
      BY <1>0 DEF Buffered
    <3> QED
      BY <3>1, <1>2, <1>00 DEF Read, ClockTracksBuffer
  <2>3. base' # got'
    BY <2>1, <1>0
  <2>4. age' <= since'
    <3>1. age' = (IF Buffered = 0 THEN 0 ELSE age) /\ since' = since
      BY <1>2 DEF Read
    <3>2. CASE Buffered = 0
      BY <1>00, <3>1, <3>2
    <3>3. CASE Buffered # 0
      BY <2>2, <3>1, <3>3 DEF ClockTracksBuffer
    <3> QED
      BY <3>2, <3>3
  <2> QED
    BY <2>2, <2>3, <2>4 DEF ClockTracksBuffer
<1>3. CASE Tick
  <2>1. age' = None <=> age = None
    BY <1>3, <1>00 DEF Tick
  <2>2. age' # None => age' <= since'
    BY <1>3, <1>00, <2>1 DEF Tick, ClockTracksBuffer, TypeOK
  <2> QED
    BY <1>3, <2>1, <2>2 DEF Tick, ClockTracksBuffer
<1>4. CASE UNCHANGED <<base, got, age, since>>
  BY <1>4 DEF ClockTracksBuffer
<1> QED
  BY <1>1, <1>2, <1>3, <1>4
     DEF Next, Receive, Call, RejectEnvelope, Expire, GiveUp, StartRead, ReadEof, ReadFails,
         ReadTimesOut, PeerSends, PeerCloses, vars

(* What the buffer holds changes only by Read and ReturnEnvelope. *)
LEMMA BufferFrame ==
    ASSUME UNCHANGED <<stream, base, got>>
    PROVE  /\ Heads' = Heads
           /\ Ready' = Ready /\ Invalid' = Invalid /\ Partial' = Partial
<1>1. Heads' = Heads /\ Buffered' = Buffered
  BY DEF Heads, Buffered
<1>2. Ready' = Ready
  BY <1>1 DEF Ready, HeaderRead, Whole
<1>3. Invalid' = Invalid
  BY <1>1 DEF Invalid, HeaderRead, Whole
<1> QED
  BY <1>1, <1>2, <1>3 DEF Partial

LEMMA CallStep ==
    ASSUME TypeOK, CallInv, [Next]_vars
    PROVE  CallInv'
<1>0. /\ None \notin Nat /\ Hard \in Nat /\ Hard # 0
      /\ age \in 0..Hard \cup {None} /\ wait \in Nat /\ left \in Nat
  BY LimitsAssumption DEF TypeOK
<1>1. CASE call' # "read" /\ failure' = "none"
  BY <1>1 DEF CallInv
<1>2. CASE call' = "idle"
  BY <1>2 DEF CallInv
<1>3. CASE StartRead
  <2>1. Partial' /\ failure' = "none"
    <3>1. UNCHANGED <<stream, base, got, failure>> /\ call # "idle"
      BY <1>3 DEF StartRead, peerVars
    <3> QED
      BY <1>3, <3>1, BufferFrame DEF StartRead, CallInv
  <2>2. age' # None => age' + wait' <= Hard
    BY <1>3, <1>0 DEF StartRead, ReadTimeout, HardRemaining
  <2> QED
    BY <2>1, <2>2 DEF CallInv
<1>4. CASE PeerSends \/ PeerCloses \/ UNCHANGED vars
  <2>1. UNCHANGED <<stream, base, got, age, call, wait, failure>>
    BY <1>4 DEF PeerSends, PeerCloses, vars, peerVars
  <2> QED
    BY <2>1, BufferFrame DEF CallInv
<1>5. CASE Tick
  <2>1. UNCHANGED <<stream, base, got, call, failure>>
    BY <1>5 DEF Tick, peerVars
  <2>2. call = "read" /\ age' # None => age' + wait' <= Hard
    BY <1>5, <1>0 DEF Tick, Less, CallInv
  <2> QED
    BY <2>1, <2>2, BufferFrame DEF CallInv
<1>6. CASE Call \/ Read
  <2>1. failure = "none"
    BY <1>6 DEF Call, Read, CallInv
  <2> QED
    BY <1>1, <1>2, <1>6, <2>1 DEF Call, Read, FailWith
<1>7. CASE ReturnEnvelope \/ RejectEnvelope \/ Expire \/ GiveUp \/ ReadEof \/ ReadFails \/ ReadTimesOut
  BY <1>2, <1>7
     DEF ReturnEnvelope, RejectEnvelope, Expire, GiveUp, ReadEof, ReadFails, ReadTimesOut, FailWith
<1> QED
  BY <1>3, <1>4, <1>5, <1>6, <1>7 DEF Next, Receive

LEMMA IInvAlways == Spec => []IInv
<1>1. IInv /\ [Next]_vars => IInv'
  BY TypeStep, LostStep, ClockStep, CallStep DEF IInv
<1> QED
  BY <1>1, InitIInv, PTL DEF Spec

-----------------------------------------------------------------------------
(* The state always has its type. *)
THEOREM TypeCorrect == Spec => []TypeOK
<1>1. IInv => TypeOK
  BY DEF IInv
<1> QED
  BY <1>1, IInvAlways, PTL

(* The bytes consumed are those of the envelopes returned: whatever the    *)
(* chunks, timeouts and pipelining, recv_one keeps its place in the        *)
(* stream.                                                                 *)
THEOREM PlaceKept == Spec => []NothingLost
<1>1. IInv => NothingLost
  BY DEF IInv
<1> QED
  BY <1>1, IInvAlways, PTL

(* frame_started is set exactly while recv_buf holds bytes, to a time when *)
(* the envelope at its head was the one awaited.                           *)
THEOREM ClockIsTracked == Spec => []ClockTracksBuffer
<1>1. IInv => ClockTracksBuffer
  BY DEF IInv
<1> QED
  BY <1>1, IInvAlways, PTL

(* An envelope gets the hard deadline from its own first byte, and no read *)
(* waits beyond it.                                                        *)
THEOREM DeadlineIsHard == Spec => []HardDeadline
<1>1. IInv => HardDeadline
  <2>1. age = Hard => ~(IInv /\ call = "read" /\ wait > 0)
    BY LimitsAssumption DEF IInv, TypeOK, CallInv
  <2> QED
    BY <2>1 DEF IInv, HardDeadline
<1> QED
  BY <1>1, IInvAlways, PTL

(* A call never ends for lack of time while an envelope is complete in     *)
(* recv_buf, neither by Ok(None) nor by the hard deadline.                 *)
THEOREM CompleteComesOut == Spec => CompleteIsReturned
<1>1. ASSUME IInv, Next, call # "idle", call' = "idle", delivered' = delivered,
             failure' \in {"none", "expired"}
      PROVE  ~Ready
  <2>1. CASE ReturnEnvelope
    BY <1>1, <2>1, ReturnsNext, Layout DEF IInv, TypeOK
  <2>2. CASE Expire \/ GiveUp \/ ReadTimesOut
    BY <1>1, <2>2 DEF Expire, GiveUp, ReadTimesOut, IInv, CallInv, Partial
  <2>3. CASE RejectEnvelope \/ ReadEof \/ ReadFails
    BY <1>1, <2>3 DEF RejectEnvelope, ReadEof, ReadFails, FailWith
  <2>4. CASE Read
    BY <1>1, <2>4 DEF Read, FailWith, IInv, CallInv
  <2>5. CASE Call \/ StartRead \/ PeerSends \/ PeerCloses \/ Tick
    BY <1>1, <2>5 DEF Call, StartRead, PeerSends, PeerCloses, Tick
  <2> QED
    BY <1>1, <2>1, <2>2, <2>3, <2>4, <2>5 DEF Next, Receive
<1>2. IInv /\ [Next]_vars =>
        [call # "idle" /\ call' = "idle" /\ delivered' = delivered
           /\ failure' \in {"none", "expired"} => ~Ready]_vars
  BY <1>1
<1> QED
  BY <1>2, IInvAlways, PTL DEF Spec, CompleteIsReturned

-----------------------------------------------------------------------------
(* A read fills the buffer beyond its limit only within a chunk of the     *)
(* largest payload.                                                        *)
LEMMA OverflowingRead ==
    ASSUME IInv, Read, failure' = "overflow"
    PROVE  /\ delivered + 1 \in Heads
           /\ \A i \in Heads : stream[i].size > MaxPayload + 1 - Chunk
<1> DEFINE g == IF sent - got < Chunk THEN sent ELSE got + Chunk
<1>0. TypeOK /\ NothingLost /\ CallInv
  BY DEF IInv
<1>1. base \in Nat /\ got \in Nat /\ sent \in Nat /\ base <= got /\ got < sent
  BY <1>0, Layout DEF TypeOK, Read
<1>2. sent > base
  BY <1>1
<1>3. delivered + 1 \in Heads
  BY <1>0, <1>2, HeadIsNext
<1>4. Partial
  BY <1>0 DEF CallInv, Read
<1>5. Exceeds(g - base)
  <2>1. got' = g
    BY DEF Read
  <2>2. failure # "overflow"
    BY <1>0 DEF CallInv, Read
  <2>3. Exceeds(got' - base)
    BY <2>2 DEF Read
  <2> QED
    BY <2>1, <2>3
<1>6. g <= got + Chunk /\ g \in Nat
  BY <1>1, LimitsAssumption
<1>7. ASSUME NEW i \in Heads PROVE stream[i].size > MaxPayload + 1 - Chunk
  <2>1. Buffered < Header + stream[i].size /\ stream[i].size \in Nat
    BY <1>0, <1>4, PartialLacks, Layout DEF Heads, TypeOK
  <2> HIDE DEF g
  <2> QED
    BY <1>1, <1>5, <1>6, <2>1, LimitsAssumption DEF Exceeds, Buffered
<1> QED
  BY <1>3, <1>7

(* An error is the last word. *)
LEMMA FailureIsFinal ==
    ASSUME IInv, failure # "none", [Next]_vars
    PROVE  UNCHANGED failure
<1>1. call = "idle"
  BY DEF IInv, CallInv
<1> QED
  BY <1>1 DEF Next, Receive, Call, ReturnEnvelope, RejectEnvelope, Expire, GiveUp, StartRead, Read,
              ReadEof, ReadFails, ReadTimesOut, PeerSends, PeerCloses, Tick, vars, peerVars

(* Where an error comes from. *)
LEMMA FailureStep ==
    ASSUME IInv, [Next]_vars, failure = "none", failure' # "none"
    PROVE  /\ UNCHANGED <<stream, base, delivered>>
           /\ \/ failure' = "invalid" /\ Invalid
              \/ failure' = "overflow" /\ Read
              \/ failure' \in {"expired", "closed", "reset"}
<1>1. CASE RejectEnvelope \/ Expire
  BY <1>1 DEF RejectEnvelope, Expire, FailWith, peerVars
<1>2. CASE Read \/ ReadEof \/ ReadFails
  BY <1>2 DEF Read, ReadEof, ReadFails, FailWith, peerVars
<1>3. UNCHANGED failure \/ RejectEnvelope \/ Expire \/ Read \/ ReadEof \/ ReadFails
  BY DEF Next, Receive, Call, ReturnEnvelope, GiveUp, StartRead,
         ReadTimesOut, PeerSends, PeerCloses, Tick, vars, peerVars
<1> QED
  BY <1>1, <1>2, <1>3

-----------------------------------------------------------------------------
LEMMA AbstractStep ==
    ASSUME IInv, [Next]_vars
    PROVE  [Abstract!Next]_(Abstract!vars)
<1> USE DEF Abstract!Next, Abstract!vars, Abstract!Deliver, Abstract!Fail, Abstract!Failures,
            Abstract!Sound, Abstract!Refusable
<1>0. TypeOK /\ NothingLost
  BY DEF IInv
<1>1. CASE ReturnEnvelope
  <2>1. /\ delivered + 1 \in 1..Len(stream)
        /\ stream[delivered + 1].fault = "none"
        /\ delivered' = delivered + 1
    BY <1>0, <1>1, ReturnsNext
  <2>2. delivered < Len(stream)
    BY <1>0, <2>1, Layout DEF TypeOK
  <2>3. failure = "none" /\ UNCHANGED <<stream, failure>>
    BY <1>1 DEF ReturnEnvelope, IInv, CallInv, peerVars
  <2> QED
    BY <2>1, <2>2, <2>3
<1>2. CASE failure = "none" /\ failure' # "none"
  <2>1. UNCHANGED <<stream, delivered>>
    BY <1>2, FailureStep
  <2>2. CASE failure' \in {"invalid", "overflow"}
    <3>1. /\ delivered + 1 \in Heads
          /\ \/ stream[delivered + 1].fault # "none"
             \/ stream[delivered + 1].size > MaxPayload + 1 - Chunk
      <4>1. CASE failure' = "invalid"
        BY <1>0, <1>2, <4>1, FailureStep, InvalidIsNext
      <4>2. CASE failure' = "overflow"
        BY <1>2, <4>2, FailureStep, OverflowingRead
      <4> QED
        BY <2>2, <4>1, <4>2
    <3>2. delivered < Len(stream)
      BY <1>0, <3>1, Layout DEF TypeOK, Heads
    <3> QED
      BY <1>2, <2>1, <2>2, <3>1, <3>2
  <2>3. CASE failure' \in {"closed", "reset", "expired"}
    BY <1>2, <2>1, <2>3
  <2> QED
    BY <1>2, <2>2, <2>3, FailureStep
<1>3. CASE UNCHANGED <<stream, delivered, failure>>
  BY <1>3
<1>4. UNCHANGED <<stream, delivered>> \/ ReturnEnvelope
  BY DEF Next, Receive, Call, RejectEnvelope, Expire, GiveUp, StartRead, Read,
         ReadEof, ReadFails, ReadTimesOut, PeerSends, PeerCloses, Tick, vars, peerVars
<1>5. failure # "none" => UNCHANGED failure
  BY FailureIsFinal
<1> QED
  BY <1>1, <1>2, <1>3, <1>4, <1>5

(* recv_one implements the abstract stream of envelopes: each return is    *)
(* the next sound envelope, and InvalidData is said only of an envelope    *)
(* that is unsound or within a chunk of the largest payload.               *)
THEOREM FramingImplementsEnvelopes == Spec => ImplementsEnvelopes
<1>1. Init => Abstract!Init
  BY DEF Init, Abstract!Init
<1>2. IInv /\ [Next]_vars => [Abstract!Next]_(Abstract!vars)
  BY AbstractStep
<1> QED
  BY <1>1, <1>2, IInvAlways, PTL DEF Spec, Abstract!Spec, ImplementsEnvelopes
=============================================================================
