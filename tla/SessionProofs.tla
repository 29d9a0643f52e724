--------------------------- MODULE SessionProofs ---------------------------
(* Theorems about Session, for any network, any number of attempts and any *)
(* peer.                                                                   *)
(*                                                                         *)
(* The argument: what the task has seen and said on the current connection *)
(* follows from its label; an attempt that is over is explained by its own *)
(* connection, which nothing touches again; and the verdict is taken from  *)
(* the history of all of them.                                             *)
EXTENDS Session, SequenceTheorems, TLAPS

-----------------------------------------------------------------------------
(* The entry and the task *)

Working == pc \notin {"queued", "settled"}

Shape ==
    /\ Len(seen) = Attempt
    /\ Attempt <= MaxAttempts
    /\ pc = "queued" => state = "Queued" /\ Attempt < MaxAttempts
    /\ pc = "settled" => state \in Terminal /\ Attempt > 0
    /\ Working => state = "Processing" /\ Attempt > 0
    /\ receiving => pc \in {"awaitVersion", "awaitVerack"}
    /\ ping # None => pc = "awaitVerack"

(* The connection of the current attempt. *)
Current ==
    Working =>
        /\ attempts[Attempt].failure = None
        /\ attempts[Attempt].outcome \in {"started", "connected", "version_sent"}
        /\ pc = "connect" => seen[Attempt] = {}
        /\ pc # "connect" => timeConnect /\ "connected" \in seen[Attempt]
        /\ pc \notin {"connect", "sendVersion"} => "sent" \in seen[Attempt]
        /\ "version" \in seen[Attempt] <=> pc \in {"negotiate", "sendVerack", "awaitVerack"}
        /\ pc # "connect" /\ late => "late" \in seen[Attempt]

-----------------------------------------------------------------------------
(* The attempts *)

Explained(a, events) ==
    /\ a.outcome = "connect_failed" => "connected" \notin events
    /\ a.outcome = "handshake_complete" =>
          a.failure = None /\ {"sent", "version", "verack"} \subseteq events
    /\ a.failure = "handshake_timeout" =>
          {"sent", "late"} \subseteq events /\ "version" \notin events
    /\ a.failure = "peer_verack_timeout" =>
          {"version", "late"} \subseteq events /\ "verack" \notin events
    /\ a.failure = "malformed_version" =>
          "malformed" \in events /\ "version" \notin events
    /\ a.failure = "connection_closed" => "gone" \in events

Retried(a) == a.failure # None /\ (a.failure = "handshake_timeout" => RetryOnTimeout)

History ==
    /\ \A i \in 1..Attempt : Explained(attempts[i], seen[i])
    /\ \A i \in 1..Attempt : i < Attempt \/ pc = "queued" => Retried(attempts[i])
    /\ timeConnect <=> \E i \in 1..Attempt : "connected" \in seen[i]
    /\ \A i \in 1..Attempt : "verack" \in seen[i] => state = "Reachable"

Verdict ==
    pc = "settled" =>
        /\ state = "Reachable" => {"version", "verack"} \subseteq seen[Attempt]
        /\ state = "Unreachable" => ~timeConnect
        /\ state = "HandshakeFailed" => timeConnect
        /\ state # "Reachable" =>
              /\ failure = attempts[Attempt].failure
              /\ \/ closed
                 \/ Attempt = MaxAttempts
                 \/ failure = "handshake_timeout" /\ ~RetryOnTimeout

-----------------------------------------------------------------------------
(* What the crawler says *)

Scripts ==
    IF version = "modern"
    THEN {<<>>, <<"version">>, <<"version", "sendaddrv2">>,
          <<"version", "sendaddrv2", "verack">>, <<"version", "sendaddrv2", "verack", "pong">>}
    ELSE {<<>>, <<"version">>, <<"version", "verack">>}
            \cup (IF version = "legacy" THEN {} ELSE {<<"version", "verack", "pong">>})

Complete ==
    IF version = "modern"
    THEN {<<"version", "sendaddrv2", "verack">>, <<"version", "sendaddrv2", "verack", "pong">>}
    ELSE {<<"version", "verack">>, <<"version", "verack", "pong">>}

Speech ==
    /\ said \in Scripts
    /\ said \notin {<<>>, <<"version">>} => version # None
    /\ pc \in {"connect", "sendVersion", "awaitVersion"} => version = None
    /\ pc \in {"negotiate", "sendVerack", "awaitVerack"} => version # None
    /\ pc \in {"connect", "sendVersion"} => said = <<>>
    /\ pc \in {"awaitVersion", "negotiate"} => said = <<"version">>
    /\ pc = "sendVerack" => said = IF version = "modern" THEN <<"version", "sendaddrv2">>
                                                         ELSE <<"version">>
    /\ pc = "awaitVerack" => said \in Complete

(* The version sent first, of all attempts. *)
FirstSend ==
    /\ \A i \in 1..Attempt : "sent" \in seen[i] => firstSend \in 1..i
    /\ firstSend # 0 => firstSend \in 1..Attempt /\ "sent" \in seen[firstSend]

IInv == TypeOK /\ Shape /\ Current /\ History /\ Verdict /\ Speech /\ FirstSend

-----------------------------------------------------------------------------
(* Sequences *)

(* One element of the attempts, or of what was seen, is replaced. *)
LEMMA Replaced ==
    ASSUME NEW S, NEW q \in Seq(S), NEW e \in S, Len(q) > 0
    PROVE  /\ [q EXCEPT ![Len(q)] = e] \in Seq(S)
           /\ Len([q EXCEPT ![Len(q)] = e]) = Len(q)
           /\ \A i \in 1..Len(q) :
                 [q EXCEPT ![Len(q)] = e][i] = IF i = Len(q) THEN e ELSE q[i]
<1>1. Len(q) \in 1..Len(q)
  BY LenProperties
<1> QED
  BY <1>1, ExceptSeq

Entry == [outcome : Outcomes, failure : Kinds \cup {None}]

(* The types of the sequences, as the library's theorems take them. *)
LEMMA Types ==
    ASSUME TypeOK
    PROVE  attempts \in Seq(Entry) /\ seen \in Seq(SUBSET Events) /\ Attempt \in Nat
BY LenProperties DEF TypeOK, Entry, Attempt

(* update_attempt touches the last attempt only. *)
LEMMA Updating ==
    ASSUME TypeOK, Attempt > 0, NEW o \in Outcomes, NEW k \in Kinds \cup {None},
           attempts' = Updated(o, k)
    PROVE  /\ attempts' \in Seq(Entry)
           /\ Attempt' = Attempt
           /\ \A i \in 1..Attempt : i # Attempt => attempts'[i] = attempts[i]
           /\ attempts'[Attempt].outcome = o
           /\ attempts'[Attempt].failure = IF k = None THEN attempts[Attempt].failure ELSE k
<1> DEFINE e == [outcome |-> o,
                 failure |-> IF k = None THEN attempts[Attempt].failure ELSE k]
<1>1. attempts \in Seq(Entry) /\ Attempt \in Nat /\ Len(attempts) = Attempt
  BY Types DEF Attempt
<1>2. attempts[Attempt] \in Entry
  BY <1>1, ElementOfSeq
<1>3. e \in Entry
  BY <1>2 DEF Entry
<1>4. attempts' = [attempts EXCEPT ![Len(attempts)] = e]
  BY <1>1, <1>2 DEF Updated, Attempt
<1> HIDE DEF e
<1>5. /\ attempts' \in Seq(Entry) /\ Len(attempts') = Attempt
      /\ \A i \in 1..Attempt : attempts'[i] = IF i = Attempt THEN e ELSE attempts[i]
  BY <1>1, <1>3, <1>4, Replaced
<1> QED
  BY <1>1, <1>5 DEF e, Attempt

(* See touches the current connection only. *)
LEMMA Seeing ==
    ASSUME TypeOK, Shape, Attempt > 0, NEW events \in SUBSET Events, See(events)
    PROVE  /\ seen' \in Seq(SUBSET Events)
           /\ Len(seen') = Attempt
           /\ \A i \in 1..Attempt : i # Attempt => seen'[i] = seen[i]
           /\ seen'[Attempt] = seen[Attempt] \cup events
<1>1. seen \in Seq(SUBSET Events) /\ Attempt \in Nat /\ Len(seen) = Attempt
  BY Types DEF Shape
<1>2. seen[Attempt] \in SUBSET Events
  BY <1>1, ElementOfSeq
<1>3. seen' = [seen EXCEPT ![Len(seen)] = seen[Attempt] \cup events]
  BY <1>1 DEF See
<1>4. seen[Attempt] \cup events \in SUBSET Events
  BY <1>2
<1> QED
  BY <1>1, <1>3, <1>4, Replaced

(* A sequence is an Append when its elements say so. *)
LEMMA Appended ==
    ASSUME NEW S, NEW s \in Seq(S), NEW x \in S, NEW t \in Seq(S),
           Len(t) = Len(s) + 1, \A i \in 1..Len(s) : t[i] = s[i], t[Len(s) + 1] = x
    PROVE  Append(s, x) = t
<1>1. /\ Append(s, x) \in Seq(S) /\ Len(Append(s, x)) = Len(s) + 1
      /\ \A i \in 1..Len(s) : Append(s, x)[i] = s[i]
      /\ Append(s, x)[Len(s) + 1] = x
  BY AppendProperties
<1>2. \A i \in 1..Len(Append(s, x)) : Append(s, x)[i] = t[i]
  BY <1>1, LenProperties
<1> QED
  BY <1>1, <1>2, SeqEqual

(* The scripts of a connection, by name. *)
Words == {"version", "sendaddrv2", "verack", "pong"}
Modern == <<"version", "sendaddrv2", "verack", "pong">>
Plain == <<"version", "verack", "pong">>
V == <<"version">>
VS == <<"version", "sendaddrv2">>
VK == <<"version", "verack">>
VSK == <<"version", "sendaddrv2", "verack">>

(* The scripts are sequences of words. *)
LEMMA ScriptTypes ==
    /\ <<>> \in Seq(Words) /\ V \in Seq(Words) /\ VS \in Seq(Words) /\ VK \in Seq(Words)
    /\ VSK \in Seq(Words) /\ Plain \in Seq(Words) /\ Modern \in Seq(Words)
BY DEF Words, Plain, Modern, V, VS, VK, VSK

(* What each message adds to a script. *)
LEMMA Spoken ==
    /\ Append(<<>>, "version") = <<"version">>
    /\ Append(<<"version">>, "sendaddrv2") = <<"version", "sendaddrv2">>
    /\ Append(<<"version">>, "verack") = <<"version", "verack">>
    /\ Append(<<"version", "sendaddrv2">>, "verack") = <<"version", "sendaddrv2", "verack">>
    /\ Append(<<"version", "verack">>, "pong") = Plain
    /\ Append(<<"version", "sendaddrv2", "verack">>, "pong") = Modern
<1>1. ASSUME NEW s \in Seq(Words), NEW x \in Words, NEW t \in Seq(Words),
             Len(t) = Len(s) + 1, \A i \in 1..Len(s) : t[i] = s[i], t[Len(s) + 1] = x
      PROVE  Append(s, x) = t
  BY <1>1, Appended
<1>2. "version" \in Words /\ "sendaddrv2" \in Words /\ "verack" \in Words /\ "pong" \in Words
  BY DEF Words
<1>3. Append(<<>>, "version") = V
  <2>1. Len(<<>>) = 0 /\ Len(V) = 1
    BY DEF V
  <2>2. (\A i \in 1..0 : V[i] = <<>>[i]) /\ V[1] = "version"
    BY DEF V
  <2>3. Len(V) = Len(<<>>) + 1
    BY <2>1
  <2>4. \A i \in 1..Len(<<>>) : V[i] = <<>>[i]
    BY <2>1, <2>2
  <2>5. V[Len(<<>>) + 1] = "version"
    BY <2>1, <2>2
  <2> QED
    BY <1>1, <1>2, <2>3, <2>4, <2>5, ScriptTypes
<1>4. Append(V, "sendaddrv2") = VS
  <2>1. Len(V) = 1 /\ Len(VS) = 2
    BY DEF V, VS
  <2>2. (\A i \in 1..1 : VS[i] = V[i]) /\ VS[2] = "sendaddrv2"
    BY DEF V, VS
  <2>3. Len(VS) = Len(V) + 1
    BY <2>1
  <2>4. \A i \in 1..Len(V) : VS[i] = V[i]
    BY <2>1, <2>2
  <2>5. VS[Len(V) + 1] = "sendaddrv2"
    BY <2>1, <2>2
  <2> QED
    BY <1>1, <1>2, <2>3, <2>4, <2>5, ScriptTypes
<1>5. Append(V, "verack") = VK
  <2>1. Len(V) = 1 /\ Len(VK) = 2
    BY DEF V, VK
  <2>2. (\A i \in 1..1 : VK[i] = V[i]) /\ VK[2] = "verack"
    BY DEF V, VK
  <2>3. Len(VK) = Len(V) + 1
    BY <2>1
  <2>4. \A i \in 1..Len(V) : VK[i] = V[i]
    BY <2>1, <2>2
  <2>5. VK[Len(V) + 1] = "verack"
    BY <2>1, <2>2
  <2> QED
    BY <1>1, <1>2, <2>3, <2>4, <2>5, ScriptTypes
<1>6. Append(VS, "verack") = VSK
  <2>1. Len(VS) = 2 /\ Len(VSK) = 3
    BY DEF VS, VSK
  <2>2. (\A i \in 1..2 : VSK[i] = VS[i]) /\ VSK[3] = "verack"
    BY DEF VS, VSK
  <2>3. Len(VSK) = Len(VS) + 1
    BY <2>1
  <2>4. \A i \in 1..Len(VS) : VSK[i] = VS[i]
    BY <2>1, <2>2
  <2>5. VSK[Len(VS) + 1] = "verack"
    BY <2>1, <2>2
  <2> QED
    BY <1>1, <1>2, <2>3, <2>4, <2>5, ScriptTypes
<1>7. Append(VK, "pong") = Plain
  <2>1. Len(VK) = 2 /\ Len(Plain) = 3
    BY DEF VK, Plain
  <2>2. (\A i \in 1..2 : Plain[i] = VK[i]) /\ Plain[3] = "pong"
    BY DEF VK, Plain
  <2>3. Len(Plain) = Len(VK) + 1
    BY <2>1
  <2>4. \A i \in 1..Len(VK) : Plain[i] = VK[i]
    BY <2>1, <2>2
  <2>5. Plain[Len(VK) + 1] = "pong"
    BY <2>1, <2>2
  <2> QED
    BY <1>1, <1>2, <2>3, <2>4, <2>5, ScriptTypes
<1>8. Append(VSK, "pong") = Modern
  <2>1. Len(VSK) = 3 /\ Len(Modern) = 4
    BY DEF VSK, Modern
  <2>2. (\A i \in 1..3 : Modern[i] = VSK[i]) /\ Modern[4] = "pong"
    BY DEF VSK, Modern
  <2>3. Len(Modern) = Len(VSK) + 1
    BY <2>1
  <2>4. \A i \in 1..Len(VSK) : Modern[i] = VSK[i]
    BY <2>1, <2>2
  <2>5. Modern[Len(VSK) + 1] = "pong"
    BY <2>1, <2>2
  <2> QED
    BY <1>1, <1>2, <2>3, <2>4, <2>5, ScriptTypes
<1> QED
  BY <1>3, <1>4, <1>5, <1>6, <1>7, <1>8 DEF V, VS, VK, VSK

(* The classifiers return reasons, and none that a verdict is explained by. *)
LEMMA KindsAreReasons ==
    /\ \A e \in ConnectErrors : ClassifyConnect(e) \in Kinds
    /\ \A e \in ConnectErrors : ClassifyConnect(e) \notin
          {"handshake_timeout", "peer_verack_timeout", "malformed_version", "connection_closed"}
    /\ \A e \in HandshakeErrors : ClassifyHandshake(e) \in Kinds
    /\ \A e \in HandshakeErrors :
          ClassifyHandshake(e) \in {"protocol_desync", "connection_closed", "handshake_other"}
    /\ None \notin Kinds
<1>1. \A e \in HandshakeErrors :
         ClassifyHandshake(e) \in {"protocol_desync", "connection_closed", "handshake_other"}
  BY DEF HandshakeErrors, ClassifyHandshake
<1>2. \A e \in ConnectErrors :
         ClassifyConnect(e) \in {"connect_timeout", "connect_refused", "connect_reset",
                                 "connect_unreachable", "connect_other", "proxy_error", "sam_error"}
  BY SessionAssumption DEF ConnectErrors, ClassifyConnect
<1>3. None \notin Kinds
  BY <1>1, <1>2 DEF Kinds, ConnectKinds, HandshakeKinds, None
<1> QED
  BY <1>1, <1>2, <1>3 DEF Kinds, ConnectKinds, HandshakeKinds

-----------------------------------------------------------------------------
(* How an attempt goes on, and how it ends *)

(* The attempt goes on: its entry and its connection may have changed. *)
LEMMA GoesOn ==
    ASSUME IInv, Working, Working', NEW events,
           Attempt' = Attempt,
           \A i \in 1..Attempt : i # Attempt => attempts'[i] = attempts[i],
           attempts'[Attempt].failure = None,
           attempts'[Attempt].outcome \in {"started", "connected", "version_sent"},
           \A i \in 1..Attempt : i # Attempt => seen'[i] = seen[i],
           seen'[Attempt] = seen[Attempt] \cup events,
           "verack" \notin events,
           timeConnect' <=> timeConnect \/ "connected" \in events,
           state' = state
    PROVE  History' /\ Verdict'
<1>1. Attempt \in Nat /\ Attempt > 0 /\ pc' # "queued" /\ pc' # "settled"
  BY Types DEF IInv, Shape, Working
<1>2. Explained(attempts'[Attempt], seen'[Attempt])
  BY DEF Explained, None
<1>3. \A i \in 1..Attempt' : Explained(attempts'[i], seen'[i])
  BY <1>1, <1>2 DEF IInv, History
<1>4. \A i \in 1..Attempt' : i < Attempt' => Retried(attempts'[i])
  BY <1>1 DEF IInv, History
<1>5. timeConnect' <=> \E i \in 1..Attempt' : "connected" \in seen'[i]
  <2>1. Attempt \in 1..Attempt
    BY <1>1
  <2> QED
    BY <2>1 DEF IInv, History
<1>6. \A i \in 1..Attempt' : "verack" \in seen'[i] => state' = "Reachable"
  BY <1>1 DEF IInv, History
<1> QED
  BY <1>1, <1>3, <1>4, <1>5, <1>6 DEF History, Verdict

(* The node is queued again, or settled. *)
Over(terminal, kind) ==
    \/ /\ state' = "Queued" /\ pc' = "queued" /\ Attempt < MaxAttempts
       /\ kind = "handshake_timeout" => RetryOnTimeout
    \/ /\ state' = terminal /\ failure' = kind /\ pc' = "settled"
       /\ \/ closed
          \/ Attempt = MaxAttempts
          \/ kind = "handshake_timeout" /\ ~RetryOnTimeout

(* retry_or_finish, with the limit on attempts. *)
LEMMA RetryLimit ==
    ASSUME IInv, NEW terminal, NEW kind, kind # "handshake_timeout",
           RetryOrFinish(CanRetry, terminal, kind)
    PROVE  Over(terminal, kind)
<1>1. Attempt \in Nat /\ Attempt <= MaxAttempts /\ MaxAttempts \in Nat
  BY Types, SessionAssumption DEF IInv, Shape
<1> QED
  BY <1>1 DEF RetryOrFinish, Requeue, Settle, CanRetry, Over

(* What is said while the verack is awaited. *)
LEMMA SpeechAtVerack ==
    ASSUME pc' = "awaitVerack", version' # None, said' \in Scripts', said' \in Complete'
    PROVE  Speech'
<1>1. (said \notin {<<>>, <<"version">>} => version # None)'
  OBVIOUS
<1>2. (pc \in {"connect", "sendVersion", "awaitVersion"} => version = None)'
  OBVIOUS
<1>3. (pc \in {"negotiate", "sendVerack", "awaitVerack"} => version # None)'
  OBVIOUS
<1>4. (pc \in {"connect", "sendVersion"} => said = <<>>)'
  OBVIOUS
<1>5. (pc \in {"awaitVersion", "negotiate"} => said = <<"version">>)'
  OBVIOUS
<1>6. (pc = "sendVerack" => said = IF version = "modern" THEN <<"version", "sendaddrv2">>
                                                        ELSE <<"version">>)'
  OBVIOUS
<1>7. (pc = "awaitVerack" => said \in Complete)'
  OBVIOUS
<1> QED
  BY <1>1, <1>2, <1>3, <1>4, <1>5, <1>6, <1>7 DEF Speech

(* The attempt fails with an outcome and a reason. *)
LEMMA AttemptFails ==
    ASSUME IInv, Working,
           NEW o \in Outcomes, NEW k \in Kinds, NEW events,
           attempts' = Updated(o, k),
           Len(seen') = Attempt,
           \A i \in 1..Attempt : i # Attempt => seen'[i] = seen[i],
           seen'[Attempt] = seen[Attempt] \cup events,
           events \cap {"connected", "version", "verack"} = {},
           Over(ConnectFailure, k),
           Drop, UNCHANGED <<timeConnect, version, closed, said>>,
           Explained([outcome |-> o, failure |-> k], seen[Attempt] \cup events)
    PROVE  Shape' /\ Current' /\ History' /\ Verdict' /\ Speech'
<1>1. /\ Attempt \in Nat /\ Attempt > 0 /\ MaxAttempts \in Nat /\ Attempt <= MaxAttempts
      /\ Attempt \in 1..Attempt
  BY Types, SessionAssumption DEF IInv, Shape
<1>2. /\ Attempt' = Attempt
      /\ \A i \in 1..Attempt : i # Attempt => attempts'[i] = attempts[i]
      /\ attempts'[Attempt].outcome = o /\ attempts'[Attempt].failure = k
  BY <1>1, Updating, KindsAreReasons DEF IInv
<1>3. pc' \in {"queued", "settled"} /\ ~Working'
  BY DEF Over, Working
<1>4. ConnectFailure \in {"HandshakeFailed", "Unreachable"}
      /\ (ConnectFailure = "HandshakeFailed" <=> timeConnect)
  BY DEF ConnectFailure
<1>5. Shape'
  <2>1. receiving' = FALSE /\ ping' = None
    BY DEF Drop
  <2> QED
    BY <1>1, <1>2, <1>3, <1>4, <2>1 DEF Shape, Over, Terminal, Working
<1>6. Current'
  BY <1>3 DEF Current
<1>7. History'
  <2>1. \A i \in 1..Attempt' : Explained(attempts'[i], seen'[i])
    <3>1. Explained(attempts'[Attempt], seen'[Attempt])
      BY <1>2 DEF Explained
    <3> QED
      BY <1>2, <3>1 DEF IInv, History
  <2>2. \A i \in 1..Attempt' : i < Attempt' \/ pc' = "queued" => Retried(attempts'[i])
    <3>1. pc' = "queued" => Retried(attempts'[Attempt])
      BY <1>2, KindsAreReasons DEF Over, Retried
    <3> QED
      BY <1>1, <1>2, <3>1 DEF IInv, History
  <2>3. timeConnect' <=> \E i \in 1..Attempt' : "connected" \in seen'[i]
    BY <1>1, <1>2 DEF IInv, History
  <2>4. \A i \in 1..Attempt' : "verack" \notin seen'[i]
    <3>1. state = "Processing"
      BY DEF IInv, Shape
    <3> QED
      BY <1>1, <1>2, <3>1 DEF IInv, History
  <2> QED
    BY <2>1, <2>2, <2>3, <2>4 DEF History
<1>8. Verdict'
  BY <1>2, <1>4 DEF Verdict, Over
<1>9. Speech'
  BY <1>3 DEF IInv, Speech, Scripts, Complete
<1> QED
  BY <1>5, <1>6, <1>7, <1>8, <1>9

(* The handshake fails, with an event on the connection. *)
LEMMA HandshakeEnds ==
    ASSUME IInv, Working, pc # "connect", NEW k \in Kinds, k # "handshake_timeout",
           NEW events \in SUBSET Events, See(events), HandshakeFails(k),
           events \cap {"connected", "version", "verack"} = {},
           Explained([outcome |-> "handshake_failed", failure |-> k], seen[Attempt] \cup events)
    PROVE  Shape' /\ Current' /\ History' /\ Verdict' /\ Speech'
<1>1. /\ Len(seen') = Attempt
      /\ \A i \in 1..Attempt : i # Attempt => seen'[i] = seen[i]
      /\ seen'[Attempt] = seen[Attempt] \cup events
  BY Seeing DEF IInv, Shape
<1>2. Over("HandshakeFailed", k)
  BY RetryLimit DEF HandshakeFails
<1>3. ConnectFailure = "HandshakeFailed"
  BY DEF IInv, Current, ConnectFailure
<1>4. attempts' = Updated("handshake_failed", k) /\ Drop
      /\ UNCHANGED <<timeConnect, version, closed, said>>
  BY DEF HandshakeFails
<1>5. "handshake_failed" \in Outcomes
  BY DEF Outcomes
<1> QED
  BY <1>1, <1>2, <1>3, <1>4, <1>5, AttemptFails

(* The handshake fails, with no new event. *)
LEMMA HandshakeEndsUnseen ==
    ASSUME IInv, Working, pc # "connect", NEW k \in Kinds, k # "handshake_timeout",
           UNCHANGED seen, HandshakeFails(k),
           Explained([outcome |-> "handshake_failed", failure |-> k], seen[Attempt])
    PROVE  Shape' /\ Current' /\ History' /\ Verdict' /\ Speech'
<1>1. Len(seen') = Attempt /\ seen[Attempt] \cup {} = seen[Attempt]
  BY DEF IInv, Shape
<1>2. Over("HandshakeFailed", k)
  BY RetryLimit DEF HandshakeFails
<1>3. ConnectFailure = "HandshakeFailed"
  BY DEF IInv, Current, ConnectFailure
<1>4. attempts' = Updated("handshake_failed", k) /\ Drop
      /\ UNCHANGED <<timeConnect, version, closed, said>>
  BY DEF HandshakeFails
<1>5. "handshake_failed" \in Outcomes
  BY DEF Outcomes
<1> QED
  BY <1>1, <1>2, <1>3, <1>4, <1>5, AttemptFails

(* Nothing the history speaks of changes. *)
LEMMA GoesOnSilently ==
    ASSUME IInv, Working, Working', UNCHANGED <<state, attempts, seen, timeConnect>>
    PROVE  History' /\ Verdict'
<1>1. UNCHANGED <<state, attempts, seen, timeConnect, Attempt>>
  BY DEF Attempt
<1>2. pc # "queued" /\ pc' # "queued" /\ pc' # "settled"
  BY DEF Working
<1> QED
  BY <1>1, <1>2 DEF IInv, History, Verdict

-----------------------------------------------------------------------------
(* The invariant is kept *)

(* Each action keeps the parts of the invariant. *)
LEMMA ActionsKeep ==
    ASSUME IInv, Next
    PROVE  Shape' /\ Current' /\ History' /\ Verdict' /\ Speech'
<1> DEFINE Kept == Shape' /\ Current' /\ History' /\ Verdict' /\ Speech'
<1> USE DEF entryVars, vars
<1>a. /\ TypeOK /\ Shape /\ Current /\ History /\ Verdict /\ Speech
      /\ attempts \in Seq(Entry) /\ seen \in Seq(SUBSET Events)
      /\ Attempt \in Nat /\ MaxAttempts \in Nat
  BY Types, SessionAssumption DEF IInv
<1>b. pc \in Labels
  BY <1>a DEF TypeOK
<1>c. None \notin Versions /\ None \notin Pings
  BY DEF None, Versions, Pings
<1>1. ASSUME Begin PROVE Kept
  <2>1. /\ pc = "queued" /\ state' = "Processing" /\ pc' = "connect"
        /\ attempts' = Append(attempts, [outcome |-> "started", failure |-> None])
        /\ seen' = Append(seen, {}) /\ said' = <<>> /\ version' = None
        /\ UNCHANGED <<failure, timeConnect, receiving, ping, closed>>
    BY <1>1 DEF Begin
  <2>2. [outcome |-> "started", failure |-> None] \in Entry
    BY DEF Entry, Outcomes
  <2>3. /\ Attempt' = Attempt + 1
        /\ \A i \in 1..Attempt : attempts'[i] = attempts[i]
        /\ attempts'[Attempt + 1] = [outcome |-> "started", failure |-> None]
    BY <1>a, <2>1, <2>2, AppendProperties DEF Attempt
  <2>4. /\ Len(seen') = Attempt + 1
        /\ \A i \in 1..Attempt : seen'[i] = seen[i]
        /\ seen'[Attempt + 1] = {}
    BY <1>a, <2>1, AppendProperties DEF Shape
  <2>5. Shape'
    BY <1>a, <2>1, <2>3, <2>4 DEF Shape, Working
  <2>6. Current'
    <3>1. /\ seen'[Attempt'] = {} /\ attempts'[Attempt'].failure = None
          /\ attempts'[Attempt'].outcome = "started"
      BY <2>3, <2>4
    <3> QED
      BY <2>1, <3>1 DEF Current
  <2>7. \A i \in 1..Attempt' : i \in 1..Attempt \/ i = Attempt + 1
    BY <1>a, <2>3
  <2>8. History'
    <3>1. Explained(attempts'[Attempt + 1], seen'[Attempt + 1])
      BY <2>3, <2>4 DEF Explained, None
    <3>2. \A i \in 1..Attempt' : Explained(attempts'[i], seen'[i])
      BY <1>a, <2>3, <2>4, <2>7, <3>1 DEF History
    <3>3. \A i \in 1..Attempt' : i < Attempt' => Retried(attempts'[i])
      <4>1. \A i \in 1..Attempt' : i < Attempt' => i \in 1..Attempt
        BY <1>a, <2>3
      <4> QED
        BY <1>a, <2>1, <2>3, <4>1 DEF History
    <3>4. timeConnect' <=> \E i \in 1..Attempt' : "connected" \in seen'[i]
      BY <1>a, <2>1, <2>3, <2>4, <2>7 DEF History
    <3>5. \A i \in 1..Attempt' : "verack" \in seen'[i] => state' = "Reachable"
      BY <1>a, <2>1, <2>4, <2>7 DEF History, Shape
    <3> QED
      BY <2>1, <3>2, <3>3, <3>4, <3>5 DEF History
  <2>9. Verdict' /\ Speech'
    BY <2>1 DEF Verdict, Speech, Scripts, Complete, None
  <2> QED
    BY <2>5, <2>6, <2>8, <2>9
<1>2. ASSUME Connect PROVE Kept
  <2>1. /\ pc = "connect" /\ pc' = "sendVersion" /\ timeConnect' = TRUE /\ late' = FALSE
        /\ attempts' = Updated("connected", None) /\ See({"connected"})
        /\ UNCHANGED <<state, failure, receiving, ping, version, closed, said>>
    BY <1>2 DEF Connect
  <2>2. Working /\ Working' /\ Attempt > 0 /\ Attempt \in 1..Attempt
    BY <1>a, <2>1 DEF Working, Shape
  <2>3. {"connected"} \in SUBSET Events /\ "connected" \in Outcomes
    BY DEF Events, Outcomes
  <2>4. /\ Len(seen') = Attempt
        /\ \A i \in 1..Attempt : i # Attempt => seen'[i] = seen[i]
        /\ seen'[Attempt] = seen[Attempt] \cup {"connected"}
    BY <1>a, <2>1, <2>2, <2>3, Seeing
  <2>5. /\ Attempt' = Attempt
        /\ \A i \in 1..Attempt : i # Attempt => attempts'[i] = attempts[i]
        /\ attempts'[Attempt].outcome = "connected" /\ attempts'[Attempt].failure = None
    BY <1>a, <2>1, <2>2, <2>3, Updating DEF Current
  <2>6. History' /\ Verdict'
    BY <2>1, <2>2, <2>4, <2>5, GoesOn
  <2>7. Shape'
    BY <1>a, <2>1, <2>2, <2>4, <2>5 DEF Shape
  <2>8. Current'
    BY <1>a, <2>1, <2>2, <2>4, <2>5 DEF Current
  <2>9. Speech'
    BY <1>a, <2>1 DEF Speech, Scripts, Complete
  <2> QED
    BY <2>6, <2>7, <2>8, <2>9
<1>3. ASSUME ConnectFails PROVE Kept
  <2>1. PICK e \in ConnectErrors :
           /\ attempts' = Updated("connect_failed", ClassifyConnect(e))
           /\ RetryOrFinish(CanRetry, ConnectFailure, ClassifyConnect(e))
    BY <1>3 DEF ConnectFails
  <2>2. PICK k \in Kinds : k = ClassifyConnect(e)
    BY KindsAreReasons
  <2>3. k \notin {"handshake_timeout", "peer_verack_timeout", "malformed_version",
                  "connection_closed"}
    BY <2>2, KindsAreReasons
  <2>4. Over(ConnectFailure, k)
    BY <2>1, <2>2, <2>3, RetryLimit
  <2>5. /\ pc = "connect" /\ Drop /\ UNCHANGED <<timeConnect, version, closed, seen, said>>
    BY <1>3 DEF ConnectFails
  <2>6. Working /\ seen[Attempt] = {} /\ Len(seen) = Attempt
    BY <1>a, <2>5 DEF Current, Working, Shape
  <2>7. Explained([outcome |-> "connect_failed", failure |-> k], seen[Attempt] \cup {})
    BY <2>3, <2>6 DEF Explained
  <2>8. "connect_failed" \in Outcomes /\ seen'[Attempt] = seen[Attempt] \cup {}
    BY <2>5 DEF Outcomes
  <2>9. \A i \in 1..Attempt : i # Attempt => seen'[i] = seen[i]
    BY <2>5
  <2>10. Len(seen') = Attempt /\ {} \cap {"connected", "version", "verack"} = {}
    BY <2>5, <2>6
  <2> QED
    BY <2>1, <2>2, <2>4, <2>5, <2>6, <2>7, <2>8, <2>9, <2>10, AttemptFails
<1>4. ASSUME SendVersion PROVE Kept
  <2>1. /\ pc = "sendVersion" /\ pc' = "awaitVersion" /\ said' = Append(said, "version")
        /\ attempts' = Updated("version_sent", None) /\ See({"sent"})
        /\ UNCHANGED <<state, failure, timeConnect, receiving, ping, version, late, closed>>
    BY <1>4 DEF SendVersion, Say
  <2>2. Working /\ Working' /\ Attempt > 0 /\ Attempt \in 1..Attempt
    BY <1>a, <2>1 DEF Working, Shape
  <2>3. {"sent"} \in SUBSET Events /\ "version_sent" \in Outcomes
    BY DEF Events, Outcomes
  <2>4. /\ Len(seen') = Attempt
        /\ \A i \in 1..Attempt : i # Attempt => seen'[i] = seen[i]
        /\ seen'[Attempt] = seen[Attempt] \cup {"sent"}
    BY <1>a, <2>1, <2>2, <2>3, Seeing
  <2>5. /\ Attempt' = Attempt
        /\ \A i \in 1..Attempt : i # Attempt => attempts'[i] = attempts[i]
        /\ attempts'[Attempt].outcome = "version_sent" /\ attempts'[Attempt].failure = None
    BY <1>a, <2>1, <2>2, <2>3, Updating DEF Current
  <2>6. History' /\ Verdict'
    BY <2>1, <2>2, <2>4, <2>5, GoesOn
  <2>7. Shape'
    BY <1>a, <2>1, <2>2, <2>4, <2>5 DEF Shape
  <2>8. Current'
    BY <1>a, <2>1, <2>2, <2>4, <2>5 DEF Current
  <2>9. said' = <<"version">>
    BY <1>a, Spoken, <2>1 DEF Speech
  <2>10. Speech'
    BY <1>a, <2>1, <2>9 DEF Speech, Scripts, Complete
  <2> QED
    BY <2>6, <2>7, <2>8, <2>10
<1>5. ASSUME Negotiate PROVE Kept
  <2>1. /\ pc = "negotiate" /\ pc' = "sendVerack"
        /\ IF version = "modern" THEN said' = Append(said, "sendaddrv2") ELSE said' = said
        /\ UNCHANGED <<state, attempts, timeConnect, receiving, ping, version, late, seen>>
    BY <1>5 DEF Negotiate, Say
  <2>2. History' /\ Verdict'
    BY <2>1, GoesOnSilently DEF Working
  <2>3. Shape' /\ Current'
    BY <1>a, <2>1 DEF Shape, Current, Working, Attempt
  <2>4. said' = IF version = "modern" THEN <<"version", "sendaddrv2">> ELSE <<"version">>
    BY <1>a, Spoken, <2>1 DEF Speech
  <2>5. Speech'
    BY <1>a, <2>1, <2>4 DEF Speech, Scripts, Complete
  <2> QED
    BY <2>2, <2>3, <2>5
<1>6. ASSUME SendVerack PROVE Kept
  <2>1. /\ pc = "sendVerack" /\ pc' = "awaitVerack" /\ said' = Append(said, "verack")
        /\ UNCHANGED <<state, attempts, timeConnect, receiving, ping, version, late, seen>>
    BY <1>6 DEF SendVerack, Say
  <2>2. History' /\ Verdict'
    BY <2>1, GoesOnSilently DEF Working
  <2>3. Shape' /\ Current'
    BY <1>a, <2>1 DEF Shape, Current, Working, Attempt
  <2>4. said' = IF version = "modern" THEN <<"version", "sendaddrv2", "verack">>
                                      ELSE <<"version", "verack">>
    BY <1>a, Spoken, <2>1 DEF Speech
  <2>5. Speech'
    BY <1>a, <2>1, <2>4 DEF Speech, Scripts, Complete
  <2> QED
    BY <2>2, <2>3, <2>5
<1>7. ASSUME SendFails PROVE Kept
  <2>1. /\ pc \in {"sendVersion", "negotiate", "sendVerack"}
        /\ See({"writeFailed"}) /\ HandshakeFails(SendFailure[pc])
    BY <1>7 DEF SendFails, SendFailure
  <2>2. PICK k \in {"version_send_failed", "negotiation_send_failed", "verack_send_failed"} :
           k = SendFailure[pc]
    BY <2>1 DEF SendFailure
  <2>3. k \in Kinds /\ k # "handshake_timeout" /\ Working /\ pc # "connect"
    BY <2>1 DEF Kinds, HandshakeKinds, Working
  <2>4. /\ {"writeFailed"} \in SUBSET Events
        /\ {"writeFailed"} \cap {"connected", "version", "verack"} = {}
    BY DEF Events
  <2>5. Explained([outcome |-> "handshake_failed", failure |-> k],
                  seen[Attempt] \cup {"writeFailed"})
    BY DEF Explained
  <2> QED
    BY <2>1, <2>2, <2>3, <2>4, <2>5, HandshakeEnds
<1>8. ASSUME LoopTop PROVE Kept
  <2>1. /\ pc \in {"awaitVersion", "awaitVerack"} /\ receiving' = TRUE
        /\ UNCHANGED <<state, attempts, timeConnect, pc, ping, version, late, said, seen>>
    BY <1>8 DEF LoopTop, Awaited
  <2>2. History' /\ Verdict'
    BY <2>1, GoesOnSilently DEF Working
  <2>3. Shape' /\ Current' /\ Speech'
    BY <1>a, <2>1 DEF Shape, Current, Working, Attempt, Speech, Scripts, Complete
  <2> QED
    BY <2>2, <2>3
<1>9. ASSUME VersionTimesOut PROVE Kept
  <2>1. /\ pc = "awaitVersion" /\ late /\ Drop
        /\ attempts' = Updated("handshake_timeout", "handshake_timeout")
        /\ RetryOrFinish(RetryOnTimeout /\ CanRetry, "HandshakeFailed", "handshake_timeout")
        /\ UNCHANGED <<timeConnect, version, closed, seen, said>>
    BY <1>9 DEF VersionTimesOut, TimesOut
  <2>2. /\ Working /\ timeConnect /\ Len(seen) = Attempt
        /\ {"sent", "late"} \subseteq seen[Attempt] /\ "version" \notin seen[Attempt]
    BY <1>a, <2>1 DEF Working, Current, Shape
  <2>3. Over("HandshakeFailed", "handshake_timeout")
    BY <1>a, <2>1 DEF RetryOrFinish, Requeue, Settle, CanRetry, Over, Shape
  <2>4. ConnectFailure = "HandshakeFailed"
    BY <2>2 DEF ConnectFailure
  <2>5. Explained([outcome |-> "handshake_timeout", failure |-> "handshake_timeout"],
                  seen[Attempt] \cup {})
    BY <2>2 DEF Explained
  <2>6. "handshake_timeout" \in Outcomes /\ "handshake_timeout" \in Kinds
    BY DEF Outcomes, Kinds, HandshakeKinds
  <2>7. /\ Len(seen') = Attempt /\ seen'[Attempt] = seen[Attempt] \cup {}
        /\ {} \cap {"connected", "version", "verack"} = {}
        /\ \A i \in 1..Attempt : i # Attempt => seen'[i] = seen[i]
    BY <2>1, <2>2
  <2> QED
    BY <2>1, <2>2, <2>3, <2>4, <2>5, <2>6, <2>7, AttemptFails
<1>10. ASSUME VerackTimesOut PROVE Kept
  <2>1. pc = "awaitVerack" /\ late /\ HandshakeFails("peer_verack_timeout") /\ UNCHANGED seen
    BY <1>10 DEF VerackTimesOut, TimesOut
  <2>2. /\ Working /\ {"version", "late"} \subseteq seen[Attempt] /\ "verack" \notin seen[Attempt]
    <3>1. Attempt \in 1..Attempt /\ state = "Processing"
      BY <1>a, <2>1 DEF Shape, Working
    <3> QED
      BY <1>a, <2>1, <3>1 DEF Working, Current, History
  <2>3. Explained([outcome |-> "handshake_failed", failure |-> "peer_verack_timeout"], seen[Attempt])
    BY <2>2 DEF Explained
  <2>4. "peer_verack_timeout" \in Kinds
    BY DEF Kinds, HandshakeKinds
  <2> QED
    BY <2>1, <2>2, <2>3, <2>4, HandshakeEndsUnseen
<1>11. ASSUME NEW body \in Versions, ReceiveVersion(body) PROVE Kept
  <2>1. /\ pc = "awaitVersion" /\ pc' = "negotiate" /\ receiving' = FALSE /\ version' = body
        /\ See({"envelope", "version"})
        /\ UNCHANGED <<state, attempts, timeConnect, ping, late, said>>
    BY <1>11 DEF ReceiveVersion
  <2>2. Working /\ Working' /\ Attempt > 0 /\ Attempt \in 1..Attempt /\ Attempt' = Attempt
    BY <1>a, <2>1 DEF Working, Shape, Attempt
  <2>3. {"envelope", "version"} \in SUBSET Events
    BY DEF Events
  <2>4. /\ Len(seen') = Attempt
        /\ \A i \in 1..Attempt : i # Attempt => seen'[i] = seen[i]
        /\ seen'[Attempt] = seen[Attempt] \cup {"envelope", "version"}
    BY <1>a, <2>1, <2>2, <2>3, Seeing
  <2>5. attempts'[Attempt].failure = None
        /\ attempts'[Attempt].outcome \in {"started", "connected", "version_sent"}
    BY <1>a, <2>1, <2>2 DEF Current
  <2>6. History' /\ Verdict'
    BY <2>1, <2>2, <2>4, <2>5, GoesOn
  <2>7. Shape'
    BY <1>a, <2>1, <2>2, <2>4 DEF Shape
  <2>8. Current'
    BY <1>a, <2>1, <2>2, <2>4, <2>5 DEF Current
  <2>9. Speech'
    BY <1>a, <1>c, <2>1 DEF Speech, Scripts, Complete
  <2> QED
    BY <2>6, <2>7, <2>8, <2>9
<1>12. ASSUME ReceiveMalformed PROVE Kept
  <2>1. /\ pc = "awaitVersion" /\ See({"envelope", "malformed"})
        /\ HandshakeFails("malformed_version")
    BY <1>12 DEF ReceiveMalformed
  <2>2. Working /\ "version" \notin seen[Attempt]
    BY <1>a, <2>1 DEF Working, Current
  <2>3. {"envelope", "malformed"} \in SUBSET Events
        /\ {"envelope", "malformed"} \cap {"connected", "version", "verack"} = {}
    BY DEF Events
  <2>4. Explained([outcome |-> "handshake_failed", failure |-> "malformed_version"],
                  seen[Attempt] \cup {"envelope", "malformed"})
    BY <2>2 DEF Explained
  <2>5. "malformed_version" \in Kinds
    BY DEF Kinds, HandshakeKinds
  <2> QED
    BY <2>1, <2>2, <2>3, <2>4, <2>5, HandshakeEnds
<1>13. ASSUME ReceiveVerack PROVE Kept
  <2>1. /\ pc = "awaitVerack" /\ pc' = "settled" /\ state' = "Reachable" /\ Drop
        /\ attempts' = Updated("handshake_complete", None) /\ See({"envelope", "verack"})
        /\ UNCHANGED <<timeConnect, version, said>>
    BY <1>13 DEF ReceiveVerack, Settle
  <2>2. Working /\ Attempt > 0 /\ Attempt \in 1..Attempt
    BY <1>a, <2>1 DEF Working, Shape
  <2>3. {"envelope", "verack"} \in SUBSET Events /\ "handshake_complete" \in Outcomes
    BY DEF Events, Outcomes
  <2>4. /\ Len(seen') = Attempt
        /\ \A i \in 1..Attempt : i # Attempt => seen'[i] = seen[i]
        /\ seen'[Attempt] = seen[Attempt] \cup {"envelope", "verack"}
    BY <1>a, <2>1, <2>2, <2>3, Seeing
  <2>5. /\ Attempt' = Attempt
        /\ \A i \in 1..Attempt : i # Attempt => attempts'[i] = attempts[i]
        /\ attempts'[Attempt].outcome = "handshake_complete"
        /\ attempts'[Attempt].failure = None
    BY <1>a, <2>1, <2>2, <2>3, Updating DEF Current
  <2>6. /\ {"sent", "version"} \subseteq seen[Attempt] /\ "connected" \in seen[Attempt]
        /\ timeConnect
    BY <1>a, <2>1, <2>2 DEF Current
  <2>7. Shape'
    BY <1>a, <2>1, <2>2, <2>4, <2>5 DEF Shape, Terminal, Working, Drop
  <2>8. Current' /\ Speech'
    BY <1>a, <2>1 DEF Current, Working, Speech, Scripts, Complete
  <2>9. History'
    <3>1. Explained(attempts'[Attempt], seen'[Attempt])
      BY <2>4, <2>5, <2>6 DEF Explained, None
    <3>2. \A i \in 1..Attempt' : Explained(attempts'[i], seen'[i])
      BY <1>a, <2>4, <2>5, <3>1 DEF History
    <3>3. \A i \in 1..Attempt' : i < Attempt' => Retried(attempts'[i])
      BY <1>a, <2>5 DEF History
    <3> QED
      BY <1>a, <2>1, <2>2, <2>4, <2>5, <2>6, <3>2, <3>3 DEF History
  <2>10. Verdict'
    BY <2>1, <2>4, <2>5, <2>6 DEF Verdict
  <2> QED
    BY <2>7, <2>8, <2>9, <2>10
<1>14. ASSUME NEW e \in Envelope, ReceiveOther(e) PROVE Kept
  <2>1. /\ pc \in {"awaitVersion", "awaitVerack"} /\ receiving' = FALSE
        /\ ping' = IF e.command = "ping" /\ pc = "awaitVerack" THEN e.body ELSE None
        /\ See({"envelope"})
        /\ UNCHANGED <<state, attempts, timeConnect, pc, version, late, said>>
    BY <1>14 DEF ReceiveOther, Awaited, Answered
  <2>2. Working /\ Working' /\ Attempt > 0 /\ Attempt \in 1..Attempt /\ Attempt' = Attempt
    BY <1>a, <2>1 DEF Working, Shape, Attempt
  <2>3. {"envelope"} \in SUBSET Events
    BY DEF Events
  <2>4. /\ Len(seen') = Attempt
        /\ \A i \in 1..Attempt : i # Attempt => seen'[i] = seen[i]
        /\ seen'[Attempt] = seen[Attempt] \cup {"envelope"}
    BY <1>a, <2>1, <2>2, <2>3, Seeing
  <2>5. attempts'[Attempt].failure = None
        /\ attempts'[Attempt].outcome \in {"started", "connected", "version_sent"}
    BY <1>a, <2>1, <2>2 DEF Current
  <2>6. History' /\ Verdict'
    BY <2>1, <2>2, <2>4, <2>5, GoesOn
  <2>7. Shape'
    BY <1>a, <2>1, <2>2, <2>4 DEF Shape
  <2>8. Current'
    BY <1>a, <2>1, <2>2, <2>4, <2>5 DEF Current
  <2>9. Speech'
    BY <1>a, <2>1 DEF Speech, Scripts, Complete
  <2> QED
    BY <2>6, <2>7, <2>8, <2>9
<1>15. ASSUME ReceiveNothing PROVE Kept
  <2>1. /\ pc \in {"awaitVersion", "awaitVerack"} /\ receiving' = FALSE
        /\ UNCHANGED <<state, attempts, timeConnect, pc, ping, version, late, said, seen>>
    BY <1>15 DEF ReceiveNothing, Awaited
  <2>2. History' /\ Verdict'
    BY <2>1, GoesOnSilently DEF Working
  <2>3. Shape' /\ Current' /\ Speech'
    BY <1>a, <2>1 DEF Shape, Current, Working, Attempt, Speech, Scripts, Complete
  <2> QED
    BY <2>2, <2>3
<1>16. ASSUME ReceiveFails PROVE Kept
  <2>1. PICK error \in HandshakeErrors :
           See(EventOf(error)) /\ HandshakeFails(ClassifyHandshake(error))
    BY <1>16 DEF ReceiveFails
  <2>2. pc \in {"awaitVersion", "awaitVerack"} /\ Working
    BY <1>16 DEF ReceiveFails, Awaited, Working
  <2>3. PICK k \in Kinds : k = ClassifyHandshake(error)
    BY KindsAreReasons
  <2>4. k \in {"protocol_desync", "connection_closed", "handshake_other"}
    BY <2>3, KindsAreReasons
  <2>5. PICK events \in SUBSET Events : events = EventOf(error)
    BY DEF EventOf, Events
  <2>6. events \cap {"connected", "version", "verack"} = {}
    BY <2>5 DEF EventOf
  <2>7. k = "connection_closed" => "gone" \in events
    BY <2>3, <2>5 DEF EventOf, ClassifyHandshake, HandshakeErrors
  <2>8. Explained([outcome |-> "handshake_failed", failure |-> k], seen[Attempt] \cup events)
    BY <2>4, <2>7 DEF Explained
  <2>9. See(events) /\ HandshakeFails(k) /\ pc # "connect" /\ k # "handshake_timeout"
    BY <2>1, <2>2, <2>3, <2>4, <2>5
  <2> QED
    BY <2>2, <2>6, <2>8, <2>9, HandshakeEnds
<1>17. ASSUME IgnorePing PROVE Kept
  <2>1. /\ ping # None /\ ping' = None
        /\ UNCHANGED <<state, attempts, timeConnect, pc, receiving, version, late, said, seen>>
    BY <1>17 DEF IgnorePing
  <2>2. pc = "awaitVerack"
    BY <1>a, <2>1 DEF Shape
  <2>3. History' /\ Verdict'
    BY <2>1, <2>2, GoesOnSilently DEF Working
  <2>4. Shape' /\ Current' /\ Speech'
    BY <1>a, <2>1, <2>2 DEF Shape, Current, Working, Attempt, Speech, Scripts, Complete
  <2> QED
    BY <2>3, <2>4
<1>18. ASSUME SendPong PROVE Kept
  <2>1. /\ ping # None /\ ping' = None
        /\ version # "legacy"
        /\ IF "pong" \in Range(said) THEN said' = said ELSE said' = Append(said, "pong")
        /\ UNCHANGED <<state, attempts, timeConnect, pc, receiving, version, late, seen>>
    BY <1>18 DEF SendPong, Say
  <2>2. pc = "awaitVerack"
    BY <1>a, <2>1 DEF Shape
  <2>3. History' /\ Verdict'
    BY <2>1, <2>2, GoesOnSilently DEF Working
  <2>4. Shape' /\ Current'
    BY <1>a, <2>1, <2>2 DEF Shape, Current, Working, Attempt
  <2>5. "pong" \in Range(<<"version", "sendaddrv2", "verack", "pong">>)
        /\ "pong" \in Range(<<"version", "verack", "pong">>)
    BY DEF Range
  <2>6. CASE version = "modern"
    <3>0. said \in {<<"version", "sendaddrv2", "verack">>,
                     <<"version", "sendaddrv2", "verack", "pong">>}
      BY <1>a, <2>2, <2>6 DEF Speech, Complete
    <3>1. said' \in {<<"version", "sendaddrv2", "verack">>,
                     <<"version", "sendaddrv2", "verack", "pong">>}
      BY Spoken, <2>1, <2>5, <3>0 DEF Modern, Plain
    <3>2. version' # None /\ version' = version /\ pc' = "awaitVerack"
      BY <1>a, <2>1, <2>2 DEF Speech
    <3>3. said' \in Scripts'
      BY <2>6, <3>1, <3>2 DEF Scripts
    <3>4. pc' \notin {"connect", "sendVersion", "awaitVersion", "negotiate", "sendVerack"}
      BY <3>2
    <3>5. said' \in Complete'
      BY <2>6, <3>1, <3>2 DEF Complete
    <3> QED
      BY <2>3, <2>4, <3>2, <3>3, <3>4, <3>5, SpeechAtVerack
  <2>7. CASE version # "modern"
    <3>0. said \in {<<"version", "verack">>, <<"version", "verack", "pong">>}
      BY <1>a, <2>2, <2>7 DEF Speech, Complete
    <3>1. said' \in {<<"version", "verack">>, <<"version", "verack", "pong">>}
      BY Spoken, <2>1, <2>5, <3>0 DEF Modern, Plain
    <3>2. version' # None /\ version' = version /\ pc' = "awaitVerack"
      BY <1>a, <2>1, <2>2 DEF Speech
    <3>3. said' \in Scripts'
      BY <2>1, <2>7, <3>1, <3>2 DEF Scripts
    <3>4. pc' \notin {"connect", "sendVersion", "awaitVersion", "negotiate", "sendVerack"}
      BY <3>2
    <3>5. said' \in Complete'
      BY <2>7, <3>1, <3>2 DEF Complete
    <3> QED
      BY <2>3, <2>4, <3>2, <3>3, <3>4, <3>5, SpeechAtVerack
  <2> QED
    BY <2>3, <2>4, <2>6, <2>7
<1>19. ASSUME RejectPing PROVE Kept
  <2>1. ping # None /\ HandshakeFails(ClassifyHandshake("InvalidData")) /\ UNCHANGED seen
    BY <1>19 DEF RejectPing
  <2>2. pc = "awaitVerack" /\ Working
    BY <1>a, <2>1 DEF Shape, Working
  <2>3. ClassifyHandshake("InvalidData") = "protocol_desync"
    BY DEF ClassifyHandshake
  <2>4. "protocol_desync" \in Kinds
    BY <2>3 DEF Kinds, HandshakeKinds, HandshakeErrors
  <2>5. Explained([outcome |-> "handshake_failed", failure |-> "protocol_desync"], seen[Attempt])
    BY DEF Explained
  <2> QED
    BY <2>1, <2>2, <2>3, <2>4, <2>5, HandshakeEndsUnseen
<1>20. ASSUME PongFails PROVE Kept
  <2>1. PICK error \in WriteErrors :
           See(EventOf(error)) /\ HandshakeFails(ClassifyHandshake(error))
    BY <1>20 DEF PongFails
  <2>2. pc = "awaitVerack" /\ Working
    BY <1>20, <1>a DEF PongFails, Shape, Working
  <2>3. error \in HandshakeErrors
    BY DEF WriteErrors, HandshakeErrors
  <2>4. PICK k \in Kinds : k = ClassifyHandshake(error)
    BY <2>3, KindsAreReasons
  <2>5. k \in {"protocol_desync", "connection_closed", "handshake_other"}
    BY <2>3, <2>4, KindsAreReasons
  <2>6. PICK events \in SUBSET Events : events = EventOf(error)
    BY DEF EventOf, Events
  <2>7. events \cap {"connected", "version", "verack"} = {}
    BY <2>6 DEF EventOf
  <2>8. k = "connection_closed" => "gone" \in events
    BY <2>4, <2>6 DEF EventOf, ClassifyHandshake, WriteErrors
  <2>9. Explained([outcome |-> "handshake_failed", failure |-> k], seen[Attempt] \cup events)
    BY <2>5, <2>8 DEF Explained
  <2>10. See(events) /\ HandshakeFails(k) /\ pc # "connect" /\ k # "handshake_timeout"
    BY <2>1, <2>2, <2>4, <2>5, <2>6
  <2> QED
    BY <2>2, <2>7, <2>9, <2>10, HandshakeEnds
<1>21. ASSUME DeadlinePasses PROVE Kept
  <2>1. /\ pc \notin {"queued", "connect", "settled"} /\ See({"late"})
        /\ UNCHANGED <<state, attempts, timeConnect, pc, receiving, ping, version, said>>
    BY <1>21 DEF DeadlinePasses
  <2>2. Working /\ Working' /\ Attempt > 0 /\ Attempt \in 1..Attempt /\ Attempt' = Attempt
    BY <1>a, <2>1 DEF Working, Shape, Attempt
  <2>3. {"late"} \in SUBSET Events
    BY DEF Events
  <2>4. /\ Len(seen') = Attempt
        /\ \A i \in 1..Attempt : i # Attempt => seen'[i] = seen[i]
        /\ seen'[Attempt] = seen[Attempt] \cup {"late"}
    BY <1>a, <2>1, <2>2, <2>3, Seeing
  <2>5. attempts'[Attempt].failure = None
        /\ attempts'[Attempt].outcome \in {"started", "connected", "version_sent"}
    BY <1>a, <2>1, <2>2 DEF Current
  <2>6. History' /\ Verdict'
    BY <2>1, <2>2, <2>4, <2>5, GoesOn, ZenonT(60)
  <2>7. Shape'
    BY <1>a, <2>1, <2>2, <2>4 DEF Shape
  <2>8. Current'
    BY <1>a, <2>1, <2>2, <2>4, <2>5 DEF Current
  <2>9. Speech'
    BY <1>a, <2>1 DEF Speech, Scripts, Complete
  <2> QED
    BY <2>6, <2>7, <2>8, <2>9
<1>22. ASSUME QueuesClose PROVE Kept
  <2>1. closed' = TRUE
        /\ UNCHANGED <<state, failure, attempts, timeConnect, pc, receiving, ping, version, late,
                       seen, said>>
    BY <1>22 DEF QueuesClose
  <2>2. Shape' /\ Current' /\ Speech'
    BY <1>a, <2>1 DEF Shape, Current, Working, Attempt, Speech, Scripts, Complete
  <2>3. History' /\ Verdict'
    BY <1>a, <2>1 DEF History, Verdict, Attempt
  <2> QED
    BY <2>2, <2>3
<1>23. ASSUME Done PROVE Kept
  <2>1. UNCHANGED <<state, failure, attempts, timeConnect, pc, receiving, ping, version, late,
                    closed, seen, said>>
    BY <1>23 DEF Done
  <2> QED
    BY <1>a, <2>1 DEF Shape, Current, Working, Attempt, Speech, Scripts, Complete, History, Verdict
<1> QED
  BY <1>1, <1>2, <1>3, <1>4, <1>5, <1>6, <1>7, <1>8, <1>9, <1>10, <1>11, <1>12, <1>13, <1>14,
     <1>15, <1>16, <1>17, <1>18, <1>19, <1>20, <1>21, <1>22, <1>23
  DEF Next, Step, Prompt, Pong, Receive

-----------------------------------------------------------------------------
(* Types *)

(* The end of an attempt keeps the types. *)
LEMMA EndTypes ==
    ASSUME IInv, Working, NEW o \in Outcomes, NEW k \in Kinds, NEW t \in Terminal, NEW retry,
           attempts' = Updated(o, k), RetryOrFinish(retry, t, k), Drop,
           UNCHANGED <<timeConnect, firstSend, version, late, closed, said>>,
           seen' \in Seq(SUBSET Events)
    PROVE  TypeOK'
<1>1. TypeOK /\ Attempt > 0
  BY DEF IInv, Shape
<1>2. attempts' \in Seq([outcome : Outcomes, failure : Kinds \cup {None}])
  BY <1>1, Updating DEF Entry
<1>3. state' \in {"Queued", "Processing"} \cup Terminal /\ failure' \in Kinds \cup {None}
      /\ pc' \in Labels
  BY <1>1 DEF RetryOrFinish, Requeue, Settle, TypeOK, Labels
<1>4. receiving' \in BOOLEAN /\ ping' \in Pings \cup {None}
  BY DEF Drop
<1> QED
  BY <1>1, <1>2, <1>3, <1>4 DEF TypeOK

(* A failed handshake keeps the types. *)
LEMMA FailTypes ==
    ASSUME IInv, Working, NEW k \in Kinds, HandshakeFails(k), seen' \in Seq(SUBSET Events)
    PROVE  TypeOK'
<1>1. "handshake_failed" \in Outcomes /\ "HandshakeFailed" \in Terminal
  BY DEF Outcomes, Terminal
<1>2. /\ attempts' = Updated("handshake_failed", k)
      /\ RetryOrFinish(CanRetry, "HandshakeFailed", k) /\ Drop
      /\ UNCHANGED <<timeConnect, firstSend, version, late, closed, said>>
  BY DEF HandshakeFails
<1> QED
  BY <1>1, <1>2, EndTypes

(* A message adds a word. *)
LEMMA SayTypes ==
    ASSUME TypeOK, NEW x \in {"version", "sendaddrv2", "verack", "pong"}, Say(x)
    PROVE  said' \in Seq({"version", "sendaddrv2", "verack", "pong"})
BY AppendProperties DEF TypeOK, Say

(* Each action keeps the types. *)
LEMMA TypeStep == ASSUME IInv, Next PROVE TypeOK'
<1> USE DEF entryVars, vars
<1>a. /\ TypeOK /\ Shape /\ attempts \in Seq(Entry) /\ seen \in Seq(SUBSET Events)
      /\ Attempt \in Nat /\ MaxAttempts \in Nat
  BY Types, SessionAssumption DEF IInv
<1>b. Working => Attempt > 0 /\ Attempt <= MaxAttempts
  BY <1>a DEF Shape
<1>c. ASSUME NEW events \in SUBSET Events, Working, See(events)
      PROVE  seen' \in Seq(SUBSET Events)
  BY <1>a, <1>b, <1>c, Seeing
<1>d. ASSUME NEW o \in Outcomes, NEW k \in Kinds \cup {None}, Working, attempts' = Updated(o, k)
      PROVE  attempts' \in Seq([outcome : Outcomes, failure : Kinds \cup {None}])
  BY <1>a, <1>b, <1>d, Updating DEF Entry
<1>e. \A e \in Events : {e} \in SUBSET Events
  OBVIOUS
<1>1. ASSUME Begin PROVE TypeOK'
  <2>1. /\ state' = "Processing" /\ pc' = "connect" /\ version' = None /\ late' = FALSE
        /\ attempts' = Append(attempts, [outcome |-> "started", failure |-> None])
        /\ seen' = Append(seen, {}) /\ said' = <<>>
        /\ UNCHANGED <<failure, timeConnect, firstSend, receiving, ping, closed>>
    BY <1>1 DEF Begin
  <2>2. [outcome |-> "started", failure |-> None] \in Entry
    BY DEF Entry, Outcomes
  <2>3. attempts' \in Seq([outcome : Outcomes, failure : Kinds \cup {None}])
    BY <1>a, <2>1, <2>2, AppendProperties DEF Entry
  <2>4. seen' \in Seq(SUBSET Events)
    BY <1>a, <2>1, AppendProperties
  <2>5. said' \in Seq({"version", "sendaddrv2", "verack", "pong"})
    BY <2>1
  <2> QED
    BY <1>a, <2>1, <2>3, <2>4, <2>5 DEF TypeOK, Labels
<1>2. ASSUME Connect PROVE TypeOK'
  <2>1. /\ pc = "connect" /\ pc' = "sendVersion" /\ timeConnect' = TRUE /\ late' = FALSE
        /\ attempts' = Updated("connected", None) /\ See({"connected"})
        /\ UNCHANGED <<state, failure, firstSend, receiving, ping, version, closed, said>>
    BY <1>2 DEF Connect
  <2>2. Working /\ "connected" \in Outcomes /\ "connected" \in Events
    BY <2>1 DEF Working, Outcomes, Events
  <2>3. seen' \in Seq(SUBSET Events)
    BY <1>c, <1>e, <2>1, <2>2
  <2>4. attempts' \in Seq([outcome : Outcomes, failure : Kinds \cup {None}])
    BY <1>d, <2>1, <2>2
  <2> QED
    BY <1>a, <2>1, <2>3, <2>4 DEF TypeOK, Labels
<1>3. ASSUME ConnectFails PROVE TypeOK'
  <2>1. PICK error \in ConnectErrors :
           /\ attempts' = Updated("connect_failed", ClassifyConnect(error))
           /\ RetryOrFinish(CanRetry, ConnectFailure, ClassifyConnect(error))
    BY <1>3 DEF ConnectFails
  <2>2. /\ pc = "connect" /\ Drop
        /\ UNCHANGED <<timeConnect, firstSend, version, late, closed, seen, said>>
    BY <1>3 DEF ConnectFails
  <2>3. ClassifyConnect(error) \in Kinds
    BY KindsAreReasons
  <2>4. Working /\ "connect_failed" \in Outcomes /\ ConnectFailure \in Terminal
    BY <2>2 DEF Working, Outcomes, Terminal, ConnectFailure
  <2>5. seen' \in Seq(SUBSET Events)
    BY <1>a, <2>2
  <2> QED
    BY <2>1, <2>2, <2>3, <2>4, <2>5, EndTypes
<1>4. ASSUME SendVersion PROVE TypeOK'
  <2>1. /\ pc = "sendVersion" /\ pc' = "awaitVersion" /\ Say("version")
        /\ firstSend' = IF firstSend = 0 THEN Attempt ELSE firstSend
        /\ attempts' = Updated("version_sent", None) /\ See({"sent"})
        /\ UNCHANGED <<state, failure, timeConnect, receiving, ping, version, late, closed>>
    BY <1>4 DEF SendVersion
  <2>2. Working /\ "version_sent" \in Outcomes /\ "sent" \in Events
    BY <2>1 DEF Working, Outcomes, Events
  <2>3. seen' \in Seq(SUBSET Events)
    BY <1>c, <1>e, <2>1, <2>2
  <2>4. attempts' \in Seq([outcome : Outcomes, failure : Kinds \cup {None}])
    BY <1>d, <2>1, <2>2
  <2>5. said' \in Seq({"version", "sendaddrv2", "verack", "pong"})
    BY <1>a, <2>1, SayTypes
  <2>6. firstSend' \in 0..MaxAttempts
    BY <1>a, <1>b, <2>1, <2>2 DEF TypeOK
  <2> QED
    BY <1>a, <2>1, <2>3, <2>4, <2>5, <2>6 DEF TypeOK, Labels
<1>5. ASSUME Negotiate PROVE TypeOK'
  <2>1. said' \in Seq({"version", "sendaddrv2", "verack", "pong"})
    BY <1>5, <1>a, SayTypes DEF Negotiate, TypeOK
  <2> QED
    BY <1>5, <1>a, <2>1 DEF Negotiate, TypeOK, Labels
<1>6. ASSUME SendVerack PROVE TypeOK'
  <2>1. said' \in Seq({"version", "sendaddrv2", "verack", "pong"})
    BY <1>6, <1>a, SayTypes DEF SendVerack
  <2> QED
    BY <1>6, <1>a, <2>1 DEF SendVerack, TypeOK, Labels
<1>7. ASSUME SendFails PROVE TypeOK'
  <2>1. pc \in DOMAIN SendFailure /\ See({"writeFailed"}) /\ HandshakeFails(SendFailure[pc])
    BY <1>7 DEF SendFails
  <2>2. pc \in {"sendVersion", "negotiate", "sendVerack"}
    BY <2>1 DEF SendFailure
  <2>3. SendFailure[pc] \in {"version_send_failed", "negotiation_send_failed",
                             "verack_send_failed"}
    BY <2>2 DEF SendFailure
  <2>4. Working /\ "writeFailed" \in Events /\ SendFailure[pc] \in Kinds
    BY <2>2, <2>3 DEF Working, Events, Kinds, HandshakeKinds
  <2> QED
    BY <1>c, <1>e, <2>1, <2>4, FailTypes
<1>8. ASSUME LoopTop \/ ReceiveNothing \/ IgnorePing PROVE TypeOK'
  <2>1. CASE LoopTop
    BY <1>a, <2>1 DEF LoopTop, TypeOK
  <2>2. CASE ReceiveNothing
    BY <1>a, <2>2 DEF ReceiveNothing, TypeOK
  <2>3. CASE IgnorePing
    BY <1>a, <2>3 DEF IgnorePing, TypeOK
  <2> QED
    BY <1>8, <2>1, <2>2, <2>3
<1>9. ASSUME VersionTimesOut PROVE TypeOK'
  <2>1. /\ pc = "awaitVersion" /\ Drop
        /\ attempts' = Updated("handshake_timeout", "handshake_timeout")
        /\ RetryOrFinish(RetryOnTimeout /\ CanRetry, "HandshakeFailed", "handshake_timeout")
        /\ UNCHANGED <<timeConnect, firstSend, version, late, closed, seen, said>>
    BY <1>9 DEF VersionTimesOut
  <2>2. Working /\ "handshake_timeout" \in Outcomes /\ "HandshakeFailed" \in Terminal
        /\ "handshake_timeout" \in Kinds
    BY <2>1 DEF Working, Outcomes, Terminal, Kinds, HandshakeKinds
  <2>3. seen' \in Seq(SUBSET Events)
    BY <1>a, <2>1
  <2> QED
    BY <2>1, <2>2, <2>3, EndTypes
<1>10. ASSUME VerackTimesOut PROVE TypeOK'
  <2>1. pc = "awaitVerack" /\ HandshakeFails("peer_verack_timeout") /\ UNCHANGED seen
    BY <1>10 DEF VerackTimesOut
  <2>2. Working /\ "peer_verack_timeout" \in Kinds /\ seen' \in Seq(SUBSET Events)
    BY <1>a, <2>1 DEF Working, Kinds, HandshakeKinds
  <2> QED
    BY <2>1, <2>2, FailTypes
<1>11. ASSUME NEW body \in Versions, ReceiveVersion(body) PROVE TypeOK'
  <2>1. /\ pc = "awaitVersion" /\ pc' = "negotiate" /\ receiving' = FALSE /\ version' = body
        /\ See({"envelope", "version"})
        /\ UNCHANGED <<state, failure, timeConnect, firstSend, attempts, ping, late, closed, said>>
    BY <1>11 DEF ReceiveVersion
  <2>2. Working /\ {"envelope", "version"} \in SUBSET Events
    BY <2>1 DEF Working, Events
  <2>3. seen' \in Seq(SUBSET Events)
    BY <1>c, <2>1, <2>2
  <2> QED
    BY <1>a, <2>1, <2>3 DEF TypeOK, Labels
<1>12. ASSUME ReceiveMalformed PROVE TypeOK'
  <2>1. /\ pc = "awaitVersion" /\ See({"envelope", "malformed"})
        /\ HandshakeFails("malformed_version")
    BY <1>12 DEF ReceiveMalformed
  <2>2. Working /\ {"envelope", "malformed"} \in SUBSET Events /\ "malformed_version" \in Kinds
    BY <2>1 DEF Working, Events, Kinds, HandshakeKinds
  <2> QED
    BY <1>c, <2>1, <2>2, FailTypes
<1>13. ASSUME ReceiveVerack PROVE TypeOK'
  <2>1. /\ pc = "awaitVerack" /\ attempts' = Updated("handshake_complete", None)
        /\ See({"envelope", "verack"}) /\ state' = "Reachable" /\ failure' = None
        /\ pc' = "settled" /\ receiving' = FALSE /\ ping' = None
        /\ UNCHANGED <<timeConnect, firstSend, version, late, closed, said>>
    BY <1>13 DEF ReceiveVerack, Settle, Drop
  <2>2. Working /\ "handshake_complete" \in Outcomes
        /\ {"envelope", "verack"} \in SUBSET Events
    BY <2>1 DEF Working, Outcomes, Events
  <2>3. seen' \in Seq(SUBSET Events)
    BY <1>c, <2>1, <2>2
  <2>4. attempts' \in Seq([outcome : Outcomes, failure : Kinds \cup {None}])
    BY <1>d, <2>1, <2>2
  <2> QED
    BY <1>a, <2>1, <2>3, <2>4 DEF TypeOK, Labels, Terminal
<1>14. ASSUME NEW e \in Envelope, ReceiveOther(e) PROVE TypeOK'
  <2>1. /\ pc \in DOMAIN Awaited /\ receiving' = FALSE
        /\ ping' = IF Answered(e) THEN e.body ELSE None
        /\ See({"envelope"})
        /\ UNCHANGED <<state, failure, timeConnect, firstSend, attempts, pc, version, late,
                       closed, said>>
    BY <1>14 DEF ReceiveOther
  <2>2. Working /\ "envelope" \in Events
    BY <2>1 DEF Working, Awaited, Events
  <2>3. seen' \in Seq(SUBSET Events)
    BY <1>c, <1>e, <2>1, <2>2
  <2>4. ping' \in Pings \cup {None}
    BY <1>14, <2>1 DEF Answered, Envelope
  <2> QED
    BY <1>a, <2>1, <2>3, <2>4 DEF TypeOK
<1>15. ASSUME ReceiveFails PROVE TypeOK'
  <2>1. PICK error \in HandshakeErrors :
           See(EventOf(error)) /\ HandshakeFails(ClassifyHandshake(error))
    BY <1>15 DEF ReceiveFails
  <2>2. pc \in DOMAIN Awaited
    BY <1>15 DEF ReceiveFails
  <2>3. Working /\ EventOf(error) \in SUBSET Events /\ ClassifyHandshake(error) \in Kinds
    BY <2>2, KindsAreReasons DEF Working, Awaited, EventOf, Events
  <2> QED
    BY <1>c, <2>1, <2>3, FailTypes
<1>16. ASSUME SendPong PROVE TypeOK'
  <2>1. said' \in Seq({"version", "sendaddrv2", "verack", "pong"})
    BY <1>16, <1>a, SayTypes DEF SendPong, TypeOK
  <2> QED
    BY <1>16, <1>a, <2>1 DEF SendPong, TypeOK
<1>17. ASSUME RejectPing \/ PongFails PROVE TypeOK'
  <2>1. ping # None /\ Working
    BY <1>17, <1>a DEF RejectPing, PongFails, Shape, Working
  <2>2. \A error \in HandshakeErrors : ClassifyHandshake(error) \in Kinds
    BY KindsAreReasons
  <2>3. "InvalidData" \in HandshakeErrors /\ WriteErrors \subseteq HandshakeErrors
    BY DEF HandshakeErrors, WriteErrors
  <2>4. CASE RejectPing
    <3>1. HandshakeFails(ClassifyHandshake("InvalidData")) /\ seen' \in Seq(SUBSET Events)
      BY <1>a, <2>4 DEF RejectPing
    <3> QED
      BY <2>1, <2>2, <2>3, <3>1, FailTypes
  <2>5. CASE PongFails
    <3>1. PICK error \in WriteErrors :
             See(EventOf(error)) /\ HandshakeFails(ClassifyHandshake(error))
      BY <2>5 DEF PongFails
    <3>2. EventOf(error) \in SUBSET Events /\ ClassifyHandshake(error) \in Kinds
      BY <2>2, <2>3 DEF EventOf, Events
    <3> QED
      BY <1>c, <2>1, <3>1, <3>2, FailTypes
  <2> QED
    BY <1>17, <2>4, <2>5
<1>18. ASSUME DeadlinePasses PROVE TypeOK'
  <2>1. /\ pc \notin {"queued", "connect", "settled"} /\ late' = TRUE /\ See({"late"})
        /\ UNCHANGED <<state, failure, timeConnect, firstSend, attempts, pc, receiving, ping,
                       version, closed, said>>
    BY <1>18 DEF DeadlinePasses
  <2>2. seen' \in Seq(SUBSET Events)
    <3>1. Working /\ "late" \in Events
      BY <2>1 DEF Working, Events
    <3> QED
      BY <1>c, <1>e, <2>1, <3>1
  <2> QED
    BY <1>a, <2>1, <2>2 DEF TypeOK
<1>19. ASSUME QueuesClose \/ Done PROVE TypeOK'
  BY <1>19, <1>a DEF QueuesClose, Done, TypeOK
<1> QED
  BY <1>1, <1>2, <1>3, <1>4, <1>5, <1>6, <1>7, <1>8, <1>9, <1>10, <1>11, <1>12, <1>13, <1>14,
     <1>15, <1>16, <1>17, <1>18, <1>19 DEF Next, Step, Prompt, Pong, Receive

-----------------------------------------------------------------------------
(* The version sent first *)

(* A step that sends no version leaves the first one. *)
LEMMA FirstKept ==
    ASSUME IInv, Working, firstSend' = firstSend,
           \/ attempts' = attempts
           \/ \E o \in Outcomes, k \in Kinds \cup {None} : attempts' = Updated(o, k),
           \/ seen' = seen
           \/ \E events \in SUBSET Events : "sent" \notin events /\ See(events)
    PROVE  FirstSend'
<1>1. TypeOK /\ Shape /\ FirstSend /\ Attempt > 0 /\ Attempt \in Nat
  BY Types DEF IInv, Shape
<1>2. Attempt' = Attempt
  <2>1. CASE attempts' = attempts
    BY <2>1 DEF Attempt
  <2>2. CASE \E o \in Outcomes, k \in Kinds \cup {None} : attempts' = Updated(o, k)
    BY <1>1, <2>2, Updating
  <2> QED
    BY <2>1, <2>2
<1>3. \A i \in 1..Attempt : "sent" \in seen'[i] <=> "sent" \in seen[i]
  <2>1. CASE seen' = seen
    BY <2>1
  <2>2. ASSUME NEW events \in SUBSET Events, "sent" \notin events, See(events)
        PROVE  \A i \in 1..Attempt : "sent" \in seen'[i] <=> "sent" \in seen[i]
    <3>1. /\ \A i \in 1..Attempt : i # Attempt => seen'[i] = seen[i]
          /\ seen'[Attempt] = seen[Attempt] \cup events
      BY <1>1, <2>2, Seeing
    <3> QED
      BY <2>2, <3>1
  <2> QED
    BY <2>1, <2>2
<1> QED
  BY <1>1, <1>2, <1>3 DEF FirstSend

(* A failed handshake leaves it. *)
LEMMA FirstKeptByFailure ==
    ASSUME IInv, Working, NEW k \in Kinds, HandshakeFails(k),
           \/ seen' = seen
           \/ \E events \in SUBSET Events : "sent" \notin events /\ See(events)
    PROVE  FirstSend'
<1>1. "handshake_failed" \in Outcomes
  BY DEF Outcomes
<1>2. attempts' = Updated("handshake_failed", k) /\ firstSend' = firstSend
  BY DEF HandshakeFails
<1> QED
  BY <1>1, <1>2, FirstKept

(* Each action keeps it. *)
LEMMA FirstStep == ASSUME IInv, Next PROVE FirstSend'
<1> USE DEF entryVars
<1>a. /\ TypeOK /\ Shape /\ FirstSend /\ attempts \in Seq(Entry) /\ seen \in Seq(SUBSET Events)
      /\ Attempt \in Nat /\ Len(seen) = Attempt
  BY Types DEF IInv, Shape
<1>b. \A e \in Events : {e} \in SUBSET Events
  OBVIOUS
<1>1. ASSUME Begin PROVE FirstSend'
  <2>1. /\ attempts' = Append(attempts, [outcome |-> "started", failure |-> None])
        /\ seen' = Append(seen, {}) /\ firstSend' = firstSend
    BY <1>1 DEF Begin
  <2>2. [outcome |-> "started", failure |-> None] \in Entry /\ {} \in SUBSET Events
    BY DEF Entry, Outcomes
  <2>3. Attempt' = Attempt + 1
    BY <1>a, <2>1, <2>2, AppendProperties DEF Attempt
  <2>4. (\A i \in 1..Attempt : seen'[i] = seen[i]) /\ seen'[Attempt + 1] = {}
    BY <1>a, <2>1, <2>2, AppendProperties
  <2>5. \A i \in 1..Attempt + 1 : i \in 1..Attempt \/ i = Attempt + 1
    BY <1>a
  <2>6. 1..Attempt \subseteq 1..Attempt + 1
    BY <1>a
  <2> QED
    BY <1>a, <2>1, <2>3, <2>4, <2>5, <2>6 DEF FirstSend
<1>2. ASSUME Connect PROVE FirstSend'
  <2>1. /\ pc = "connect" /\ attempts' = Updated("connected", None) /\ See({"connected"})
        /\ firstSend' = firstSend
    BY <1>2 DEF Connect
  <2>2. Working /\ "connected" \in Outcomes /\ "connected" \in Events
    BY <2>1 DEF Working, Outcomes, Events
  <2> QED
    BY <1>b, <2>1, <2>2, FirstKept
<1>3. ASSUME ConnectFails PROVE FirstSend'
  <2>1. PICK error \in ConnectErrors :
           attempts' = Updated("connect_failed", ClassifyConnect(error))
    BY <1>3 DEF ConnectFails
  <2>2. pc = "connect" /\ firstSend' = firstSend /\ seen' = seen
    BY <1>3 DEF ConnectFails
  <2>3. Working /\ "connect_failed" \in Outcomes /\ ClassifyConnect(error) \in Kinds
    BY <2>2, KindsAreReasons DEF Working, Outcomes
  <2> QED
    BY <2>1, <2>2, <2>3, FirstKept
<1>4. ASSUME SendVersion PROVE FirstSend'
  <2>1. /\ pc = "sendVersion" /\ attempts' = Updated("version_sent", None) /\ See({"sent"})
        /\ firstSend' = IF firstSend = 0 THEN Attempt ELSE firstSend
    BY <1>4 DEF SendVersion
  <2>2. Working /\ Attempt > 0 /\ "version_sent" \in Outcomes /\ "sent" \in Events
    BY <1>a, <2>1 DEF Working, Shape, Outcomes, Events
  <2>3. Attempt' = Attempt
    BY <1>a, <2>1, <2>2, Updating
  <2>4. /\ \A i \in 1..Attempt : i # Attempt => seen'[i] = seen[i]
        /\ seen'[Attempt] = seen[Attempt] \cup {"sent"}
    BY <1>a, <1>b, <2>1, <2>2, Seeing
  <2>5. firstSend' \in 1..Attempt /\ "sent" \in seen'[firstSend']
    BY <1>a, <2>1, <2>2, <2>4 DEF FirstSend
  <2>6. \A i \in 1..Attempt : "sent" \in seen'[i] => firstSend' \in 1..i
    <3> SUFFICES ASSUME NEW i \in 1..Attempt, "sent" \in seen'[i] PROVE firstSend' \in 1..i
      OBVIOUS
    <3>1. CASE i = Attempt
      BY <2>5, <3>1
    <3>2. CASE i # Attempt
      <4>1. firstSend \in 1..i
        BY <1>a, <2>4, <3>2 DEF FirstSend
      <4> QED
        BY <1>a, <2>1, <4>1
    <3> QED
      BY <3>1, <3>2
  <2> QED
    BY <2>3, <2>5, <2>6 DEF FirstSend
<1>5. ASSUME \/ Negotiate \/ SendVerack \/ LoopTop \/ ReceiveNothing \/ IgnorePing \/ SendPong
      PROVE  FirstSend'
  <2>1. Working /\ firstSend' = firstSend /\ attempts' = attempts /\ seen' = seen
    BY <1>5, <1>a DEF Negotiate, SendVerack, LoopTop, ReceiveNothing, IgnorePing, SendPong,
                      Awaited, Working, Shape
  <2> QED
    BY <2>1, FirstKept
<1>6. ASSUME SendFails PROVE FirstSend'
  <2>1. /\ pc \in {"sendVersion", "negotiate", "sendVerack"}
        /\ See({"writeFailed"}) /\ HandshakeFails(SendFailure[pc])
    BY <1>6 DEF SendFails, SendFailure
  <2>2. Working /\ "writeFailed" \in Events
    BY <2>1 DEF Working, Events
  <2>3. SendFailure[pc] \in Kinds
    BY <2>1 DEF SendFailure, Kinds, HandshakeKinds
  <2> QED
    BY <1>b, <2>1, <2>2, <2>3, FirstKeptByFailure
<1>7. ASSUME VersionTimesOut PROVE FirstSend'
  <2>1. /\ pc = "awaitVersion" /\ firstSend' = firstSend /\ seen' = seen
        /\ attempts' = Updated("handshake_timeout", "handshake_timeout")
    BY <1>7 DEF VersionTimesOut
  <2>2. Working /\ "handshake_timeout" \in Outcomes /\ "handshake_timeout" \in Kinds
    BY <2>1 DEF Working, Outcomes, Kinds, HandshakeKinds
  <2> QED
    BY <2>1, <2>2, FirstKept
<1>8. ASSUME VerackTimesOut PROVE FirstSend'
  <2>1. pc = "awaitVerack" /\ HandshakeFails("peer_verack_timeout") /\ seen' = seen
    BY <1>8 DEF VerackTimesOut
  <2>2. Working /\ "peer_verack_timeout" \in Kinds
    BY <2>1 DEF Working, Kinds, HandshakeKinds
  <2> QED
    BY <2>1, <2>2, FirstKeptByFailure
<1>9. ASSUME NEW body \in Versions, ReceiveVersion(body) PROVE FirstSend'
  <2>1. /\ pc = "awaitVersion" /\ See({"envelope", "version"})
        /\ firstSend' = firstSend /\ attempts' = attempts
    BY <1>9 DEF ReceiveVersion
  <2>2. Working /\ {"envelope", "version"} \in SUBSET Events
    BY <2>1 DEF Working, Events
  <2>3. "sent" \notin {"envelope", "version"}
    OBVIOUS
  <2> QED
    BY <2>1, <2>2, <2>3, FirstKept
<1>10. ASSUME ReceiveMalformed PROVE FirstSend'
  <2>1. /\ pc = "awaitVersion" /\ See({"envelope", "malformed"})
        /\ HandshakeFails("malformed_version")
    BY <1>10 DEF ReceiveMalformed
  <2>2. Working /\ {"envelope", "malformed"} \in SUBSET Events /\ "malformed_version" \in Kinds
    BY <2>1 DEF Working, Events, Kinds, HandshakeKinds
  <2>3. "sent" \notin {"envelope", "malformed"}
    OBVIOUS
  <2> QED
    BY <2>1, <2>2, <2>3, FirstKeptByFailure
<1>11. ASSUME ReceiveVerack PROVE FirstSend'
  <2>1. /\ pc = "awaitVerack" /\ attempts' = Updated("handshake_complete", None)
        /\ See({"envelope", "verack"}) /\ firstSend' = firstSend
    BY <1>11 DEF ReceiveVerack
  <2>2. /\ Working /\ "handshake_complete" \in Outcomes
        /\ {"envelope", "verack"} \in SUBSET Events
    BY <2>1 DEF Working, Outcomes, Events
  <2>3. "sent" \notin {"envelope", "verack"}
    OBVIOUS
  <2> QED
    BY <2>1, <2>2, <2>3, FirstKept
<1>12. ASSUME NEW e \in Envelope, ReceiveOther(e) PROVE FirstSend'
  <2>1. /\ pc \in DOMAIN Awaited /\ See({"envelope"})
        /\ firstSend' = firstSend /\ attempts' = attempts
    BY <1>12 DEF ReceiveOther
  <2>2. Working /\ "envelope" \in Events
    BY <2>1 DEF Working, Awaited, Events
  <2> QED
    BY <1>b, <2>1, <2>2, FirstKept
<1>13. ASSUME ReceiveFails PROVE FirstSend'
  <2>1. PICK error \in HandshakeErrors :
           See(EventOf(error)) /\ HandshakeFails(ClassifyHandshake(error))
    BY <1>13 DEF ReceiveFails
  <2>2. Working /\ ClassifyHandshake(error) \in Kinds
    BY <1>13, KindsAreReasons DEF ReceiveFails, Awaited, Working
  <2>3. EventOf(error) \in SUBSET Events /\ "sent" \notin EventOf(error)
    BY DEF EventOf, Events
  <2> QED
    BY <2>1, <2>2, <2>3, FirstKeptByFailure
<1>14. ASSUME RejectPing PROVE FirstSend'
  <2>1. ping # None /\ HandshakeFails(ClassifyHandshake("InvalidData")) /\ seen' = seen
    BY <1>14 DEF RejectPing
  <2>2. "InvalidData" \in HandshakeErrors
    BY DEF HandshakeErrors
  <2>3. Working /\ ClassifyHandshake("InvalidData") \in Kinds
    BY <1>a, <2>1, <2>2, KindsAreReasons DEF Shape, Working
  <2> QED
    BY <2>1, <2>3, FirstKeptByFailure
<1>15. ASSUME PongFails PROVE FirstSend'
  <2>1. PICK error \in WriteErrors :
           See(EventOf(error)) /\ HandshakeFails(ClassifyHandshake(error))
    BY <1>15 DEF PongFails
  <2>2. Working /\ error \in HandshakeErrors
    BY <1>15, <1>a DEF PongFails, Shape, Working, WriteErrors, HandshakeErrors
  <2>3. ClassifyHandshake(error) \in Kinds
    BY <2>2, KindsAreReasons
  <2>4. EventOf(error) \in SUBSET Events /\ "sent" \notin EventOf(error)
    BY DEF EventOf, Events
  <2> QED
    BY <2>1, <2>2, <2>3, <2>4, FirstKeptByFailure
<1>16. ASSUME DeadlinePasses PROVE FirstSend'
  <2>1. /\ pc \notin {"queued", "connect", "settled"} /\ See({"late"})
        /\ firstSend' = firstSend /\ attempts' = attempts
    BY <1>16 DEF DeadlinePasses
  <2>2. Working /\ "late" \in Events
    BY <2>1 DEF Working, Events
  <2> QED
    BY <1>b, <2>1, <2>2, FirstKept
<1>17. ASSUME QueuesClose \/ Done PROVE FirstSend'
  <2>1. firstSend' = firstSend /\ attempts' = attempts /\ seen' = seen
    BY <1>17 DEF QueuesClose, Done, vars
  <2> QED
    BY <1>a, <2>1 DEF FirstSend, Attempt
<1> QED
  BY <1>1, <1>2, <1>3, <1>4, <1>5, <1>6, <1>7, <1>8, <1>9, <1>10, <1>11, <1>12, <1>13, <1>14,
     <1>15, <1>16, <1>17 DEF Next, Step, Prompt, Pong, Receive

(* A step that changes nothing keeps the invariant. *)
LEMMA Stutter == ASSUME IInv, UNCHANGED vars PROVE IInv'
<1>1. UNCHANGED <<state, failure, timeConnect, firstSend, attempts, pc, receiving, ping, version,
                  late, closed, seen, said>>
  BY DEF vars, entryVars
<1>2. TypeOK'
  BY <1>1 DEF IInv, TypeOK
<1>3. Shape' /\ Current' /\ History' /\ Verdict' /\ Speech' /\ FirstSend'
  BY <1>1 DEF IInv, Shape, Current, Working, Attempt, Speech, Scripts, Complete, History, Verdict,
              FirstSend
<1> QED
  BY <1>2, <1>3 DEF IInv

(* The initial state satisfies it. *)
LEMMA InitHolds == ASSUME Init PROVE IInv
<1>1. Attempt = 0 /\ Len(seen) = 0
  BY DEF Init, Attempt
<1>2. TypeOK
  <2>1. attempts \in Seq([outcome : Outcomes, failure : Kinds \cup {None}])
    BY DEF Init
  <2>2. seen \in Seq(SUBSET Events) /\ said \in Seq({"version", "sendaddrv2", "verack", "pong"})
    BY DEF Init
  <2>3. firstSend \in 0..MaxAttempts
    BY SessionAssumption DEF Init
  <2> QED
    BY <2>1, <2>2, <2>3 DEF Init, TypeOK, Labels
<1>3. Shape /\ Current
  BY <1>1, SessionAssumption DEF Init, Shape, Current, Working, None
<1>4. History /\ Verdict /\ FirstSend
  BY <1>1 DEF Init, History, Verdict, FirstSend
<1>5. Speech
  BY DEF Init, Speech, Scripts
<1> QED
  BY <1>2, <1>3, <1>4, <1>5 DEF IInv

(* The inductive invariant holds in every reachable state. *)
THEOREM Invariance == Spec => []IInv
<1>1. IInv /\ [Next]_vars => IInv'
  BY ActionsKeep, TypeStep, FirstStep, Stutter DEF IInv
<1> QED
  BY <1>1, InitHolds, PTL DEF Spec

-----------------------------------------------------------------------------
(* Results *)

(* Every variable keeps its type: the entry and its attempts, the label of *)
(* process, handshake and recv_matching, and the history of the            *)
(* connections.                                                            *)
THEOREM TypeCorrect == Spec => []TypeOK
<1>1. IInv => TypeOK
  BY DEF IInv
<1> QED
  BY <1>1, Invariance, PTL

(* update_attempt credits the attempt whose connection failed or           *)
(* succeeded, with the cause that ended it, whatever the peer sends and    *)
(* however many attempts there are; and first_version_send_ts is of the    *)
(* first attempt whose version was written.                                *)
THEOREM AttemptsAreExplained == Spec => []AttemptsExplained
<1>1. ASSUME IInv PROVE AttemptsExplained
  <2>1. DOMAIN attempts = 1..Attempt
    BY <1>1, Types, LenProperties DEF IInv, Attempt
  <2>2. \A i \in DOMAIN attempts : Explained(attempts[i], seen[i])
    BY <1>1, <2>1 DEF IInv, History
  <2>3. FirstSend
    BY <1>1 DEF IInv
  <2>4. \A i \in DOMAIN attempts : "sent" \in seen[i] => firstSend \in 1..i
    BY <2>1, <2>3 DEF FirstSend
  <2>5. firstSend # 0 => "sent" \in seen[firstSend]
    BY <2>3 DEF FirstSend
  <2> QED
    BY <2>2, <2>4, <2>5 DEF AttemptsExplained, Explained
<1> QED
  BY <1>1, Invariance, PTL

(* finish and requeue record a verdict that the evidence of all attempts   *)
(* supports, with the reason of the last one.                              *)
THEOREM VerdictIsExplained == Spec => []VerdictExplained
<1>1. ASSUME IInv PROVE VerdictExplained
  <2>1. DOMAIN seen = 1..Attempt
    BY <1>1, Types, LenProperties DEF IInv, Shape
  <2>2. state \in {"Reachable", "HandshakeFailed", "Unreachable"} => pc = "settled"
    BY <1>1 DEF IInv, Shape, Working
  <2>3. /\ timeConnect <=> \E i \in DOMAIN seen : "connected" \in seen[i]
        /\ \A i \in DOMAIN seen : "verack" \in seen[i] => state = "Reachable"
    BY <1>1, <2>1 DEF IInv, History
  <2>4. Verdict
    BY <1>1 DEF IInv
  <2> QED
    BY <2>2, <2>3, <2>4 DEF VerdictExplained, Verdict
<1> QED
  BY <1>1, Invariance, PTL

(* retry_or_finish tries again only what may be tried again, within the    *)
(* limit, and gives up early for no other reason than the two it may have. *)
THEOREM RetriesAreJustified == Spec => []RetriesJustified
<1>1. ASSUME IInv PROVE RetriesJustified
  <2>1. Attempt \in Nat /\ Attempt <= MaxAttempts
    BY <1>1, Types DEF IInv, Shape
  <2>2. \A i \in 1..(Attempt - 1) : Retried(attempts[i])
    <3> TAKE i \in 1..(Attempt - 1)
    <3>1. i \in 1..Attempt /\ i < Attempt
      BY <2>1
    <3> QED
      BY <1>1, <3>1 DEF IInv, History
  <2>3. state \in {"HandshakeFailed", "Unreachable"} => pc = "settled"
    BY <1>1 DEF IInv, Shape, Working
  <2>4. Verdict
    BY <1>1 DEF IInv
  <2> QED
    BY <2>1, <2>2, <2>3, <2>4 DEF RetriesJustified, Retried, Verdict
<1> QED
  BY <1>1, Invariance, PTL

(* What handshake and answer_ping write is in the order of the protocol,   *)
(* on every connection and whatever the peer sends.                        *)
THEOREM ProtocolIsInOrder == Spec => []ProtocolOrder
<1>1. ASSUME IInv PROVE ProtocolOrder
  <2>1. Speech
    BY <1>1 DEF IInv
  <2>2. CASE said = <<>>
    <3>1. DOMAIN said = {}
      BY <2>2
    <3> QED
      BY <2>2, <3>1 DEF ProtocolOrder
  <2>3. CASE said = V
    <3>1. DOMAIN said = {1} /\ said[1] = "version"
      BY <2>3 DEF V
    <3> QED
      BY <3>1 DEF ProtocolOrder
  <2>4. CASE said = VS /\ version = "modern"
    <3>1. DOMAIN said = {1, 2} /\ said[1] = "version" /\ said[2] = "sendaddrv2"
      BY <2>4 DEF VS
    <3> QED
      BY <2>4, <3>1 DEF ProtocolOrder
  <2>5. CASE said = VSK /\ version = "modern"
    <3>1. /\ DOMAIN said = {1, 2, 3} /\ said[1] = "version" /\ said[2] = "sendaddrv2"
          /\ said[3] = "verack"
      BY <2>5 DEF VSK
    <3> QED
      BY <2>5, <3>1 DEF ProtocolOrder, None
  <2>6. CASE said = Modern /\ version = "modern"
    <3>1. /\ DOMAIN said = {1, 2, 3, 4} /\ said[1] = "version" /\ said[2] = "sendaddrv2"
          /\ said[3] = "verack" /\ said[4] = "pong"
      BY <2>6 DEF Modern
    <3> QED
      BY <2>6, <3>1 DEF ProtocolOrder, None
  <2>7. CASE said = VK /\ version # "modern" /\ version # None
    <3>1. DOMAIN said = {1, 2} /\ said[1] = "version" /\ said[2] = "verack"
      BY <2>7 DEF VK
    <3> QED
      BY <2>7, <3>1 DEF ProtocolOrder
  <2>8. CASE said = Plain /\ version # "modern" /\ version # "legacy" /\ version # None
    <3>1. /\ DOMAIN said = {1, 2, 3} /\ said[1] = "version" /\ said[2] = "verack"
          /\ said[3] = "pong"
      BY <2>8 DEF Plain
    <3> QED
      BY <2>8, <3>1 DEF ProtocolOrder
  <2>9. said \notin {<<>>, V} => version # None
    BY <2>1 DEF Speech, V
  <2>10. CASE version = "modern"
    <3>1. said \in {<<>>, V, VS, VSK, Modern}
      BY <2>1, <2>10 DEF Speech, Scripts, V, VS, VSK, Modern
    <3> QED
      BY <2>2, <2>3, <2>4, <2>5, <2>6, <2>10, <3>1
  <2>11. CASE version # "modern"
    <3>1. said \in {<<>>, V, VK} \/ (said = Plain /\ version # "legacy")
      BY <2>1, <2>11 DEF Speech, Scripts, V, VK, Plain
    <3>2. CASE said \in {<<>>, V}
      BY <2>2, <2>3, <3>2
    <3>3. CASE said \notin {<<>>, V}
      BY <2>7, <2>8, <2>9, <2>11, <3>1, <3>3
    <3> QED
      BY <3>2, <3>3
  <2> QED
    BY <2>10, <2>11
<1> QED
  BY <1>1, Invariance, PTL
=============================================================================
