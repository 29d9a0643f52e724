------------------------------ MODULE SamCache ------------------------------
(***************************************************************************)
(* The SAM session shared by all I2P connections (src/src/crawler.rs:      *)
(* sam_session and the I2P branch of connect; src/src/transport.rs:        *)
(* SamSession).  The first worker that needs it creates it while it holds  *)
(* the lock over the cache; a worker whose STREAM CONNECT is refused with  *)
(* INVALID_ID evicts it, unless the cache holds another one by then.       *)
(*                                                                         *)
(* A session lives at the router as long as somebody holds its Arc: the    *)
(* control socket closes with the last one.  The router may also lose it.  *)
(***************************************************************************)
EXTENDS Naturals, Sequences, FiniteSets

CONSTANTS
    Workers,
    MaxSessions,   \* bound: sessions the router accepts
    None

Sessions == 1..MaxSessions

ASSUME SamAssumption ==
    /\ MaxSessions \in Nat \ {0}
    /\ None \notin Sessions \cup Workers

VARIABLES
    cached,             \* the session in the cache
    line, holder,       \* the lock: who waits, in order, and who holds it
    pc, session,        \* per worker: label, the Arc it has
    stream,             \* per worker: the session its open stream runs over
    created, lost,      \* the router: sessions accepted so far, those it lost
    refused             \* history, per worker: sessions it was told are invalid

lockVars == <<line, holder>>
vars == <<cached, lockVars, pc, session, stream, created, lost, refused>>

TypeOK ==
    /\ cached \in Sessions \cup {None}
    /\ line \in Seq(Workers)
    /\ holder \in Workers \cup {None}
    /\ pc \in [Workers -> {"idle", "lock", "create", "connect", "evict", "open"}]
    /\ session \in [Workers -> Sessions \cup {None}]
    /\ stream \in [Workers -> Sessions \cup {None}]
    /\ created \in 0..MaxSessions
    /\ lost \subseteq Sessions
    /\ refused \in [Workers -> SUBSET Sessions]

Init ==
    /\ cached = None
    /\ line = <<>>
    /\ holder = None
    /\ pc = [w \in Workers |-> "idle"]
    /\ session = [w \in Workers |-> None]
    /\ stream = [w \in Workers |-> None]
    /\ created = 0
    /\ lost = {}
    /\ refused = [w \in Workers |-> {}]

-----------------------------------------------------------------------------
Goto(w, label) == pc' = [pc EXCEPT ![w] = label]

TakeArc(w, s) == session' = [session EXCEPT ![w] = s]

(* Whose control socket is open, and which of them the router still knows. *)
Held == ({cached} \cup {session[w] : w \in Workers}) \ {None}
Alive == Held \ lost

JoinLine(w, label) ==
    /\ line' = Append(line, w)
    /\ Goto(w, label)

IsNext(w) == line # <<>> /\ Head(line) = w /\ holder = None

(* connect for an I2P address calls sam_session. *)
Ask(w) ==
    /\ pc[w] = "idle"
    /\ JoinLine(w, "lock")
    /\ UNCHANGED <<cached, holder, session, stream, created, lost, refused>>

Hit(w) ==
    /\ pc[w] = "lock"
    /\ IsNext(w)
    /\ cached # None
    /\ TakeArc(w, cached)
    /\ line' = Tail(line)
    /\ Goto(w, "connect")
    /\ UNCHANGED <<cached, holder, stream, created, lost, refused>>

(* Mutant: the lock is released before the session is created. *)
MissUnlocked(w) ==
    /\ pc[w] = "lock"
    /\ IsNext(w)
    /\ cached = None
    /\ line' = Tail(line)
    /\ Goto(w, "create")
    /\ UNCHANGED <<cached, holder, session, stream, created, lost, refused>>

Miss(w) ==
    /\ pc[w] = "lock"
    /\ IsNext(w)
    /\ cached = None
    /\ line' = Tail(line)
    /\ holder' = w
    /\ Goto(w, "create")
    /\ UNCHANGED <<cached, session, stream, created, lost, refused>>

Create(w) ==
    /\ pc[w] = "create"
    /\ created < MaxSessions
    /\ created' = created + 1
    /\ cached' = created'
    /\ TakeArc(w, created')
    /\ holder' = None
    /\ Goto(w, "connect")
    /\ UNCHANGED <<line, stream, lost, refused>>

(* Mutant: the lock is kept on the error path. *)
CreateFailsHeld(w) ==
    /\ pc[w] = "create"
    /\ Goto(w, "idle")
    /\ UNCHANGED <<cached, lockVars, session, stream, created, lost, refused>>

(* An error or the timeout: no session, this attempt fails. *)
CreateFails(w) ==
    /\ pc[w] = "create"
    /\ holder' = None
    /\ Goto(w, "idle")
    /\ UNCHANGED <<cached, line, session, stream, created, lost, refused>>

-----------------------------------------------------------------------------
(* SamSession::connect *)

(* The stream does not keep the Arc: only the cache does from here on.     *)
Connect(w) ==
    /\ pc[w] = "connect"
    /\ session[w] \notin lost
    /\ stream' = [stream EXCEPT ![w] = session[w]]
    /\ TakeArc(w, None)
    /\ Goto(w, "open")
    /\ UNCHANGED <<cached, lockVars, created, lost, refused>>

(* CANT_REACH_PEER, a timeout, a router that is away: the session stays.   *)
ConnectFails(w) ==
    /\ pc[w] = "connect"
    /\ TakeArc(w, None)
    /\ Goto(w, "idle")
    /\ UNCHANGED <<cached, lockVars, stream, created, lost, refused>>

InvalidId(w) ==
    /\ pc[w] = "connect"
    /\ session[w] \in lost
    /\ refused' = [refused EXCEPT ![w] = @ \cup {session[w]}]
    /\ JoinLine(w, "evict")
    /\ UNCHANGED <<cached, holder, session, stream, created, lost>>

(* Mutants: whatever is cached is evicted; eviction gives way to a lock    *)
(* that others wait for.                                                   *)
EvictAny(w) ==
    /\ pc[w] = "evict"
    /\ IsNext(w)
    /\ line' = Tail(line)
    /\ cached' = None
    /\ TakeArc(w, None)
    /\ Goto(w, "idle")
    /\ UNCHANGED <<holder, stream, created, lost, refused>>
EvictUncontended(w) ==
    /\ pc[w] = "evict"
    /\ IsNext(w)
    /\ line' = Tail(line)
    /\ cached' = IF cached = session[w] /\ line' = <<>> THEN None ELSE cached
    /\ TakeArc(w, None)
    /\ Goto(w, "idle")
    /\ UNCHANGED <<holder, stream, created, lost, refused>>

(* Only the session that was refused is evicted (Arc::ptr_eq).             *)
Evict(w) ==
    /\ pc[w] = "evict"
    /\ IsNext(w)
    /\ line' = Tail(line)
    /\ cached' = IF cached = session[w] THEN None ELSE cached
    /\ TakeArc(w, None)
    /\ Goto(w, "idle")
    /\ UNCHANGED <<holder, stream, created, lost, refused>>

(* The node is done with, for better or worse. *)
CloseStream(w) ==
    /\ pc[w] = "open"
    /\ stream' = [stream EXCEPT ![w] = None]
    /\ Goto(w, "idle")
    /\ UNCHANGED <<cached, lockVars, session, created, lost, refused>>

(* The router restarts or drops a session.                                 *)
RouterLoses(s) ==
    /\ s \in 1..created
    /\ s \notin lost
    /\ lost' = lost \cup {s}
    /\ UNCHANGED <<cached, lockVars, pc, session, stream, created, refused>>

WorkerStep(w) ==
    \/ Hit(w) \/ Miss(w) \/ Create(w) \/ CreateFails(w)
    \/ Connect(w) \/ ConnectFails(w) \/ InvalidId(w) \/ Evict(w)

Next ==
    \/ \E w \in Workers : Ask(w) \/ WorkerStep(w) \/ CloseStream(w)
    \/ \E s \in Sessions : RouterLoses(s)

(* Creation and connection are bounded by the connect timeout, and the     *)
(* lock is handed on in the order of the line.                             *)
Fairness == \A w \in Workers : WF_vars(WorkerStep(w))

Spec == Init /\ [][Next]_vars /\ Fairness

-----------------------------------------------------------------------------
(* Properties *)

(* The crawler never closes a session that the router still serves while a *)
(* worker has a stream over it: a late eviction of the session before does *)
(* not cut the streams of the one that replaced it.                        *)
StreamsKept ==
    \A w \in Workers : stream[w] # None /\ stream[w] \notin lost => stream[w] \in Alive

(* The I2P connections share one session: however many workers find the    *)
(* cache empty, the router serves at most one session of this crawler.     *)
OneSession == Cardinality(Alive) <= 1

(* A worker is refused a session at most once: after INVALID_ID it never   *)
(* gets the same session again, whatever the others do meanwhile.          *)
NotRefusedAgain ==
    \A w \in Workers : pc[w] = "connect" => session[w] \notin refused[w]

(* Every attempt to connect ends: nobody waits for ever for the lock, also *)
(* when sessions cannot be created.                                        *)
AttemptsEnd ==
    \A w \in Workers :
        pc[w] \in {"lock", "create", "connect", "evict"} ~> pc[w] \in {"idle", "open"}
=============================================================================
