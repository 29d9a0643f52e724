--------------------------- MODULE SamCacheProofs ---------------------------
(***************************************************************************)
(* Theorems about SamCache, for any number of workers and sessions.  All   *)
(* of them rest on OnlyCached: whoever holds or uses a session the router  *)
(* still serves has the cached one.  It survives an eviction because the   *)
(* evicted session was refused, so the router lost it; and a creation      *)
(* because the creator holds the lock over an empty cache.                 *)
(***************************************************************************)
EXTENDS SamCache, FiniteSetTheorems, TLAPS

Known == 1..created

(* What a worker has at each label. *)
Labels ==
    \A w \in Workers :
        /\ pc[w] = "create" => holder = w
        /\ pc[w] \in {"connect", "evict"} <=> session[w] # None
        /\ pc[w] = "open" <=> stream[w] # None
        /\ pc[w] = "evict" => session[w] \in lost

(* Sessions in use were created; the lock is held over an empty cache.     *)
Numbered ==
    /\ holder # None => cached = None
    /\ cached # None => cached \in Known
    /\ lost \subseteq Known
    /\ \A w \in Workers :
          /\ session[w] # None => session[w] \in Known
          /\ stream[w] # None => stream[w] \in Known
          /\ refused[w] \subseteq lost

OnlyCached ==
    \A w \in Workers :
        /\ session[w] # None /\ session[w] \notin lost => session[w] = cached
        /\ stream[w] # None /\ stream[w] \notin lost => stream[w] = cached

(* A worker that was refused a session finds another one in the cache,     *)
(* once it has evicted it.                                                 *)
Forgotten ==
    \A w \in Workers :
        /\ pc[w] = "connect" => session[w] \notin refused[w]
        /\ cached \in refused[w] => pc[w] = "evict" /\ cached = session[w]

IInv == TypeOK /\ Labels /\ Numbered /\ OnlyCached /\ Forgotten

-----------------------------------------------------------------------------
LEMMA InitHolds == Init => IInv
BY SamAssumption DEF Init, IInv, TypeOK, Labels, Numbered, OnlyCached, Forgotten, Known, Sessions

LEMMA TypeStep ==
    ASSUME IInv, NEW w \in Workers, Ask(w) \/ WorkerStep(w) \/ CloseStream(w)
    PROVE  TypeOK'
<1> USE SamAssumption DEF IInv, TypeOK, Goto, TakeArc, JoinLine, IsNext, lockVars
<1>1. created \in Nat /\ MaxSessions \in Nat
  BY DEF Sessions
<1>2. CASE Ask(w)
  BY <1>2 DEF Ask
<1>3. CASE Hit(w)
  BY <1>3 DEF Hit
<1>4. CASE Miss(w)
  BY <1>4 DEF Miss
<1>5. CASE Create(w)
  <2>1. created + 1 \in Sessions /\ created + 1 \in 0..MaxSessions
    BY <1>1, <1>5 DEF Create, Sessions
  <2> QED
    BY <1>5, <2>1 DEF Create
<1>6. CASE CreateFails(w)
  BY <1>6 DEF CreateFails
<1>7. CASE Connect(w)
  BY <1>7 DEF Connect
<1>8. CASE ConnectFails(w)
  BY <1>8 DEF ConnectFails
<1>9. CASE InvalidId(w)
  <2>1. session[w] \in Sessions
    BY <1>9 DEF InvalidId, Labels
  <2> QED
    BY <1>9, <2>1 DEF InvalidId
<1>10. CASE Evict(w)
  BY <1>10 DEF Evict
<1>11. CASE CloseStream(w)
  BY <1>11 DEF CloseStream
<1> QED
  BY <1>2, <1>3, <1>4, <1>5, <1>6, <1>7, <1>8, <1>9, <1>10, <1>11 DEF WorkerStep

LEMMA WorkerKeeps ==
    ASSUME IInv, NEW w \in Workers, Ask(w) \/ WorkerStep(w) \/ CloseStream(w)
    PROVE  Labels' /\ Numbered' /\ OnlyCached' /\ Forgotten'
<1> USE SamAssumption
     DEF IInv, TypeOK, Labels, Numbered, OnlyCached, Forgotten, Known,
         Goto, TakeArc, JoinLine, IsNext, lockVars
<1>1. created \in Nat /\ MaxSessions \in Nat /\ \A s \in Sessions : s # None
  BY DEF Sessions
<1>2. CASE Ask(w)
  BY <1>2 DEF Ask
<1>3. CASE Hit(w)
  BY <1>1, <1>3 DEF Hit
<1>4. CASE Miss(w)
  BY <1>4 DEF Miss
<1>5. CASE Create(w)
  <2>1. /\ created' = created + 1 /\ cached' = created + 1 /\ created + 1 # None
        /\ holder' = None /\ pc'[w] = "connect" /\ session'[w] = created + 1
        /\ UNCHANGED <<stream, lost, refused>>
    BY <1>1, <1>5 DEF Create, Sessions
  <2>2. holder = w /\ cached = None
    BY <1>5 DEF Create
  <2>3. \A v \in Workers \ {w} : pc'[v] = pc[v] /\ session'[v] = session[v] /\ pc[v] # "create"
    BY <1>5, <2>2 DEF Create
  <2>4. created + 1 \notin lost
    BY <1>1
  <2>5. Labels' /\ Numbered'
    BY <1>1, <1>5, <2>1, <2>2, <2>3 DEF Create
  <2>6. OnlyCached'
    BY <1>1, <2>1, <2>2, <2>3
  <2>7. Forgotten'
    BY <1>1, <2>1, <2>3, <2>4
  <2> QED
    BY <2>5, <2>6, <2>7
<1>6. CASE CreateFails(w)
  BY <1>6 DEF CreateFails
<1>7. CASE Connect(w)
  BY <1>1, <1>7 DEF Connect
<1>8. CASE ConnectFails(w)
  BY <1>8 DEF ConnectFails
<1>9. CASE InvalidId(w)
  BY <1>1, <1>9 DEF InvalidId
<1>10. CASE Evict(w)
  BY <1>1, <1>10 DEF Evict
<1>11. CASE CloseStream(w)
  BY <1>11 DEF CloseStream
<1> QED
  BY <1>2, <1>3, <1>4, <1>5, <1>6, <1>7, <1>8, <1>9, <1>10, <1>11 DEF WorkerStep

LEMMA StepKeeps == IInv /\ [Next]_vars => IInv'
<1> SUFFICES ASSUME IInv, [Next]_vars PROVE IInv'
  OBVIOUS
<1>1. CASE UNCHANGED vars
  BY <1>1 DEF vars, lockVars, IInv, TypeOK, Labels, Numbered, OnlyCached, Forgotten, Known
<1>2. ASSUME NEW w \in Workers, Ask(w) \/ WorkerStep(w) \/ CloseStream(w) PROVE IInv'
  BY <1>2, TypeStep, WorkerKeeps DEF IInv
<1>3. ASSUME NEW s \in Sessions, RouterLoses(s) PROVE IInv'
  BY <1>3 DEF RouterLoses, lockVars, IInv, TypeOK, Labels, Numbered, OnlyCached, Forgotten, Known
<1> QED
  BY <1>1, <1>2, <1>3 DEF Next

LEMMA Invariant == Spec => []IInv
BY InitHolds, StepKeeps, PTL DEF Spec

-----------------------------------------------------------------------------
(* Every variable has its type.                                            *)
THEOREM TypeCorrect == Spec => []TypeOK
BY Invariant, PTL DEF IInv

(* No stream over a session that the router serves is cut by the crawler   *)
(* itself (the late eviction in connect, Arc::ptr_eq).                     *)
THEOREM StreamsAreKept == Spec => []StreamsKept
<1>1. IInv => StreamsKept
  BY SamAssumption DEF IInv, TypeOK, OnlyCached, StreamsKept, Alive, Held, Sessions
<1> QED
  BY <1>1, Invariant, PTL

(* The router serves at most one session of the crawler, however many      *)
(* workers miss the cache together (sam_session).                          *)
THEOREM SessionIsShared == Spec => []OneSession
<1>1. ASSUME IInv PROVE OneSession
  <2>1. Alive \subseteq {cached}
    BY <1>1 DEF IInv, OnlyCached, Alive, Held
  <2>2. IsFiniteSet({cached}) /\ Cardinality({cached}) = 1
    BY FS_Singleton
  <2>3. IsFiniteSet(Alive) /\ Cardinality(Alive) <= Cardinality({cached})
    BY <2>1, <2>2, FS_Subset
  <2> QED
    BY <2>2, <2>3 DEF OneSession
<1> QED
  BY <1>1, Invariant, PTL

(* After INVALID_ID a worker is never given the same session again.        *)
THEOREM RefusalIsLearnt == Spec => []NotRefusedAgain
<1>1. IInv => NotRefusedAgain
  BY DEF IInv, Forgotten, NotRefusedAgain
<1> QED
  BY <1>1, Invariant, PTL
=============================================================================
