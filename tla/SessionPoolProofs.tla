------------------------- MODULE SessionPoolProofs -------------------------
(***************************************************************************)
(* Proofs about SessionPool, for any threads, sessions and faults and      *)
(* whatever calls fail: no session is shared, none is lost but by ignored  *)
(* failures of OCISessionRelease, and the references to the pool are       *)
(* counted.                                                                *)
(***************************************************************************)
EXTENDS SessionPool, FiniteSetTheorems, TLAPS

SessionType ==
    [at : {"none", "idle", "busy", "lost"}, alive : BOOLEAN, used : BOOLEAN,
     time : {"none", "now", "old"}, txn : BOOLEAN, blind : BOOLEAN]

(* Where a thread works on the session of its connection. *)
WithSession == {"getHandles", "check", "ping", "getCharset", "rollback",
                "status", "time", "release"}
Labels == {"idle", "get", "open", "free", "clearPool", "destroyPool"}
          \cup WithSession

Types ==
    /\ sessions \in [Sessions -> SessionType]
    /\ poolOpen \in BOOLEAN /\ poolHandle \in BOOLEAN
    /\ poolRefs \in Nat /\ userPool \subseteq Threads
    /\ savedHandle \in [Threads -> BOOLEAN]
    /\ handle \in [Threads -> Sessions \cup {NULL}]
    /\ knows \in [Threads -> SUBSET {"session", "server"}]
    /\ dead \in [Threads -> BOOLEAN]
    /\ call \in [Threads -> {"close", "drop", "free"}]
    /\ pc \in [Threads -> Labels]

(* A connection has a session where its thread's code relies on it, nowhere *)
(* else than where it may, and none that another connection has.            *)
Attached ==
    /\ \A t \in Threads :
          /\ pc[t] \in WithSession => handle[t] # NULL
          /\ handle[t] # NULL => pc[t] \in WithSession \cup {"open"}
          /\ knows[t] # {} => handle[t] # NULL
    /\ \A t, u \in Threads : handle[t] # NULL /\ handle[t] = handle[u] => t = u

(* A busy session has an owner, one that is lost was not given back by a    *)
(* failing call, and what a connection has is busy for as long as the pool  *)
(* is there.                                                                *)
Owned ==
    /\ \A s \in Sessions :
          /\ sessions[s].at = "busy" => \E t \in Threads : handle[t] = s
          /\ sessions[s].at = "lost" => "sessionRelease" \in Failures
          /\ sessions[s].at # "none" => poolOpen
    /\ poolOpen => \A t \in Threads : handle[t] # NULL => Mine(t).at = "busy"

Conns == {t \in Threads : HasConn(t)}

(* Ownership is inductive; the count is so given the types.                 *)
OwnerInv == Types /\ Attached /\ Owned
PoolInv == OwnerInv /\ PoolIsCounted

-----------------------------------------------------------------------------
(* Sets of threads are finite.                                              *)
LEMMA ThreadsFinite ==
    ASSUME NEW S \in SUBSET Threads
    PROVE  IsFiniteSet(S) /\ Cardinality(S) \in Nat
  BY SessionPoolAssumption, FS_Subset, FS_CardinalityType

LEMMA ThreadJoins ==
    ASSUME NEW S \in SUBSET Threads, NEW t \in Threads \ S
    PROVE  Cardinality(S \cup {t}) = Cardinality(S) + 1
  BY ThreadsFinite, FS_AddElement

LEMMA ThreadLeaves ==
    ASSUME NEW S \in SUBSET Threads, NEW t \in S
    PROVE  Cardinality(S \ {t}) = Cardinality(S) - 1 /\ Cardinality(S) >= 1
  <1>1. Cardinality(S \ {t}) = Cardinality(S) - 1
    BY ThreadsFinite, FS_RemoveElement
  <1>2. Cardinality(S \ {t}) \in Nat /\ Cardinality(S) \in Nat
    BY ThreadsFinite
  <1> QED BY <1>1, <1>2

(* The initial state. *)
LEMMA InitPoolInv == Init => PoolInv
  <1> SUFFICES ASSUME Init PROVE PoolInv
    OBVIOUS
  <1> USE DEF Init
  <1>1. Types
    BY SessionPoolAssumption, ThreadsFinite
       DEF Types, SessionType, Fresh, Labels, WithSession
  <1>2. Attached /\ Owned
    BY DEF Attached, Owned, Fresh, WithSession
  <1>3. PoolIsCounted
    <2>1. {t \in Threads : HasConn(t)} = {}
      BY DEF HasConn
    <2>2. Cardinality({t \in Threads : HasConn(t)}) = 0
      BY <2>1, FS_EmptySet
    <2> QED BY <2>2, SessionPoolAssumption, ThreadsFinite DEF PoolIsCounted
  <1> QED BY <1>1, <1>2, <1>3 DEF PoolInv, OwnerInv

-----------------------------------------------------------------------------
(***************************************************************************)
(* Most steps stay with the session that the thread's connection has: they *)
(* change its record, which stays where it is, and what is known of it.    *)
(***************************************************************************)
LEMMA StayStep ==
    ASSUME OwnerInv, NEW t \in Threads, handle[t] # NULL,
           NEW r \in SessionType, r.at = Mine(t).at,
           NEW l \in WithSession \cup {"open"},
           SetMine(t, r), GoTo(t, l),
           UNCHANGED <<poolVars, handle>>,
           knows' \in [Threads -> SUBSET {"session", "server"}],
           \A u \in Threads : u # t => knows'[u] = knows[u],
           dead' \in [Threads -> BOOLEAN],
           call' \in [Threads -> {"close", "drop", "free"}]
    PROVE  OwnerInv'
  <1> USE DEF OwnerInv, SetMine, GoTo, poolVars
  <1>0. handle[t] \in Sessions /\ handle'[t] = handle[t]
    BY DEF Types
  <1>1. Types'
    BY <1>0 DEF Types, Labels
  <1>2. /\ pc'[t] = l /\ \A u \in Threads : u # t => pc'[u] = pc[u]
        /\ sessions'[handle[t]] = r
        /\ \A s \in Sessions : s # handle[t] => sessions'[s] = sessions[s]
    BY <1>0 DEF Types
  <1>3. Attached'
    BY <1>2 DEF Attached
  <1>4. Owned'
    BY <1>0, <1>2 DEF Owned, Attached, Mine
  <1> QED BY <1>1, <1>3, <1>4

(* The same, if the record does not change and the ping is not left.        *)
LEMMA SameSession ==
    ASSUME OwnerInv, NEW t \in Threads, handle[t] # NULL
    PROVE  /\ Mine(t) \in SessionType
           /\ UNCHANGED sessions => SetMine(t, Mine(t))
  <1> USE DEF OwnerInv, Mine, SetMine
  <1>1. handle[t] \in Sessions
    BY DEF Types
  <1>2. Mine(t) \in SessionType /\ (UNCHANGED sessions => SetMine(t, Mine(t)))
    BY <1>1 DEF Types
  <1> QED BY <1>2

(* A connection that is closed or fails begins to be rolled back.           *)
LEMMA FailStep ==
    ASSUME OwnerInv, NEW t \in Threads, handle[t] # NULL, pc[t] # "ping",
           Fail(t), UNCHANGED <<sessions, poolVars, handle, dead>>,
           knows' \in [Threads -> SUBSET {"session", "server"}],
           \A u \in Threads : u # t => knows'[u] = knows[u]
    PROVE  OwnerInv'
  <1> USE DEF Fail
  <1>1. GoTo(t, "rollback") /\ call' \in [Threads -> {"close", "drop", "free"}]
    BY DEF OwnerInv, Types
  <1>2. dead' \in [Threads -> BOOLEAN]
    BY DEF OwnerInv, Types
  <1>3. "rollback" \in WithSession \cup {"open"}
    BY DEF WithSession
  <1> QED BY <1>1, <1>2, <1>3, SameSession, StayStep
-----------------------------------------------------------------------------
(* One lemma for each action, the ping loop first.                          *)
LEMMA GetHandlesOwner ==
    ASSUME OwnerInv, NEW t \in Threads, GetHandles(t) PROVE OwnerInv'
  <1> USE DEF GetHandles
  <1>1. handle[t] # NULL /\ pc[t] # "ping"
    BY DEF OwnerInv, Attached, WithSession
  <1>2. /\ knows' \in [Threads -> SUBSET {"session", "server"}]
        /\ \A u \in Threads : u # t => knows'[u] = knows[u]
    BY DEF OwnerInv, Types
  <1>3. CASE Fail(t)
    BY <1>1, <1>2, <1>3, FailStep
  <1>4. CASE GoTo(t, "check") /\ UNCHANGED call
    <2>1. "check" \in WithSession /\ UNCHANGED <<poolVars, handle>>
      BY DEF WithSession
    <2>2. /\ dead' \in [Threads -> BOOLEAN]
          /\ call' \in [Threads -> {"close", "drop", "free"}]
      BY <1>4 DEF OwnerInv, Types
    <2> QED BY <1>1, <1>2, <1>4, <2>1, <2>2, SameSession, StayStep
  <1> QED BY <1>3, <1>4

LEMMA CheckTimeOwner ==
    ASSUME OwnerInv, NEW t \in Threads, CheckTime(t) PROVE OwnerInv'
  <1> USE DEF CheckTime
  <1>1. handle[t] # NULL /\ pc[t] # "ping"
    BY DEF OwnerInv, Attached, WithSession
  <1>2. /\ knows' \in [Threads -> SUBSET {"session", "server"}]
        /\ \A u \in Threads : u # t => knows'[u] = knows[u]
        /\ dead' \in [Threads -> BOOLEAN]
    BY DEF OwnerInv, Types
  <1>3. CASE Fail(t) /\ UNCHANGED sessions
    BY <1>1, <1>2, <1>3, FailStep
  <1>4. ASSUME NEW l \in {"getCharset", "ping"}, GoTo(t, l),
               UNCHANGED <<sessions, call>>
        PROVE  OwnerInv'
    <2>1. l \in WithSession
      BY DEF WithSession
    <2>2. call' \in [Threads -> {"close", "drop", "free"}]
      BY <1>4 DEF OwnerInv, Types
    <2> QED BY <1>1, <1>2, <1>4, <2>1, <2>2, SameSession, StayStep
  <1> QED BY <1>3, <1>4

LEMMA PingSucceedsOwner ==
    ASSUME OwnerInv, NEW t \in Threads, PingSucceeds(t) PROVE OwnerInv'
  <1> USE DEF PingSucceeds
  <1>1. handle[t] # NULL
    BY DEF OwnerInv, Attached, WithSession
  <1>2. "getCharset" \in WithSession /\ UNCHANGED <<poolVars, handle>>
    BY DEF WithSession, connVars
  <1>3. /\ knows' \in [Threads -> SUBSET {"session", "server"}]
        /\ \A u \in Threads : u # t => knows'[u] = knows[u]
        /\ dead' \in [Threads -> BOOLEAN]
        /\ call' \in [Threads -> {"close", "drop", "free"}]
    BY DEF OwnerInv, Types, connVars
  <1>4. Mine(t) \in SessionType /\ SetMine(t, Mine(t))
    BY <1>1, SameSession
  <1> QED BY <1>1, <1>2, <1>3, <1>4, StayStep

LEMMA GetCharsetOwner ==
    ASSUME OwnerInv, NEW t \in Threads, GetCharset(t) PROVE OwnerInv'
  <1> USE DEF GetCharset
  <1>1. handle[t] # NULL /\ pc[t] # "ping"
    BY DEF OwnerInv, Attached, WithSession
  <1>2. /\ knows' \in [Threads -> SUBSET {"session", "server"}]
        /\ \A u \in Threads : u # t => knows'[u] = knows[u]
        /\ dead' \in [Threads -> BOOLEAN]
    BY DEF OwnerInv, Types
  <1>3. CASE Fail(t) /\ UNCHANGED sessions
    BY <1>1, <1>2, <1>3, FailStep
  <1> DEFINE r == [Mine(t) EXCEPT !.used = TRUE]
  <1>4. CASE SetMine(t, r) /\ GoTo(t, "open") /\ UNCHANGED call
    <2>1. call' \in [Threads -> {"close", "drop", "free"}]
      BY <1>4 DEF OwnerInv, Types
    <2>2. r \in SessionType /\ r.at = Mine(t).at
      BY <1>1, SameSession DEF SessionType
    <2> HIDE DEF r
    <2> QED BY <1>1, <1>2, <1>4, <2>1, <2>2, StayStep
  <1> QED BY <1>3, <1>4
-----------------------------------------------------------------------------
(* Using the connection and closing it.                                     *)
LEMMA ExecuteOwner ==
    ASSUME OwnerInv, NEW t \in Threads, Execute(t) PROVE OwnerInv'
  <1> USE DEF Execute
  <1>1. handle[t] # NULL /\ pc[t] = "open"
    BY SameSession DEF Connected
  <1>2. GoTo(t, "open")
    BY <1>1 DEF GoTo, OwnerInv, Types
  <1>3. /\ knows' \in [Threads -> SUBSET {"session", "server"}]
        /\ \A u \in Threads : u # t => knows'[u] = knows[u]
        /\ dead' \in [Threads -> BOOLEAN]
        /\ call' \in [Threads -> {"close", "drop", "free"}]
    BY DEF OwnerInv, Types
  <1>4. CASE UNCHANGED sessions
    BY <1>1, <1>2, <1>3, <1>4, SameSession, StayStep
  <1>5. ASSUME NEW b \in BOOLEAN, SetMine(t, [Mine(t) EXCEPT !.txn = b])
        PROVE  OwnerInv'
    <2> DEFINE r == [Mine(t) EXCEPT !.txn = b]
    <2>1. r \in SessionType /\ r.at = Mine(t).at
      BY <1>1, SameSession DEF SessionType
    <2>2. SetMine(t, r)
      BY <1>5
    <2> HIDE DEF r
    <2> QED BY <1>1, <1>2, <1>3, <2>1, <2>2, StayStep
  <1> QED BY <1>4, <1>5

LEMMA CloseOwner ==
    ASSUME OwnerInv, NEW t \in Threads, Close(t) PROVE OwnerInv'
  <1> USE DEF Close
  <1>1. "rollback" \in WithSession
    BY DEF WithSession
  <1>2. /\ knows' \in [Threads -> SUBSET {"session", "server"}]
        /\ dead' \in [Threads -> BOOLEAN]
        /\ call' \in [Threads -> {"close", "drop", "free"}]
    BY DEF OwnerInv, Types
  <1> QED BY <1>1, <1>2, SameSession, StayStep

LEMMA ReleaseOwner ==
    ASSUME OwnerInv, NEW t \in Threads, Release(t) PROVE OwnerInv'
  <1> USE DEF Release
  <1>1. CASE handle[t] # NULL
    BY <1>1, FailStep DEF OwnerInv, Types
  <1>2. CASE handle[t] = NULL
    <2> USE <1>2 DEF OwnerInv, Fail, GoTo, poolVars
    <2>1. Types'
      BY DEF Types, Labels
    <2>2. Attached'
      BY DEF Attached, Types, WithSession
    <2>3. Owned'
      BY DEF Owned, Mine
    <2> QED BY <2>1, <2>2, <2>3
  <1> QED BY <1>1, <1>2

LEMMA RollbackOwner ==
    ASSUME OwnerInv, NEW t \in Threads, Rollback(t) PROVE OwnerInv'
  <1> USE DEF Rollback
  <1>1. handle[t] # NULL
    BY SameSession DEF OwnerInv, Attached, WithSession
  <1>2. /\ knows' \in [Threads -> SUBSET {"session", "server"}]
        /\ \A u \in Threads : u # t => knows'[u] = knows[u]
        /\ dead' \in [Threads -> BOOLEAN]
        /\ call' \in [Threads -> {"close", "drop", "free"}]
        /\ "status" \in WithSession
    BY DEF OwnerInv, Types, PropagatesErrors, WithSession
  <1>3. CASE UNCHANGED sessions
    BY <1>1, <1>2, <1>3, SameSession, StayStep
  <1> DEFINE r == [Mine(t) EXCEPT !.txn = FALSE]
  <1>4. CASE SetMine(t, r)
    <2>1. r \in SessionType /\ r.at = Mine(t).at
      BY <1>1, SameSession DEF SessionType
    <2> HIDE DEF r
    <2> QED BY <1>1, <1>2, <1>4, <2>1, StayStep
  <1> QED BY <1>3, <1>4

LEMMA ServerStatusOwner ==
    ASSUME OwnerInv, NEW t \in Threads, ServerStatus(t) PROVE OwnerInv'
  <1> USE DEF ServerStatus
  <1>1. handle[t] # NULL /\ pc[t] # "ping"
    BY SameSession DEF OwnerInv, Attached, WithSession
  <1>2. /\ knows' \in [Threads -> SUBSET {"session", "server"}]
        /\ \A u \in Threads : u # t => knows'[u] = knows[u]
        /\ call' \in [Threads -> {"close", "drop", "free"}]
        /\ "time" \in WithSession
    BY DEF OwnerInv, Types, WithSession
  <1>3. dead' \in [Threads -> BOOLEAN]
    BY DEF OwnerInv, Types, Alive
  <1> QED BY <1>1, <1>2, <1>3, SameSession, StayStep

LEMMA UpdateTimeOwner ==
    ASSUME OwnerInv, NEW t \in Threads, UpdateTime(t) PROVE OwnerInv'
  <1> USE DEF UpdateTime, connVars
  <1>1. handle[t] # NULL /\ pc[t] # "ping"
    BY SameSession DEF OwnerInv, Attached, WithSession
  <1>2. /\ knows' \in [Threads -> SUBSET {"session", "server"}]
        /\ \A u \in Threads : u # t => knows'[u] = knows[u]
        /\ call' \in [Threads -> {"close", "drop", "free"}]
        /\ dead' \in [Threads -> BOOLEAN]
        /\ {"release", "open"} \subseteq WithSession \cup {"open"}
    BY DEF OwnerInv, Types, WithSession
  <1>3. GoTo(t, "release") \/ GoTo(t, "open")
    BY DEF CloseFails
  <1>4. CASE UNCHANGED sessions
    BY <1>1, <1>2, <1>3, <1>4, SameSession, StayStep
  <1> DEFINE r == [Mine(t) EXCEPT !.time = IF dead[t] THEN "none" ELSE "now",
                                  !.blind = FALSE]
             q == [Mine(t) EXCEPT !.blind = @ \/ ~poolHandle]
  <1>5. CASE SetMine(t, r)
    <2>1. r \in SessionType /\ r.at = Mine(t).at
      BY <1>1, SameSession DEF SessionType
    <2> HIDE DEF r
    <2> QED BY <1>1, <1>2, <1>3, <1>5, <2>1, StayStep
  <1>6. CASE SetMine(t, q)
    <2>1. q \in SessionType /\ q.at = Mine(t).at
      BY <1>1, SameSession DEF SessionType, OwnerInv, Types
    <2> HIDE DEF q
    <2> QED BY <1>1, <1>2, <1>3, <1>6, <2>1, StayStep
  <1> QED BY <1>4, <1>5, <1>6
-----------------------------------------------------------------------------
(***************************************************************************)
(* Steps that take a session, give it back or drop it.  What is got had no *)
(* owner: it was not busy and the pool is there.                           *)
(***************************************************************************)
LEMMA SessionGetOwner ==
    ASSUME OwnerInv, NEW t \in Threads, SessionGet(t) PROVE OwnerInv'
  <1> USE DEF OwnerInv, SessionGet, poolVars
  <1>1. handle[t] = NULL
    BY DEF Attached, WithSession
  <1>2. CASE Fail(t) /\ UNCHANGED <<handle, sessions>>
    <2> USE <1>1, <1>2 DEF Fail, GoTo
    <2>1. Types'
      BY DEF Types, Labels
    <2>2. Attached'
      BY DEF Attached, Types, WithSession
    <2>3. Owned'
      BY DEF Owned, Mine, Types
    <2> QED BY <2>1, <2>2, <2>3
  <1>3. ASSUME NEW s \in Idle \cup Free, poolOpen,
               handle' = [handle EXCEPT ![t] = s],
               sessions' = [sessions EXCEPT ![s].at = "busy"],
               GoTo(t, "getHandles"), UNCHANGED call
        PROVE  OwnerInv'
    <2> USE <1>1, <1>3 DEF GoTo
    <2>1. s \in Sessions /\ s # NULL /\ sessions[s].at # "busy"
      BY SessionPoolAssumption DEF Idle, Free
    <2>2. \A u \in Threads : handle[u] # s
      BY <2>1 DEF Owned, Mine
    <2>3. /\ sessions'[s] = [sessions[s] EXCEPT !.at = "busy"]
          /\ \A q \in Sessions : q # s => sessions'[q] = sessions[q]
          /\ sessions[s] \in SessionType
      BY <2>1 DEF Types
    <2>4. sessions' \in [Sessions -> SessionType]
      BY <2>1, <2>3 DEF Types, SessionType
    <2>5. Types'
      BY <2>1, <2>4 DEF Types, Labels, WithSession
    <2>6. Attached'
      BY <2>1, <2>2 DEF Attached, Types, WithSession
    <2>7. /\ sessions'[s].at = "busy" /\ handle'[t] = s
          /\ \A u \in Threads : u # t => handle'[u] = handle[u] /\ pc'[u] = pc[u]
      BY <2>1, <2>2, <2>3 DEF Types, SessionType
    <2>8. Owned'
      <3>1. ASSUME NEW q \in Sessions, sessions'[q].at = "busy"
            PROVE  \E u \in Threads : handle'[u] = q
        <4>1. CASE q = s
          BY <2>7, <4>1
        <4>2. CASE q # s
          <5>1. PICK u \in Threads : handle[u] = q
            BY <2>3, <3>1, <4>2 DEF Owned
          <5>2. u # t
            BY <5>1, SessionPoolAssumption
          <5> QED BY <5>1, <5>2, <2>7
        <4> QED BY <4>1, <4>2
      <3>2. ASSUME NEW u \in Threads, handle'[u] # NULL
            PROVE  sessions'[handle'[u]].at = "busy"
        <4>1. CASE u = t
          BY <2>7, <4>1
        <4>2. CASE u # t
          BY <2>2, <2>3, <2>7, <3>2, <4>2 DEF Owned, Mine, Types
        <4> QED BY <4>1, <4>2
      <3>3. ASSUME NEW q \in Sessions, sessions'[q].at = "lost"
                PROVE  "sessionRelease" \in Failures
        BY <2>3, <2>7, <3>3 DEF Owned
      <3> QED BY <3>1, <3>2, <3>3 DEF Owned, Mine
    <2> QED BY <2>5, <2>6, <2>8
  <1>4. QED
    BY <1>2, <1>3 DEF Idle, Free

(* A session leaves its connection: it is idle, or dropped.                 *)
LEMMA LeaveStep ==
    ASSUME OwnerInv, NEW t \in Threads, handle[t] # NULL,
           NEW r \in SessionType, r.at # "busy",
           r.at = "lost" => "sessionRelease" \in Failures,
           r.at # "none" => poolOpen,
           NEW l \in {"get", "open", "free"},
           SetMine(t, r), GoTo(t, l), Detach(t),
           UNCHANGED poolVars,
           dead' \in [Threads -> BOOLEAN],
           call' \in [Threads -> {"close", "drop", "free"}]
    PROVE  OwnerInv'
  <1> USE DEF OwnerInv, SetMine, GoTo, Detach, poolVars
  <1>1. handle[t] \in Sessions
    BY DEF Types
  <1>2. /\ handle'[t] = NULL /\ knows'[t] = {} /\ pc'[t] = l
        /\ \A u \in Threads : u # t => /\ handle'[u] = handle[u]
                                       /\ knows'[u] = knows[u]
                                       /\ pc'[u] = pc[u]
        /\ sessions'[handle[t]] = r
        /\ \A s \in Sessions : s # handle[t] => sessions'[s] = sessions[s]
    BY <1>1 DEF Types
  <1>3. Types'
    BY <1>1 DEF Types, Labels
  <1>4. Attached'
    BY <1>2 DEF Attached, WithSession
  <1>5. \A u \in Threads : handle'[u] # NULL => handle'[u] # handle[t]
    BY <1>2 DEF Attached
  <1>6. Owned'
    BY <1>1, <1>2, <1>5 DEF Owned, Mine, Types
  <1> QED BY <1>3, <1>4, <1>6

LEMMA FreshType == Fresh \in SessionType /\ Fresh.at = "none"
  BY DEF Fresh, SessionType

LEMMA ForgottenType ==
    ASSUME OwnerInv, NEW t \in Threads, handle[t] # NULL
    PROVE  /\ Forgotten(t) \in SessionType /\ Forgotten(t).at # "busy"
           /\ Forgotten(t).at # "none" => poolOpen
  <1>1. handle[t] \in Sessions
    BY DEF OwnerInv, Types
  <1>2. Mine(t).at = "busy" => poolOpen
    BY <1>1 DEF OwnerInv, Owned, Mine
  <1> QED BY <1>2, FreshType DEF Forgotten, Fresh, SessionType

LEMMA PingFailsOwner ==
    ASSUME OwnerInv, NEW t \in Threads, PingFails(t) PROVE OwnerInv'
  <1> USE DEF PingFails
  <1>1. handle[t] # NULL
    BY DEF OwnerInv, Attached, WithSession
  <1>2. /\ dead' \in [Threads -> BOOLEAN]
        /\ call' \in [Threads -> {"close", "drop", "free"}]
    BY DEF OwnerInv, Types
  <1>3. PICK r \in {Fresh} \cup OnFailure("sessionRelease", Forgotten(t)) :
             SetMine(t, r)
    OBVIOUS
  <1>4. /\ r \in SessionType /\ r.at # "busy"
        /\ r.at = "lost" => "sessionRelease" \in Failures
        /\ r.at # "none" => poolOpen
    BY <1>1, FreshType, ForgottenType DEF OnFailure
  <1>5. UNCHANGED poolVars
    OBVIOUS
  <1> QED BY <1>1, <1>2, <1>3, <1>4, <1>5, LeaveStep

LEMMA ReleaseSessionOwner ==
    ASSUME OwnerInv, NEW t \in Threads, ReleaseSession(t) PROVE OwnerInv'
  <1> USE DEF ReleaseSession
  <1>1. handle[t] # NULL /\ pc[t] # "ping"
    BY SameSession DEF OwnerInv, Attached, WithSession
  <1>2. dead' \in [Threads -> BOOLEAN]
    BY DEF OwnerInv, Types
  <1>3. CASE CloseFails(t) /\ UNCHANGED <<sessions, handle, knows, call>>
    <2>1. GoTo(t, "open")
      BY <1>3 DEF CloseFails
    <2>2. /\ knows' \in [Threads -> SUBSET {"session", "server"}]
          /\ call' \in [Threads -> {"close", "drop", "free"}]
      BY <1>3 DEF OwnerInv, Types
    <2> QED BY <1>1, <1>2, <1>3, <2>1, <2>2, SameSession, StayStep
  <1> DEFINE given == IF dead[t] \/ Mine(t).at # "busy" THEN Fresh
                      ELSE [Mine(t) EXCEPT !.at = "idle"]
             l == IF call[t] = "free" THEN "free" ELSE "open"
  <1>4. ASSUME NEW r \in SessionType, r.at # "busy",
               r.at = "lost" => "sessionRelease" \in Failures,
               r.at # "none" => poolOpen,
               SetMine(t, r), Detach(t), GoTo(t, l),
               call' = [call EXCEPT ![t] = IF @ = "free" THEN @ ELSE "close"]
        PROVE  OwnerInv'
    <2>1. l \in {"get", "open", "free"}
      OBVIOUS
    <2>2. call' \in [Threads -> {"close", "drop", "free"}]
      BY <1>4 DEF OwnerInv, Types
    <2> HIDE DEF l
    <2> QED BY <1>1, <1>2, <1>4, <2>1, <2>2, LeaveStep
  <1>0. Mine(t).at = "busy" => poolOpen
    BY <1>1 DEF OwnerInv, Types, Owned, Mine
  <1>5. given \in SessionType /\ given.at \in {"none", "idle"}
        /\ (given.at # "none" => poolOpen)
    BY <1>1, SameSession, FreshType, <1>0 DEF SessionType
  <1>6. /\ Forgotten(t) \in SessionType /\ Forgotten(t).at # "busy"
        /\ Forgotten(t).at # "none" => poolOpen
    BY <1>1, ForgottenType
  <1> HIDE DEF given
  <1> QED BY <1>3, <1>4, <1>5, <1>6 DEF given
-----------------------------------------------------------------------------
(***************************************************************************)
(* Steps of the pool: either the pool stays and so do the sessions, or     *)
(* every session is gone with it.                                          *)
(***************************************************************************)
LEMMA PoolStep ==
    ASSUME OwnerInv, NEW t \in Threads,
           NEW l \in {"idle", "get", "clearPool", "destroyPool"},
           pc' = pc \/ (handle[t] = NULL /\ GoTo(t, l)),
           UNCHANGED <<handle, knows>>,
           dead' \in [Threads -> BOOLEAN],
           call' \in [Threads -> {"close", "drop", "free"}],
           poolOpen' \in BOOLEAN, poolHandle' \in BOOLEAN,
           poolRefs' \in Nat, userPool' \subseteq Threads,
           savedHandle' \in [Threads -> BOOLEAN],
           \/ UNCHANGED <<sessions, poolOpen>>
           \/ sessions' = [s \in Sessions |-> Fresh] /\ ~poolOpen'
    PROVE  OwnerInv'
  <1> USE DEF OwnerInv, GoTo
  <1>1. Types'
    BY FreshType DEF Types, Labels
  <1>2. \A u \in Threads : pc'[u] = pc[u] \/ (u = t /\ handle[t] = NULL /\ pc'[t] = l)
    BY DEF Types
  <1>3. Attached'
    BY <1>2 DEF Attached, WithSession
  <1>4. Owned'
    BY FreshType DEF Owned, Mine
  <1> QED BY <1>1, <1>3, <1>4

(* The count of the pool's references needs nothing else but the types.     *)
LEMMA ConnsCounted ==
    ASSUME OwnerInv, PoolIsCounted
    PROVE  /\ poolRefs = Cardinality(userPool) + Cardinality(Conns)
           /\ Cardinality(userPool) \in Nat /\ Cardinality(Conns) \in Nat
           /\ Conns \in SUBSET Threads /\ userPool \in SUBSET Threads
  <1>1. Conns \in SUBSET Threads /\ userPool \in SUBSET Threads
    BY DEF Conns, OwnerInv, Types
  <1> QED BY <1>1, ThreadsFinite DEF PoolIsCounted, Conns

LEMMA UnrefPoolStep ==
    ASSUME PoolInv, UnrefPool, poolRefs >= 1
    PROVE  /\ poolOpen' \in BOOLEAN /\ poolHandle' \in BOOLEAN
           /\ poolRefs' \in Nat /\ poolRefs' = poolRefs - 1
           /\ \/ UNCHANGED <<sessions, poolOpen>>
              \/ sessions' = [s \in Sessions |-> Fresh] /\ ~poolOpen'
  <1> USE DEF UnrefPool
  <1>1. poolRefs' \in Nat /\ poolRefs' = poolRefs - 1
    BY DEF PoolInv, OwnerInv, Types
  <1>2. poolOpen \in BOOLEAN /\ poolHandle \in BOOLEAN
    BY DEF PoolInv, OwnerInv, Types
  <1>3. CASE poolRefs = 1
    <2>1. poolOpen' = FALSE /\ poolHandle' = FALSE
      BY <1>3
    <2> QED BY <1>1, <1>3, <2>1
  <1>4. CASE poolRefs # 1
    <2>1. poolOpen' = poolOpen /\ poolHandle' = poolHandle
      BY <1>2, <1>4, Zenon
    <2> QED BY <1>1, <1>2, <1>4, <2>1
  <1> QED BY <1>3, <1>4

LEMMA AcquirePool ==
    ASSUME PoolInv, NEW t \in Threads, Acquire(t) PROVE PoolInv'
  <1> USE DEF PoolInv, Acquire
  <1>1. handle[t] = NULL
    BY DEF OwnerInv, Attached, WithSession
  <1>2. /\ dead' \in [Threads -> BOOLEAN]
        /\ call' \in [Threads -> {"close", "drop", "free"}]
        /\ poolOpen' \in BOOLEAN /\ poolHandle' \in BOOLEAN
        /\ poolRefs' \in Nat /\ userPool' \subseteq Threads
        /\ savedHandle' \in [Threads -> BOOLEAN]
    BY DEF OwnerInv, Types
  <1>3. OwnerInv'
    BY <1>1, <1>2, PoolStep
  <1>4. t \in Threads \ Conns /\ Conns' = Conns \cup {t}
    BY DEF Conns, HasConn, GoTo, OwnerInv, Types
  <1>5. Cardinality(Conns') = Cardinality(Conns) + 1
    BY <1>4, ConnsCounted, ThreadJoins
  <1>6. PoolIsCounted'
    BY <1>5, ConnsCounted DEF PoolIsCounted, Conns
  <1> QED BY <1>3, <1>6

LEMMA FreeConnPool ==
    ASSUME PoolInv, NEW t \in Threads, FreeConn(t) PROVE PoolInv'
  <1> USE DEF PoolInv, FreeConn
  <1>1. handle[t] = NULL
    BY DEF OwnerInv, Attached, WithSession
  <1>2. t \in Conns /\ Conns' = Conns \ {t}
    BY DEF Conns, HasConn, GoTo, OwnerInv, Types
  <1>3. Cardinality(Conns') = Cardinality(Conns) - 1 /\ Cardinality(Conns) >= 1
    BY <1>2, ConnsCounted, ThreadLeaves
  <1>4. poolRefs >= 1
    BY <1>3, ConnsCounted
  <1>5. /\ dead' \in [Threads -> BOOLEAN]
        /\ call' \in [Threads -> {"close", "drop", "free"}]
        /\ userPool' \subseteq Threads
        /\ savedHandle' \in [Threads -> BOOLEAN]
    BY DEF OwnerInv, Types
  <1>6. OwnerInv'
    BY <1>1, <1>4, <1>5, UnrefPoolStep, PoolStep
  <1>7. PoolIsCounted'
    BY <1>3, <1>4, UnrefPoolStep, ConnsCounted DEF PoolIsCounted, Conns
  <1> QED BY <1>6, <1>7

LEMMA ReleasePoolPool ==
    ASSUME PoolInv, NEW t \in Threads, ReleasePool(t) PROVE PoolInv'
  <1> USE DEF PoolInv, ReleasePool, connVars
  <1>1. Conns' = Conns /\ Cardinality(Conns') = Cardinality(Conns)
    BY DEF Conns, HasConn
  <1>2. Cardinality(userPool') = Cardinality(userPool) - 1 /\ Cardinality(userPool) >= 1
    BY ConnsCounted, ThreadLeaves
  <1>3. poolRefs >= 1
    BY <1>2, ConnsCounted
  <1>4. /\ dead' \in [Threads -> BOOLEAN]
        /\ call' \in [Threads -> {"close", "drop", "free"}]
        /\ userPool' \subseteq Threads
        /\ savedHandle' \in [Threads -> BOOLEAN]
    BY DEF OwnerInv, Types
  <1>5. OwnerInv'
    BY <1>3, <1>4, UnrefPoolStep, PoolStep
  <1>6. PoolIsCounted'
    BY <1>1, <1>2, <1>3, UnrefPoolStep, ConnsCounted DEF PoolIsCounted, Conns
  <1> QED BY <1>5, <1>6

LEMMA ClosePoolOwner ==
    ASSUME OwnerInv, NEW t \in Threads,
           ClosePool(t) \/ ClearPoolHandle(t) \/ DestroyPool(t)
    PROVE  OwnerInv'
  <1> USE DEF ClosePool, ClearPoolHandle, DestroyPool, poolVars, connVars
  <1>1. handle[t] = NULL
    BY DEF OwnerInv, Attached, WithSession
  <1>2. /\ dead' \in [Threads -> BOOLEAN]
        /\ call' \in [Threads -> {"close", "drop", "free"}]
        /\ poolRefs' \in Nat /\ userPool' \subseteq Threads
    BY DEF OwnerInv, Types
  <1>3. /\ poolOpen' \in BOOLEAN /\ poolHandle' \in BOOLEAN
        /\ savedHandle' \in [Threads -> BOOLEAN]
    BY DEF OwnerInv, Types
  <1>4. /\ UNCHANGED <<handle, knows>>
        /\ \E l \in {"idle", "get", "clearPool", "destroyPool"} : GoTo(t, l)
        /\ \/ UNCHANGED <<sessions, poolOpen>>
           \/ sessions' = [s \in Sessions |-> Fresh] /\ ~poolOpen'
    OBVIOUS
  <1> QED BY <1>1, <1>2, <1>3, <1>4, PoolStep

(* A session breaks or ages: its record changes where it is.                *)
LEMMA FaultOwner ==
    ASSUME OwnerInv, NEW s \in Sessions, Break(s) \/ Age(s)
    PROVE  OwnerInv'
  <1> USE DEF OwnerInv, Break, Age, poolVars, connVars
  <1>1. /\ sessions' \in [Sessions -> SessionType]
        /\ \A q \in Sessions : sessions'[q].at = sessions[q].at
    <2>1. sessions \in [Sessions -> SessionType]
      BY DEF Types
    <2>2. CASE Break(s)
      <3>1. sessions' = [q \in Sessions |->
                           IF q = s THEN [sessions[s] EXCEPT !.alive = FALSE,
                                                             !.txn = FALSE]
                                    ELSE sessions[q]]
        BY <2>1, <2>2
      <3>2. /\ [sessions[s] EXCEPT !.alive = FALSE, !.txn = FALSE] \in SessionType
            /\ [sessions[s] EXCEPT !.alive = FALSE, !.txn = FALSE].at
                 = sessions[s].at
        BY <2>1 DEF SessionType
      <3> QED BY <2>1, <3>1, <3>2
    <2>3. CASE Age(s)
      <3>1. sessions' = [q \in Sessions |->
                           IF q = s THEN [sessions[s] EXCEPT !.time = "old"]
                                    ELSE sessions[q]]
        BY <2>1, <2>3
      <3>2. /\ [sessions[s] EXCEPT !.time = "old"] \in SessionType
            /\ [sessions[s] EXCEPT !.time = "old"].at = sessions[s].at
        BY <2>1 DEF SessionType
      <3> QED BY <2>1, <3>1, <3>2
    <2> QED BY <2>2, <2>3
  <1>2. Types' /\ Attached'
    BY <1>1 DEF Types, Attached
  <1>3. \A t \in Threads : handle[t] # NULL => handle[t] \in Sessions
    BY DEF Types
  <1>4. Owned'
    BY <1>1, <1>3 DEF Owned, Mine
  <1> QED BY <1>2, <1>4

-----------------------------------------------------------------------------
(* Who has a connection changes only when one is acquired or freed.         *)
LEMMA CountStays ==
    ASSUME PoolInv, UNCHANGED <<poolRefs, userPool>>,
           \A u \in Threads : HasConn(u)' <=> HasConn(u)
    PROVE  PoolIsCounted'
  <1>1. Conns' = Conns
    BY DEF Conns
  <1>2. {u \in Threads : HasConn(u)'} = {u \in Threads : HasConn(u)}
    OBVIOUS
  <1> QED BY <1>2 DEF PoolInv, PoolIsCounted

LEMMA NextPoolInv == PoolInv /\ [Next]_vars => PoolInv'
  <1> SUFFICES ASSUME PoolInv, [Next]_vars PROVE PoolInv'
    OBVIOUS
  <1>0. OwnerInv /\ pc \in [Threads -> Labels]
    BY DEF PoolInv, OwnerInv, Types
  <1> USE DEF HasConn, GoTo, poolVars, connVars
  <1>1. ASSUME NEW t \in Threads,
               GetHandles(t) \/ CheckTime(t) \/ PingSucceeds(t) \/ GetCharset(t)
        PROVE  PoolInv'
    <2>1. OwnerInv'
      BY <1>0, <1>1, GetHandlesOwner, CheckTimeOwner, PingSucceedsOwner,
         GetCharsetOwner
    <2>2. PoolIsCounted'
      BY <1>0, <1>1, CountStays
         DEF GetHandles, CheckTime, PingSucceeds, GetCharset, Fail
    <2> QED BY <2>1, <2>2 DEF PoolInv
  <1>2. ASSUME NEW t \in Threads, SessionGet(t) \/ PingFails(t)
        PROVE  PoolInv'
    <2>1. OwnerInv'
      BY <1>0, <1>2, SessionGetOwner, PingFailsOwner
    <2>2. PoolIsCounted'
      BY <1>0, <1>2, CountStays DEF SessionGet, PingFails, Fail
    <2> QED BY <2>1, <2>2 DEF PoolInv
  <1>3. ASSUME NEW t \in Threads, Execute(t) \/ Close(t) \/ Release(t)
        PROVE  PoolInv'
    <2>1. OwnerInv'
      BY <1>0, <1>3, ExecuteOwner, CloseOwner, ReleaseOwner
    <2>2. PoolIsCounted'
      BY <1>0, <1>3, CountStays DEF Execute, Close, Release, Fail
    <2> QED BY <2>1, <2>2 DEF PoolInv
  <1>4. ASSUME NEW t \in Threads,
               Rollback(t) \/ ServerStatus(t) \/ UpdateTime(t) \/ ReleaseSession(t)
        PROVE  PoolInv'
    <2>1. OwnerInv'
      BY <1>0, <1>4, RollbackOwner, ServerStatusOwner, UpdateTimeOwner,
         ReleaseSessionOwner
    <2>2. PoolIsCounted'
      BY <1>0, <1>4, CountStays
         DEF Rollback, ServerStatus, UpdateTime, ReleaseSession, CloseFails
    <2> QED BY <2>1, <2>2 DEF PoolInv
  <1>5. ASSUME NEW t \in Threads, Acquire(t) \/ FreeConn(t) \/ ReleasePool(t)
        PROVE  PoolInv'
    BY <1>5, AcquirePool, FreeConnPool, ReleasePoolPool
  <1>6. ASSUME NEW t \in Threads,
               ClosePool(t) \/ ClearPoolHandle(t) \/ DestroyPool(t)
        PROVE  PoolInv'
    <2>1. OwnerInv'
      BY <1>0, <1>6, ClosePoolOwner
    <2>2. PoolIsCounted'
      BY <1>0, <1>6, CountStays DEF ClosePool, ClearPoolHandle, DestroyPool
    <2> QED BY <2>1, <2>2 DEF PoolInv
  <1>7. ASSUME NEW s \in Sessions, Break(s) \/ Age(s) PROVE PoolInv'
    <2>1. OwnerInv'
      BY <1>0, <1>7, FaultOwner
    <2>2. PoolIsCounted'
      BY <1>7, CountStays DEF Break, Age
    <2> QED BY <2>1, <2>2 DEF PoolInv
  <1>8. CASE UNCHANGED vars
    BY <1>8 DEF vars, PoolInv, OwnerInv, Types, Attached, Owned, Mine, PoolIsCounted
  <1> QED BY <1>1, <1>2, <1>3, <1>4, <1>5, <1>6, <1>7, <1>8
          DEF Next, Begin, Continue

LEMMA PoolInvariant == Spec => []PoolInv
  BY InitPoolInv, NextPoolInv, PTL DEF Spec

-----------------------------------------------------------------------------
(* The variables have their types, and what a thread works on is there: the *)
(* paths of dpiConn__get and dpiConn__close never use a missing session.    *)
THEOREM TypeCorrect == Spec => []TypeOK
  <1>1. PoolInv => TypeOK
    BY DEF PoolInv, OwnerInv, Types, Attached, TypeOK, SessionType, WithSession
  <1> QED BY <1>1, PoolInvariant, PTL

(* Whatever fails while connections are acquired, used, closed and freed,   *)
(* and whoever closes the pool, a busy session has exactly one connection,  *)
(* one that is forgotten has none and was not given back by a failing       *)
(* OCISessionRelease, and what a connection has is busy.                    *)
THEOREM SessionsAreOwned == Spec => []BusyIsOwned
  <1>1. PoolInv => BusyIsOwned
    <2> SUFFICES ASSUME PoolInv PROVE BusyIsOwned
      OBVIOUS
    <2> USE DEF PoolInv, OwnerInv
    <2>1. ASSUME NEW s \in Sessions, sessions[s].at = "busy"
          PROVE  Having(s) = 1
      <3>1. PICK u \in Threads : handle[u] = s
        BY <2>1 DEF Owned
      <3>2. s # NULL
        BY SessionPoolAssumption
      <3>3. {t \in Threads : HasConn(t) /\ handle[t] = s} = {u}
        BY <3>1, <3>2 DEF Attached, WithSession, HasConn
      <3> QED BY <3>3, FS_Singleton DEF Having
    <2>2. ASSUME NEW s \in Sessions, sessions[s].at = "lost"
          PROVE  Having(s) = 0
      <3>1. poolOpen /\ s # NULL
        BY <2>2, SessionPoolAssumption DEF Owned
      <3>2. \A u \in Threads : handle[u] # s
        BY <2>2, <3>1 DEF Owned, Mine
      <3>3. {t \in Threads : HasConn(t) /\ handle[t] = s} = {}
        BY <3>2
      <3> QED BY <3>3, FS_EmptySet DEF Having
    <2> QED BY <2>1, <2>2 DEF BusyIsOwned, Owned
  <1> QED BY <1>1, PoolInvariant, PTL

(* pool->refCount is the number of the program's references and of the      *)
(* connections, so that the pool is destroyed exactly with the last one.    *)
THEOREM PoolReferencesCounted == Spec => []PoolIsCounted
  BY PoolInvariant, PTL DEF PoolInv
-----------------------------------------------------------------------------
(***************************************************************************)
(* What waits in the pool.  The rollback of a close is undone by no later  *)
(* step, and a session gets its time last used, unless the errors of these *)
(* calls are ignored: that is so of the rollback and of the memory when an *)
(* open connection is released, and always of OCIContextSetValue.          *)
(***************************************************************************)
RollsBack == ReleasesOpen => "rollback" \notin Failures
KeepsTime ==
    /\ "contextSet" \notin Failures
    /\ ReleasesOpen => "memoryAlloc" \notin Failures

Getting == {"getHandles", "check", "ping", "getCharset"}
Closing == {"rollback", "status", "time", "release"}

(* Of the record r of a session: what must not be in the pool.             *)
Unfinished(r) == RollsBack /\ r.txn
Untimed(r) == KeepsTime /\ r.used /\ ~r.blind /\ r.time = "none"
Clean(r) == ~Unfinished(r) /\ (r.at = "busy" => ~Untimed(r))

(* A session, of a pool that is open or not.                               *)
SessionOK(r, open) ==
    /\ Unfinished(r) => r.at = "busy" /\ r.alive
    /\ r.at # "none" => open
    /\ r.at = "none" /\ open => ~r.used
    /\ r.at = "idle" => ~Untimed(r)

(***************************************************************************)
(* A session that a connection has, whose thread is at l: known says       *)
(* whether the connection has the session's handle, d whether it is dead   *)
(* and c which function closes it.                                         *)
(***************************************************************************)
ConnOK(r, l, known, d, c) ==
    /\ l \in Getting => Clean(r)
    /\ l \in {"check", "ping", "getCharset", "open"} => known
    /\ l \in Closing /\ c # "free" => known
    /\ l \in Closing \ {"release"} /\ c = "free" =>
          Clean(r) \/ (ReleasesOpen /\ known)
    /\ l = "status" => (Unfinished(r) => d \/ c = "drop")
    /\ l \in {"time", "release"} => (Unfinished(r) => d) /\ (c = "drop" => d)
    /\ l = "release" => d \/ (r.at = "busy" => ~Untimed(r))

Known(t) == "session" \in knows[t]

UseInv ==
    /\ \A s \in Sessions : SessionOK(sessions[s], poolOpen)
    /\ \A t \in Threads : handle[t] # NULL =>
          ConnOK(Mine(t), pc[t], Known(t), dead[t], call[t])
-----------------------------------------------------------------------------
(***************************************************************************)
(* A thread changes what it knows of its session, or the session; the      *)
(* others' are as they were.                                               *)
(***************************************************************************)
LEMMA UseStay ==
    ASSUME OwnerInv, UseInv, NEW t \in Threads, handle[t] # NULL,
           NEW r \in SessionType, SetMine(t, r),
           NEW l \in Labels, GoTo(t, l),
           UNCHANGED <<poolOpen, handle>>,
           \A u \in Threads : u # t =>
               knows'[u] = knows[u] /\ dead'[u] = dead[u] /\ call'[u] = call[u],
           SessionOK(r, poolOpen),
           ConnOK(r, l, Known(t)', dead'[t], call'[t])
    PROVE  UseInv'
  <1> USE DEF OwnerInv, SetMine, GoTo
  <1>1. handle[t] \in Sessions
    BY DEF Types
  <1>2. /\ pc'[t] = l /\ \A u \in Threads : u # t => pc'[u] = pc[u]
        /\ sessions'[handle[t]] = r
        /\ \A s \in Sessions : s # handle[t] => sessions'[s] = sessions[s]
    BY <1>1 DEF Types
  <1>3. \A s \in Sessions : SessionOK(sessions'[s], poolOpen')
    BY <1>2 DEF UseInv
  <1>4. ASSUME NEW u \in Threads, handle'[u] # NULL
        PROVE  ConnOK(Mine(u)', pc'[u], Known(u)', dead'[u], call'[u])
    <2>1. CASE u = t
      BY <1>2, <2>1 DEF Mine
    <2>2. CASE u # t
      <3>1. handle[u] \in Sessions /\ handle[u] # handle[t]
        BY <1>4, <2>2 DEF Types, Attached
      <3>2. Mine(u)' = Mine(u) /\ (Known(u)' <=> Known(u))
        BY <1>2, <2>2, <3>1 DEF Mine, Known
      <3>3. ConnOK(Mine(u), pc[u], Known(u), dead[u], call[u])
        BY <1>4 DEF UseInv
      <3> QED BY <1>2, <2>2, <3>2, <3>3 DEF ConnOK
    <2> QED BY <2>1, <2>2
  <1> QED BY <1>3, <1>4 DEF UseInv

(* A thread's connection leaves its session.                               *)
LEMMA UseLeave ==
    ASSUME OwnerInv, UseInv, NEW t \in Threads, handle[t] # NULL,
           NEW r \in SessionType, SetMine(t, r),
           NEW l \in Labels, GoTo(t, l), Detach(t), UNCHANGED poolOpen,
           \A u \in Threads : u # t => dead'[u] = dead[u] /\ call'[u] = call[u],
           SessionOK(r, poolOpen)
    PROVE  UseInv'
  <1> USE DEF OwnerInv, SetMine, GoTo, Detach
  <1>1. handle[t] \in Sessions
    BY DEF Types
  <1>2. /\ handle'[t] = NULL
        /\ \A u \in Threads : u # t => /\ handle'[u] = handle[u]
                                       /\ knows'[u] = knows[u]
                                       /\ pc'[u] = pc[u]
        /\ sessions'[handle[t]] = r
        /\ \A s \in Sessions : s # handle[t] => sessions'[s] = sessions[s]
    BY <1>1 DEF Types
  <1>3. \A s \in Sessions : SessionOK(sessions'[s], poolOpen')
    BY <1>2 DEF UseInv
  <1>4. ASSUME NEW u \in Threads, handle'[u] # NULL
        PROVE  ConnOK(Mine(u)', pc'[u], Known(u)', dead'[u], call'[u])
    <2>1. u # t
      BY <1>2, <1>4
    <2>2. handle[u] # NULL /\ handle[u] \in Sessions /\ handle[u] # handle[t]
      BY <1>2, <1>4, <2>1 DEF Types, Attached
    <2>3. Mine(u)' = Mine(u) /\ (Known(u)' <=> Known(u))
      BY <1>2, <2>1, <2>2 DEF Mine, Known
    <2>4. ConnOK(Mine(u), pc[u], Known(u), dead[u], call[u])
      BY <2>2 DEF UseInv
    <2> QED BY <1>2, <2>1, <2>3, <2>4 DEF ConnOK
  <1> QED BY <1>3, <1>4 DEF UseInv

(* What a thread can rely on: its session is busy if the pool is there.    *)
LEMMA UseFacts ==
    ASSUME OwnerInv, UseInv, NEW t \in Threads, handle[t] # NULL
    PROVE  /\ Mine(t) \in SessionType
           /\ SessionOK(Mine(t), poolOpen)
           /\ ConnOK(Mine(t), pc[t], Known(t), dead[t], call[t])
           /\ Mine(t).at = IF poolOpen THEN "busy" ELSE "none"
  <1>1. handle[t] \in Sessions
    BY DEF OwnerInv, Types
  <1>2. Mine(t) \in SessionType /\ SessionOK(Mine(t), poolOpen)
    BY <1>1 DEF OwnerInv, Types, UseInv, Mine
  <1>3. Mine(t).at = IF poolOpen THEN "busy" ELSE "none"
    BY <1>2 DEF OwnerInv, Owned, SessionOK
  <1> QED BY <1>2, <1>3 DEF UseInv
-----------------------------------------------------------------------------
LEMMA FreshOK ==
    ASSUME NEW open \in BOOLEAN PROVE SessionOK(Fresh, open)
  BY DEF Fresh, SessionOK, Unfinished, Untimed

LEMMA ForgottenOK ==
    ASSUME OwnerInv, NEW t \in Threads, handle[t] # NULL
    PROVE  Forgotten(t) \in SessionType /\ SessionOK(Forgotten(t), poolOpen)
  <1>1. Forgotten(t) \in SessionType /\ (Forgotten(t).at # "none" => poolOpen)
    BY ForgottenType
  <1>2. /\ ~Forgotten(t).txn /\ ~Forgotten(t).used
        /\ Forgotten(t).at \in {"none", "lost"}
    BY DEF Forgotten, Fresh
  <1> QED BY <1>1, <1>2 DEF SessionOK, Unfinished

(* An acquisition that fails gives a session back that no one has used.    *)
LEMMA FailUse ==
    ASSUME OwnerInv, UseInv, NEW t \in Threads, pc[t] \in Getting,
           Fail(t), UNCHANGED <<sessions, poolOpen, handle, dead>>,
           \A u \in Threads : u # t => knows'[u] = knows[u]
    PROVE  UseInv'
  <1>1. handle[t] # NULL
    BY DEF Getting, OwnerInv, Attached, WithSession
  <1>2. /\ SessionOK(Mine(t), poolOpen) /\ Clean(Mine(t)) /\ Mine(t) \in SessionType
    BY <1>1, UseFacts DEF ConnOK
  <1>3. /\ call'[t] = "free" /\ \A u \in Threads : u # t => call'[u] = call[u]
        /\ GoTo(t, "rollback") /\ SetMine(t, Mine(t)) /\ "rollback" \in Labels
    BY <1>1, SameSession DEF Fail, OwnerInv, Types, Labels, WithSession
  <1>4. ConnOK(Mine(t), "rollback", Known(t)', dead'[t], call'[t])
    BY <1>2, <1>3 DEF ConnOK, Getting, Closing
  <1> QED BY <1>1, <1>2, <1>3, <1>4, UseStay

LEMMA SessionGetUse ==
    ASSUME OwnerInv, UseInv, NEW t \in Threads, SessionGet(t) PROVE UseInv'
  <1> USE DEF OwnerInv, SessionGet, poolVars
  <1>1. handle[t] = NULL
    BY DEF Attached, WithSession
  <1>2. CASE Fail(t) /\ UNCHANGED <<handle, sessions>>
    BY <1>1, <1>2 DEF Fail, GoTo, Types, UseInv, Mine, Known, ConnOK
  <1>3. ASSUME NEW s \in Idle \cup Free, poolOpen,
               handle' = [handle EXCEPT ![t] = s],
               sessions' = [sessions EXCEPT ![s].at = "busy"],
               GoTo(t, "getHandles"), UNCHANGED call
        PROVE  UseInv'
    <2> USE <1>1, <1>3 DEF GoTo
    <2>1. s \in Sessions /\ s # NULL /\ sessions[s].at \in {"idle", "none"}
      BY SessionPoolAssumption DEF Idle, Free
    <2>2. \A u \in Threads : handle[u] # s
      BY <2>1 DEF Owned, Mine
    <2>3. /\ sessions'[s] = [sessions[s] EXCEPT !.at = "busy"]
          /\ \A q \in Sessions : q # s => sessions'[q] = sessions[q]
          /\ sessions[s] \in SessionType
          /\ handle'[t] = s /\ pc'[t] = "getHandles"
          /\ \A u \in Threads : u # t => handle'[u] = handle[u] /\ pc'[u] = pc[u]
      BY <2>1 DEF Types
    <2>4. SessionOK(sessions[s], TRUE)
      BY <2>1 DEF UseInv
    <2>5. SessionOK(sessions'[s], TRUE) /\ Clean(sessions'[s])
      BY <2>1, <2>3, <2>4 DEF SessionOK, Clean, Unfinished, Untimed,
         SessionType
    <2>6. \A q \in Sessions : SessionOK(sessions'[q], poolOpen')
      BY <2>3, <2>5 DEF UseInv
    <2>7. ASSUME NEW u \in Threads, handle'[u] # NULL
          PROVE  ConnOK(Mine(u)', pc'[u], Known(u)', dead'[u], call'[u])
      <3>1. CASE u = t
        <4>1. Mine(u)' = sessions'[s] /\ pc'[u] = "getHandles"
          BY <2>3, <3>1 DEF Mine
        <4> QED BY <2>5, <4>1 DEF ConnOK, Closing
      <3>2. CASE u # t
        <4>1. handle[u] # NULL /\ handle[u] # s /\ handle[u] \in Sessions
          BY <2>2, <2>3, <2>7, <3>2 DEF Types
        <4>2. Mine(u)' = Mine(u) /\ (Known(u)' <=> Known(u))
          BY <2>3, <3>2, <4>1 DEF Mine, Known
        <4>3. ConnOK(Mine(u), pc[u], Known(u), dead[u], call[u])
          BY <4>1 DEF UseInv
        <4> QED BY <2>3, <3>2, <4>2, <4>3 DEF ConnOK
      <3> QED BY <3>1, <3>2
    <2> QED BY <2>6, <2>7 DEF UseInv
  <1>4. QED
    BY <1>2, <1>3 DEF Idle, Free

LEMMA GetHandlesUse ==
    ASSUME OwnerInv, UseInv, NEW t \in Threads, GetHandles(t) PROVE UseInv'
  <1> USE DEF GetHandles
  <1>1. handle[t] # NULL /\ pc[t] \in Getting
    BY DEF OwnerInv, Attached, WithSession, Getting
  <1>2. \A u \in Threads : u # t => knows'[u] = knows[u]
    BY DEF OwnerInv, Types
  <1>3. CASE Fail(t)
    BY <1>1, <1>2, <1>3, FailUse DEF poolVars
  <1>4. CASE /\ knows' = [knows EXCEPT ![t] = {"session", "server"}]
             /\ GoTo(t, "check") /\ UNCHANGED call
    <2>1. Known(t)'
      BY <1>4 DEF Known, OwnerInv, Types
    <2>2. SessionOK(Mine(t), poolOpen) /\ Clean(Mine(t)) /\ Mine(t) \in SessionType
      BY <1>1, UseFacts DEF ConnOK
    <2>3. ConnOK(Mine(t), "check", Known(t)', dead'[t], call'[t])
      BY <2>1, <2>2 DEF ConnOK, Getting, Closing
    <2>4. SetMine(t, Mine(t)) /\ "check" \in Labels /\ UNCHANGED poolOpen
      BY <1>1, SameSession DEF Labels, WithSession, poolVars
    <2> QED BY <1>1, <1>2, <1>4, <2>2, <2>3, <2>4, UseStay
  <1> QED BY <1>3, <1>4
LEMMA CheckTimeUse ==
    ASSUME OwnerInv, UseInv, NEW t \in Threads, CheckTime(t) PROVE UseInv'
  <1> USE DEF CheckTime
  <1>1. handle[t] # NULL /\ pc[t] \in Getting /\ UNCHANGED poolOpen
    BY DEF OwnerInv, Attached, WithSession, Getting, poolVars
  <1>2. /\ SessionOK(Mine(t), poolOpen) /\ Clean(Mine(t)) /\ Known(t)
        /\ Mine(t) \in SessionType
    BY <1>1, UseFacts DEF ConnOK
  <1>3. CASE Fail(t) /\ UNCHANGED sessions
    BY <1>1, <1>3, FailUse
  <1>4. ASSUME NEW l \in {"getCharset", "ping"}, GoTo(t, l),
               UNCHANGED <<sessions, call>>
        PROVE  UseInv'
    <2>1. ConnOK(Mine(t), l, Known(t)', dead'[t], call'[t])
      BY <1>2, <1>4 DEF ConnOK, Closing, Known
    <2>2. SetMine(t, Mine(t)) /\ l \in Labels
      BY <1>1, <1>4, SameSession DEF Labels, WithSession
    <2> QED BY <1>1, <1>2, <1>4, <2>1, <2>2, UseStay
  <1> QED BY <1>3, <1>4

LEMMA PingSucceedsUse ==
    ASSUME OwnerInv, UseInv, NEW t \in Threads, PingSucceeds(t) PROVE UseInv'
  <1> USE DEF PingSucceeds
  <1>1. /\ handle[t] # NULL /\ pc[t] \in Getting /\ "getCharset" \in Labels
        /\ UNCHANGED <<poolOpen, handle, knows, dead, call>>
    BY DEF OwnerInv, Attached, WithSession, Getting, Labels, poolVars, connVars
  <1>2. /\ SessionOK(Mine(t), poolOpen) /\ Clean(Mine(t)) /\ Known(t)
        /\ Mine(t) \in SessionType
    BY <1>1, UseFacts DEF ConnOK
  <1>3. ConnOK(Mine(t), "getCharset", Known(t)', dead'[t], call'[t])
    BY <1>1, <1>2 DEF ConnOK, Closing, Known
  <1>4. SetMine(t, Mine(t)) /\ GoTo(t, "getCharset")
    BY <1>1, SameSession
  <1> QED BY <1>1, <1>2, <1>3, <1>4, UseStay

LEMMA PingFailsUse ==
    ASSUME OwnerInv, UseInv, NEW t \in Threads, PingFails(t) PROVE UseInv'
  <1> USE DEF PingFails
  <1>1. handle[t] # NULL /\ "get" \in Labels /\ UNCHANGED poolOpen
    BY DEF OwnerInv, Attached, WithSession, Labels, poolVars
  <1>2. \A u \in Threads : u # t => dead'[u] = dead[u] /\ call'[u] = call[u]
    BY DEF OwnerInv, Types
  <1>3. SessionOK(Fresh, poolOpen)
    BY FreshOK DEF OwnerInv, Types
  <1>4. Forgotten(t) \in SessionType /\ SessionOK(Forgotten(t), poolOpen)
    BY <1>1, ForgottenOK
  <1> QED BY <1>1, <1>2, <1>3, <1>4, FreshType, UseLeave DEF OnFailure

LEMMA GetCharsetUse ==
    ASSUME OwnerInv, UseInv, NEW t \in Threads, GetCharset(t) PROVE UseInv'
  <1> USE DEF GetCharset
  <1>1. handle[t] # NULL /\ pc[t] \in Getting /\ UNCHANGED poolOpen
    BY DEF OwnerInv, Attached, WithSession, Getting, poolVars
  <1>2. CASE Fail(t) /\ UNCHANGED sessions
    BY <1>1, <1>2, FailUse
  <1> DEFINE r == [Mine(t) EXCEPT !.used = TRUE]
  <1>3. CASE SetMine(t, r) /\ GoTo(t, "open") /\ UNCHANGED call
    <2>1. /\ SessionOK(Mine(t), poolOpen) /\ Clean(Mine(t)) /\ Known(t)
          /\ Mine(t) \in SessionType
          /\ Mine(t).at = IF poolOpen THEN "busy" ELSE "none"
      BY <1>1, UseFacts DEF ConnOK
    <2>2. r \in SessionType /\ SessionOK(r, poolOpen)
      BY <2>1 DEF SessionType, SessionOK, Unfinished, Untimed
    <2>3. ConnOK(r, "open", Known(t)', dead'[t], call'[t])
      BY <2>1 DEF ConnOK, Getting, Closing, Known
    <2>4. "open" \in Labels  BY DEF Labels
    <2> HIDE DEF r
    <2> QED BY <1>1, <1>3, <2>2, <2>3, <2>4, UseStay
  <1> QED BY <1>2, <1>3
-----------------------------------------------------------------------------
LEMMA ExecuteUse ==
    ASSUME OwnerInv, UseInv, NEW t \in Threads, Execute(t) PROVE UseInv'
  <1> USE DEF Execute
  <1>1. /\ handle[t] # NULL /\ pc[t] = "open" /\ "open" \in Labels
        /\ GoTo(t, "open") /\ UNCHANGED <<poolOpen, handle, knows, call>>
    BY DEF Connected, GoTo, OwnerInv, Types, Labels, poolVars
  <1>2. SessionOK(Mine(t), poolOpen) /\ Known(t) /\ Mine(t) \in SessionType
    BY <1>1, UseFacts DEF ConnOK
  <1>3. \A u \in Threads : u # t => dead'[u] = dead[u]
    BY DEF OwnerInv, Types
  <1>4. ASSUME NEW r \in SessionType
        PROVE  ConnOK(r, "open", Known(t)', dead'[t], call'[t])
    BY <1>1, <1>2 DEF ConnOK, Getting, Closing, Known
  <1>5. CASE UNCHANGED sessions
    <2>1. SetMine(t, Mine(t))
      BY <1>1, <1>5, SameSession
    <2> QED BY <1>1, <1>2, <1>3, <1>4, <2>1, UseStay
  <1>6. ASSUME Alive(t), NEW b \in BOOLEAN, SetMine(t, [Mine(t) EXCEPT !.txn = b])
        PROVE  UseInv'
    <2> DEFINE r == [Mine(t) EXCEPT !.txn = b]
    <2>1. r \in SessionType /\ SessionOK(r, poolOpen)
      BY <1>2, <1>6 DEF SessionType, SessionOK, Unfinished, Untimed, Alive
    <2>2. SetMine(t, r)  BY <1>6
    <2> HIDE DEF r
    <2> QED BY <1>1, <1>3, <1>4, <2>1, <2>2, UseStay
  <1> QED BY <1>5, <1>6

LEMMA CloseUse ==
    ASSUME OwnerInv, UseInv, NEW t \in Threads, Close(t) PROVE UseInv'
  <1> USE DEF Close
  <1>1. /\ handle[t] # NULL /\ pc[t] = "open" /\ "rollback" \in Labels
        /\ UNCHANGED <<poolOpen, handle, knows, dead>> /\ SetMine(t, Mine(t))
    BY SameSession DEF OwnerInv, Types, Labels, WithSession, poolVars
  <1>2. SessionOK(Mine(t), poolOpen) /\ Known(t) /\ Mine(t) \in SessionType
    BY <1>1, UseFacts DEF ConnOK
  <1>3. /\ \A u \in Threads : u # t => call'[u] = call[u]
        /\ call'[t] # "free"
    BY DEF OwnerInv, Types
  <1>4. ConnOK(Mine(t), "rollback", Known(t)', dead'[t], call'[t])
    BY <1>1, <1>2, <1>3 DEF ConnOK, Getting, Closing, Known
  <1> QED BY <1>1, <1>2, <1>3, <1>4, UseStay

LEMMA ReleaseUse ==
    ASSUME OwnerInv, UseInv, NEW t \in Threads, Release(t) PROVE UseInv'
  <1> USE DEF Release, Fail
  <1>1. UNCHANGED <<poolOpen, handle, knows, dead>>
    BY DEF poolVars
  <1>2. \A u \in Threads : u # t => call'[u] = call[u]
    BY DEF OwnerInv, Types
  <1>3. CASE handle[t] # NULL
    <2>1. GoTo(t, "rollback") /\ "rollback" \in Labels /\ call'[t] = "free"
      BY <1>3 DEF OwnerInv, Types, Labels, WithSession
    <2>2. /\ SessionOK(Mine(t), poolOpen) /\ Known(t) /\ Mine(t) \in SessionType
          /\ Mine(t).at = IF poolOpen THEN "busy" ELSE "none"
      BY <1>3, UseFacts DEF ConnOK
    <2>3. Clean(Mine(t)) \/ ReleasesOpen
      BY <1>3, <2>2 DEF Clean, SessionOK
    <2>4. ConnOK(Mine(t), "rollback", Known(t)', dead'[t], call'[t])
      BY <1>1, <2>1, <2>2, <2>3 DEF ConnOK, Getting, Closing, Known
    <2>5. SetMine(t, Mine(t))
      BY <1>3, SameSession
    <2> QED BY <1>1, <1>2, <1>3, <2>1, <2>2, <2>4, <2>5, UseStay
  <1>4. CASE handle[t] = NULL
    <2>1. \A u \in Threads : u # t => pc'[u] = pc[u]
      BY DEF GoTo, OwnerInv, Types
    <2> QED BY <1>1, <1>2, <1>4, <2>1 DEF UseInv, Mine, Known, ConnOK
  <1> QED BY <1>3, <1>4
(* If the error is ignored there is nothing to roll back, or it succeeds.  *)
LEMMA RollbackUse ==
    ASSUME OwnerInv, UseInv, NEW t \in Threads, Rollback(t) PROVE UseInv'
  <1> USE DEF Rollback
  <1>1. /\ handle[t] # NULL /\ "status" \in Labels
        /\ UNCHANGED <<poolOpen, handle, knows, call>>
    BY DEF OwnerInv, Attached, WithSession, Labels, poolVars
  <1>2. /\ SessionOK(Mine(t), poolOpen) /\ Mine(t) \in SessionType
        /\ ConnOK(Mine(t), "rollback", Known(t), dead[t], call[t])
    BY <1>1, UseFacts
  <1>3. /\ \A u \in Threads : u # t => dead'[u] = dead[u]
        /\ call[t] \in {"close", "drop", "free"} /\ dead[t] \in BOOLEAN
    BY DEF OwnerInv, Types
  <1>4. CASE /\ dead[t] \/ "session" \notin knows[t] \/ ~Mine(t).txn
             /\ UNCHANGED <<sessions, dead>>
    <2>1. UNCHANGED <<sessions, dead>>  BY <1>4
    <2>2. Unfinished(Mine(t)) => dead[t]
      BY <1>2, <1>3, <1>4 DEF ConnOK, Known, Clean, Closing, Unfinished
    <2>3. ConnOK(Mine(t), "status", Known(t)', dead'[t], call'[t])
      BY <1>1, <1>2, <2>1, <2>2 DEF ConnOK, Getting, Closing, Known
    <2>4. SetMine(t, Mine(t))  BY <1>1, <2>1, SameSession
    <2> QED BY <1>1, <1>2, <1>3, <2>3, <2>4, UseStay
  <1> DEFINE r == [Mine(t) EXCEPT !.txn = FALSE]
  <1>5. CASE SetMine(t, r) /\ UNCHANGED dead
    <2>1. r \in SessionType /\ SessionOK(r, poolOpen) /\ ~Unfinished(r)
      BY <1>2 DEF SessionType, SessionOK, Unfinished, Untimed
    <2>2. Clean(Mine(t)) => Clean(r)
      BY <1>2, <2>1 DEF Clean, Untimed, SessionType
    <2>3. ConnOK(r, "status", Known(t)', dead'[t], call'[t])
      BY <1>1, <1>2, <2>1, <2>2 DEF ConnOK, Getting, Closing, Known
    <2> HIDE DEF r
    <2> QED BY <1>1, <1>3, <1>5, <2>1, <2>3, UseStay
  <1>6. CASE /\ ~dead[t] /\ "session" \in knows[t]
             /\ ~Alive(t) \/ "rollback" \in Failures
             /\ dead' = [dead EXCEPT ![t] = PropagatesErrors(t)]
             /\ UNCHANGED sessions
    <2>1. dead'[t] <=> call[t] = "close"
      BY <1>6 DEF PropagatesErrors, OwnerInv, Types
    <2>2. Unfinished(Mine(t)) => call[t] # "free"
      <3>1. Unfinished(Mine(t)) => Alive(t)
        BY <1>2 DEF SessionOK, Alive
      <3>2. Unfinished(Mine(t)) => ~ReleasesOpen
        BY <1>6, <3>1 DEF Unfinished, RollsBack
      <3> QED BY <1>2, <3>2 DEF ConnOK, Closing, Clean
    <2>3. ConnOK(Mine(t), "status", Known(t)', dead'[t], call'[t])
      BY <1>1, <1>2, <1>3, <2>1, <2>2 DEF ConnOK, Getting, Closing, Known
    <2>4. SetMine(t, Mine(t))  BY <1>1, <1>6, SameSession
    <2> QED BY <1>1, <1>2, <1>3, <2>3, <2>4, UseStay
  <1> QED BY <1>4, <1>5, <1>6

LEMMA ServerStatusUse ==
    ASSUME OwnerInv, UseInv, NEW t \in Threads, ServerStatus(t) PROVE UseInv'
  <1> USE DEF ServerStatus
  <1>1. /\ handle[t] # NULL /\ "time" \in Labels
        /\ UNCHANGED <<poolOpen, handle, knows, call>>
    BY DEF OwnerInv, Attached, WithSession, Labels, poolVars
  <1>2. /\ SessionOK(Mine(t), poolOpen) /\ Mine(t) \in SessionType
        /\ ConnOK(Mine(t), "status", Known(t), dead[t], call[t])
        /\ SetMine(t, Mine(t))
    BY <1>1, UseFacts, SameSession
  <1>3. /\ \A u \in Threads : u # t => dead'[u] = dead[u]
        /\ dead[t] \/ call[t] = "drop" => dead'[t]
    BY DEF OwnerInv, Types
  <1>4. ConnOK(Mine(t), "time", Known(t)', dead'[t], call'[t])
    BY <1>1, <1>2, <1>3 DEF ConnOK, Getting, Closing, Known
  <1> QED BY <1>1, <1>2, <1>3, <1>4, UseStay

(* The session is to be dropped, it is clean, or its time has been set.    *)
LEMMA UpdateTimeUse ==
    ASSUME OwnerInv, UseInv, NEW t \in Threads, UpdateTime(t) PROVE UseInv'
  <1> USE DEF UpdateTime
  <1>1. /\ handle[t] # NULL /\ {"release", "open"} \subseteq Labels
        /\ UNCHANGED <<poolOpen, handle, knows, dead, call>>
        /\ call[t] \in {"close", "drop", "free"}
    BY DEF OwnerInv, Types, Attached, WithSession, Labels, poolVars, connVars
  <1>2. /\ SessionOK(Mine(t), poolOpen) /\ Mine(t) \in SessionType
        /\ ConnOK(Mine(t), "time", Known(t), dead[t], call[t])
        /\ Mine(t).at = IF poolOpen THEN "busy" ELSE "none"
    BY <1>1, UseFacts
  <1>3. ASSUME NEW r \in SessionType, SetMine(t, r), GoTo(t, "release"),
               r.at = Mine(t).at, r.txn = Mine(t).txn, r.alive = Mine(t).alive,
               r.used = Mine(t).used, dead[t] \/ (r.at = "busy" => ~Untimed(r))
        PROVE  UseInv'
    <2>1. SessionOK(r, poolOpen)
      BY <1>2, <1>3 DEF SessionOK, Unfinished
    <2>2. ConnOK(r, "release", Known(t)', dead'[t], call'[t])
      BY <1>1, <1>2, <1>3 DEF ConnOK, Getting, Closing, Known, Unfinished
    <2> QED BY <1>1, <1>3, <2>1, <2>2, UseStay
  <1>4. CASE CloseFails(t) /\ "session" \in knows[t] /\ UNCHANGED sessions
    <2>1. ConnOK(Mine(t), "open", Known(t)', dead'[t], call'[t])
      BY <1>1, <1>4 DEF ConnOK, Getting, Closing, Known
    <2>2. SetMine(t, Mine(t)) /\ GoTo(t, "open")
      BY <1>1, <1>4, SameSession DEF CloseFails
    <2> QED BY <1>1, <1>2, <2>1, <2>2, UseStay
  <1> DEFINE r == [Mine(t) EXCEPT !.time = IF dead[t] THEN "none" ELSE "now",
                                  !.blind = FALSE]
             q == [Mine(t) EXCEPT !.blind = @ \/ ~poolHandle]
  <1>5. CASE SetMine(t, r) /\ GoTo(t, "release")
    <2>1. /\ r \in SessionType /\ r.at = Mine(t).at /\ r.txn = Mine(t).txn
          /\ r.alive = Mine(t).alive /\ r.used = Mine(t).used
          /\ dead[t] \/ ~Untimed(r)
      BY <1>2 DEF SessionType, Untimed
    <2> HIDE DEF r
    <2> QED BY <1>3, <1>5, <2>1
  <1>6. CASE /\ ~dead[t]
             /\ \/ "contextSet" \in Failures
                \/ "memoryAlloc" \in Failures /\ ~PropagatesErrors(t)
             /\ GoTo(t, "release") /\ UNCHANGED sessions
    <2>1. Mine(t).at = "busy" => ~Untimed(Mine(t))
      <3>1. CASE ~KeepsTime
        BY <3>1 DEF Untimed
      <3>2. CASE KeepsTime
        <4>1. call[t] = "free" /\ ~ReleasesOpen
          BY <1>1, <1>2, <1>6, <3>2 DEF KeepsTime, PropagatesErrors, ConnOK
        <4> QED BY <1>2, <4>1 DEF ConnOK, Closing, Clean
      <3> QED BY <3>1, <3>2
    <2>2. SetMine(t, Mine(t))  BY <1>1, <1>6, SameSession
    <2> QED BY <1>2, <1>3, <1>6, <2>1, <2>2
  <1>7. CASE /\ "session" \notin knows[t] \/ ~poolHandle
             /\ SetMine(t, q) /\ GoTo(t, "release")
    <2>1. /\ q \in SessionType /\ q.at = Mine(t).at /\ q.txn = Mine(t).txn
          /\ q.alive = Mine(t).alive /\ q.used = Mine(t).used
          /\ q.time = Mine(t).time /\ q.blind = (Mine(t).blind \/ ~poolHandle)
      BY <1>2 DEF SessionType, OwnerInv, Types
    <2>2. "session" \notin knows[t] => Clean(Mine(t))
      BY <1>2 DEF ConnOK, Closing, Known
    <2>3. q.at = "busy" => ~Untimed(q)
      BY <1>7, <2>1, <2>2 DEF Clean, Untimed
    <2> HIDE DEF q
    <2> QED BY <1>3, <1>7, <2>1, <2>3
  <1> QED BY <1>4, <1>5, <1>6, <1>7

LEMMA ReleaseSessionUse ==
    ASSUME OwnerInv, UseInv, NEW t \in Threads, ReleaseSession(t) PROVE UseInv'
  <1> USE DEF ReleaseSession
  <1>1. /\ handle[t] # NULL /\ {"free", "open"} \subseteq Labels
        /\ UNCHANGED <<poolOpen, dead>>
    BY DEF OwnerInv, Attached, WithSession, Labels, poolVars
  <1>2. /\ SessionOK(Mine(t), poolOpen) /\ Mine(t) \in SessionType
        /\ ConnOK(Mine(t), "release", Known(t), dead[t], call[t])
    BY <1>1, UseFacts
  <1>3. CASE CloseFails(t) /\ UNCHANGED <<sessions, handle, knows, call>>
    <2>1. GoTo(t, "open") /\ SetMine(t, Mine(t)) /\ Known(t)
      BY <1>1, <1>2, <1>3, SameSession
         DEF CloseFails, PropagatesErrors, ConnOK, Closing
    <2>2. ConnOK(Mine(t), "open", Known(t)', dead'[t], call'[t])
      BY <1>3, <2>1 DEF ConnOK, Getting, Closing, Known
    <2> QED BY <1>1, <1>2, <1>3, <2>1, <2>2, UseStay
  <1> DEFINE given == IF dead[t] \/ Mine(t).at # "busy" THEN Fresh
                      ELSE [Mine(t) EXCEPT !.at = "idle"]
             l == IF call[t] = "free" THEN "free" ELSE "open"
  <1>4. ASSUME NEW r \in SessionType, SessionOK(r, poolOpen),
               SetMine(t, r), Detach(t), GoTo(t, l),
               call' = [call EXCEPT ![t] = IF @ = "free" THEN @ ELSE "close"]
        PROVE  UseInv'
    <2>1. l \in Labels
      BY <1>1
    <2>2. \A u \in Threads : u # t => call'[u] = call[u]
      BY <1>4 DEF OwnerInv, Types
    <2> HIDE DEF l
    <2> QED BY <1>1, <1>4, <2>1, <2>2, UseLeave
  <1>5. given \in SessionType
    BY <1>2, FreshType DEF SessionType
  <1>6. SessionOK(given, poolOpen)
    <2>1. CASE dead[t] \/ Mine(t).at # "busy"
      BY <2>1, FreshOK DEF OwnerInv, Types
    <2>2. CASE ~(dead[t] \/ Mine(t).at # "busy")
      BY <1>2, <2>2 DEF SessionOK, ConnOK, Untimed, Unfinished, SessionType
    <2> QED BY <2>1, <2>2
  <1>7. Forgotten(t) \in SessionType /\ SessionOK(Forgotten(t), poolOpen)
    BY <1>1, ForgottenOK
  <1> HIDE DEF given
  <1> QED BY <1>3, <1>4, <1>5, <1>6, <1>7 DEF given
-----------------------------------------------------------------------------
(* A step of the pool, of a thread that has no session.                    *)
LEMMA PoolUse ==
    ASSUME OwnerInv, UseInv, NEW t \in Threads,
           UNCHANGED <<handle, knows>>, poolOpen' \in BOOLEAN,
           handle[t] # NULL => UNCHANGED <<pc, dead, call>>,
           \A u \in Threads : u # t =>
               pc'[u] = pc[u] /\ dead'[u] = dead[u] /\ call'[u] = call[u],
           \/ UNCHANGED <<sessions, poolOpen>>
           \/ sessions' = [s \in Sessions |-> Fresh] /\ ~poolOpen'
    PROVE  UseInv'
  <1>1. \A s \in Sessions : SessionOK(sessions'[s], poolOpen')
    BY FreshOK DEF UseInv
  <1>2. ASSUME NEW u \in Threads, handle'[u] # NULL
        PROVE  ConnOK(Mine(u)', pc'[u], Known(u)', dead'[u], call'[u])
    <2>1. pc'[u] = pc[u] /\ dead'[u] = dead[u] /\ call'[u] = call[u]
      BY <1>2
    <2>2. ConnOK(Mine(u), pc[u], Known(u), dead[u], call[u])
      BY <1>2 DEF UseInv
    <2>3. Mine(u)' = Mine(u) \/ Mine(u)' = Fresh
      BY <1>2 DEF Mine, OwnerInv, Types
    <2>4. Clean(Fresh) /\ ~Unfinished(Fresh) /\ ~Untimed(Fresh)
      BY DEF Fresh, Clean, Unfinished, Untimed
    <2> QED BY <2>1, <2>2, <2>3, <2>4 DEF ConnOK, Known
  <1> QED BY <1>1, <1>2 DEF UseInv

(* A fault, or time, changes a session without making it less fit for the  *)
(* pool.                                                                   *)
LEMMA FaultUse ==
    ASSUME OwnerInv, UseInv, NEW s \in Sessions, Break(s) \/ Age(s)
    PROVE  UseInv'
  <1> USE DEF OwnerInv, Break, Age, poolVars, connVars
  <1>1. PICK r \in SessionType :
              /\ sessions' = [sessions EXCEPT ![s] = r]
              /\ r.at = sessions[s].at /\ r.used = sessions[s].used
              /\ r.blind = sessions[s].blind
              /\ r.time = "none" => sessions[s].time = "none"
              /\ r.txn => sessions[s].txn /\ r.alive = sessions[s].alive
    <2>1. sessions \in [Sessions -> SessionType] /\ sessions[s] \in SessionType
      BY DEF Types
    <2>2. CASE Break(s)
      <3>  DEFINE r == [sessions[s] EXCEPT !.alive = FALSE, !.txn = FALSE]
      <3>1. sessions' = [sessions EXCEPT ![s] = r]  BY <2>1, <2>2
      <3>2. /\ r \in SessionType /\ r.at = sessions[s].at
            /\ r.used = sessions[s].used /\ r.blind = sessions[s].blind
            /\ r.time = sessions[s].time /\ ~r.txn
        BY <2>1 DEF SessionType
      <3>  HIDE DEF r
      <3> QED BY <3>1, <3>2
    <2>3. CASE Age(s)
      <3>  DEFINE r == [sessions[s] EXCEPT !.time = "old"]
      <3>1. sessions' = [sessions EXCEPT ![s] = r]  BY <2>1, <2>3
      <3>2. /\ r \in SessionType /\ r.at = sessions[s].at
            /\ r.used = sessions[s].used /\ r.blind = sessions[s].blind
            /\ r.time # "none"
            /\ r.txn = sessions[s].txn /\ r.alive = sessions[s].alive
        BY <2>1 DEF SessionType
      <3>  HIDE DEF r
      <3> QED BY <3>1, <3>2
    <2> QED BY <2>2, <2>3
  <1>2. /\ sessions'[s] = r
        /\ \A q \in Sessions : q # s => sessions'[q] = sessions[q]
    BY <1>1 DEF Types
  <1>3. /\ Unfinished(r) => Unfinished(sessions[s])
        /\ Untimed(r) => Untimed(sessions[s])
        /\ Clean(sessions[s]) => Clean(r)
    BY <1>1 DEF Clean, Unfinished, Untimed
  <1>4. \A q \in Sessions : SessionOK(sessions'[q], poolOpen')
    <2>1. SessionOK(sessions[s], poolOpen)  BY DEF UseInv
    <2>2. SessionOK(r, poolOpen)  BY <1>1, <1>3, <2>1 DEF SessionOK, Unfinished
    <2> QED BY <1>2, <2>2 DEF UseInv
  <1>5. ASSUME NEW u \in Threads, handle'[u] # NULL
        PROVE  ConnOK(Mine(u)', pc'[u], Known(u)', dead'[u], call'[u])
    <2>1. ConnOK(Mine(u), pc[u], Known(u), dead[u], call[u]) /\ handle[u] \in Sessions
      BY <1>5 DEF UseInv, Types
    <2>2. \/ Mine(u)' = Mine(u)
          \/ Mine(u) = sessions[s] /\ Mine(u)' = r
      BY <1>2, <2>1 DEF Mine
    <2> QED BY <1>1, <1>3, <2>1, <2>2 DEF ConnOK, Known
  <1> QED BY <1>4, <1>5 DEF UseInv

LEMMA UseStep == PoolInv /\ UseInv /\ [Next]_vars => UseInv'
  <1> SUFFICES ASSUME PoolInv, UseInv, [Next]_vars PROVE UseInv'
    OBVIOUS
  <1>0. OwnerInv /\ poolOpen \in BOOLEAN
    BY DEF PoolInv, OwnerInv, Types
  <1>1. ASSUME NEW t \in Threads,
               \/ SessionGet(t) \/ GetHandles(t) \/ CheckTime(t)
               \/ PingSucceeds(t) \/ PingFails(t) \/ GetCharset(t)
        PROVE  UseInv'
    BY <1>0, <1>1, SessionGetUse, GetHandlesUse, CheckTimeUse, PingSucceedsUse,
       PingFailsUse, GetCharsetUse
  <1>2. ASSUME NEW t \in Threads, Execute(t) \/ Close(t) \/ Release(t)
        PROVE  UseInv'
    BY <1>0, <1>2, ExecuteUse, CloseUse, ReleaseUse
  <1>3. ASSUME NEW t \in Threads,
               Rollback(t) \/ ServerStatus(t) \/ UpdateTime(t) \/ ReleaseSession(t)
        PROVE  UseInv'
    BY <1>0, <1>3, RollbackUse, ServerStatusUse, UpdateTimeUse,
       ReleaseSessionUse
  <1>4. ASSUME NEW t \in Threads,
               \/ Acquire(t) \/ FreeConn(t)
               \/ ClosePool(t) \/ ClearPoolHandle(t) \/ DestroyPool(t)
        PROVE  UseInv'
    <2>1. handle[t] = NULL
      BY <1>0, <1>4 DEF OwnerInv, Attached, WithSession, Acquire, FreeConn,
         ClosePool, ClearPoolHandle, DestroyPool
    <2>2. \A u \in Threads : u # t =>
             pc'[u] = pc[u] /\ dead'[u] = dead[u] /\ call'[u] = call[u]
      BY <1>0, <1>4 DEF OwnerInv, Types, GoTo, connVars, Acquire, FreeConn,
         ClosePool, ClearPoolHandle, DestroyPool
    <2>3. UNCHANGED <<handle, knows>>
      BY <1>4 DEF connVars, Acquire, FreeConn, ClosePool, ClearPoolHandle,
         DestroyPool
    <2>4. /\ poolOpen' \in BOOLEAN
          /\ \/ UNCHANGED <<sessions, poolOpen>>
             \/ sessions' = [s \in Sessions |-> Fresh] /\ ~poolOpen'
      <3>1. CASE FreeConn(t)
        BY <1>0, <3>1, Zenon DEF FreeConn, UnrefPool
      <3>2. CASE ~FreeConn(t)
        BY <1>0, <1>4, <3>2 DEF poolVars, Acquire, ClosePool, ClearPoolHandle,
                                DestroyPool
      <3> QED BY <3>1, <3>2
    <2> QED BY <1>0, <2>1, <2>2, <2>3, <2>4, PoolUse
  <1>5. ASSUME NEW t \in Threads, ReleasePool(t) PROVE UseInv'
    <2>1. UNCHANGED <<handle, knows, dead, call, pc>>
      BY <1>5 DEF ReleasePool, connVars
    <2>2. /\ poolOpen' \in BOOLEAN
          /\ \/ UNCHANGED <<sessions, poolOpen>>
             \/ sessions' = [s \in Sessions |-> Fresh] /\ ~poolOpen'
      BY <1>0, <1>5, Zenon DEF ReleasePool, UnrefPool
    <2> QED BY <1>0, <2>1, <2>2, PoolUse
  <1>6. ASSUME NEW s \in Sessions, Break(s) \/ Age(s) PROVE UseInv'
    BY <1>0, <1>6, FaultUse
  <1>7. CASE UNCHANGED vars
    BY <1>7 DEF vars, poolVars, connVars, UseInv, Mine, Known
  <1> QED BY <1>1, <1>2, <1>3, <1>4, <1>5, <1>6, <1>7 DEF Next, Begin, Continue

LEMMA InitUseInv == Init => UseInv
  BY FreshOK DEF Init, UseInv

LEMMA UseInvariant == Spec => []UseInv
  BY InitUseInv, UseStep, PoolInvariant, PTL DEF Spec

(***************************************************************************)
(* dpiConn__close leaves no transaction in the pool: it is rolled back or  *)
(* the session is dropped.  The exception is the connection that is        *)
(* released open, whose rollback may fail unnoticed.                       *)
(***************************************************************************)
THEOREM NoTransactionIsInherited ==
    ASSUME RollsBack PROVE Spec => []NoTransactionWaits
  <1>1. UseInv => NoTransactionWaits
    BY DEF UseInv, SessionOK, Unfinished, NoTransactionWaits
  <1> QED BY <1>1, UseInvariant, PTL

(***************************************************************************)
(* A session that was used has its time last used when it waits, unless    *)
(* the code ignores that the time could not be set.                        *)
(***************************************************************************)
THEOREM UsedSessionsAreTimed ==
    ASSUME KeepsTime PROVE Spec => []UsedSessionsHaveTime
  <1>1. UseInv => UsedSessionsHaveTime
    BY DEF UseInv, SessionOK, Untimed, UsedSessionsHaveTime
  <1> QED BY <1>1, UseInvariant, PTL

-----------------------------------------------------------------------------
(***************************************************************************)
(* A pool that one thread closes: while it is destroyed its handle is      *)
(* cleared, and otherwise an open pool has it.                             *)
(***************************************************************************)
CloserInv ==
    /\ userPool \subseteq Owners
    /\ \A t \in Threads :
          /\ pc[t] \in {"clearPool", "destroyPool"} => t \in Owners
          /\ pc[t] = "destroyPool" => ~poolHandle
    /\ OpenPoolHasHandle

LEMMA CloserStep ==
    ASSUME \A t, u \in Owners : t = u
    PROVE  PoolInv /\ CloserInv /\ [Next]_vars => CloserInv'
  <1> SUFFICES ASSUME PoolInv, CloserInv, [Next]_vars PROVE CloserInv'
    OBVIOUS
  <1> USE DEF CloserInv, OpenPoolHasHandle, GoTo
  <1>0. /\ pc \in [Threads -> Labels] /\ savedHandle \in [Threads -> BOOLEAN]
        /\ poolOpen \in BOOLEAN /\ poolHandle \in BOOLEAN
    BY DEF PoolInv, OwnerInv, Types
  <1>1. ASSUME NEW t \in Threads, ClosePool(t) PROVE CloserInv'
    BY <1>0, <1>1 DEF ClosePool, poolVars, connVars
  <1>2. ASSUME NEW t \in Threads, ClearPoolHandle(t) PROVE CloserInv'
    BY <1>0, <1>2 DEF ClearPoolHandle, connVars
  <1>3. ASSUME NEW t \in Threads, DestroyPool(t) PROVE CloserInv'
    <2>1. t \in Owners /\ pc[t] = "destroyPool" /\ pc'[t] = "idle"
      BY <1>0, <1>3 DEF DestroyPool
    <2>2. \A u \in Threads : u # t => /\ pc[u] \notin {"clearPool", "destroyPool"}
                                     /\ pc'[u] = pc[u]
      BY <1>0, <1>3, <2>1 DEF DestroyPool
    <2>3. poolOpen => savedHandle[t]
      BY <2>1, <2>2
    <2>4. poolOpen' => poolHandle'
      BY <1>3, <2>3 DEF DestroyPool
    <2> QED BY <1>3, <2>1, <2>2, <2>4 DEF DestroyPool
  <1>4. ASSUME NEW t \in Threads, ReleasePool(t) \/ FreeConn(t) PROVE CloserInv'
    <2>1. /\ poolOpen' => poolOpen /\ UNCHANGED poolHandle
          /\ poolHandle' => poolHandle
          /\ UNCHANGED savedHandle /\ userPool' \subseteq userPool
      BY <1>0, <1>4, Zenon DEF ReleasePool, FreeConn, UnrefPool
    <2>2. \A u \in Threads : \/ pc'[u] = pc[u]
                             \/ pc[u] # "destroyPool" /\ pc'[u] = "idle"
      BY <1>0, <1>4 DEF ReleasePool, FreeConn, connVars
    <2> QED BY <2>1, <2>2
  <1>5. ASSUME UNCHANGED <<poolOpen, poolHandle, userPool, savedHandle>>,
               \A u \in Threads : \/ pc'[u] = pc[u]
                                  \/ /\ pc[u] \notin {"clearPool", "destroyPool"}
                                     /\ pc'[u] \notin {"clearPool", "destroyPool"}
        PROVE  CloserInv'
    BY <1>5
  <1>6. ASSUME NEW t \in Threads,
               \/ SessionGet(t) \/ GetHandles(t) \/ CheckTime(t)
               \/ PingSucceeds(t) \/ PingFails(t) \/ GetCharset(t)
        PROVE  CloserInv'
    BY <1>0, <1>5, <1>6 DEF SessionGet, GetHandles, CheckTime, PingSucceeds,
       PingFails, GetCharset, Fail, poolVars, connVars
  <1>7. ASSUME NEW t \in Threads,
               \/ Rollback(t) \/ ServerStatus(t) \/ UpdateTime(t)
               \/ ReleaseSession(t)
        PROVE  CloserInv'
    BY <1>0, <1>5, <1>7 DEF Rollback, ServerStatus, UpdateTime, ReleaseSession,
                            CloseFails, poolVars, connVars
  <1>8. ASSUME NEW t \in Threads,
               Acquire(t) \/ Execute(t) \/ Close(t) \/ Release(t)
        PROVE  CloserInv'
    BY <1>0, <1>5, <1>8 DEF Acquire, Execute, Close, Release, Fail, poolVars,
       connVars
  <1>9. ASSUME NEW s \in Sessions, Break(s) \/ Age(s) PROVE CloserInv'
    BY <1>9, <1>5 DEF Break, Age, poolVars, connVars
  <1>10. CASE UNCHANGED vars
    BY <1>10, <1>5 DEF vars, poolVars, connVars
  <1> QED BY <1>1, <1>2, <1>3, <1>4, <1>6, <1>7, <1>8, <1>9, <1>10
          DEF Next, Begin, Continue

(***************************************************************************)
(* A pool that could not be closed can be used again, if one thread closes *)
(* it: of two that fail, the second restores the handle it found cleared.  *)
(***************************************************************************)
THEOREM PoolCanBeUsedAgain ==
    ASSUME \A t, u \in Owners : t = u PROVE Spec => []OpenPoolHasHandle
  <1>1. Init => CloserInv
    BY DEF Init, CloserInv, OpenPoolHasHandle
  <1>2. CloserInv => OpenPoolHasHandle
    BY DEF CloserInv
  <1> QED BY <1>1, <1>2, CloserStep, PoolInvariant, PTL DEF Spec
=============================================================================
