---------------------------- MODULE SessionPool ----------------------------
(***************************************************************************)
(* Connections that share the sessions of a pool (dpiConn.c, dpiPool.c):   *)
(* acquiring a session and pinging it until a good one is found, using and *)
(* closing the connection with the bookkeeping of when its session was     *)
(* last used, releasing it, and closing the pool meanwhile.                *)
(*                                                                         *)
(* Every thread has at most one connection and owns the only reference to  *)
(* it (StmtLifetime is about sharing one).  The sessions are those of the  *)
(* Oracle client's pool, modelled from how the code uses it: one that is   *)
(* idle is handed out again, or else a new one is created.  "now" in a     *)
(* time last used is the ping interval not being over.                     *)
(***************************************************************************)
EXTENDS Integers, FiniteSets

CONSTANTS
    Threads,
    Owners,         \* the threads that own the pool: they close and release it
    Sessions,       \* the sessions the pool may have
    NULL,           \* no session
    MaxFaults,      \* bound on the sessions lost or too slow to answer a ping
    ReleasesOpen,   \* whether connections are released without closing them
    Failures        \* the calls that may fail

ASSUME SessionPoolAssumption ==
    /\ IsFiniteSet(Threads) /\ Owners \subseteq Threads /\ Owners # {}
    /\ IsFiniteSet(Sessions) /\ NULL \notin Sessions
    /\ MaxFaults \in Nat
    /\ ReleasesOpen \in BOOLEAN
    /\ Failures \subseteq {"getHandles", "contextGet", "attrGet", "attrSet",
                           "getCharset", "rollback", "memoryAlloc",
                           "contextSet", "sessionRelease"}

VARIABLES
    sessions,       \* what the pool and the database know of a session
    faults,         \* faults so far
    poolOpen,       \* whether the pool of the Oracle client exists
    poolHandle,     \* whether pool->handle is not NULL
    poolRefs,       \* pool->refCount
    userPool,       \* the owners whose reference is not released yet
    savedHandle,    \* the local variable of dpiOci__sessionPoolDestroy
    handle,         \* conn->handle: the session a thread's connection has
    knows,          \* conn->sessionHandle and conn->serverHandle
    dead,           \* conn->deadSession
    call,           \* the function that closes: "close", "drop" or "free"
    pc

poolVars == <<poolOpen, poolHandle, poolRefs, userPool, savedHandle>>
connVars == <<handle, knows, dead, call>>
vars == <<sessions, faults, poolVars, connVars, pc>>

(***************************************************************************)
(* A session: at is where it is ("lost" if the pool holds it as busy, but  *)
(* the connection that had it has forgotten it), alive whether the         *)
(* database has it, used whether a connection had it before, time its time *)
(* last used, txn its open transaction, blind whether it was last closed   *)
(* while the pool's handle was cleared.  The network timeouts that a ping   *)
(* sets and restores are left out: no other step depends on them.          *)
(***************************************************************************)
Fresh == [at |-> "none", alive |-> TRUE, used |-> FALSE, time |-> "none",
          txn |-> FALSE, blind |-> FALSE]

Init ==
    /\ sessions = [s \in Sessions |-> Fresh]
    /\ faults = 0
    /\ poolOpen = TRUE /\ poolHandle = TRUE
    /\ poolRefs = Cardinality(Owners) /\ userPool = Owners
    /\ savedHandle = [t \in Threads |-> FALSE]
    /\ handle = [t \in Threads |-> NULL]
    /\ knows = [t \in Threads |-> {}]
    /\ dead = [t \in Threads |-> FALSE]
    /\ call = [t \in Threads |-> "close"]
    /\ pc = [t \in Threads |-> "idle"]

GoTo(t, label) == pc' = [pc EXCEPT ![t] = label]
Mine(t) == sessions[handle[t]]
SetMine(t, r) == sessions' = [sessions EXCEPT ![handle[t]] = r]
Alive(t) == Mine(t).alive /\ Mine(t).at = "busy"

(* The connection has no session (any more). *)
Detach(t) ==
    /\ handle' = [handle EXCEPT ![t] = NULL]
    /\ knows' = [knows EXCEPT ![t] = {}]

-----------------------------------------------------------------------------
(* MUTANT: the connection does not hold the pool. *)
AcquireUncounted(t) ==
    /\ pc[t] = "idle" /\ userPool # {} /\ poolHandle
    /\ GoTo(t, "get")
    /\ UNCHANGED <<sessions, faults, poolVars, connVars>>

(* dpiPool_acquireConnection, up to dpiConn__get: the connection holds the  *)
(* pool.                                                                    *)
Acquire(t) ==
    /\ pc[t] = "idle" /\ userPool # {} /\ poolHandle
    /\ poolRefs' = poolRefs + 1
    /\ dead' = [dead EXCEPT ![t] = FALSE]
    /\ GoTo(t, "get")
    /\ UNCHANGED <<sessions, faults, poolOpen, poolHandle, userPool, savedHandle,
                   handle, knows, call>>

(* MUTANT: the session is not given back. *)
FailForgets(t) ==
    /\ call' = [call EXCEPT ![t] = "free"]
    /\ GoTo(t, "free")

(* The creation has failed: dpiConn__free. *)
Fail(t) ==
    /\ call' = [call EXCEPT ![t] = "free"]
    /\ GoTo(t, IF handle[t] # NULL THEN "rollback" ELSE "free")

Idle == {s \in Sessions : sessions[s].at = "idle"}
Free == {s \in Sessions : sessions[s].at = "none"}

(* dpiConn__getSession: OCISessionGet *)
SessionGet(t) ==
    /\ pc[t] = "get"
    /\ \/ /\ poolOpen
          /\ \E s \in (IF Idle # {} THEN Idle ELSE Free) :
                /\ handle' = [handle EXCEPT ![t] = s]
                /\ sessions' = [sessions EXCEPT ![s].at = "busy"]
          /\ GoTo(t, "getHandles")
          /\ UNCHANGED call
       \/ /\ ~poolOpen \/ Idle \cup Free = {}
          /\ Fail(t)
          /\ UNCHANGED <<handle, sessions>>
    /\ UNCHANGED <<faults, poolVars, knows, dead>>

(* dpiConn__getHandles: the session handle, then the server handle. *)
GetHandles(t) ==
    /\ pc[t] = "getHandles"
    /\ \/ /\ knows' = [knows EXCEPT ![t] = {"session", "server"}]
          /\ GoTo(t, "check")
          /\ UNCHANGED call
       \/ /\ "getHandles" \in Failures
          /\ knows' \in {knows, [knows EXCEPT ![t] = {"session"}]}
          /\ Fail(t)
    /\ UNCHANGED <<sessions, faults, poolVars, handle, dead>>

(* What else the value may be if the call that sets it fails unnoticed. *)
OnFailure(fails, v) == IF fails \in Failures THEN {v} ELSE {}

(* A session without a time last used is new: its statement cache is set.   *)
(* It is pinged if it was last used too long ago.                           *)
CheckTime(t) ==
    /\ pc[t] = "check"
    /\ \/ /\ GoTo(t, IF Mine(t).time = "old" THEN "ping" ELSE "getCharset")
          /\ UNCHANGED call
       \/ /\ \/ "contextGet" \in Failures
             \/ "attrSet" \in Failures /\ Mine(t).time = "none"
          /\ Fail(t)
    /\ UNCHANGED <<sessions, faults, poolVars, handle, knows, dead>>

PingSucceeds(t) ==
    /\ pc[t] = "ping"
    /\ Alive(t)
    /\ GoTo(t, "getCharset")
    /\ UNCHANGED <<sessions, faults, poolVars, connVars>>

(* What remains of a session whose failing OCISessionRelease is ignored: if *)
(* it is in use, it stays so for the pool, and nobody uses it any more.     *)
Forgotten(t) == IF Mine(t).at = "busy" THEN [Fresh EXCEPT !.at = "lost"] ELSE Fresh

(* MUTANT: the bad session goes back to the pool. *)
PingFailsKeeps(t) ==
    /\ pc[t] = "ping"
    /\ \/ ~Alive(t) /\ UNCHANGED faults
       \/ faults < MaxFaults /\ faults' = faults + 1
    /\ SetMine(t, [Mine(t) EXCEPT !.at = "idle"])
    /\ Detach(t)
    /\ dead' = [dead EXCEPT ![t] = FALSE]
    /\ GoTo(t, "get")
    /\ UNCHANGED <<poolVars, call>>

(* The session is dropped, or lost, and the next one is got. *)
PingFails(t) ==
    /\ pc[t] = "ping"
    /\ \/ ~Alive(t) /\ UNCHANGED faults
       \/ faults < MaxFaults /\ faults' = faults + 1
    /\ \E r \in {Fresh} \cup OnFailure("sessionRelease", Forgotten(t)) : SetMine(t, r)
    /\ Detach(t)
    /\ dead' = [dead EXCEPT ![t] = FALSE]
    /\ GoTo(t, "get")
    /\ UNCHANGED <<poolVars, call>>

(* dpiConn__getServerCharset: the connection is the program's. *)
GetCharset(t) ==
    /\ pc[t] = "getCharset"
    /\ \/ /\ SetMine(t, [Mine(t) EXCEPT !.used = TRUE])
          /\ GoTo(t, "open")
          /\ UNCHANGED call
       \/ /\ "getCharset" \in Failures
          /\ Fail(t)
          /\ UNCHANGED sessions
    /\ UNCHANGED <<faults, poolVars, handle, knows, dead>>

-----------------------------------------------------------------------------
(* A session is lost, with its transaction: the database or network fails.  *)
Break(s) ==
    /\ faults < MaxFaults /\ faults' = faults + 1
    /\ sessions[s].at \in {"idle", "busy"} /\ sessions[s].alive
    /\ sessions' = [sessions EXCEPT ![s].alive = FALSE, ![s].txn = FALSE]
    /\ UNCHANGED <<poolVars, connVars, pc>>

(* The ping interval is over for a session that waits. *)
Age(s) ==
    /\ sessions[s].at = "idle" /\ sessions[s].time = "now"
    /\ sessions' = [sessions EXCEPT ![s].time = "old"]
    /\ UNCHANGED <<faults, poolVars, connVars, pc>>

(* dpiConn__checkConnected *)
Connected(t) ==
    pc[t] = "open" /\ handle[t] # NULL /\ ~dead[t] /\ poolHandle

(***************************************************************************)
(* A statement starts a transaction or ends it (dpiConn_commit,            *)
(* dpiConn_rollback); on a session that is lost, the error that the client *)
(* reports marks the connection as dead (dpiError__setFromOCI).            *)
(***************************************************************************)
Execute(t) ==
    /\ Connected(t)
    /\ \/ /\ Alive(t)
          /\ \E b \in BOOLEAN : SetMine(t, [Mine(t) EXCEPT !.txn = b])
          /\ UNCHANGED dead
       \/ /\ ~Alive(t)
          /\ dead' = [dead EXCEPT ![t] = TRUE]
          /\ UNCHANGED sessions
    /\ UNCHANGED <<faults, poolVars, handle, knows, call, pc>>

-----------------------------------------------------------------------------
(* dpiConn_close, which a connection known to be dead needs too. *)
Close(t) ==
    /\ pc[t] = "open" /\ handle[t] # NULL /\ poolHandle
    /\ \E mode \in {"close", "drop"} : call' = [call EXCEPT ![t] = mode]
    /\ GoTo(t, "rollback")
    /\ UNCHANGED <<sessions, faults, poolVars, handle, knows, dead>>

(* dpiConn_release: dpiConn__free closes a connection that is open. *)
Release(t) ==
    /\ pc[t] = "open"
    /\ ReleasesOpen \/ handle[t] = NULL \/ ~poolOpen
    /\ Fail(t)
    /\ UNCHANGED <<sessions, faults, poolVars, handle, knows, dead>>

(* Errors are those of dpiConn_close, unless the session is to be dropped. *)
PropagatesErrors(t) == call[t] = "close"

(* dpiConn__close has failed: dpiConn_close resets closing. *)
CloseFails(t) == PropagatesErrors(t) /\ GoTo(t, "open")

(* MUTANT: an error of the rollback is ignored. *)
RollbackForgets(t) ==
    /\ pc[t] = "rollback"
    /\ \/ /\ ~dead[t] /\ "session" \in knows[t] /\ Alive(t)
          /\ SetMine(t, [Mine(t) EXCEPT !.txn = FALSE])
       \/ UNCHANGED sessions
    /\ GoTo(t, "status")
    /\ UNCHANGED <<faults, poolVars, connVars>>

(***************************************************************************)
(* dpiConn__close rolls the transaction back, also if it cannot tell that  *)
(* there is none.  The session is dropped if that fails, which the code    *)
(* only knows if errors are propagated.                                    *)
(***************************************************************************)
Rollback(t) ==
    /\ pc[t] = "rollback"
    /\ \/ /\ dead[t] \/ "session" \notin knows[t] \/ ~Mine(t).txn
          /\ UNCHANGED <<sessions, dead>>
       \/ /\ ~dead[t] /\ "session" \in knows[t]
          /\ Mine(t).txn \/ "attrGet" \in Failures
          /\ \/ /\ Alive(t)
                /\ SetMine(t, [Mine(t) EXCEPT !.txn = FALSE])
                /\ UNCHANGED dead
             \/ /\ ~Alive(t) \/ "rollback" \in Failures
                /\ dead' = [dead EXCEPT ![t] = PropagatesErrors(t)]
                /\ UNCHANGED sessions
    /\ GoTo(t, "status")
    /\ UNCHANGED <<faults, poolVars, handle, knows, call>>

(* It marks the session as dead if it is to be dropped, or if its server    *)
(* handle does not say that it is connected.                                *)
ServerStatus(t) ==
    /\ pc[t] = "status"
    /\ \E normal \in {Alive(t)} \cup OnFailure("attrGet", FALSE) :
          dead' = [dead EXCEPT ![t] = \/ @ \/ call[t] = "drop"
                                      \/ "server" \in knows[t] /\ ~normal]
    /\ GoTo(t, "time")
    /\ UNCHANGED <<sessions, faults, poolVars, handle, knows, call>>

(* MUTANT: the time is kept only for a session that has one. *)
UpdateTimeKnown(t) ==
    /\ pc[t] = "time"
    /\ LET new == IF dead[t] THEN "none"
                  ELSE IF Mine(t).time = "none" THEN "none" ELSE "now"
       IN  IF "session" \in knows[t] /\ poolHandle
           THEN SetMine(t, [Mine(t) EXCEPT !.time = new])
           ELSE UNCHANGED sessions
    /\ GoTo(t, "release")
    /\ UNCHANGED <<faults, poolVars, connVars>>

(***************************************************************************)
(* The time last used: freed for a session that is dropped, allocated for  *)
(* one that has none, and set; nothing is done if the pool is closed.      *)
(***************************************************************************)
UpdateTime(t) ==
    LET bookkeeping == "session" \in knows[t] /\ poolHandle IN
    /\ pc[t] = "time"
    /\ \/ /\ bookkeeping
          /\ SetMine(t, [Mine(t) EXCEPT !.time = IF dead[t] THEN "none" ELSE "now",
                                         !.blind = FALSE])
          /\ GoTo(t, "release")
       \/ /\ bookkeeping /\ Mine(t).time = "none" /\ ~dead[t]
          /\ \/ "contextSet" \in Failures
             \/ "memoryAlloc" \in Failures /\ ~PropagatesErrors(t)
          /\ GoTo(t, "release")
          /\ UNCHANGED sessions
       \/ /\ bookkeeping
          /\ \/ "contextGet" \in Failures
             \/ /\ "memoryAlloc" \in Failures
                /\ Mine(t).time = "none" /\ ~dead[t]
          /\ CloseFails(t)
          /\ UNCHANGED sessions
       \/ /\ ~bookkeeping
          /\ SetMine(t, [Mine(t) EXCEPT !.blind = @ \/ ~poolHandle])
          /\ GoTo(t, "release")
    /\ UNCHANGED <<faults, poolVars, connVars>>

(* OCISessionRelease; after an error that is not propagated the connection  *)
(* forgets a session that it has not given back.                            *)
ReleaseSession(t) ==
    LET given == IF dead[t] \/ Mine(t).at # "busy" THEN Fresh
                 ELSE [Mine(t) EXCEPT !.at = "idle"] IN
    /\ pc[t] = "release"
    /\ \/ /\ \/ SetMine(t, given)
             \/ /\ "sessionRelease" \in Failures /\ ~PropagatesErrors(t)
                /\ SetMine(t, Forgotten(t))
          /\ Detach(t)
          /\ call' = [call EXCEPT ![t] = IF @ = "free" THEN @ ELSE "close"]
          /\ GoTo(t, IF call[t] = "free" THEN "free" ELSE "open")
       \/ /\ "sessionRelease" \in Failures
          /\ CloseFails(t)
          /\ UNCHANGED <<sessions, handle, knows, call>>
    /\ UNCHANGED <<faults, poolVars, dead>>

-----------------------------------------------------------------------------
(* A reference to the pool is given back; the last one destroys it.         *)
UnrefPool ==
    /\ poolRefs' = poolRefs - 1
    /\ poolOpen' = (poolOpen /\ poolRefs # 1)
    /\ poolHandle' = (poolHandle /\ poolRefs # 1)
    /\ sessions' = IF poolRefs = 1 THEN [s \in Sessions |-> Fresh] ELSE sessions

(* dpiConn__free *)
FreeConn(t) ==
    /\ pc[t] = "free"
    /\ UnrefPool
    /\ dead' = [dead EXCEPT ![t] = FALSE]
    /\ call' = [call EXCEPT ![t] = "close"]
    /\ GoTo(t, "idle")
    /\ UNCHANGED <<faults, userPool, savedHandle, handle, knows>>

(* dpiPool_release; the thread's connection keeps the pool. *)
ReleasePool(t) ==
    /\ pc[t] \in {"idle", "open"} /\ t \in userPool
    /\ userPool' = userPool \ {t}
    /\ UnrefPool
    /\ UNCHANGED <<faults, savedHandle, connVars, pc>>

(* dpiPool_close checks that the pool is open ... *)
ClosePool(t) ==
    /\ pc[t] = "idle" /\ t \in userPool /\ poolHandle
    /\ GoTo(t, "clearPool")
    /\ UNCHANGED <<sessions, faults, poolVars, connVars>>

(* ... and dpiOci__sessionPoolDestroy clears the handle first ... *)
ClearPoolHandle(t) ==
    /\ pc[t] = "clearPool"
    /\ savedHandle' = [savedHandle EXCEPT ![t] = poolHandle]
    /\ poolHandle' = FALSE
    /\ GoTo(t, "destroyPool")
    /\ UNCHANGED <<sessions, faults, poolOpen, poolRefs, userPool, connVars>>

(* MUTANT: the handle is not restored. *)
DestroyPoolClears(t) ==
    /\ pc[t] = "destroyPool"
    /\ poolOpen' \in {poolOpen, FALSE}
    /\ sessions' = IF poolOpen' THEN sessions ELSE [s \in Sessions |-> Fresh]
    /\ GoTo(t, "idle")
    /\ UNCHANGED <<faults, poolHandle, poolRefs, userPool, savedHandle, connVars>>

(***************************************************************************)
(* ... which it restores if OCISessionPoolDestroy fails: the pool has busy *)
(* sessions and is not to be closed by force, or it is not there.          *)
(***************************************************************************)
DestroyPool(t) ==
    /\ pc[t] = "destroyPool"
    /\ \/ /\ savedHandle[t] /\ poolOpen
          /\ poolOpen' = FALSE
          /\ sessions' = [s \in Sessions |-> Fresh]
          /\ UNCHANGED poolHandle
       \/ /\ \/ ~savedHandle[t]
             \/ \E s \in Sessions : sessions[s].at \in {"busy", "lost"}
          /\ poolHandle' = savedHandle[t]
          /\ UNCHANGED <<poolOpen, sessions>>
    /\ savedHandle' = [savedHandle EXCEPT ![t] = FALSE]
    /\ GoTo(t, "idle")
    /\ UNCHANGED <<faults, poolRefs, userPool, connVars>>

-----------------------------------------------------------------------------
(* What a thread goes on to do in the function it is in. *)
Continue(t) ==
    \/ SessionGet(t) \/ GetHandles(t) \/ CheckTime(t)
    \/ PingSucceeds(t) \/ PingFails(t) \/ GetCharset(t)
    \/ Rollback(t) \/ ServerStatus(t) \/ UpdateTime(t) \/ ReleaseSession(t)
    \/ FreeConn(t)
    \/ ClearPoolHandle(t) \/ DestroyPool(t)

Begin(t) ==
    \/ Acquire(t) \/ Execute(t) \/ Close(t) \/ Release(t)
    \/ ReleasePool(t) \/ ClosePool(t)

Next ==
    \/ \E t \in Threads : Begin(t) \/ Continue(t)
    \/ \E s \in Sessions : Break(s) \/ Age(s)

Spec == Init /\ [][Next]_vars

(* Threads keep running: a function that can go on does. *)
FairSpec == Spec /\ \A t \in Threads : WF_vars(Continue(t))

-----------------------------------------------------------------------------
(* The variables have their types. *)
TypeOK ==
    /\ sessions \in [Sessions -> [at : {"none", "idle", "busy", "lost"},
           alive : BOOLEAN, used : BOOLEAN, time : {"none", "now", "old"},
           txn : BOOLEAN, blind : BOOLEAN]]
    /\ {poolOpen, poolHandle} \subseteq BOOLEAN /\ poolRefs \in Nat
    /\ handle \in [Threads -> Sessions \cup {NULL}]
    /\ \A t \in Threads :
          /\ knows[t] # {} => handle[t] # NULL
          /\ pc[t] \in {"getHandles", "check", "ping", "getCharset", "rollback",
                        "status", "time", "release"} => handle[t] # NULL

HasConn(t) == pc[t] \notin {"idle", "clearPool", "destroyPool"}

Having(s) == Cardinality({t \in Threads : HasConn(t) /\ handle[t] = s})

(* A busy session is that of exactly one connection: none is shared, and    *)
(* none is left behind by what fails while one is acquired or closed, but   *)
(* by a failing OCISessionRelease that dpiConn__close (dropping the session *)
(* or freeing the connection) or dpiConn__getSession (after a ping)         *)
(* ignores: such a session no connection has ever again.  What a connection *)
(* has is busy unless the pool was destroyed.                               *)
BusyIsOwned ==
    /\ \A s \in Sessions :
          /\ sessions[s].at = "busy" => Having(s) = 1
          /\ sessions[s].at = "lost" => Having(s) = 0 /\ "sessionRelease" \in Failures
    /\ poolOpen => \A t \in Threads : handle[t] # NULL => Mine(t).at = "busy"

(* No session with an open transaction waits in the pool, where another     *)
(* connection would inherit it (dpiConn.c:141).                             *)
NoTransactionWaits ==
    \A s \in Sessions : sessions[s].at = "idle" => ~sessions[s].txn

(* Only a session that no connection has had yet is taken for new and is    *)
(* handed out without a ping however old it is (dpiConn.c:880); one that is *)
(* closed while another thread tries to close the pool is the exception.    *)
UsedSessionsHaveTime ==
    \A s \in Sessions :
        sessions[s].at = "idle" /\ sessions[s].used /\ ~sessions[s].blind
            => sessions[s].time # "none"

(* The pool counts who uses it, and is there as long as a connection is,    *)
(* whoever releases it in which order.                                      *)
PoolIsCounted ==
    poolRefs = Cardinality(userPool) + Cardinality({t \in Threads : HasConn(t)})

(* dpiOci.c:3194: a pool that could not be closed can be used again.        *)
OpenPoolHasHandle ==
    poolOpen => \/ poolHandle
                \/ \E t \in Threads : pc[t] = "destroyPool" /\ savedHandle[t]

(* dpiConn.c:881: pinging bad sessions does not go on for ever; whoever     *)
(* acquires a connection gets one or an error, and a close returns.         *)
CallsEnd ==
    \A t \in Threads : pc[t] \notin {"idle", "open"} ~> pc[t] \in {"idle", "open"}
=============================================================================
