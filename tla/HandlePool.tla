---------------------------- MODULE HandlePool ----------------------------
(***************************************************************************)
(* The pool of OCI error handles that all public functions of one         *)
(* environment share (dpiHandlePool.c), together with the only code that  *)
(* uses it: the lazy acquisition of an error handle by the first OCI call  *)
(* of a public function (DPI_OCI_ENSURE_ERROR_HANDLE, dpiError__initHandle)*)
(* and its return at the end of the function (dpiGen__endPublicFn).        *)
(*                                                                         *)
(* The pool is a ring: handles[acquirePos .. releasePos - 1] (modulo       *)
(* numSlots) are the handles waiting to be used again, and acquirePos =    *)
(* releasePos is read as "none".  acquire and release each run under       *)
(* pool->mutex, so each is one step; creating the OCI handle happens after *)
(* the mutex is given up and is a step of its own.                         *)
(***************************************************************************)
EXTENDS Integers, FiniteSets

CONSTANTS
    Callers,        \* threads that execute public functions
    Handles,        \* the OCI error handles that can be created
    NIL,           \* the null pointer
    InitialSlots,   \* slots of a new pool (8 in the code)
    Growth,         \* slots added when the pool grows (8 in the code)
    MaxUsedSlots    \* bound on numUsedSlots (a uint32_t in the code)

ASSUME HandlePoolAssumption ==
    /\ InitialSlots \in Nat \ {0}
    /\ Growth \in Nat \ {0}
    /\ MaxUsedSlots \in Nat
    /\ NIL \notin Handles
    /\ IsFiniteSet(Callers)

VARIABLES
    numSlots, numUsedSlots, acquirePos, releasePos, handles,  \* dpiHandlePool
    allocated,  \* OCI error handles created so far
    fn,         \* where each caller is in its public function
    handle      \* error->handle of each caller's dpiError

poolVars == <<numSlots, numUsedSlots, acquirePos, releasePos, handles>>
allVars == <<poolVars, allocated, fn, handle>>

Slots == 0 .. numSlots - 1
(* MUTANT: the position is not brought round. *)
AdvanceNoWrap(pos) == pos + 1

Advance(pos) == IF pos + 1 = numSlots THEN 0 ELSE pos + 1

(***************************************************************************)
(* The slots between acquirePos and releasePos, which the code regards as  *)
(* holding available handles, and their number.                            *)
(***************************************************************************)
Window ==
    IF acquirePos <= releasePos
    THEN {i \in Slots : acquirePos <= i /\ i < releasePos}
    ELSE {i \in Slots : acquirePos <= i \/ i < releasePos}

WindowSize ==
    IF acquirePos <= releasePos
    THEN releasePos - acquirePos
    ELSE numSlots - acquirePos + releasePos

(* Callers that hold a handle or were told to create one. *)
Busy == {c \in Callers : handle[c] # NIL \/ fn[c] = "allocating"}

PoolInit ==
    /\ numSlots = InitialSlots
    /\ numUsedSlots = 0
    /\ acquirePos = 0
    /\ releasePos = 0
    /\ handles = [i \in 0 .. InitialSlots - 1 |-> NIL]
    /\ allocated = {}
    /\ fn = [c \in Callers |-> "idle"]
    /\ handle = [c \in Callers |-> NIL]

(* A public function begins; it has no error handle yet. *)
StartPublicFn(c) ==
    /\ fn[c] = "idle"
    /\ fn' = [fn EXCEPT ![c] = "running"]
    /\ UNCHANGED <<poolVars, allocated, handle>>

HasNone(c) == fn[c] = "running" /\ handle[c] = NIL

(* MUTANT: acquire does not move on to the next handle. *)
AcquireAgain(c) ==
    /\ HasNone(c)
    /\ acquirePos # releasePos
    /\ handle' = [handle EXCEPT ![c] = handles[acquirePos]]
    /\ handles' = [handles EXCEPT ![acquirePos] = NIL]
    /\ UNCHANGED <<numSlots, numUsedSlots, acquirePos, releasePos, allocated,
                   fn>>

(* MUTANT: acquire hands out the handle that was returned last. *)
AcquireNewest(c) ==
    /\ HasNone(c)
    /\ acquirePos # releasePos
    /\ LET last == IF releasePos = 0 THEN numSlots - 1 ELSE releasePos - 1
       IN  /\ handle' = [handle EXCEPT ![c] = handles[last]]
           /\ handles' = [handles EXCEPT ![last] = NIL]
           /\ releasePos' = last
    /\ UNCHANGED <<numSlots, numUsedSlots, acquirePos, allocated, fn>>

(* dpiHandlePool__acquire finds a handle: it is cleared out of the ring. *)
AcquireAvailable(c) ==
    /\ HasNone(c)
    /\ acquirePos # releasePos
    /\ handle' = [handle EXCEPT ![c] = handles[acquirePos]]
    /\ handles' = [handles EXCEPT ![acquirePos] = NIL]
    /\ acquirePos' = Advance(acquirePos)
    /\ UNCHANGED <<numSlots, numUsedSlots, releasePos, allocated, fn>>

(* MUTANT: the ring grows one handle too late. *)
AcquireNoneGrowLate(c) ==
    /\ HasNone(c)
    /\ acquirePos = releasePos
    /\ numUsedSlots < MaxUsedSlots
    /\ numUsedSlots' = numUsedSlots + 1
    /\ numSlots' = IF numUsedSlots > numSlots THEN numSlots + Growth
                                              ELSE numSlots
    /\ handles' = [i \in 0 .. numSlots' - 1 |->
                      IF i \in Slots THEN handles[i] ELSE NIL]
    /\ fn' = [fn EXCEPT ![c] = "allocating"]
    /\ UNCHANGED <<acquirePos, releasePos, allocated, handle>>

(***************************************************************************)
(* dpiHandlePool__acquire finds none: the caller is sent to create one,    *)
(* after the ring has grown if this handle might not fit when it returns.  *)
(***************************************************************************)
AcquireNone(c) ==
    /\ HasNone(c)
    /\ acquirePos = releasePos
    /\ numUsedSlots < MaxUsedSlots
    /\ numUsedSlots' = numUsedSlots + 1
    /\ numSlots' = IF numUsedSlots' > numSlots THEN numSlots + Growth
                                               ELSE numSlots
    /\ handles' = [i \in 0 .. numSlots' - 1 |->
                      IF i \in Slots THEN handles[i] ELSE NIL]
    /\ fn' = [fn EXCEPT ![c] = "allocating"]
    /\ UNCHANGED <<acquirePos, releasePos, allocated, handle>>

(* The memory for the larger ring is refused; numUsedSlots stays counted. *)
AcquireGrowFails(c) ==
    /\ HasNone(c)
    /\ acquirePos = releasePos
    /\ numUsedSlots < MaxUsedSlots
    /\ numUsedSlots' = numUsedSlots + 1
    /\ numUsedSlots' > numSlots
    /\ UNCHANGED <<numSlots, acquirePos, releasePos, handles, allocated, fn,
                   handle>>

(* dpiError__initHandle creates the handle that the pool could not give. *)
HandleAlloc(c) ==
    /\ fn[c] = "allocating"
    /\ \E h \in Handles \ allocated :
          /\ allocated' = allocated \cup {h}
          /\ handle' = [handle EXCEPT ![c] = h]
    /\ fn' = [fn EXCEPT ![c] = "running"]
    /\ UNCHANGED poolVars

(* OCI refuses to create it: the function goes on to fail without one. *)
HandleAllocFails(c) ==
    /\ fn[c] = "allocating"
    /\ fn' = [fn EXCEPT ![c] = "running"]
    /\ UNCHANGED <<poolVars, allocated, handle>>

(* MUTANT: the caller keeps the handle that it returned. *)
ReleaseKeeps(c) ==
    /\ handles' = [handles EXCEPT ![releasePos] = handle[c]]
    /\ releasePos' = Advance(releasePos)
    /\ UNCHANGED <<numSlots, numUsedSlots, acquirePos, handle>>

(* dpiHandlePool__release: the handle is put back at releasePos. *)
PoolRelease(c) ==
    /\ handles' = [handles EXCEPT ![releasePos] = handle[c]]
    /\ releasePos' = Advance(releasePos)
    /\ handle' = [handle EXCEPT ![c] = NIL]
    /\ UNCHANGED <<numSlots, numUsedSlots, acquirePos>>

(* dpiConn_create and dpiPool_create return the handle before they end. *)
ReleaseBeforeEnd(c) ==
    /\ fn[c] = "running"
    /\ handle[c] # NIL
    /\ PoolRelease(c)
    /\ UNCHANGED <<allocated, fn>>

(* dpiGen__endPublicFn: the handle goes back if one was acquired. *)
EndPublicFn(c) ==
    /\ fn[c] = "running"
    /\ fn' = [fn EXCEPT ![c] = "idle"]
    /\ IF handle[c] # NIL THEN PoolRelease(c) ELSE UNCHANGED <<poolVars, handle>>
    /\ UNCHANGED allocated

(***************************************************************************)
(* dpiConn_getObjectType returns DPI_FAILURE without dpiGen__endPublicFn   *)
(* when its describe handle cannot be used: the error handle is forgotten. *)
(***************************************************************************)
ReturnWithoutEnd(c) ==
    /\ fn[c] = "running"
    /\ handle[c] # NIL
    /\ fn' = [fn EXCEPT ![c] = "idle"]
    /\ handle' = [handle EXCEPT ![c] = NIL]
    /\ UNCHANGED <<poolVars, allocated>>

PoolNext ==
    \E c \in Callers :
        \/ StartPublicFn(c)
        \/ AcquireAvailable(c)
        \/ AcquireNone(c)
        \/ AcquireGrowFails(c)
        \/ HandleAlloc(c)
        \/ HandleAllocFails(c)
        \/ ReleaseBeforeEnd(c)
        \/ EndPublicFn(c)
        \/ ReturnWithoutEnd(c)

PoolSpec == PoolInit /\ [][PoolNext]_allVars

-----------------------------------------------------------------------------
(* The pool's and the callers' variables have their C types: both positions *)
(* index the allocated ring, so no access is outside its memory.            *)
PoolTypes ==
    /\ numSlots \in Nat \ {0}
    /\ numUsedSlots \in 0 .. MaxUsedSlots
    /\ acquirePos \in Slots
    /\ releasePos \in Slots
    /\ handles \in [Slots -> Handles \cup {NIL}]
    /\ allocated \subseteq Handles
    /\ fn \in [Callers -> {"idle", "running", "allocating"}]
    /\ handle \in [Callers -> Handles \cup {NIL}]
    /\ \A c \in Callers : fn[c] # "running" => handle[c] = NIL

(* An OCI error handle is used by one call at a time: no two callers hold  *)
(* the same one, and none that is held can be handed out by the pool.      *)
ExclusiveHandles ==
    \A c \in Callers : handle[c] # NIL =>
        /\ \A d \in Callers : handle[d] = handle[c] => d = c
        /\ \A i \in Window : handles[i] # handle[c]

(* What acquire reads between the two positions is a real handle and each  *)
(* is there once, however the ring wrapped or grew in between.             *)
WindowHoldsHandles ==
    \A i \in Window :
        /\ handles[i] # NIL
        /\ \A j \in Window : handles[i] = handles[j] => i = j

(* Handles in the ring, in use and about to be created always fit the ring. *)
HandlesFit ==
    /\ WindowSize + Cardinality(Busy) <= numSlots
    /\ WindowSize + Cardinality(Busy) <= numUsedSlots

(* Returning a handle makes the pool lose track of the waiting ones (the   *)
(* positions meet and the ring reads as empty) only when no other call has *)
(* a handle or is creating one.                                            *)
LosesOnlyWhenIdle ==
    [][\A c \in Callers :
          (/\ handle[c] # NIL /\ handle'[c] = NIL
           /\ handles' # handles /\ releasePos' = acquirePos')
             => Busy \subseteq {c}]_allVars

(* The ring is a queue: its window, read from acquirePos, is the queue of   *)
(* waiting handles, and every step of the pool is a step of HandleQueue.    *)
Queue == INSTANCE HandleQueue WITH
    NULL <- NIL,
    queue <- [k \in 1 .. WindowSize |->
                 handles[(acquirePos + k - 1) % numSlots]],
    creating <- {c \in Callers : fn[c] = "allocating"},
    made <- allocated,
    held <- handle

ImplementsQueue == Queue!QSpec
=============================================================================
