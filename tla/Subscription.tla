--------------------------- MODULE Subscription ---------------------------
(***************************************************************************)
(* A subscription to database events (dpiSubscr.c): the program's threads  *)
(* subscribe, share, release and unsubscribe it while threads of the       *)
(* Oracle client deliver notifications to dpiSubscr__callback.             *)
(*                                                                         *)
(* The subscription has a mutex of its own; its reference count is under   *)
(* that of the environment, which is in threaded mode.  pc[a] is where an  *)
(* actor's C function will go on, back[a] where it does so after freeing   *)
(* the subscription.  What is done under a mutex and what touches nothing  *)
(* that others write is one step.                                          *)
(***************************************************************************)
EXTENDS Integers, FiniteSets

CONSTANTS
    Users,          \* threads of the program
    Notifiers,      \* threads of the Oracle client
    NULL,           \* no actor
    MaxNotes,       \* bound on the notifications
    Deregisters,    \* whether a notification may end the registration
                    \* (DPI_SUBSCR_QOS_DEREG_NFY, DPI_EVENT_DEREG)
    InCallback,     \* what the program's callback calls
    Failures        \* the OCI calls that may fail

Actors == Users \cup Notifiers

ASSUME SubscriptionAssumption ==
    /\ IsFiniteSet(Actors) /\ Users \cap Notifiers = {}
    /\ NULL \notin Actors
    /\ MaxNotes \in Nat
    /\ Deregisters \in BOOLEAN
    /\ InCallback \subseteq {"release", "unsubscribe"}
    /\ Failures \subseteq {"register", "getRegId", "unregister"}

VARIABLES
    memory,         \* of the dpiSubscr: "unused", "live" or "freed"
    checkInt,       \* whether its check integer is in place
    refCount,
    registered,     \* subscr->registered
    mutex,          \* the owner of subscr->mutex
    oci,            \* whether OCI has it registered
    notes,          \* notifications delivered so far
    lastNote,       \* the notifiers whose notification ends the registration
    refs,           \* the references each actor owns
    unsubscribed,   \* whether dpiConn_unsubscribe has returned with success
    pc, back

subscrVars == <<memory, checkInt, refCount, registered, mutex>>
vars == <<subscrVars, oci, notes, lastNote, refs, unsubscribed, pc, back>>

Init ==
    /\ memory = "unused" /\ checkInt = FALSE /\ refCount = 0
    /\ registered = FALSE /\ mutex = NULL
    /\ oci = FALSE /\ notes = 0 /\ lastNote = {}
    /\ refs = [a \in Actors |-> 0]
    /\ unsubscribed = FALSE
    /\ pc = [a \in Actors |-> "idle"]
    /\ back = [a \in Actors |-> "idle"]

GoTo(a, at) == pc' = [pc EXCEPT ![a] = at]

(* The actor reads memory of the subscription that was given back. *)
Lost(a) ==
    /\ memory = "freed"
    /\ GoTo(a, "useAfterFree")
    /\ UNCHANGED <<subscrVars, oci, notes, lastNote, refs, unsubscribed, back>>

(***************************************************************************)
(* dpiGen__setRefCount(..., -1), after which the actor goes to next; it    *)
(* frees the subscription first if it has brought the count to zero.       *)
(***************************************************************************)
Unref(a, next) ==
    /\ refCount' = refCount - 1
    /\ IF refCount = 1
       THEN /\ checkInt' = FALSE
            /\ GoTo(a, "free")
            /\ back' = [back EXCEPT ![a] = next]
       ELSE /\ GoTo(a, next)
            /\ UNCHANGED <<checkInt, back>>

-----------------------------------------------------------------------------
(* dpiConn_subscribe and dpiSubscr__create, up to the registration. *)
Subscribe(u) ==
    /\ pc[u] = "idle" /\ memory = "unused"
    /\ memory' = "live" /\ checkInt' = TRUE /\ refCount' = 1
    /\ GoTo(u, "register")
    /\ UNCHANGED <<registered, mutex, oci, notes, lastNote, refs, unsubscribed,
                   back>>

(* If a step of the creation fails the subscription is freed directly. *)
Register(u) ==
    /\ pc[u] = "register"
    /\ \/ oci' = TRUE /\ GoTo(u, "mark")
       \/ "register" \in Failures /\ GoTo(u, "free") /\ UNCHANGED oci
    /\ UNCHANGED <<subscrVars, notes, lastNote, refs, unsubscribed, back>>

MarkRegistered(u) ==
    /\ pc[u] = "mark"
    /\ registered' = TRUE
    /\ GoTo(u, "getRegId")
    /\ UNCHANGED <<memory, checkInt, refCount, mutex, oci, notes, lastNote, refs,
                   unsubscribed, back>>

GetRegId(u) ==
    /\ pc[u] = "getRegId"
    /\ \/ refs' = [refs EXCEPT ![u] = 1] /\ GoTo(u, "idle")
       \/ "getRegId" \in Failures /\ GoTo(u, "free") /\ UNCHANGED refs
    /\ UNCHANGED <<subscrVars, oci, notes, lastNote, unsubscribed, back>>

-----------------------------------------------------------------------------
(* dpiSubscr__free, under the mutex of the subscription. *)
FreeLock(a) ==
    /\ pc[a] = "free" /\ memory = "live"
    /\ mutex = NULL
    /\ mutex' = a
    /\ GoTo(a, "freeRest")
    /\ UNCHANGED <<memory, checkInt, refCount, registered, oci, notes, lastNote,
                   refs, unsubscribed, back>>

(* MUTANT: only the handle is freed. *)
FreeRegistered(a) ==
    /\ pc[a] = "freeRest"
    /\ mutex' = NULL /\ memory' = "freed"
    /\ GoTo(a, back[a])
    /\ back' = [back EXCEPT ![a] = "idle"]
    /\ UNCHANGED <<checkInt, refCount, registered, oci, notes, lastNote, refs,
                   unsubscribed>>

(* An error of unregistering is ignored. *)
FreeRest(a) ==
    /\ pc[a] = "freeRest"
    /\ \/ registered /\ oci' = FALSE
       \/ (registered => "unregister" \in Failures) /\ UNCHANGED oci
    /\ mutex' = NULL
    /\ memory' = "freed"
    /\ GoTo(a, back[a])
    /\ back' = [back EXCEPT ![a] = "idle"]
    /\ UNCHANGED <<checkInt, refCount, registered, notes, lastNote, refs,
                   unsubscribed>>

-----------------------------------------------------------------------------
(* Where an actor runs the program's own code: a notifier does in the       *)
(* callback, which is limited to the calls of InCallback.                   *)
Program(a) == IF a \in Users THEN "idle" ELSE "inCallback"

InProgram(a, call) ==
    pc[a] = Program(a) /\ (a \in Users \/ call \in InCallback)

(* dpiSubscr_addRef, for a reference that the other actor then owns. *)
AddRefFor(a, b) ==
    /\ a \in Users /\ pc[a] = "idle" /\ refs[a] > 0 /\ refs[b] = 0
    /\ refCount' = refCount + 1
    /\ refs' = [refs EXCEPT ![b] = 1]
    /\ UNCHANGED <<memory, checkInt, registered, mutex, oci, notes, lastNote,
                   unsubscribed, pc, back>>

(* dpiSubscr_release *)
Release(a) ==
    /\ InProgram(a, "release") /\ refs[a] > 0
    /\ refs' = [refs EXCEPT ![a] = @ - 1]
    /\ Unref(a, pc[a])
    /\ UNCHANGED <<memory, registered, mutex, oci, notes, lastNote,
                   unsubscribed>>

(* dpiConn_unsubscribe reads registered without the mutex ... *)
Unsubscribe(a) ==
    /\ InProgram(a, "unsubscribe") /\ refs[a] > 0
    /\ GoTo(a, IF registered THEN "unregister" ELSE "unsubscribe")
    /\ UNCHANGED <<subscrVars, oci, notes, lastNote, refs, unsubscribed, back>>

(* MUTANT: the subscription stays marked as registered. *)
UnregisterKeepsMark(a) ==
    /\ pc[a] = "unregister"
    /\ mutex = NULL
    /\ \/ /\ oci
          /\ oci' = FALSE
          /\ GoTo(a, "unsubscribe")
       \/ /\ ~oci \/ "unregister" \in Failures
          /\ GoTo(a, Program(a))
          /\ UNCHANGED oci
    /\ UNCHANGED <<subscrVars, notes, lastNote, refs, unsubscribed, back>>

(***************************************************************************)
(* ... and, holding it, unregisters, which fails if OCI has no such        *)
(* registration (any more).                                                *)
(***************************************************************************)
Unregister(a) ==
    /\ pc[a] = "unregister"
    /\ mutex = NULL
    /\ \/ /\ oci
          /\ oci' = FALSE /\ registered' = FALSE
          /\ GoTo(a, "unsubscribe")
       \/ /\ ~oci \/ "unregister" \in Failures
          /\ GoTo(a, Program(a))
          /\ UNCHANGED <<oci, registered>>
    /\ UNCHANGED <<memory, checkInt, refCount, mutex, notes, lastNote, refs,
                   unsubscribed, back>>

(* It takes the caller's reference away. *)
UnsubscribeUnref(a) ==
    /\ pc[a] = "unsubscribe"
    /\ refs' = [refs EXCEPT ![a] = @ - 1]
    /\ Unref(a, "unsubscribed")
    /\ UNCHANGED <<memory, registered, mutex, oci, notes, lastNote,
                   unsubscribed>>

(* It returns, from freeing the subscription if that was the last one. *)
UnsubscribeReturn(a) ==
    /\ pc[a] = "unsubscribed"
    /\ unsubscribed' = TRUE
    /\ GoTo(a, Program(a))
    /\ UNCHANGED <<subscrVars, oci, notes, lastNote, refs, back>>

-----------------------------------------------------------------------------
(***************************************************************************)
(* The Oracle client calls dpiSubscr__callback for what it has registered; *)
(* it purges the registration itself if the notification is to end it.     *)
(***************************************************************************)
Notify(n) ==
    /\ pc[n] = "idle" /\ oci /\ notes < MaxNotes
    /\ notes' = notes + 1
    /\ \/ UNCHANGED <<oci, lastNote>>
       \/ Deregisters /\ oci' = FALSE /\ lastNote' = lastNote \cup {n}
    /\ GoTo(n, "check")
    /\ UNCHANGED <<subscrVars, refs, unsubscribed, back>>

Returned(n) == lastNote' = lastNote \ {n}

(* dpiGen__startPublicFn *)
CallbackCheck(n) ==
    /\ pc[n] = "check" /\ memory = "live"
    /\ IF checkInt THEN GoTo(n, "lock") /\ UNCHANGED lastNote
                   ELSE GoTo(n, "idle") /\ Returned(n)
    /\ UNCHANGED <<subscrVars, oci, notes, refs, unsubscribed, back>>

(* dpiSubscr__populateMessage: the message may be the last. *)
PopulateMessage(n) == registered' = (n \notin lastNote)

(* MUTANT: the mutex is not released by the early return. *)
CallbackLockKept(n) ==
    /\ pc[n] = "lock" /\ memory = "live"
    /\ mutex = NULL
    /\ mutex' = n
    /\ registered' = (registered /\ n \notin lastNote)
    /\ GoTo(n, IF registered THEN "addRef" ELSE "idle")
    /\ UNCHANGED <<memory, checkInt, refCount, oci, notes, lastNote, refs,
                   unsubscribed, back>>

(* With the mutex: nothing to do if not registered (any more). *)
CallbackLock(n) ==
    /\ pc[n] = "lock" /\ memory = "live"
    /\ mutex = NULL
    /\ IF registered
       THEN /\ mutex' = n
            /\ PopulateMessage(n)
            /\ GoTo(n, "addRef")
            /\ UNCHANGED lastNote
       ELSE /\ GoTo(n, "idle")
            /\ Returned(n)
            /\ UNCHANGED <<mutex, registered>>
    /\ UNCHANGED <<memory, checkInt, refCount, oci, notes, refs, unsubscribed,
                   back>>

(* MUTANT: the callback does not hold the subscription. *)
CallbackNoRef(n) ==
    /\ pc[n] = "addRef"
    /\ GoTo(n, "inCallback")
    /\ UNCHANGED <<subscrVars, oci, notes, lastNote, refs, unsubscribed, back>>

(* The message is complete: the program's callback is called ... *)
CallbackAddRef(n) ==
    /\ pc[n] = "addRef"
    /\ refCount' = refCount + 1
    /\ GoTo(n, "inCallback")
    /\ UNCHANGED <<memory, checkInt, registered, mutex, oci, notes, lastNote,
                   refs, unsubscribed, back>>

(* ... and has returned. *)
CallbackUnlock(n) ==
    /\ pc[n] = "inCallback"
    /\ mutex' = NULL
    /\ GoTo(n, "unref")
    /\ UNCHANGED <<memory, checkInt, refCount, registered, oci, notes, lastNote,
                   refs, unsubscribed, back>>

CallbackUnref(n) ==
    /\ pc[n] = "unref" /\ memory = "live"
    /\ Unref(n, "idle")
    /\ Returned(n)
    /\ UNCHANGED <<memory, registered, mutex, oci, notes, refs, unsubscribed>>

-----------------------------------------------------------------------------
(* What an actor goes on to do in the function it is in. *)
Continue(a) ==
    \/ Register(a) \/ MarkRegistered(a) \/ GetRegId(a)
    \/ FreeLock(a) \/ FreeRest(a)
    \/ Unregister(a) \/ UnsubscribeUnref(a) \/ UnsubscribeReturn(a)
    \/ CallbackCheck(a) \/ CallbackLock(a) \/ CallbackAddRef(a)
    \/ CallbackUnlock(a) \/ CallbackUnref(a)
    \/ pc[a] \in {"check", "lock", "unref", "free"} /\ Lost(a)

Begin(a) ==
    \/ a \in Users /\ Subscribe(a)
    \/ a \in Notifiers /\ Notify(a)
    \/ Release(a) \/ Unsubscribe(a)
    \/ \E b \in Actors : AddRefFor(a, b)

Next == \E a \in Actors : Begin(a) \/ Continue(a)

Spec == Init /\ [][Next]_vars

(* Threads keep running, and the program's callback returns. *)
FairSpec == Spec /\ \A a \in Actors : WF_vars(Continue(a))

-----------------------------------------------------------------------------
(* Where a call holds a reference of its own: the creation and the callback, *)
(* in which the program may itself be unsubscribing.                         *)
CallbackSteps == {"inCallback", "unref", "unregister", "unsubscribe", "unsubscribed"}

Calls ==
    {a \in Users : pc[a] \in {"register", "mark", "getRegId"}}
        \cup {a \in Notifiers : pc[a] \in CallbackSteps}

(* The references of the program and of calls in progress are counted, and  *)
(* what the program owns a reference to is there: release and unsubscribe   *)
(* take away one reference each, whatever callbacks run at the time.        *)
CountsReferences ==
    LET owners == {a \in Actors : refs[a] = 1} IN
    /\ memory = "live" /\ checkInt =>
          \/ \E a \in Actors : pc[a] \in {"free", "freeRest"}
          \/ refCount = Cardinality(owners) + Cardinality(Calls)
    /\ owners # {} => memory = "live" /\ checkInt

(* dpiConn.c:2763: once dpiConn_unsubscribe has succeeded the program is    *)
(* not notified any more, not even by a notification that was on its way.   *)
NotNotifiedAfter ==
    [][\A n \in Notifiers :
          pc[n] # "inCallback" /\ pc'[n] = "inCallback" => ~unsubscribed]_vars

(* A subscription that is freed is unregistered first, so that the client   *)
(* does not start another callback for it.                                  *)
FreedIsUnregistered == memory = "freed" => ~oci

(* Every function returns: nobody waits for the mutex for ever.             *)
CallsEnd ==
    \A a \in Actors :
        pc[a] # "idle" ~> pc[a] \in {"idle", "useAfterFree"}
=============================================================================
