------------------------- MODULE SubscriptionProofs -------------------------
(***************************************************************************)
(* Proofs about Subscription, for any number of threads, users as well as  *)
(* notifiers, and whichever of the OCI calls fail.                         *)
(***************************************************************************)
EXTENDS Subscription, FiniteSetTheorems, TLAPS

Creating == {"register", "mark", "getRegId"}
Freeing == {"free", "freeRest"}
Unsubscribing == {"unregister", "unsubscribe", "unsubscribed"}

TypeOK ==
    /\ memory \in {"unused", "live", "freed"}
    /\ checkInt \in BOOLEAN /\ registered \in BOOLEAN /\ oci \in BOOLEAN
    /\ unsubscribed \in BOOLEAN
    /\ refCount \in Int
    /\ mutex \in Actors \cup {NULL}
    /\ lastNote \subseteq Notifiers
    /\ refs \in [Actors -> {0, 1}]
    /\ pc \in [Actors -> {"idle", "useAfterFree", "check", "lock", "addRef",
                          "inCallback", "unref"}
                          \cup Creating \cup Freeing \cup Unsubscribing]
    /\ back \in [Actors -> {"idle", "unsubscribed"}]
    /\ \A u \in Users :
          pc[u] \notin {"check", "lock", "addRef", "inCallback", "unref"}
    /\ \A n \in Notifiers :
          /\ pc[n] \notin Creating /\ back[n] = "idle"
          /\ pc[n] \in Unsubscribing => "unsubscribe" \in InCallback

(* Nothing has happened yet. *)
Untouched ==
    memory = "unused" =>
        /\ ~oci /\ ~registered /\ ~unsubscribed /\ lastNote = {}
        /\ \A a \in Actors : pc[a] = "idle" /\ back[a] = "idle" /\ refs[a] = 0

(* The creator has the subscription to itself, but for notifications. *)
CreatorIsAlone ==
    \A a \in Actors : pc[a] \in Creating =>
        /\ memory = "live" /\ checkInt /\ ~unsubscribed
        /\ \A b \in Actors : /\ refs[b] = 0
                             /\ pc[b] \notin Freeing \cup Unsubscribing
                             /\ back[b] = "idle"
                             /\ pc[b] \in Creating => b = a
        /\ pc[a] = "register" => ~oci /\ lastNote = {}
        /\ pc[a] \in {"register", "mark"} => ~registered

(* Nobody frees what the program has a reference to. *)
OwnedIsLive ==
    /\ \A a \in Actors : refs[a] = 1 =>
          /\ memory = "live" /\ checkInt
          /\ \A b \in Actors : pc[b] \notin Freeing
    /\ \A a \in Actors : pc[a] \in {"unregister", "unsubscribe"} => refs[a] = 1

(* Where the mutex is held, and that nothing is freed meanwhile. *)
HoldsMutex(a) ==
    \/ pc[a] \in {"freeRest", "addRef", "inCallback"}
    \/ a \in Notifiers /\ pc[a] \in Unsubscribing

MutexHolderIsAlone ==
    \A a \in Actors : HoldsMutex(a) => mutex = a /\ memory = "live"

Owners == {a \in Actors : refs[a] = 1}

CountIsRight ==
    memory = "live" /\ checkInt /\ (\A a \in Actors : pc[a] \notin Freeing) =>
        refCount = Cardinality(Owners) + Cardinality(Calls)

(* What ODPI-C believes of the registration, against what OCI knows.  The   *)
(* mark is never set again once it is cleared.                              *)
RegistrationIsKnown ==
    /\ oci => registered \/ \E a \in Actors : pc[a] = "mark"
    /\ lastNote # {} => ~oci
    /\ \A a \in Actors :
          pc[a] \in {"unsubscribe", "unsubscribed"} \/ back[a] = "unsubscribed"
              => ~registered
    /\ unsubscribed => ~registered
    /\ ~Deregisters =>
          lastNote = {} /\ \A n \in Notifiers : pc[n] = "addRef" => registered

SubscrInv ==
    /\ TypeOK /\ Untouched /\ CreatorIsAlone /\ OwnedIsLive
    /\ MutexHolderIsAlone /\ CountIsRight /\ RegistrationIsKnown

-----------------------------------------------------------------------------
(* The count is that of two finite sets. *)
LEMMA CountsAreFinite ==
    /\ IsFiniteSet(Owners) /\ Cardinality(Owners) \in Nat
    /\ IsFiniteSet(Calls) /\ Cardinality(Calls) \in Nat
<1>1. Owners \subseteq Actors /\ Calls \subseteq Actors
  BY DEF Owners, Calls, Actors
<1>2. QED  BY <1>1, SubscriptionAssumption, FS_Subset, FS_CardinalityType

LEMMA FiniteWithOne ==
    ASSUME NEW S, IsFiniteSet(S), NEW a \in S
    PROVE  /\ Cardinality(S) \in Nat \ {0}
           /\ Cardinality(S) = 1 => S = {a}
<1>1. /\ IsFiniteSet(S \ {a}) /\ Cardinality(S \ {a}) = Cardinality(S) - 1
      /\ Cardinality(S \ {a}) \in Nat /\ Cardinality(S) \in Nat
  BY FS_RemoveElement, FS_CardinalityType
<1>2. Cardinality(S) = 1 => S \ {a} = {}
  BY <1>1, FS_EmptySet
<1>3. QED  BY <1>1, <1>2

(***************************************************************************)
(* Whoever gives back the last reference while the program had one is a    *)
(* user, and nobody else has one: neither the program nor a callback.      *)
(***************************************************************************)
LEMMA LastOwner ==
    ASSUME SubscrInv, refCount = 1, NEW a \in Actors, refs[a] = 1
    PROVE  Owners = {a} /\ Calls = {}
<1>1. memory = "live" /\ checkInt /\ \A b \in Actors : pc[b] \notin Freeing
  BY DEF SubscrInv, OwnedIsLive
<1>2. 1 = Cardinality(Owners) + Cardinality(Calls)
  BY <1>1 DEF SubscrInv, CountIsRight
<1>3. a \in Owners  BY DEF Owners
<1>4. Cardinality(Owners) = 1 /\ Cardinality(Calls) = 0
  BY <1>2, <1>3, CountsAreFinite, FiniteWithOne
<1>5. QED  BY <1>3, <1>4, CountsAreFinite, FiniteWithOne, FS_EmptySet

(* If it is a callback that gives it back, the program has none. *)
LEMMA LastCall ==
    ASSUME SubscrInv, refCount = 1, memory = "live",
           NEW a \in Notifiers, pc[a] = "unref"
    PROVE  /\ \A b \in Actors : refs[b] = 0 /\ pc[b] \notin Creating
           /\ checkInt /\ (\A b \in Actors : pc[b] \notin Freeing) => Calls = {a}
<1>1. a \in Calls  BY DEF Calls, CallbackSteps
<1>2. CASE checkInt /\ \A b \in Actors : pc[b] \notin Freeing
  <2>1. 1 = Cardinality(Owners) + Cardinality(Calls)
    BY <1>2 DEF SubscrInv, CountIsRight
  <2>2. Cardinality(Calls) = 1 /\ Cardinality(Owners) = 0
    BY <1>1, <2>1, CountsAreFinite, FiniteWithOne
  <2>3. Calls = {a} /\ Owners = {}
    BY <1>1, <2>2, CountsAreFinite, FiniteWithOne, FS_EmptySet
  <2>4. \A b \in Actors : refs[b] = 0
    BY <2>3 DEF Owners, SubscrInv, TypeOK
  <2>5. ASSUME NEW b \in Actors, pc[b] \in Creating PROVE FALSE
    <3>1. b \in Users  BY <2>5 DEF SubscrInv, TypeOK, Actors
    <3>2. b \in Calls  BY <2>5, <3>1 DEF Calls, Creating
    <3>3. b = a  BY <2>3, <3>2
    <3>4. QED  BY <3>1, <3>3, SubscriptionAssumption
  <2>6. QED  BY <2>3, <2>4, <2>5
<1>3. CASE ~(checkInt /\ \A b \in Actors : pc[b] \notin Freeing)
  <2>1. \A b \in Actors : refs[b] # 1
    BY <1>3 DEF SubscrInv, OwnedIsLive
  <2>2. \A b \in Actors : pc[b] \notin Creating
    BY <1>3 DEF SubscrInv, CreatorIsAlone, Creating
  <2>3. QED  BY <1>3, <2>1, <2>2 DEF SubscrInv, TypeOK
<1>4. QED  BY <1>2, <1>3

(* The two functions that give back a reference of the program. *)
LEMMA GivesBack ==
    ASSUME SubscrInv, NEW a \in Actors, Release(a) \/ UnsubscribeUnref(a)
    PROVE  /\ refs[a] = 1
           /\ refCount = 1 =>
                 /\ a \in Users /\ Owners = {a} /\ Calls = {}
                 /\ \A b \in Actors : b # a => refs[b] = 0
                 /\ \A b \in Actors : pc[b] \notin Freeing \cup Creating
<1>1. refs[a] \in {0, 1} /\ (a \in Users \/ a \in Notifiers)
  BY DEF SubscrInv, TypeOK, Actors
<1>2. refs[a] = 1
  <2>1. CASE Release(a)  BY <1>1, <2>1 DEF Release
  <2>2. CASE UnsubscribeUnref(a)
    BY <2>2 DEF UnsubscribeUnref, SubscrInv, OwnedIsLive
  <2>3. QED  BY <2>1, <2>2
<1>3. ASSUME refCount = 1
      PROVE  /\ a \in Users /\ Owners = {a} /\ Calls = {}
             /\ \A b \in Actors : b # a => refs[b] = 0
             /\ \A b \in Actors : pc[b] \notin Freeing \cup Creating
  <2>1. Owners = {a} /\ Calls = {}  BY <1>2, <1>3, LastOwner
  <2>2. a \in Notifiers => a \in Calls
    BY SubscriptionAssumption
       DEF Release, UnsubscribeUnref, InProgram, Program, Calls, CallbackSteps, Actors
  <2>3. \A b \in Actors : b # a => refs[b] = 0
    BY <2>1 DEF Owners, SubscrInv, TypeOK
  <2>4. \A b \in Actors : pc[b] \notin Creating
    BY <1>2 DEF SubscrInv, CreatorIsAlone
  <2>5. QED  BY <1>1, <1>2, <2>1, <2>2, <2>3, <2>4 DEF SubscrInv, OwnedIsLive
<1>4. QED  BY <1>2, <1>3

-----------------------------------------------------------------------------
(* Every step keeps the types. *)
LEMMA TypeStep == SubscrInv /\ [Next]_vars => TypeOK'
<1>  SUFFICES ASSUME SubscrInv, [Next]_vars PROVE TypeOK'
  OBVIOUS
<1>  USE SubscriptionAssumption DEF SubscrInv, TypeOK, Actors, GoTo,
         subscrVars, Creating, Freeing, Unsubscribing, InProgram, Program
<1>1. ASSUME NEW a \in Users, Subscribe(a) PROVE TypeOK'
  BY <1>1 DEF Subscribe
<1>2. ASSUME NEW a \in Notifiers, Notify(a) PROVE TypeOK'
  BY <1>2 DEF Notify
<1>3. ASSUME NEW a \in Actors, Release(a) PROVE TypeOK'
  <2>1. refs[a] = 1 /\ (refCount = 1 => a \in Users)
    BY <1>3, GivesBack
  <2>2. CASE refCount = 1
    <3>1. pc' = [pc EXCEPT ![a] = "free"] /\ back' = [back EXCEPT ![a] = "idle"]
      BY <1>3, <2>1, <2>2 DEF Release, Unref
    <3>2. checkInt' = FALSE /\ refCount' = 0
      BY <1>3, <2>2 DEF Release, Unref
    <3>3. refs' \in [Actors -> {0, 1}] /\ lastNote' \subseteq Notifiers
      BY <1>3, <2>1 DEF Release, Unref
    <3>4. UNCHANGED <<memory, registered, mutex, oci, unsubscribed>>
      BY <1>3 DEF Release
    <3>5. \A u \in Users :
             pc'[u] \notin {"check", "lock", "addRef", "inCallback", "unref"}
      BY <2>1, <2>2, <3>1
    <3>6. \A n \in Notifiers : pc'[n] \notin Creating /\ back'[n] = "idle"
      BY <2>1, <2>2, <3>1
    <3>7. checkInt' \in BOOLEAN  BY <3>2
    <3>8. refCount' \in Int  BY <3>2
    <3>9. QED  BY <3>1, <3>3, <3>4, <3>5, <3>6, <3>7, <3>8
  <2>3. CASE refCount # 1
    BY <1>3, <2>1, <2>3 DEF Release, Unref
  <2>4. QED  BY <2>2, <2>3
<1>4. ASSUME NEW a \in Actors, Unsubscribe(a) PROVE TypeOK'
  BY <1>4 DEF Unsubscribe
<1>5. ASSUME NEW a \in Actors, NEW b \in Actors, AddRefFor(a, b) PROVE TypeOK'
  BY <1>5 DEF AddRefFor
<1>6. ASSUME NEW a \in Actors, Register(a) PROVE TypeOK'
  BY <1>6 DEF Register
<1>7. ASSUME NEW a \in Actors, MarkRegistered(a) PROVE TypeOK'
  BY <1>7 DEF MarkRegistered
<1>8. ASSUME NEW a \in Actors, GetRegId(a) PROVE TypeOK'
  BY <1>8 DEF GetRegId
<1>9. ASSUME NEW a \in Actors, FreeLock(a) PROVE TypeOK'
  BY <1>9 DEF FreeLock
<1>10. ASSUME NEW a \in Actors, FreeRest(a) PROVE TypeOK'
  BY <1>10 DEF FreeRest
<1>11. ASSUME NEW a \in Actors, Unregister(a) PROVE TypeOK'
  BY <1>11 DEF Unregister
<1>12. ASSUME NEW a \in Actors, UnsubscribeUnref(a) PROVE TypeOK'
  <2>1. refs[a] = 1 /\ (refCount = 1 => a \in Users)
    BY <1>12, GivesBack
  <2>2. CASE refCount = 1
    <3>1. pc' = [pc EXCEPT ![a] = "free"] /\ back' = [back EXCEPT ![a] = "unsubscribed"]
      BY <1>12, <2>1, <2>2 DEF UnsubscribeUnref, Unref
    <3>2. checkInt' = FALSE /\ refCount' = 0
      BY <1>12, <2>2 DEF UnsubscribeUnref, Unref
    <3>3. refs' \in [Actors -> {0, 1}] /\ lastNote' \subseteq Notifiers
      BY <1>12, <2>1 DEF UnsubscribeUnref, Unref
    <3>4. UNCHANGED <<memory, registered, mutex, oci, unsubscribed>>
      BY <1>12 DEF UnsubscribeUnref
    <3>5. \A u \in Users :
             pc'[u] \notin {"check", "lock", "addRef", "inCallback", "unref"}
      BY <2>1, <2>2, <3>1
    <3>6. \A n \in Notifiers : pc'[n] \notin Creating /\ back'[n] = "idle"
      BY <2>1, <2>2, <3>1
    <3>7. checkInt' \in BOOLEAN  BY <3>2
    <3>8. refCount' \in Int  BY <3>2
    <3>9. QED  BY <3>1, <3>3, <3>4, <3>5, <3>6, <3>7, <3>8
  <2>3. CASE refCount # 1
    BY <1>12, <2>1, <2>3 DEF UnsubscribeUnref, Unref
  <2>4. QED  BY <2>2, <2>3
<1>13. ASSUME NEW a \in Actors, UnsubscribeReturn(a) PROVE TypeOK'
  BY <1>13 DEF UnsubscribeReturn
<1>14. ASSUME NEW a \in Actors, CallbackCheck(a) PROVE TypeOK'
  BY <1>14 DEF CallbackCheck, Returned
<1>15. ASSUME NEW a \in Actors, CallbackLock(a) PROVE TypeOK'
  <2>1. a \in Notifiers  BY <1>15 DEF CallbackLock
  <2>2. CASE registered
    BY <1>15, <2>1, <2>2 DEF CallbackLock, PopulateMessage
  <2>3. CASE ~registered
    BY <1>15, <2>1, <2>3 DEF CallbackLock, Returned
  <2>4. QED  BY <2>2, <2>3
<1>16. ASSUME NEW a \in Actors, CallbackAddRef(a) PROVE TypeOK'
  BY <1>16 DEF CallbackAddRef
<1>17. ASSUME NEW a \in Actors, CallbackUnlock(a) PROVE TypeOK'
  BY <1>17 DEF CallbackUnlock
<1>18. ASSUME NEW a \in Actors, CallbackUnref(a) PROVE TypeOK'
  <2>1. a \in Notifiers  BY <1>18 DEF CallbackUnref
  <2>2. CASE refCount = 1
    <3>1. pc' = [pc EXCEPT ![a] = "free"] /\ back' = [back EXCEPT ![a] = "idle"]
      BY <1>18, <2>1, <2>2 DEF CallbackUnref, Unref, Returned
    <3>2. checkInt' = FALSE /\ refCount' = 0
      BY <1>18, <2>2 DEF CallbackUnref, Unref, Returned
    <3>3. refs' \in [Actors -> {0, 1}] /\ lastNote' \subseteq Notifiers
      BY <1>18, <2>1 DEF CallbackUnref, Unref, Returned
    <3>4. UNCHANGED <<memory, registered, mutex, oci, unsubscribed>>
      BY <1>18 DEF CallbackUnref
    <3>5. \A u \in Users :
             pc'[u] \notin {"check", "lock", "addRef", "inCallback", "unref"}
      BY <2>1, <2>2, <3>1
    <3>6. \A n \in Notifiers : pc'[n] \notin Creating /\ back'[n] = "idle"
      BY <2>1, <2>2, <3>1
    <3>7. checkInt' \in BOOLEAN  BY <3>2
    <3>8. refCount' \in Int  BY <3>2
    <3>9. QED  BY <3>1, <3>3, <3>4, <3>5, <3>6, <3>7, <3>8
  <2>3. CASE refCount # 1
    BY <1>18, <2>1, <2>3 DEF CallbackUnref, Unref, Returned
  <2>4. QED  BY <2>2, <2>3
<1>19. ASSUME NEW a \in Actors, Lost(a), pc[a] \in {"check", "lock", "unref", "free"}
     PROVE  TypeOK'
  BY <1>19 DEF Lost
<1>20. CASE UNCHANGED vars
  BY <1>20 DEF vars
<1>21. QED
  BY <1>1, <1>2, <1>3, <1>4, <1>5, <1>6, <1>7, <1>8, <1>9, <1>10, <1>11, <1>12,
     <1>13, <1>14, <1>15, <1>16, <1>17, <1>18, <1>19, <1>20
  DEF Next, Begin, Continue

(* Before the creation nothing happens. *)
LEMMA UntouchedStep == SubscrInv /\ [Next]_vars => Untouched'
<1>  SUFFICES ASSUME SubscrInv, [Next]_vars PROVE Untouched'
  OBVIOUS
<1>  USE SubscriptionAssumption DEF SubscrInv, TypeOK, Actors, GoTo,
         subscrVars, Creating, Freeing, Unsubscribing, Untouched, InProgram,
         Program
<1>1. ASSUME NEW a \in Users, Subscribe(a) PROVE Untouched'
  BY <1>1 DEF Subscribe
<1>2. ASSUME NEW a \in Notifiers, Notify(a) PROVE Untouched'
  BY <1>2 DEF Notify
<1>3. ASSUME NEW a \in Actors, Release(a) PROVE Untouched'
  BY <1>3 DEF Release, Unref
<1>4. ASSUME NEW a \in Actors, Unsubscribe(a) PROVE Untouched'
  BY <1>4 DEF Unsubscribe
<1>5. ASSUME NEW a \in Actors, NEW b \in Actors, AddRefFor(a, b) PROVE Untouched'
  BY <1>5 DEF AddRefFor
<1>6. ASSUME NEW a \in Actors, Register(a) PROVE Untouched'
  BY <1>6 DEF Register
<1>7. ASSUME NEW a \in Actors, MarkRegistered(a) PROVE Untouched'
  BY <1>7 DEF MarkRegistered
<1>8. ASSUME NEW a \in Actors, GetRegId(a) PROVE Untouched'
  BY <1>8 DEF GetRegId
<1>9. ASSUME NEW a \in Actors, FreeLock(a) PROVE Untouched'
  BY <1>9 DEF FreeLock
<1>10. ASSUME NEW a \in Actors, FreeRest(a) PROVE Untouched'
  BY <1>10 DEF FreeRest
<1>11. ASSUME NEW a \in Actors, Unregister(a) PROVE Untouched'
  BY <1>11 DEF Unregister
<1>12. ASSUME NEW a \in Actors, UnsubscribeUnref(a) PROVE Untouched'
  BY <1>12 DEF UnsubscribeUnref, Unref
<1>13. ASSUME NEW a \in Actors, UnsubscribeReturn(a) PROVE Untouched'
  BY <1>13 DEF UnsubscribeReturn
<1>14. ASSUME NEW a \in Actors, CallbackCheck(a) PROVE Untouched'
  BY <1>14 DEF CallbackCheck, Returned
<1>15. ASSUME NEW a \in Actors, CallbackLock(a) PROVE Untouched'
  BY <1>15 DEF CallbackLock, Returned, PopulateMessage
<1>16. ASSUME NEW a \in Actors, CallbackAddRef(a) PROVE Untouched'
  BY <1>16 DEF CallbackAddRef
<1>17. ASSUME NEW a \in Actors, CallbackUnlock(a) PROVE Untouched'
  BY <1>17 DEF CallbackUnlock
<1>18. ASSUME NEW a \in Actors, CallbackUnref(a) PROVE Untouched'
  BY <1>18 DEF CallbackUnref, Unref, Returned
<1>19. ASSUME NEW a \in Actors, Lost(a), pc[a] \in {"check", "lock", "unref", "free"}
     PROVE  Untouched'
  BY <1>19 DEF Lost
<1>20. CASE UNCHANGED vars
  BY <1>20 DEF vars
<1>21. QED
  BY <1>1, <1>2, <1>3, <1>4, <1>5, <1>6, <1>7, <1>8, <1>9, <1>10, <1>11, <1>12,
     <1>13, <1>14, <1>15, <1>16, <1>17, <1>18, <1>19, <1>20
  DEF Next, Begin, Continue

(* No call of the program meets the creation. *)
LEMMA CreatorStep == SubscrInv /\ [Next]_vars => CreatorIsAlone'
<1>  SUFFICES ASSUME SubscrInv, [Next]_vars PROVE CreatorIsAlone'
  OBVIOUS
<1>  USE SubscriptionAssumption DEF SubscrInv, TypeOK, Actors, GoTo,
         subscrVars, Creating, Freeing, Unsubscribing, CreatorIsAlone,
         Untouched, OwnedIsLive, InProgram, Program
<1>1. ASSUME NEW a \in Users, Subscribe(a) PROVE CreatorIsAlone'
  BY <1>1 DEF Subscribe
<1>2. ASSUME NEW a \in Notifiers, Notify(a) PROVE CreatorIsAlone'
  BY <1>2 DEF Notify
<1>3. ASSUME NEW a \in Actors, Release(a) PROVE CreatorIsAlone'
  BY <1>3 DEF Release, Unref
<1>4. ASSUME NEW a \in Actors, Unsubscribe(a) PROVE CreatorIsAlone'
  BY <1>4 DEF Unsubscribe
<1>5. ASSUME NEW a \in Actors, NEW b \in Actors, AddRefFor(a, b) PROVE CreatorIsAlone'
  BY <1>5 DEF AddRefFor
<1>6. ASSUME NEW a \in Actors, Register(a) PROVE CreatorIsAlone'
  BY <1>6 DEF Register
<1>7. ASSUME NEW a \in Actors, MarkRegistered(a) PROVE CreatorIsAlone'
  BY <1>7 DEF MarkRegistered
<1>8. ASSUME NEW a \in Actors, GetRegId(a) PROVE CreatorIsAlone'
  BY <1>8 DEF GetRegId
<1>9. ASSUME NEW a \in Actors, FreeLock(a) PROVE CreatorIsAlone'
  BY <1>9 DEF FreeLock
<1>10. ASSUME NEW a \in Actors, FreeRest(a) PROVE CreatorIsAlone'
  BY <1>10 DEF FreeRest
<1>11. ASSUME NEW a \in Actors, Unregister(a) PROVE CreatorIsAlone'
  BY <1>11 DEF Unregister
<1>12. ASSUME NEW a \in Actors, UnsubscribeUnref(a) PROVE CreatorIsAlone'
  BY <1>12 DEF UnsubscribeUnref, Unref
<1>13. ASSUME NEW a \in Actors, UnsubscribeReturn(a) PROVE CreatorIsAlone'
  BY <1>13 DEF UnsubscribeReturn
<1>14. ASSUME NEW a \in Actors, CallbackCheck(a) PROVE CreatorIsAlone'
  BY <1>14 DEF CallbackCheck, Returned
<1>15. ASSUME NEW a \in Actors, CallbackLock(a) PROVE CreatorIsAlone'
  BY <1>15 DEF CallbackLock, Returned, PopulateMessage
<1>16. ASSUME NEW a \in Actors, CallbackAddRef(a) PROVE CreatorIsAlone'
  BY <1>16 DEF CallbackAddRef
<1>17. ASSUME NEW a \in Actors, CallbackUnlock(a) PROVE CreatorIsAlone'
  BY <1>17 DEF CallbackUnlock
<1>18. ASSUME NEW a \in Actors, CallbackUnref(a) PROVE CreatorIsAlone'
  BY <1>18, LastCall DEF CallbackUnref, Unref, Returned
<1>19. ASSUME NEW a \in Actors, Lost(a), pc[a] \in {"check", "lock", "unref", "free"}
     PROVE  CreatorIsAlone'
  BY <1>19 DEF Lost
<1>20. CASE UNCHANGED vars
  BY <1>20 DEF vars
<1>21. QED
  BY <1>1, <1>2, <1>3, <1>4, <1>5, <1>6, <1>7, <1>8, <1>9, <1>10, <1>11, <1>12,
     <1>13, <1>14, <1>15, <1>16, <1>17, <1>18, <1>19, <1>20
  DEF Next, Begin, Continue

(* Only the last reference frees. *)
LEMMA OwnedStep == SubscrInv /\ [Next]_vars => OwnedIsLive'
<1>  SUFFICES ASSUME SubscrInv, [Next]_vars PROVE OwnedIsLive'
  OBVIOUS
<1>  USE SubscriptionAssumption DEF SubscrInv, TypeOK, Actors, GoTo,
         subscrVars, Creating, Freeing, Unsubscribing, OwnedIsLive, Untouched,
         CreatorIsAlone, InProgram, Program
<1>1. ASSUME NEW a \in Users, Subscribe(a) PROVE OwnedIsLive'
  BY <1>1 DEF Subscribe
<1>2. ASSUME NEW a \in Notifiers, Notify(a) PROVE OwnedIsLive'
  BY <1>2 DEF Notify
<1>3. ASSUME NEW a \in Actors, Release(a) PROVE OwnedIsLive'
  <2>1. /\ refs[a] = 1
        /\ refCount = 1 => /\ \A b \in Actors : b # a => refs[b] = 0
                           /\ \A b \in Actors : pc[b] \notin Freeing \cup Creating
    BY <1>3, GivesBack
  <2>2. refs' = [refs EXCEPT ![a] = 0]
    BY <1>3, <2>1 DEF Release
  <2>3. CASE refCount = 1
    <3>1. \A b \in Actors : refs'[b] = 0
      BY <2>1, <2>2, <2>3
    <3>2. \A b \in Actors : pc'[b] \notin {"unregister", "unsubscribe"}
      BY <1>3, <2>1, <2>3 DEF Release, Unref
    <3>3. QED  BY <3>1, <3>2
  <2>4. CASE refCount # 1
    BY <1>3, <2>1, <2>2, <2>4 DEF Release, Unref
  <2>5. QED  BY <2>3, <2>4
<1>4. ASSUME NEW a \in Actors, Unsubscribe(a) PROVE OwnedIsLive'
  BY <1>4 DEF Unsubscribe
<1>5. ASSUME NEW a \in Actors, NEW b \in Actors, AddRefFor(a, b) PROVE OwnedIsLive'
  BY <1>5 DEF AddRefFor
<1>6. ASSUME NEW a \in Actors, Register(a) PROVE OwnedIsLive'
  BY <1>6 DEF Register
<1>7. ASSUME NEW a \in Actors, MarkRegistered(a) PROVE OwnedIsLive'
  BY <1>7 DEF MarkRegistered
<1>8. ASSUME NEW a \in Actors, GetRegId(a) PROVE OwnedIsLive'
  BY <1>8 DEF GetRegId
<1>9. ASSUME NEW a \in Actors, FreeLock(a) PROVE OwnedIsLive'
  BY <1>9 DEF FreeLock
<1>10. ASSUME NEW a \in Actors, FreeRest(a) PROVE OwnedIsLive'
  BY <1>10 DEF FreeRest
<1>11. ASSUME NEW a \in Actors, Unregister(a) PROVE OwnedIsLive'
  BY <1>11 DEF Unregister
<1>12. ASSUME NEW a \in Actors, UnsubscribeUnref(a) PROVE OwnedIsLive'
  <2>1. /\ refs[a] = 1
        /\ refCount = 1 => /\ \A b \in Actors : b # a => refs[b] = 0
                           /\ \A b \in Actors : pc[b] \notin Freeing \cup Creating
    BY <1>12, GivesBack
  <2>2. refs' = [refs EXCEPT ![a] = 0]
    BY <1>12, <2>1 DEF UnsubscribeUnref
  <2>3. CASE refCount = 1
    <3>1. \A b \in Actors : refs'[b] = 0
      BY <2>1, <2>2, <2>3
    <3>2. \A b \in Actors : pc'[b] \notin {"unregister", "unsubscribe"}
      BY <1>12, <2>1, <2>3 DEF UnsubscribeUnref, Unref
    <3>3. QED  BY <3>1, <3>2
  <2>4. CASE refCount # 1
    BY <1>12, <2>1, <2>2, <2>4 DEF UnsubscribeUnref, Unref
  <2>5. QED  BY <2>3, <2>4
<1>13. ASSUME NEW a \in Actors, UnsubscribeReturn(a) PROVE OwnedIsLive'
  BY <1>13 DEF UnsubscribeReturn
<1>14. ASSUME NEW a \in Actors, CallbackCheck(a) PROVE OwnedIsLive'
  BY <1>14 DEF CallbackCheck, Returned
<1>15. ASSUME NEW a \in Actors, CallbackLock(a) PROVE OwnedIsLive'
  BY <1>15 DEF CallbackLock, Returned, PopulateMessage
<1>16. ASSUME NEW a \in Actors, CallbackAddRef(a) PROVE OwnedIsLive'
  BY <1>16 DEF CallbackAddRef
<1>17. ASSUME NEW a \in Actors, CallbackUnlock(a) PROVE OwnedIsLive'
  BY <1>17 DEF CallbackUnlock
<1>18. ASSUME NEW a \in Actors, CallbackUnref(a) PROVE OwnedIsLive'
  BY <1>18, LastCall DEF CallbackUnref, Unref, Returned
<1>19. ASSUME NEW a \in Actors, Lost(a), pc[a] \in {"check", "lock", "unref", "free"}
     PROVE  OwnedIsLive'
  BY <1>19 DEF Lost
<1>20. CASE UNCHANGED vars
  BY <1>20 DEF vars
<1>21. QED
  BY <1>1, <1>2, <1>3, <1>4, <1>5, <1>6, <1>7, <1>8, <1>9, <1>10, <1>11, <1>12,
     <1>13, <1>14, <1>15, <1>16, <1>17, <1>18, <1>19, <1>20
  DEF Next, Begin, Continue

(* The mutex is taken and given back. *)
LEMMA MutexStep == SubscrInv /\ [Next]_vars => MutexHolderIsAlone'
<1>  SUFFICES ASSUME SubscrInv, [Next]_vars PROVE MutexHolderIsAlone'
  OBVIOUS
<1>  USE SubscriptionAssumption DEF SubscrInv, TypeOK, Actors, GoTo,
         subscrVars, Creating, Freeing, Unsubscribing, MutexHolderIsAlone,
         HoldsMutex, Untouched, CreatorIsAlone, OwnedIsLive, InProgram, Program
<1>1. ASSUME NEW a \in Users, Subscribe(a) PROVE MutexHolderIsAlone'
  BY <1>1 DEF Subscribe
<1>2. ASSUME NEW a \in Notifiers, Notify(a) PROVE MutexHolderIsAlone'
  BY <1>2 DEF Notify
<1>3. ASSUME NEW a \in Actors, Release(a) PROVE MutexHolderIsAlone'
  BY <1>3 DEF Release, Unref
<1>4. ASSUME NEW a \in Actors, Unsubscribe(a) PROVE MutexHolderIsAlone'
  BY <1>4 DEF Unsubscribe
<1>5. ASSUME NEW a \in Actors, NEW b \in Actors, AddRefFor(a, b) PROVE MutexHolderIsAlone'
  BY <1>5 DEF AddRefFor
<1>6. ASSUME NEW a \in Actors, Register(a) PROVE MutexHolderIsAlone'
  BY <1>6 DEF Register
<1>7. ASSUME NEW a \in Actors, MarkRegistered(a) PROVE MutexHolderIsAlone'
  BY <1>7 DEF MarkRegistered
<1>8. ASSUME NEW a \in Actors, GetRegId(a) PROVE MutexHolderIsAlone'
  BY <1>8 DEF GetRegId
<1>9. ASSUME NEW a \in Actors, FreeLock(a) PROVE MutexHolderIsAlone'
  BY <1>9 DEF FreeLock
<1>10. ASSUME NEW a \in Actors, FreeRest(a) PROVE MutexHolderIsAlone'
  BY <1>10 DEF FreeRest
<1>11. ASSUME NEW a \in Actors, Unregister(a) PROVE MutexHolderIsAlone'
  BY <1>11 DEF Unregister
<1>12. ASSUME NEW a \in Actors, UnsubscribeUnref(a) PROVE MutexHolderIsAlone'
  BY <1>12 DEF UnsubscribeUnref, Unref
<1>13. ASSUME NEW a \in Actors, UnsubscribeReturn(a) PROVE MutexHolderIsAlone'
  BY <1>13 DEF UnsubscribeReturn
<1>14. ASSUME NEW a \in Actors, CallbackCheck(a) PROVE MutexHolderIsAlone'
  BY <1>14 DEF CallbackCheck, Returned
<1>15. ASSUME NEW a \in Actors, CallbackLock(a) PROVE MutexHolderIsAlone'
  BY <1>15 DEF CallbackLock, Returned, PopulateMessage
<1>16. ASSUME NEW a \in Actors, CallbackAddRef(a) PROVE MutexHolderIsAlone'
  BY <1>16 DEF CallbackAddRef
<1>17. ASSUME NEW a \in Actors, CallbackUnlock(a) PROVE MutexHolderIsAlone'
  BY <1>17 DEF CallbackUnlock
<1>18. ASSUME NEW a \in Actors, CallbackUnref(a) PROVE MutexHolderIsAlone'
  BY <1>18 DEF CallbackUnref, Unref, Returned
<1>19. ASSUME NEW a \in Actors, Lost(a), pc[a] \in {"check", "lock", "unref", "free"}
     PROVE  MutexHolderIsAlone'
  BY <1>19 DEF Lost
<1>20. CASE UNCHANGED vars
  BY <1>20 DEF vars
<1>21. QED
  BY <1>1, <1>2, <1>3, <1>4, <1>5, <1>6, <1>7, <1>8, <1>9, <1>10, <1>11, <1>12,
     <1>13, <1>14, <1>15, <1>16, <1>17, <1>18, <1>19, <1>20
  DEF Next, Begin, Continue

(* The mark of the registration. *)
LEMMA RegistrationStep == SubscrInv /\ [Next]_vars => RegistrationIsKnown'
<1>  SUFFICES ASSUME SubscrInv, [Next]_vars PROVE RegistrationIsKnown'
  OBVIOUS
<1>  USE SubscriptionAssumption DEF SubscrInv, TypeOK, Actors, GoTo,
         subscrVars, Creating, Freeing, Unsubscribing, RegistrationIsKnown,
         MutexHolderIsAlone, HoldsMutex, Untouched, CreatorIsAlone,
         OwnedIsLive, InProgram, Program
<1>1. ASSUME NEW a \in Users, Subscribe(a) PROVE RegistrationIsKnown'
  BY <1>1 DEF Subscribe
<1>2. ASSUME NEW a \in Notifiers, Notify(a) PROVE RegistrationIsKnown'
  BY <1>2 DEF Notify
<1>3. ASSUME NEW a \in Actors, Release(a) PROVE RegistrationIsKnown'
  BY <1>3 DEF Release, Unref
<1>4. ASSUME NEW a \in Actors, Unsubscribe(a) PROVE RegistrationIsKnown'
  BY <1>4 DEF Unsubscribe
<1>5. ASSUME NEW a \in Actors, NEW b \in Actors, AddRefFor(a, b) PROVE RegistrationIsKnown'
  BY <1>5 DEF AddRefFor
<1>6. ASSUME NEW a \in Actors, Register(a) PROVE RegistrationIsKnown'
  BY <1>6 DEF Register
<1>7. ASSUME NEW a \in Actors, MarkRegistered(a) PROVE RegistrationIsKnown'
  BY <1>7 DEF MarkRegistered
<1>8. ASSUME NEW a \in Actors, GetRegId(a) PROVE RegistrationIsKnown'
  BY <1>8 DEF GetRegId
<1>9. ASSUME NEW a \in Actors, FreeLock(a) PROVE RegistrationIsKnown'
  BY <1>9 DEF FreeLock
<1>10. ASSUME NEW a \in Actors, FreeRest(a) PROVE RegistrationIsKnown'
  BY <1>10 DEF FreeRest
<1>11. ASSUME NEW a \in Actors, Unregister(a) PROVE RegistrationIsKnown'
  BY <1>11 DEF Unregister
<1>12. ASSUME NEW a \in Actors, UnsubscribeUnref(a) PROVE RegistrationIsKnown'
  BY <1>12 DEF UnsubscribeUnref, Unref
<1>13. ASSUME NEW a \in Actors, UnsubscribeReturn(a) PROVE RegistrationIsKnown'
  BY <1>13 DEF UnsubscribeReturn
<1>14. ASSUME NEW a \in Actors, CallbackCheck(a) PROVE RegistrationIsKnown'
  BY <1>14 DEF CallbackCheck, Returned
<1>15. ASSUME NEW a \in Actors, CallbackLock(a) PROVE RegistrationIsKnown'
  BY <1>15 DEF CallbackLock, Returned, PopulateMessage
<1>16. ASSUME NEW a \in Actors, CallbackAddRef(a) PROVE RegistrationIsKnown'
  BY <1>16 DEF CallbackAddRef
<1>17. ASSUME NEW a \in Actors, CallbackUnlock(a) PROVE RegistrationIsKnown'
  BY <1>17 DEF CallbackUnlock
<1>18. ASSUME NEW a \in Actors, CallbackUnref(a) PROVE RegistrationIsKnown'
  BY <1>18 DEF CallbackUnref, Unref, Returned
<1>19. ASSUME NEW a \in Actors, Lost(a), pc[a] \in {"check", "lock", "unref", "free"}
     PROVE  RegistrationIsKnown'
  BY <1>19 DEF Lost
<1>20. CASE UNCHANGED vars
  BY <1>20 DEF vars
<1>21. QED
  BY <1>1, <1>2, <1>3, <1>4, <1>5, <1>6, <1>7, <1>8, <1>9, <1>10, <1>11, <1>12,
     <1>13, <1>14, <1>15, <1>16, <1>17, <1>18, <1>19, <1>20
  DEF Next, Begin, Continue

(* Every reference taken or given back is counted. *)
LEMMA CountStep == SubscrInv /\ [Next]_vars => CountIsRight'
<1>  SUFFICES ASSUME SubscrInv, [Next]_vars PROVE CountIsRight'
  OBVIOUS
<1>  USE SubscriptionAssumption DEF SubscrInv, TypeOK, Actors, GoTo,
         subscrVars, Creating, Freeing, Unsubscribing, CountIsRight, InProgram,
         Program
<1>1. ASSUME NEW a \in Users, Subscribe(a) PROVE CountIsRight'
  <2>1. Owners' = {} /\ Calls' = {a}
    BY <1>1 DEF Subscribe, Untouched, Owners, Calls, CallbackSteps
  <2>2. Cardinality(Owners') = 0 /\ Cardinality(Calls') = 1
    BY <2>1, FS_EmptySet, FS_Singleton
  <2>3. QED  BY <1>1, <2>2 DEF Subscribe
<1>2. ASSUME NEW a \in Notifiers, Notify(a) PROVE CountIsRight'
  <2>1. Owners' = Owners /\ Calls' = Calls
    BY <1>2 DEF Notify, Owners, Calls, CallbackSteps
  <2>2. QED  BY <1>2, <2>1 DEF Notify
<1>3. ASSUME NEW a \in Actors, Release(a) PROVE CountIsRight'
  <2>1. a \in Owners
    BY <1>3, GivesBack DEF Release, Owners, Calls, CallbackSteps
  <2>2. CASE refCount = 1
    BY <1>3, <2>2 DEF Release, Unref
  <2>3. CASE refCount # 1
    <3>1. Owners' = Owners \ {a} /\ Calls' = Calls
      BY <1>3, <2>1, <2>3 DEF Release, Unref, Owners, Calls, CallbackSteps
    <3>2. Cardinality(Owners') = Cardinality(Owners) - 1
      BY <2>1, <3>1, CountsAreFinite, FS_RemoveElement
    <3>3. /\ memory' = memory /\ checkInt' = checkInt /\ refCount' = refCount - 1
          /\ pc[a] \notin Freeing /\ \A b \in Actors : b # a => pc'[b] = pc[b]
      BY <1>3, <2>3 DEF Release, Unref
    <3>4. CountIsRight  OBVIOUS
    <3>5. refCount = Cardinality(Owners) + Cardinality(Calls) =>
             refCount' = Cardinality(Owners') + Cardinality(Calls')
      BY <3>1, <3>2, <3>3, CountsAreFinite
    <3>6. QED  BY <3>3, <3>4, <3>5
  <2>4. QED  BY <2>2, <2>3
<1>4. ASSUME NEW a \in Actors, Unsubscribe(a) PROVE CountIsRight'
  <2>1. Owners' = Owners /\ Calls' = Calls
    BY <1>4 DEF Unsubscribe, Owners, Calls, CallbackSteps
  <2>2. QED  BY <1>4, <2>1 DEF Unsubscribe
<1>5. ASSUME NEW a \in Actors, NEW b \in Actors, AddRefFor(a, b) PROVE CountIsRight'
  <2>1. Owners' = Owners \cup {b} /\ b \notin Owners /\ Calls' = Calls
    BY <1>5 DEF AddRefFor, Owners, Calls
  <2>2. Cardinality(Owners') = Cardinality(Owners) + 1
    BY <2>1, CountsAreFinite, FS_AddElement
  <2>3. QED  BY <1>5, <2>1, <2>2, CountsAreFinite DEF AddRefFor
<1>6. ASSUME NEW a \in Actors, Register(a) PROVE CountIsRight'
  <2>1. CASE pc' = [pc EXCEPT ![a] = "mark"]
    <3>1. Owners' = Owners /\ Calls' = Calls
      BY <1>6, <2>1 DEF Register, Owners, Calls, CallbackSteps
    <3>2. QED  BY <1>6, <2>1, <3>1 DEF Register
  <2>2. CASE pc' = [pc EXCEPT ![a] = "free"]
    BY <2>2
  <2>3. QED  BY <1>6, <2>1, <2>2 DEF Register
<1>7. ASSUME NEW a \in Actors, MarkRegistered(a) PROVE CountIsRight'
  <2>1. Owners' = Owners /\ Calls' = Calls
    BY <1>7 DEF MarkRegistered, Owners, Calls, CallbackSteps
  <2>2. QED  BY <1>7, <2>1 DEF MarkRegistered
<1>8. ASSUME NEW a \in Actors, GetRegId(a) PROVE CountIsRight'
  <2>1. CASE refs' = [refs EXCEPT ![a] = 1] /\ pc' = [pc EXCEPT ![a] = "idle"]
    <3>1. a \in Calls /\ a \notin Owners
      BY <1>8 DEF GetRegId, CreatorIsAlone, Owners, Calls
    <3>2. Owners' = Owners \cup {a} /\ Calls' = Calls \ {a}
      BY <1>8, <2>1, <3>1 DEF GetRegId, Owners, Calls, CallbackSteps
    <3>3. /\ Cardinality(Owners') = Cardinality(Owners) + 1
          /\ Cardinality(Calls') = Cardinality(Calls) - 1
      BY <3>1, <3>2, CountsAreFinite, FS_AddElement, FS_RemoveElement
    <3>4. QED  BY <1>8, <2>1, <3>3, CountsAreFinite DEF GetRegId
  <2>2. CASE pc' = [pc EXCEPT ![a] = "free"]
    BY <2>2
  <2>3. QED  BY <1>8, <2>1, <2>2 DEF GetRegId
<1>9. ASSUME NEW a \in Actors, FreeLock(a) PROVE CountIsRight'
  BY <1>9 DEF FreeLock
<1>10. ASSUME NEW a \in Actors, FreeRest(a) PROVE CountIsRight'
  BY <1>10 DEF FreeRest
<1>11. ASSUME NEW a \in Actors, Unregister(a) PROVE CountIsRight'
  <2>1. Owners' = Owners /\ Calls' = Calls
    BY <1>11 DEF Unregister, Owners, Calls, CallbackSteps
  <2>2. QED  BY <1>11, <2>1 DEF Unregister
<1>12. ASSUME NEW a \in Actors, UnsubscribeUnref(a) PROVE CountIsRight'
  <2>1. a \in Owners
    BY <1>12, GivesBack DEF UnsubscribeUnref, Owners, Calls, CallbackSteps
  <2>2. CASE refCount = 1
    BY <1>12, <2>2 DEF UnsubscribeUnref, Unref
  <2>3. CASE refCount # 1
    <3>1. Owners' = Owners \ {a} /\ Calls' = Calls
      BY <1>12, <2>1, <2>3 DEF UnsubscribeUnref, Unref, Owners, Calls,
         CallbackSteps
    <3>2. Cardinality(Owners') = Cardinality(Owners) - 1
      BY <2>1, <3>1, CountsAreFinite, FS_RemoveElement
    <3>3. /\ memory' = memory /\ checkInt' = checkInt /\ refCount' = refCount - 1
          /\ pc[a] \notin Freeing /\ \A b \in Actors : b # a => pc'[b] = pc[b]
      BY <1>12, <2>3 DEF UnsubscribeUnref, Unref
    <3>4. CountIsRight  OBVIOUS
    <3>5. refCount = Cardinality(Owners) + Cardinality(Calls) =>
             refCount' = Cardinality(Owners') + Cardinality(Calls')
      BY <3>1, <3>2, <3>3, CountsAreFinite
    <3>6. QED  BY <3>3, <3>4, <3>5
  <2>4. QED  BY <2>2, <2>3
<1>13. ASSUME NEW a \in Actors, UnsubscribeReturn(a) PROVE CountIsRight'
  <2>1. Owners' = Owners /\ Calls' = Calls
    BY <1>13 DEF UnsubscribeReturn, Owners, Calls, CallbackSteps
  <2>2. QED  BY <1>13, <2>1 DEF UnsubscribeReturn
<1>14. ASSUME NEW a \in Actors, CallbackCheck(a) PROVE CountIsRight'
  <2>1. Owners' = Owners /\ Calls' = Calls
    BY <1>14 DEF CallbackCheck, Returned, Owners, Calls, CallbackSteps
  <2>2. QED  BY <1>14, <2>1 DEF CallbackCheck, Returned
<1>15. ASSUME NEW a \in Actors, CallbackLock(a) PROVE CountIsRight'
  <2>1. Owners' = Owners /\ Calls' = Calls
    BY <1>15 DEF CallbackLock, Returned, PopulateMessage, Owners, Calls,
       CallbackSteps
  <2>2. QED  BY <1>15, <2>1 DEF CallbackLock, Returned, PopulateMessage
<1>16. ASSUME NEW a \in Actors, CallbackAddRef(a) PROVE CountIsRight'
  <2>1. a \in Notifiers  BY <1>16 DEF CallbackAddRef
  <2>2. Calls' = Calls \cup {a} /\ a \notin Calls /\ Owners' = Owners
    BY <1>16, <2>1 DEF CallbackAddRef, Owners, Calls, CallbackSteps
  <2>3. Cardinality(Calls') = Cardinality(Calls) + 1
    BY <2>2, CountsAreFinite, FS_AddElement
  <2>4. QED  BY <1>16, <2>2, <2>3, CountsAreFinite DEF CallbackAddRef
<1>17. ASSUME NEW a \in Actors, CallbackUnlock(a) PROVE CountIsRight'
  <2>1. Owners' = Owners /\ Calls' = Calls
    BY <1>17 DEF CallbackUnlock, Owners, Calls, CallbackSteps
  <2>2. QED  BY <1>17, <2>1 DEF CallbackUnlock
<1>18. ASSUME NEW a \in Actors, CallbackUnref(a) PROVE CountIsRight'
  <2>1. a \in Calls
    BY <1>18 DEF CallbackUnref, Owners, Calls, CallbackSteps
  <2>2. CASE refCount = 1
    BY <1>18, <2>2 DEF CallbackUnref, Unref, Returned
  <2>3. CASE refCount # 1
    <3>1. Calls' = Calls \ {a} /\ Owners' = Owners
      BY <1>18, <2>1, <2>3 DEF CallbackUnref, Unref, Returned, Owners, Calls,
         CallbackSteps
    <3>2. Cardinality(Calls') = Cardinality(Calls) - 1
      BY <2>1, <3>1, CountsAreFinite, FS_RemoveElement
    <3>3. /\ memory' = memory /\ checkInt' = checkInt /\ refCount' = refCount - 1
          /\ pc[a] \notin Freeing /\ \A b \in Actors : b # a => pc'[b] = pc[b]
      BY <1>18, <2>3 DEF CallbackUnref, Unref, Returned
    <3>4. CountIsRight  OBVIOUS
    <3>5. refCount = Cardinality(Owners) + Cardinality(Calls) =>
             refCount' = Cardinality(Owners') + Cardinality(Calls')
      BY <3>1, <3>2, <3>3, CountsAreFinite
    <3>6. QED  BY <3>3, <3>4, <3>5
  <2>4. QED  BY <2>2, <2>3
<1>19. ASSUME NEW a \in Actors, Lost(a), pc[a] \in {"check", "lock", "unref", "free"}
     PROVE  CountIsRight'
  BY <1>19 DEF Lost
<1>20. CASE UNCHANGED vars
  <2>1. Owners' = Owners /\ Calls' = Calls
    BY <1>20 DEF vars, Owners, Calls
  <2>2. QED  BY <1>20, <2>1 DEF vars
<1>21. QED
  BY <1>1, <1>2, <1>3, <1>4, <1>5, <1>6, <1>7, <1>8, <1>9, <1>10, <1>11, <1>12,
     <1>13, <1>14, <1>15, <1>16, <1>17, <1>18, <1>19, <1>20
  DEF Next, Begin, Continue

-----------------------------------------------------------------------------
(* The invariant holds of every reachable state. *)
THEOREM InvariantHolds == Spec => []SubscrInv
<1>1. Init => SubscrInv
  <2>  SUFFICES ASSUME Init PROVE SubscrInv
    OBVIOUS
  <2>  USE SubscriptionAssumption
       DEF Init, Creating, Freeing, Unsubscribing, Actors
  <2>1. TypeOK
    <3>1. refCount \in Int  OBVIOUS
    <3>2. checkInt \in BOOLEAN /\ registered \in BOOLEAN /\ oci \in BOOLEAN
          /\ unsubscribed \in BOOLEAN
      OBVIOUS
    <3>3. QED  BY <3>1, <3>2 DEF TypeOK
  <2>2. Untouched /\ CreatorIsAlone /\ OwnedIsLive
    BY DEF Untouched, CreatorIsAlone, OwnedIsLive
  <2>3. MutexHolderIsAlone /\ CountIsRight
    BY DEF MutexHolderIsAlone, HoldsMutex, CountIsRight
  <2>4. RegistrationIsKnown  BY DEF RegistrationIsKnown
  <2>5. QED  BY <2>1, <2>2, <2>3, <2>4 DEF SubscrInv
<1>2. SubscrInv /\ [Next]_vars => SubscrInv'
  BY TypeStep, UntouchedStep, CreatorStep, OwnedStep, MutexStep,
     RegistrationStep, CountStep DEF SubscrInv
<1>3. QED  BY <1>1, <1>2, PTL DEF Spec

(***************************************************************************)
(* The references of the program and of calls in progress are counted, and *)
(* what the program has a reference to is there (dpiGen.c, dpiSubscr.c).   *)
(***************************************************************************)
THEOREM ReferencesAreCounted == Spec => []CountsReferences
<1>1. SubscrInv => CountsReferences
  <2>  SUFFICES ASSUME SubscrInv PROVE CountsReferences
    OBVIOUS
  <2>1. (\E a \in Actors : refs[a] = 1) => memory = "live" /\ checkInt
    BY DEF SubscrInv, OwnedIsLive
  <2>2. memory = "live" /\ checkInt =>
           \/ \E a \in Actors : pc[a] \in {"free", "freeRest"}
           \/ refCount = Cardinality(Owners) + Cardinality(Calls)
    BY DEF SubscrInv, CountIsRight, Freeing
  <2>3. QED  BY <2>1, <2>2 DEF CountsReferences, Owners
<1>2. QED  BY <1>1, InvariantHolds, PTL

(***************************************************************************)
(* If unregistering never fails, the Oracle client knows nothing of a      *)
(* subscription that is freed (dpiSubscr__free).  It ignores a failure,    *)
(* after which the client does know of it.                                 *)
(***************************************************************************)
FreedIsForgotten == "unregister" \notin Failures => FreedIsUnregistered

LEMMA FreedStep ==
    SubscrInv /\ FreedIsForgotten /\ [Next]_vars => FreedIsForgotten'
<1>  SUFFICES ASSUME SubscrInv, FreedIsForgotten, [Next]_vars,
                     "unregister" \notin Failures, memory' = "freed"
              PROVE  ~oci'
  BY DEF FreedIsForgotten, FreedIsUnregistered
<1>  USE SubscriptionAssumption
     DEF SubscrInv, FreedIsForgotten, FreedIsUnregistered, GoTo, subscrVars
<1>1. CASE memory = "freed"
  <2>1. \A a \in Actors : pc[a] # "register"
    BY <1>1 DEF CreatorIsAlone, Creating
  <2>2. QED
    BY <1>1, <2>1
       DEF Next, Begin, Continue, Subscribe, Notify, Release, Unsubscribe,
           AddRefFor, Register, MarkRegistered, GetRegId, FreeLock, FreeRest,
           Unregister, UnsubscribeUnref, UnsubscribeReturn, CallbackCheck,
           CallbackLock, CallbackAddRef, CallbackUnlock, CallbackUnref, Lost, vars
<1>2. CASE memory # "freed"
  <2>1. PICK a \in Actors : FreeRest(a)
    BY <1>2
       DEF Next, Begin, Continue, Subscribe, Notify, Release, Unsubscribe,
           AddRefFor, Register, MarkRegistered, GetRegId, FreeLock,
           Unregister, UnsubscribeUnref, UnsubscribeReturn, CallbackCheck,
           CallbackLock, CallbackAddRef, CallbackUnlock, CallbackUnref, Lost, vars
  <2>2. oci => registered
    BY <2>1 DEF FreeRest, RegistrationIsKnown, CreatorIsAlone, Creating,
       Freeing
  <2>3. QED  BY <2>1, <2>2 DEF FreeRest
<1>3. QED  BY <1>1, <1>2

(* No freed subscription is one that the Oracle client still notifies, if  *)
(* the call of dpiSubscr__free that unregisters it succeeds.               *)
THEOREM FreedSubscriptionsAreUnregistered ==
    ASSUME "unregister" \notin Failures
    PROVE  Spec => []FreedIsUnregistered
<1>1. Init => FreedIsForgotten
  BY DEF Init, FreedIsForgotten, FreedIsUnregistered
<1>2. FreedIsForgotten => FreedIsUnregistered
  BY DEF FreedIsForgotten
<1>3. QED  BY <1>1, <1>2, FreedStep, InvariantHolds, PTL DEF Spec

(***************************************************************************)
(* dpiConn.c:2763: no callback begins after dpiConn_unsubscribe has        *)
(* succeeded, for notifications that do not themselves end the             *)
(* registration and callbacks that do not unsubscribe (README, section 6). *)
(***************************************************************************)
THEOREM NoCallbackAfterUnsubscribe ==
    ASSUME ~Deregisters, "unsubscribe" \notin InCallback
    PROVE  Spec => NotNotifiedAfter
<1>1. ASSUME SubscrInv, [Next]_vars, NEW n \in Notifiers,
             pc[n] # "inCallback", pc'[n] = "inCallback"
      PROVE  ~unsubscribed
  <2>1. pc[n] = "addRef" \/ pc[n] \in Unsubscribing
    BY <1>1, SubscriptionAssumption
       DEF Next, Begin, Continue, Subscribe, Notify, Release, Unsubscribe,
           AddRefFor, Register, MarkRegistered, GetRegId, FreeLock, FreeRest,
           Unregister, UnsubscribeUnref, UnsubscribeReturn, CallbackCheck,
           CallbackLock, CallbackAddRef, CallbackUnlock, CallbackUnref, Lost,
           vars, subscrVars, GoTo, Unref, InProgram, Program, Unsubscribing,
           SubscrInv, TypeOK, Actors
  <2>2. pc[n] = "addRef"
    BY <1>1, <2>1 DEF SubscrInv, TypeOK
  <2>3. QED  BY <1>1, <2>2 DEF SubscrInv, RegistrationIsKnown
<1>2. SubscrInv /\ [Next]_vars =>
         [\A n \in Notifiers :
             pc[n] # "inCallback" /\ pc'[n] = "inCallback" => ~unsubscribed]_vars
  BY <1>1
<1>3. QED  BY <1>2, InvariantHolds, PTL DEF Spec, NotNotifiedAfter
=============================================================================
