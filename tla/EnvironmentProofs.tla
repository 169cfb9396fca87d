------------------------- MODULE EnvironmentProofs -------------------------
(***************************************************************************)
(* Proofs about environments and the pool of OCI error handles that each   *)
(* of them has.                                                            *)
(*                                                                         *)
(* Environment, for any number of threads and connections: the             *)
(* double-checked initialisation makes one environment and whoever finds   *)
(* it done can use it; an error handle always has a pool to go back to.    *)
(*                                                                         *)
(* HandlePool, for every number of callers and handles and every initial   *)
(* size and growth of the ring: an error handle is used by one call at a   *)
(* time, the ring has room for all of them, and it is a queue.             *)
(***************************************************************************)
EXTENDS Environment, HandlePool, FiniteSetTheorems, SequenceTheorems, TLAPS

-----------------------------------------------------------------------------
(* ENVIRONMENTS *)

(* The mutex keeps initialisers apart, and the global environment is open  *)
(* without ODPI-C being initialised only while one of them makes it.       *)
GlobalInv ==
    /\ \A t \in Threads :
          /\ pc[t] \in Initializing \cup {"recheck", "unlock"} => mutex = t
          /\ pc[t] \in Initializing => ~initialized
          /\ pc[t] \in Initializing \ {"load"} => library
          /\ pc[t] \in {"errorAlloc", "keyInit"} => globalEnv = "open"
          /\ pc[t] \in {"keyGet", "keySet"} \cup Calls \cup DateSteps => initialized
          /\ pc[t] \in Calls => t \in buffers
    /\ initialized => library /\ threadKey /\ globalEnv = "open"
    /\ globalEnv = "open" /\ ~initialized =>
          mutex \in Threads /\ pc[mutex] \in {"errorAlloc", "keyInit"}
    /\ openEnvs = IF globalEnv = "open" THEN 1 ELSE 0
    /\ exited => globalEnv = "none" /\ \A t \in Threads : pc[t] = "idle"

(* Who initialises or frees an environment is alone on its connection; a   *)
(* call that has an error handle has it from the pool of its connection.   *)
ConnInv ==
    /\ \A c \in Conns : env[c].pool = env[c].handle
    /\ \A t \in Threads :
          /\ pc[t] = "idle" => call[t] = NoCall
          /\ pc[t] \in Calls => pc[t] = call[t].do
          /\ pc[t] # "idle" => call[t].do \in Calls
          /\ pc[t] \in DateSteps => call[t].do = "baseDate"
          /\ call[t].do \in {"connect", "baseDate", "release"} => call[t].conn \in Conns
          /\ call[t].do = "baseDate" => env[call[t].conn].pool
          /\ call[t].do = "release" /\ pc[t] # "end" => env[call[t].conn].pool
          /\ pc[t] \in DateSteps => error[t].env = call[t].conn
          /\ error[t].handle => /\ call[t].do = "baseDate"
                                /\ error[t].env = call[t].conn
    /\ \A t, u \in Threads :
          t # u /\ call[t].do \in {"connect", "release"} => call[u].conn # call[t].conn

-----------------------------------------------------------------------------
(* An environment whose initialisation got as far as a given step, and      *)
(* all the way.                                                            *)
LEMMA InitUpToTypes ==
    ASSUME NEW n \in 1..Len(InitSteps), NEW threaded \in BOOLEAN
    PROVE  /\ InitUpTo(n, threaded) \in Envs
           /\ InitSteps[n] = "done" =>
                 InitUpTo(n, threaded).pool = InitUpTo(n, threaded).handle
<1>1. n \in 1..8  BY DEF InitSteps
<1>2. (n > 2) \in BOOLEAN /\ (n > 3) \in BOOLEAN /\ (threaded /\ n > 5) \in BOOLEAN
  OBVIOUS
<1>3. InitUpTo(n, threaded) \in Envs  BY <1>2 DEF InitUpTo, Envs
<1>4. InitSteps[n] = "done" => n = 8
  BY <1>1 DEF InitSteps
<1>5. n = 8 => (n > 3) = (n > 2)  OBVIOUS
<1>6. QED  BY <1>3, <1>4, <1>5 DEF InitUpTo

(* Taking an error handle keeps the type of error.                         *)
LEMMA HandleTaken ==
    ASSUME error \in [Threads -> Errors], NEW t \in Threads, NeedsHandle(t)
    PROVE  error' \in [Threads -> Errors]
<1>1. error[t] \in Errors  OBVIOUS
<1>2. [error[t] EXCEPT !.handle = TRUE] \in Errors  BY <1>1 DEF Errors
<1>3. QED  BY <1>2 DEF NeedsHandle

(* What making a connection leaves: an environment with its pool or with   *)
(* nothing, and no error handle.                                           *)
LEMMA ConnectEffect ==
    ASSUME TypeOK, NEW t \in Threads, Connect(t)
    PROVE  /\ \E e \in Envs : /\ env' = [env EXCEPT ![call[t].conn] = e]
                              /\ e.pool = e.handle
           /\ \E c \in Conns \cup {NULL} :
                 error' = [error EXCEPT ![t] = [handle |-> FALSE, env |-> c]]
<1>1. PICK n \in 1..Len(InitSteps), threaded \in BOOLEAN :
         LET c == call[t].conn
             e == InitUpTo(n, threaded)
             err == [handle |-> n > 4, env |-> IF n > 3 THEN c ELSE NULL]
         IN  \/ /\ InitSteps[n] = "done"
                /\ env' = [env EXCEPT ![c] = e]
                /\ error' = [error EXCEPT ![t] = [handle |-> FALSE, env |-> c]]
             \/ InitSteps[n] \in Failures /\ FreeEnv(t, c, e, err)
  BY DEF Connect
<1>  DEFINE c == call[t].conn
            at == IF n > 3 THEN c ELSE NULL
            taken == n > 4
            after == [handle |-> FALSE, env |-> at]
<1>2. at \in Conns \cup {NULL}  BY DEF TypeOK
<1>3. ErrorAfterFree(InitUpTo(n, threaded), [handle |-> taken, env |-> at]) = after
  <2>1. CASE n > 3  BY <2>1 DEF ErrorAfterFree, InitUpTo
  <2>2. CASE ~(n > 3)
    <3>1. (n > 4) = FALSE  BY <2>2
    <3>2. QED  BY <2>2, <3>1 DEF ErrorAfterFree, InitUpTo
  <2>3. QED  BY <2>1, <2>2
<1>4. NoEnv \in Envs /\ NoEnv.pool = NoEnv.handle  BY DEF NoEnv, Envs
<1>5. CASE /\ InitSteps[n] = "done"
           /\ env' = [env EXCEPT ![c] = InitUpTo(n, threaded)]
           /\ error' = [error EXCEPT ![t] = [handle |-> FALSE, env |-> c]]
  BY <1>5, InitUpToTypes DEF TypeOK
<1>6. CASE FreeEnv(t, c, InitUpTo(n, threaded), [handle |-> taken, env |-> at])
  <2>1. error' = [error EXCEPT ![t] = after]  BY <1>6, <1>3 DEF FreeEnv
  <2>2. QED  BY <1>6, <2>1, <1>2, <1>4 DEF FreeEnv
<1>7. QED  BY <1>1, <1>5, <1>6

(* Storing a base date changes nothing else of an environment.             *)
LEMMA StoreKeeps ==
    ASSUME TypeOK, NEW t \in Threads, NEW date, Store(t, date), NEW c \in Conns
    PROVE  env'[c].pool = env[c].pool /\ env'[c].handle = env[c].handle
<1>1. env[c] \in Envs  BY DEF TypeOK
<1>2. env'[c] = env[c] \/ env'[c] = [env[c] EXCEPT !.date = date]
  BY DEF TypeOK, Store
<1>3. QED  BY <1>1, <1>2 DEF Envs

(* Every step keeps the types. *)
LEMMA TypeStep == TypeOK /\ ConnInv /\ [Next]_vars => TypeOK'
<1>  SUFFICES ASSUME TypeOK, ConnInv, [Next]_vars PROVE TypeOK'
  OBVIOUS
<1>  USE EnvironmentAssumption DEF TypeOK, Locations, Initializing, Calls,
         DateSteps, Envs, Errors, GoTo, globalVars, programVars
<1>1. CASE \E t \in Threads : Continue(t)
  <2>  PICK t \in Threads : Continue(t)  BY <1>1
  <2>  pc[t] # "idle" => call[t].do \in Calls  BY DEF ConnInv
  <2>1. CASE Check(t)
    BY <2>1 DEF Check, Frame
  <2>2. CASE Lock(t)
    BY <2>2 DEF Lock, Frame
  <2>3. CASE Recheck(t)
    BY <2>3 DEF Recheck, Frame
  <2>4. CASE LoadLib(t)
    <3>1. /\ library' \in BOOLEAN /\ pc' \in [Threads -> Locations]
          /\ error' \in [Threads -> Errors]
      BY <2>4 DEF LoadLib, Frame
    <3>2. QED  BY <2>4, <3>1 DEF LoadLib, Frame
  <2>5. CASE EnvCreate(t)
    BY <2>5 DEF EnvCreate, Frame
  <2>6. CASE ErrorAlloc(t)
    BY <2>6 DEF ErrorAlloc, GiveUp, Frame
  <2>7. CASE KeyInit(t)
    <3>1. initialized' \in BOOLEAN /\ threadKey' \in BOOLEAN
      BY <2>7 DEF KeyInit, MarkInitialized
    <3>2. globalEnv' \in {"none", "open", "freed"} /\ openEnvs' \in Int
      BY <2>7 DEF KeyInit, GiveUp
    <3>3. pc' \in [Threads -> Locations]
      BY <2>7 DEF KeyInit, GiveUp
    <3>4. QED  BY <2>7, <3>1, <3>2, <3>3 DEF KeyInit, Frame
  <2>8. CASE Unlock(t)
    BY <2>8 DEF Unlock, Frame
  <2>9. CASE CheckAgain(t)
    BY <2>9 DEF CheckAgain, Frame
  <2>10. CASE KeyGet(t)
    BY <2>10 DEF KeyGet, BufferFrame
  <2>11. CASE KeySet(t)
    BY <2>11 DEF KeySet, BufferFrame
  <2>12. CASE ContextCreate(t)
    BY <2>12 DEF ContextCreate
  <2>13. CASE ContextDestroy(t)
    BY <2>13 DEF ContextDestroy
  <2>14. CASE GetError(t)
    BY <2>14 DEF GetError, Frame
  <2>15. CASE Connect(t)
    <3>1. env' \in [Conns -> Envs]
      BY <2>15, ConnectEffect
    <3>2. error' \in [Threads -> Errors]
      <4>1. PICK c \in Conns \cup {NULL} :
               error' = [error EXCEPT ![t] = [handle |-> FALSE, env |-> c]]
        BY <2>15, ConnectEffect
      <4>2. [handle |-> FALSE, env |-> c] \in Errors  BY DEF Errors
      <4>3. QED  BY <4>1, <4>2
    <3>3. pc' \in [Threads -> Locations]
      BY <2>15 DEF Connect
    <3>4. QED  BY <2>15, <3>1, <3>2, <3>3 DEF Connect
  <2>16. CASE Release(t)
    BY <2>16 DEF Release, FreeEnv, ErrorAfterFree, NoEnv
  <2>17. CASE BaseDate(t)
    <3>1. env' \in [Conns -> Envs]
      BY <2>17 DEF BaseDate, Envs
    <3>2. error' \in [Threads -> Errors]
      BY <2>17 DEF BaseDate, Errors
    <3>3. pc' \in [Threads -> Locations]
      BY <2>17 DEF BaseDate
    <3>4. QED  BY <2>17, <3>1, <3>2, <3>3 DEF BaseDate, DateFrame
  <2>18. CASE DescriptorAlloc(t)
    <3>1. env' \in [Conns -> Envs]
      BY <2>18 DEF DescriptorAlloc, Store, Envs
    <3>2. error' \in [Threads -> Errors]
      BY <2>18 DEF DescriptorAlloc, Store, Errors
    <3>3. pc' \in [Threads -> Locations]
      BY <2>18 DEF DescriptorAlloc
    <3>4. QED  BY <2>18, <3>1, <3>2, <3>3 DEF DescriptorAlloc, DateFrame
  <2>19. CASE NlsCharSetConvert(t)
    <3>1. env' \in [Conns -> Envs]
      BY <2>19 DEF NlsCharSetConvert, NeedsHandle, Envs
    <3>2. error' \in [Threads -> Errors]
      BY <2>19, HandleTaken DEF NlsCharSetConvert
    <3>3. pc' \in [Threads -> Locations]
      BY <2>19 DEF NlsCharSetConvert
    <3>4. QED  BY <2>19, <3>1, <3>2, <3>3 DEF NlsCharSetConvert, DateFrame
  <2>20. CASE DateTimeConstruct(t)
    <3>1. env' \in [Conns -> Envs]
      BY <2>20 DEF DateTimeConstruct, Store, Envs
    <3>2. error' \in [Threads -> Errors]
      BY <2>20 DEF DateTimeConstruct, Store, Errors
    <3>3. pc' \in [Threads -> Locations]
      BY <2>20 DEF DateTimeConstruct
    <3>4. QED  BY <2>20, <3>1, <3>2, <3>3 DEF DateTimeConstruct, DateFrame
  <2>21. CASE UseDate(t)
    <3>1. env' \in [Conns -> Envs]
      BY <2>21 DEF UseDate, NeedsHandle, Envs
    <3>2. error' \in [Threads -> Errors]
      BY <2>21, HandleTaken DEF UseDate
    <3>3. pc' \in [Threads -> Locations]
      BY <2>21 DEF UseDate
    <3>4. QED  BY <2>21, <3>1, <3>2, <3>3 DEF UseDate, DateFrame
  <2>22. CASE End(t)
    <3>1. /\ pc' \in [Threads -> Locations]
          /\ error' \in [Threads -> Errors]
      BY <2>22 DEF End, NoError
    <3>2. call' \in [Threads -> [do : Calls \cup {"nothing"},
                                conn : Conns \cup {NULL}]]
      BY <2>22 DEF End, NoCall
    <3>3. QED  BY <2>22, <3>1, <3>2 DEF End
  <2>23. CASE LoadLibValidate(t)
    BY <2>23 DEF LoadLibValidate, Frame
  <2>24. QED
    BY <2>1, <2>2, <2>3, <2>4, <2>5, <2>6, <2>7, <2>8, <2>9, <2>10, <2>11,
       <2>12, <2>13, <2>14, <2>15, <2>16, <2>17, <2>18, <2>19, <2>20, <2>21, <2>22,
       <2>23 DEF Continue
<1>2. ASSUME NEW t \in Threads, NEW do \in Calls,
             NEW c \in Conns \cup {NULL}, Call(t, do, c)
      PROVE  TypeOK'
  BY <1>2 DEF Call, NoError
<1>3. CASE Finalize
  <2>1. initialized' \in BOOLEAN /\ library' \in BOOLEAN
    BY <1>3 DEF Finalize
  <2>2. threadKey' \in BOOLEAN /\ exited' \in BOOLEAN
    BY <1>3 DEF Finalize
  <2>3. globalEnv' \in {"none", "open", "freed"} /\ openEnvs' \in Int
    BY <1>3 DEF Finalize
  <2>4. buffers' \subseteq Threads
    BY <1>3 DEF Finalize
  <2>5. QED  BY <1>3, <2>1, <2>2, <2>3, <2>4 DEF Finalize
<1>4. CASE UNCHANGED vars
  BY <1>4 DEF vars
<1>5. QED  BY <1>1, <1>2, <1>3, <1>4 DEF Next

(* Every step keeps the global invariant. *)
LEMMA GlobalStep == TypeOK /\ ConnInv /\ GlobalInv /\ [Next]_vars => GlobalInv'
<1>  SUFFICES ASSUME TypeOK, ConnInv, GlobalInv, [Next]_vars PROVE GlobalInv'
  OBVIOUS
<1>  USE EnvironmentAssumption DEF TypeOK, Locations, Initializing, Calls,
         DateSteps, Envs, Errors, GoTo, globalVars, programVars, GlobalInv
<1>1. CASE \E t \in Threads : Continue(t)
  <2>  PICK t \in Threads : Continue(t)  BY <1>1
  <2>  pc[t] # "idle" => call[t].do \in Calls  BY DEF ConnInv
  <2>1. CASE Check(t)
    BY <2>1 DEF Check, Frame
  <2>2. CASE Lock(t)
    BY <2>2 DEF Lock, Frame
  <2>3. CASE Recheck(t)
    BY <2>3 DEF Recheck, Frame
  <2>4. CASE LoadLib(t)
    BY <2>4 DEF LoadLib, Frame
  <2>5. CASE EnvCreate(t)
    BY <2>5 DEF EnvCreate, Frame
  <2>6. CASE ErrorAlloc(t)
    BY <2>6 DEF ErrorAlloc, GiveUp, Frame
  <2>7. CASE KeyInit(t)
    BY <2>7 DEF KeyInit, GiveUp, MarkInitialized, Frame
  <2>8. CASE Unlock(t)
    BY <2>8 DEF Unlock, Frame
  <2>9. CASE CheckAgain(t)
    BY <2>9 DEF CheckAgain, Frame
  <2>10. CASE KeyGet(t)
    BY <2>10 DEF KeyGet, BufferFrame
  <2>11. CASE KeySet(t)
    BY <2>11 DEF KeySet, BufferFrame
  <2>12. CASE ContextCreate(t)
    BY <2>12 DEF ContextCreate
  <2>13. CASE ContextDestroy(t)
    BY <2>13 DEF ContextDestroy
  <2>14. CASE GetError(t)
    BY <2>14 DEF GetError, Frame
  <2>15. CASE Connect(t)
    BY <2>15 DEF Connect, FreeEnv, ErrorAfterFree, InitSteps, InitUpTo, NoEnv
  <2>16. CASE Release(t)
    BY <2>16 DEF Release, FreeEnv, ErrorAfterFree, NoEnv
  <2>17. CASE BaseDate(t)
    BY <2>17 DEF BaseDate, DateFrame
  <2>18. CASE DescriptorAlloc(t)
    BY <2>18 DEF DescriptorAlloc, Store, DateFrame
  <2>19. CASE NlsCharSetConvert(t)
    BY <2>19 DEF NlsCharSetConvert, NeedsHandle, DateFrame
  <2>20. CASE DateTimeConstruct(t)
    BY <2>20 DEF DateTimeConstruct, Store, DateFrame
  <2>21. CASE UseDate(t)
    BY <2>21 DEF UseDate, NeedsHandle, DateFrame
  <2>22. CASE End(t)
    BY <2>22 DEF End, NoError, NoCall
  <2>23. CASE LoadLibValidate(t)
    BY <2>23 DEF LoadLibValidate, Frame
  <2>24. QED
    BY <2>1, <2>2, <2>3, <2>4, <2>5, <2>6, <2>7, <2>8, <2>9, <2>10, <2>11,
       <2>12, <2>13, <2>14, <2>15, <2>16, <2>17, <2>18, <2>19, <2>20, <2>21, <2>22,
       <2>23 DEF Continue
<1>2. ASSUME NEW t \in Threads, NEW do \in Calls,
             NEW c \in Conns \cup {NULL}, Call(t, do, c)
      PROVE  GlobalInv'
  BY <1>2 DEF Call
<1>3. CASE Finalize
  BY <1>3 DEF Finalize
<1>4. CASE UNCHANGED vars
  BY <1>4 DEF vars
<1>5. QED  BY <1>1, <1>2, <1>3, <1>4 DEF Next

(* Every step keeps the connections' invariant. *)
LEMMA ConnStep == TypeOK /\ ConnInv /\ [Next]_vars => ConnInv'
<1>  SUFFICES ASSUME TypeOK, ConnInv, [Next]_vars PROVE ConnInv'
  OBVIOUS
<1>  USE EnvironmentAssumption DEF TypeOK, Locations, Initializing, Calls,
         DateSteps, Envs, Errors, GoTo, globalVars, programVars, ConnInv
<1>1. CASE \E t \in Threads : Continue(t)
  <2>  PICK t \in Threads : Continue(t)  BY <1>1
  <2>1. CASE Check(t)
    BY <2>1 DEF Check, Frame
  <2>2. CASE Lock(t)
    BY <2>2 DEF Lock, Frame
  <2>3. CASE Recheck(t)
    BY <2>3 DEF Recheck, Frame
  <2>4. CASE LoadLib(t)
    BY <2>4 DEF LoadLib, Frame
  <2>5. CASE EnvCreate(t)
    BY <2>5 DEF EnvCreate, Frame
  <2>6. CASE ErrorAlloc(t)
    BY <2>6 DEF ErrorAlloc, GiveUp, Frame
  <2>7. CASE KeyInit(t)
    BY <2>7 DEF KeyInit, GiveUp, MarkInitialized, Frame
  <2>8. CASE Unlock(t)
    BY <2>8 DEF Unlock, Frame
  <2>9. CASE CheckAgain(t)
    BY <2>9 DEF CheckAgain, Frame
  <2>10. CASE KeyGet(t)
    BY <2>10 DEF KeyGet, BufferFrame
  <2>11. CASE KeySet(t)
    BY <2>11 DEF KeySet, BufferFrame
  <2>12. CASE ContextCreate(t)
    BY <2>12 DEF ContextCreate
  <2>13. CASE ContextDestroy(t)
    BY <2>13 DEF ContextDestroy
  <2>14. CASE GetError(t)
    BY <2>14 DEF GetError, Frame
  <2>15. CASE Connect(t)
    <3>1. /\ call' = call /\ pc' = [pc EXCEPT ![t] = "end"]
          /\ call[t].do = "connect" /\ call[t].conn \in Conns
      BY <2>15 DEF Connect
    <3>2. PICK e \in Envs : env' = [env EXCEPT ![call[t].conn] = e] /\ e.pool = e.handle
      BY <2>15, ConnectEffect
    <3>3. PICK c \in Conns \cup {NULL} :
             error' = [error EXCEPT ![t] = [handle |-> FALSE, env |-> c]]
      BY <2>15, ConnectEffect
    <3>  QED  BY <3>1, <3>2, <3>3
  <2>16. CASE Release(t)
    <3>1. /\ call' = call /\ pc' = [pc EXCEPT ![t] = "end"]
          /\ call[t].do = "release" /\ call[t].conn \in Conns /\ env[call[t].conn].pool
      BY <2>16 DEF Release
    <3>2. env' = [env EXCEPT ![call[t].conn] = NoEnv]
      BY <2>16 DEF Release, FreeEnv
    <3>3. error' = [error EXCEPT ![t] = [handle |-> FALSE, env |-> call[t].conn]]
      <4>1. ErrorAfterFree(env[call[t].conn], [handle |-> TRUE, env |-> call[t].conn])
              = [handle |-> FALSE, env |-> call[t].conn]
        BY <3>1 DEF ErrorAfterFree
      <4>2. FreeEnv(t, call[t].conn, env[call[t].conn],
                    [handle |-> TRUE, env |-> call[t].conn])
        BY <2>16 DEF Release
      <4>3. QED  BY <4>1, <4>2 DEF FreeEnv
    <3>  NoEnv.pool = NoEnv.handle  BY DEF NoEnv
    <3>4. \A c \in Conns : env'[c].pool = env'[c].handle
      BY <3>2
    <3>5. \A u \in Threads \ {t} : call[u].conn # call[t].conn
      BY <3>1
    <3>6. \A c \in Conns : c # call[t].conn => env'[c] = env[c]
      BY <3>2
    <3>7. error'[t].handle = FALSE /\ \A u \in Threads \ {t} : error'[u] = error[u]
      BY <3>3
    <3>  QED  BY <3>1, <3>4, <3>5, <3>6, <3>7
  <2>17. CASE BaseDate(t)
    BY <2>17 DEF BaseDate, DateFrame
  <2>18. CASE DescriptorAlloc(t)
    <3>1. \A c \in Conns : env'[c].pool = env[c].pool /\ env'[c].handle = env[c].handle
      BY <2>18, StoreKeeps DEF DescriptorAlloc
    <3>  QED  BY <2>18, <3>1 DEF DescriptorAlloc, DateFrame
  <2>19. CASE NlsCharSetConvert(t)
    BY <2>19 DEF NlsCharSetConvert, NeedsHandle, DateFrame
  <2>20. CASE DateTimeConstruct(t)
    <3>1. \A c \in Conns : env'[c].pool = env[c].pool /\ env'[c].handle = env[c].handle
      BY <2>20, StoreKeeps DEF DateTimeConstruct
    <3>  QED  BY <2>20, <3>1 DEF DateTimeConstruct, DateFrame
  <2>21. CASE UseDate(t)
    BY <2>21 DEF UseDate, NeedsHandle, DateFrame
  <2>22. CASE End(t)
    BY <2>22 DEF End, NoError, NoCall
  <2>23. CASE LoadLibValidate(t)
    BY <2>23 DEF LoadLibValidate, Frame
  <2>24. QED
    BY <2>1, <2>2, <2>3, <2>4, <2>5, <2>6, <2>7, <2>8, <2>9, <2>10, <2>11,
       <2>12, <2>13, <2>14, <2>15, <2>16, <2>17, <2>18, <2>19, <2>20, <2>21, <2>22,
       <2>23 DEF Continue
<1>2. ASSUME NEW t \in Threads, NEW do \in Calls,
             NEW c \in Conns \cup {NULL}, Call(t, do, c)
      PROVE  ConnInv'
  <2>1. /\ call' = [call EXCEPT ![t] = [do |-> do, conn |-> c]]
        /\ error' = [error EXCEPT ![t] = [handle |-> FALSE, env |-> NULL]]
        /\ pc' = [pc EXCEPT ![t] = "check"] /\ env' = env /\ call[t] = NoCall
    BY <1>2 DEF Call, NoError
  <2>2. do \in {"connect", "release"} =>
           c \in Conns /\ (\A u \in Threads : call[u].conn # c)
    BY <1>2 DEF Call, MayCall, OnConn
  <2>3. do = "baseDate" => /\ c \in Conns /\ env[c].pool
                           /\ \A u \in Threads : call[u].conn = c => call[u].do = "baseDate"
    BY <1>2 DEF Call, MayCall, OnConn
  <2>4. do = "release" => env[c].pool
    BY <1>2, <2>2 DEF Call, MayCall
  <2>5. do \in {"create", "getError", "destroy"} => c = NULL
    BY <1>2 DEF Call, MayCall
  <2>  QED  BY <2>1, <2>2, <2>3, <2>4, <2>5 DEF NoCall
<1>3. CASE Finalize
  BY <1>3 DEF Finalize
<1>4. CASE UNCHANGED vars
  BY <1>4 DEF vars
<1>5. QED  BY <1>1, <1>2, <1>3, <1>4 DEF Next

(* The initial state has both invariants. *)
LEMMA InvInit == Init => TypeOK /\ GlobalInv /\ ConnInv
<1>  SUFFICES ASSUME Init PROVE TypeOK /\ GlobalInv /\ ConnInv
  OBVIOUS
<1>  USE EnvironmentAssumption DEF Init, NoError, NoCall, Locations,
         Initializing, Calls, DateSteps
<1>1. TypeOK
  <2>1. env \in [Conns -> Envs]  BY DEF NoEnv, Envs
  <2>2. error \in [Threads -> Errors]  BY DEF Errors
  <2>3. /\ initialized \in BOOLEAN /\ library \in BOOLEAN
        /\ threadKey \in BOOLEAN /\ exited \in BOOLEAN
    OBVIOUS
  <2>4. openEnvs \in Int
    OBVIOUS
  <2>5. QED  BY <2>1, <2>2, <2>3, <2>4 DEF TypeOK
<1>2. GlobalInv  BY DEF GlobalInv
<1>3. ConnInv  BY DEF ConnInv, NoEnv
<1>4. QED  BY <1>1, <1>2, <1>3
-----------------------------------------------------------------------------
(* The variables of dpiGlobal.c, dpiEnv.c and the calls have their types   *)
(* and keep both invariants.                                               *)
THEOREM Invariants == Spec => [](TypeOK /\ GlobalInv /\ ConnInv)
<1>1. TypeOK /\ GlobalInv /\ ConnInv /\ [Next]_vars
        => (TypeOK /\ GlobalInv /\ ConnInv)'
  BY TypeStep, GlobalStep, ConnStep
<1>2. QED  BY InvInit, <1>1, PTL DEF Spec

(* However many threads initialise ODPI-C at once and however they fail,   *)
(* OCI has at most one global environment, and none after the exit         *)
(* (dpiGlobal__ensureInitialized, dpiGlobal__extendedInitialize,           *)
(* dpiGlobal__finalize).                                                   *)
THEOREM EnvironmentOnce == Spec => []OneEnvironment
<1>1. GlobalInv => OneEnvironment  BY DEF GlobalInv, OneEnvironment
<1>2. QED  BY Invariants, <1>1, PTL

(* A call that found ODPI-C initialised without taking the mutex finds the *)
(* thread key and its environment, and goes on with a buffer of its        *)
(* thread's own (dpiGlobal__getErrorBuffer).                               *)
THEOREM InitializedIsReady == Spec => []ReadyForCalls
<1>1. GlobalInv => ReadyForCalls  BY DEF GlobalInv, ReadyForCalls
<1>2. QED  BY Invariants, <1>1, PTL

(* No call gives an error handle back to a pool that dpiEnv__free has      *)
(* ended (dpiGen__endPublicFn).                                            *)
THEOREM HandlesHaveAPool == Spec => []ReturnsToLivePool
<1>1. TypeOK /\ ConnInv => ReturnsToLivePool
  BY DEF TypeOK, ConnInv, ReturnsToLivePool
<1>2. QED  BY Invariants, <1>1, PTL

-----------------------------------------------------------------------------
(* THE POOL OF ERROR HANDLES *)

(* Every handle in use or waiting was created before: a new one is fresh.  *)
HandlesAllocated ==
    /\ \A c \in Callers : handle[c] # NIL => handle[c] \in allocated
    /\ \A i \in Window : handles[i] \in allocated

(* Exclusive use is inductive with the contents of the window.             *)
OwnershipInv ==
    /\ PoolTypes
    /\ ExclusiveHandles
    /\ WindowHoldsHandles
    /\ HandlesAllocated

-----------------------------------------------------------------------------
(* How the steps of the pool change the window.                            *)

LEMMA WindowShrinks ==
    ASSUME PoolTypes, acquirePos # releasePos,
           acquirePos' = Advance(acquirePos),
           UNCHANGED <<numSlots, releasePos>>
    PROVE  /\ acquirePos \in Window
           /\ Window' = Window \ {acquirePos}
           /\ acquirePos' \in Slots
           /\ WindowSize' = WindowSize - 1
  BY DEF PoolTypes, Advance, Window, Slots, WindowSize

LEMMA WindowGrows ==
    ASSUME PoolTypes,
           releasePos' = Advance(releasePos),
           UNCHANGED <<numSlots, acquirePos>>
    PROVE  /\ releasePos \notin Window
           /\ releasePos' \in Slots
           /\ releasePos' = acquirePos => Window' = {} /\ WindowSize' = 0
           /\ releasePos' = acquirePos => WindowSize + 1 = numSlots
           /\ releasePos' # acquirePos =>
                 Window' = Window \cup {releasePos}
           /\ releasePos' # acquirePos => WindowSize' = WindowSize + 1
  BY DEF PoolTypes, Advance, Window, Slots, WindowSize

LEMMA WindowEmpty ==
    ASSUME PoolTypes, acquirePos = releasePos
    PROVE  Window = {} /\ WindowSize = 0
  BY DEF PoolTypes, Window, Slots, WindowSize

LEMMA WindowType ==
    ASSUME PoolTypes
    PROVE  Window \subseteq Slots /\ WindowSize \in Nat
  BY DEF PoolTypes, Window, Slots, WindowSize

-----------------------------------------------------------------------------
LEMMA InitOwnership == PoolInit => OwnershipInv
  BY HandlePoolAssumption
     DEF PoolInit, OwnershipInv, PoolTypes, ExclusiveHandles, WindowHoldsHandles,
         HandlesAllocated, Window, Slots

LEMMA AcquireAvailableOwnership ==
    ASSUME OwnershipInv, NEW c \in Callers, AcquireAvailable(c)
    PROVE  OwnershipInv'
  <1> USE DEF OwnershipInv, AcquireAvailable, HasNone
  <1>1. /\ acquirePos \in Window
        /\ Window' = Window \ {acquirePos}
        /\ acquirePos' \in Slots
    BY WindowShrinks
  <1>2. Window \subseteq Slots
    BY WindowType
  <1>3. handle'[c] = handles[acquirePos] /\ handles[acquirePos] # NIL
    BY <1>1 DEF PoolTypes, WindowHoldsHandles
  <1>4. PoolTypes'
    BY <1>1, <1>3 DEF PoolTypes, Slots
  <1>5. \A i \in Window' : handles'[i] = handles[i] /\ i \in Window
    BY <1>1, <1>2 DEF PoolTypes
  <1>6. ExclusiveHandles'
    <2> SUFFICES ASSUME NEW e \in Callers, handle'[e] # NIL
                 PROVE  /\ \A d \in Callers : handle'[d] = handle'[e] => d = e
                        /\ \A i \in Window' : handles'[i] # handle'[e]
      BY DEF ExclusiveHandles
    <2>1. \A d \in Callers \ {c} : handle'[d] = handle[d]
      BY DEF PoolTypes
    <2>2. CASE e = c
      BY <1>1, <1>3, <1>5, <2>1, <2>2 DEF ExclusiveHandles, WindowHoldsHandles
    <2>3. CASE e # c
      BY <1>1, <1>3, <1>5, <2>1, <2>3 DEF ExclusiveHandles
    <2> QED BY <2>2, <2>3
  <1>7. WindowHoldsHandles'
    BY <1>5 DEF WindowHoldsHandles
  <1>8. HandlesAllocated'
    BY <1>1, <1>3, <1>5 DEF HandlesAllocated, PoolTypes
  <1> QED BY <1>4, <1>6, <1>7, <1>8

LEMMA AcquireNoneOwnership ==
    ASSUME OwnershipInv, NEW c \in Callers,
           AcquireNone(c) \/ AcquireGrowFails(c)
    PROVE  OwnershipInv'
  <1> USE DEF OwnershipInv, HasNone
  <1>1. numSlots' >= numSlots /\ numSlots' \in Nat \ {0}
    BY HandlePoolAssumption DEF AcquireNone, AcquireGrowFails, PoolTypes
  <1>2. PoolTypes'
    <2>1. numUsedSlots' \in 0 .. MaxUsedSlots
      BY HandlePoolAssumption DEF AcquireNone, AcquireGrowFails, PoolTypes
    <2>2. CASE AcquireNone(c)
      <3>1. handles' \in [Slots' -> Handles \cup {NIL}]
        BY <2>2 DEF AcquireNone, PoolTypes, Slots
      <3>2. acquirePos' \in Slots' /\ releasePos' \in Slots'
        BY <1>1, <2>2 DEF AcquireNone, PoolTypes, Slots
      <3>3. /\ fn' \in [Callers -> {"idle", "running", "allocating"}]
            /\ \A d \in Callers : fn'[d] # "running" => handle'[d] = NIL
        BY <2>2 DEF AcquireNone, PoolTypes
      <3> QED BY <1>1, <2>1, <2>2, <3>1, <3>2, <3>3 DEF AcquireNone, PoolTypes
    <2>3. CASE AcquireGrowFails(c)
      BY <2>1, <2>3 DEF AcquireGrowFails, PoolTypes, Slots
    <2> QED BY <2>2, <2>3
  <1>3. Window = {} /\ Window' = {}
    <2>1. acquirePos = releasePos /\ acquirePos' = releasePos'
      BY DEF AcquireNone, AcquireGrowFails
    <2> QED BY <1>2, <2>1 DEF PoolTypes, Window, Slots
  <1>4. UNCHANGED <<handle, allocated>>
    BY DEF AcquireNone, AcquireGrowFails
  <1> QED BY <1>2, <1>3, <1>4
          DEF ExclusiveHandles, WindowHoldsHandles, HandlesAllocated

LEMMA HandleAllocOwnership ==
    ASSUME OwnershipInv, NEW c \in Callers,
           HandleAlloc(c) \/ HandleAllocFails(c)
    PROVE  OwnershipInv'
  <1> USE DEF OwnershipInv
  <1>1. Window' = Window /\ UNCHANGED handles
    BY DEF HandleAlloc, HandleAllocFails, poolVars, Window, Slots
  <1>2. CASE HandleAllocFails(c)
    BY <1>1, <1>2
       DEF HandleAllocFails, poolVars, PoolTypes, Slots, ExclusiveHandles,
           WindowHoldsHandles, HandlesAllocated
  <1>3. CASE HandleAlloc(c)
    <2>1. PICK h \in Handles \ allocated :
                 /\ allocated' = allocated \cup {h}
                 /\ handle' = [handle EXCEPT ![c] = h]
      BY <1>3 DEF HandleAlloc
    <2>2. h # NIL
      BY HandlePoolAssumption
    <2>3. PoolTypes'
      BY <1>3, <2>1 DEF HandleAlloc, PoolTypes, poolVars, Slots
    <2>4. handle'[c] = h /\ \A d \in Callers \ {c} : handle'[d] = handle[d]
      BY <2>1 DEF PoolTypes
    <2>5. ExclusiveHandles'
      <3> SUFFICES ASSUME NEW e \in Callers, handle'[e] # NIL
                   PROVE  /\ \A d \in Callers :
                                handle'[d] = handle'[e] => d = e
                          /\ \A i \in Window' : handles'[i] # handle'[e]
        BY DEF ExclusiveHandles
      <3>1. CASE e = c
        BY <1>1, <2>2, <2>4, <3>1 DEF HandlesAllocated
      <3>2. CASE e # c
        BY <1>1, <2>2, <2>4, <3>2 DEF HandlesAllocated, ExclusiveHandles
      <3> QED BY <3>1, <3>2
    <2>6. WindowHoldsHandles'
      BY <1>1 DEF WindowHoldsHandles
    <2>7. HandlesAllocated'
      BY <1>1, <2>1, <2>4 DEF HandlesAllocated
    <2> QED BY <2>3, <2>5, <2>6, <2>7
  <1> QED BY <1>2, <1>3

LEMMA ReleaseOwnership ==
    ASSUME OwnershipInv, NEW c \in Callers, handle[c] # NIL, PoolRelease(c),
           UNCHANGED allocated, fn' = fn \/ fn' = [fn EXCEPT ![c] = "idle"]
    PROVE  OwnershipInv'
  <1> USE DEF OwnershipInv, PoolRelease
  <1>1. /\ releasePos \notin Window
        /\ releasePos' \in Slots
        /\ Window' \subseteq Window \cup {releasePos}
    BY WindowGrows
  <1>2. Window \subseteq Slots
    BY WindowType
  <1>3. PoolTypes'
    BY <1>1 DEF PoolTypes, Slots
  <1>4. /\ handles'[releasePos] = handle[c]
        /\ \A i \in Window : handles'[i] = handles[i]
    BY <1>1, <1>2 DEF PoolTypes
  <1>5. handle'[c] = NIL /\ \A d \in Callers \ {c} : handle'[d] = handle[d]
    BY DEF PoolTypes
  <1>6. ExclusiveHandles'
    BY <1>1, <1>4, <1>5 DEF ExclusiveHandles
  <1>7. WindowHoldsHandles'
    BY <1>1, <1>4 DEF WindowHoldsHandles, ExclusiveHandles
  <1>8. HandlesAllocated'
    BY <1>1, <1>4, <1>5 DEF HandlesAllocated
  <1> QED BY <1>3, <1>6, <1>7, <1>8

LEMMA NextOwnership == OwnershipInv /\ [PoolNext]_allVars => OwnershipInv'
  <1> SUFFICES ASSUME OwnershipInv, [PoolNext]_allVars PROVE OwnershipInv'
    OBVIOUS
  <1> USE DEF OwnershipInv
  <1>1. CASE UNCHANGED allVars
    BY <1>1 DEF allVars, poolVars, PoolTypes, ExclusiveHandles, WindowHoldsHandles,
                HandlesAllocated, Window, Slots
  <1>2. ASSUME NEW c \in Callers, StartPublicFn(c)
        PROVE  OwnershipInv'
    BY <1>2 DEF StartPublicFn, poolVars, PoolTypes, ExclusiveHandles,
                WindowHoldsHandles, HandlesAllocated, Window, Slots
  <1>3. ASSUME NEW c \in Callers, ReturnWithoutEnd(c)
        PROVE  OwnershipInv'
    BY <1>3 DEF ReturnWithoutEnd, poolVars, PoolTypes, ExclusiveHandles,
                WindowHoldsHandles, HandlesAllocated, Window, Slots
  <1>4. ASSUME NEW c \in Callers, ReleaseBeforeEnd(c)
        PROVE  OwnershipInv'
    BY <1>4, ReleaseOwnership DEF ReleaseBeforeEnd
  <1>5. ASSUME NEW c \in Callers, EndPublicFn(c)
        PROVE  OwnershipInv'
    <2>1. CASE handle[c] # NIL
      BY <1>5, <2>1, ReleaseOwnership DEF EndPublicFn
    <2>2. CASE handle[c] = NIL
      BY <1>5, <2>2
         DEF EndPublicFn, poolVars, PoolTypes, ExclusiveHandles,
             WindowHoldsHandles, HandlesAllocated, Window, Slots
    <2> QED BY <2>1, <2>2
  <1> QED
    BY <1>1, <1>2, <1>3, <1>4, <1>5, AcquireAvailableOwnership,
       AcquireNoneOwnership, HandleAllocOwnership DEF PoolNext

(***************************************************************************)
(* The pool's positions stay inside its ring, whatever the callers do.     *)
(***************************************************************************)
THEOREM TypeCorrect == PoolSpec => []PoolTypes
  BY InitOwnership, NextOwnership, PTL DEF PoolSpec, OwnershipInv

(***************************************************************************)
(* An error handle is never used by two calls at once, nor handed out by   *)
(* the pool while a call holds it.                                         *)
(***************************************************************************)
THEOREM HandlesAreExclusive == PoolSpec => []ExclusiveHandles
  BY InitOwnership, NextOwnership, PTL DEF PoolSpec, OwnershipInv

(***************************************************************************)
(* The part of the ring that acquire reads from holds distinct handles.    *)
(***************************************************************************)
THEOREM WindowIsFull == PoolSpec => []WindowHoldsHandles
  BY InitOwnership, NextOwnership, PTL DEF PoolSpec, OwnershipInv
-----------------------------------------------------------------------------
(***************************************************************************)
(* The capacity argument.  A caller that finds the ring empty adds one     *)
(* handle to those in existence, and the ring has grown by then if that    *)
(* handle has no slot; every other step only moves handles around.         *)
(***************************************************************************)
CapacityInv == OwnershipInv /\ HandlesFit

LEMMA BusyFinite == IsFiniteSet(Busy) /\ Cardinality(Busy) \in Nat
  <1>1. Busy \subseteq Callers
    BY DEF Busy
  <1> QED BY <1>1, HandlePoolAssumption, FS_Subset, FS_CardinalityType

LEMMA BusyFinitePrimed == IsFiniteSet(Busy') /\ Cardinality(Busy') \in Nat
  <1>1. Busy' \subseteq Callers
    BY DEF Busy
  <1> QED BY <1>1, HandlePoolAssumption, FS_Subset, FS_CardinalityType

LEMMA BusyShrinks ==
    ASSUME NEW c \in Callers, Busy' = Busy \ {c}
    PROVE  /\ Cardinality(Busy') <= Cardinality(Busy)
           /\ c \in Busy => Cardinality(Busy') = Cardinality(Busy) - 1
  <1>1. /\ Cardinality(Busy \ {c}) =
              IF c \in Busy THEN Cardinality(Busy) - 1 ELSE Cardinality(Busy)
    BY BusyFinite, FS_RemoveElement
  <1> HIDE DEF Busy
  <1>2. Cardinality(Busy') = Cardinality(Busy \ {c})
    OBVIOUS
  <1> QED BY <1>1, <1>2, BusyFinite

LEMMA BusyGrows ==
    ASSUME NEW c \in Callers, Busy' = Busy \cup {c}
    PROVE  Cardinality(Busy') <= Cardinality(Busy) + 1
  BY BusyFinite, FS_AddElement

LEMMA InitCapacity == PoolInit => CapacityInv
  <1> SUFFICES ASSUME PoolInit PROVE HandlesFit
    BY InitOwnership DEF CapacityInv
  <1>1. Busy = {}
    BY DEF PoolInit, Busy
  <1>2. Cardinality(Busy) = 0
    BY <1>1, FS_EmptySet
  <1> QED BY <1>2, HandlePoolAssumption DEF PoolInit, HandlesFit, WindowSize

LEMMA ReleaseCapacity ==
    ASSUME CapacityInv, NEW c \in Callers, handle[c] # NIL, PoolRelease(c),
           fn' = fn \/ fn' = [fn EXCEPT ![c] = "idle"]
    PROVE  HandlesFit' /\ Busy' = Busy \ {c}
  <1> USE DEF CapacityInv, OwnershipInv, PoolRelease
  <1>1. Busy' = Busy \ {c} /\ c \in Busy
    BY DEF Busy, PoolTypes
  <1>2. Cardinality(Busy') = Cardinality(Busy) - 1
    BY <1>1, BusyShrinks
  <1>3. WindowSize' = 0 \/ WindowSize' = WindowSize + 1
    BY WindowGrows
  <1>4. WindowSize' + Cardinality(Busy') <= WindowSize + Cardinality(Busy)
    BY <1>2, <1>3, BusyFinite, WindowType
  <1>5. /\ UNCHANGED <<numSlots, numUsedSlots>>
        /\ numSlots \in Nat /\ numUsedSlots \in Nat
        /\ WindowSize \in Nat /\ WindowSize' \in Nat
    BY <1>3, WindowType DEF PoolTypes
  <1>6. HandlesFit'
    BY <1>4, <1>5, BusyFinite, BusyFinitePrimed DEF HandlesFit
  <1> QED BY <1>1, <1>6

LEMMA NextCapacity == CapacityInv /\ [PoolNext]_allVars => CapacityInv'
  <1> SUFFICES ASSUME CapacityInv, [PoolNext]_allVars PROVE HandlesFit'
    BY NextOwnership DEF CapacityInv
  <1> USE DEF CapacityInv, OwnershipInv
  <1>0. /\ Cardinality(Busy) \in Nat /\ Cardinality(Busy') \in Nat
        /\ WindowSize \in Nat
        /\ numSlots \in Nat /\ numUsedSlots \in Nat
    BY BusyFinite, BusyFinitePrimed, WindowType DEF PoolTypes
  <1>1. CASE UNCHANGED allVars
    BY <1>1 DEF allVars, poolVars, HandlesFit, WindowSize, Busy
  <1>2. ASSUME NEW c \in Callers, StartPublicFn(c)
        PROVE  HandlesFit'
    <2>1. Busy' = Busy
      BY <1>2 DEF StartPublicFn, Busy, PoolTypes
    <2> QED BY <1>2, <2>1 DEF StartPublicFn, poolVars, HandlesFit, WindowSize
  <1>3. ASSUME NEW c \in Callers, AcquireAvailable(c)
        PROVE  HandlesFit'
    <2>1. Busy' = Busy \cup {c}
      BY <1>3, WindowShrinks
         DEF AcquireAvailable, HasNone, Busy, PoolTypes, WindowHoldsHandles
    <2>2. WindowSize' = WindowSize - 1
      BY <1>3, WindowShrinks DEF AcquireAvailable
    <2> QED BY <1>0, <1>3, <2>1, <2>2, BusyGrows
            DEF AcquireAvailable, HandlesFit
  <1>4. ASSUME NEW c \in Callers, AcquireNone(c)
        PROVE  HandlesFit'
    <2>1. Busy' = Busy \cup {c}
      BY <1>4 DEF AcquireNone, Busy, PoolTypes
    <2>2. WindowSize = 0 /\ WindowSize' = 0
      BY <1>4 DEF AcquireNone, WindowSize, PoolTypes, Slots
    <2>3. /\ numUsedSlots' = numUsedSlots + 1
          /\ \/ numUsedSlots' <= numSlots /\ numSlots' = numSlots
             \/ numSlots' >= numSlots + 1 /\ numSlots' \in Nat
      BY <1>0, <1>4, HandlePoolAssumption DEF AcquireNone
    <2>4. Cardinality(Busy') <= Cardinality(Busy) + 1
      BY <2>1, BusyGrows
    <2> QED BY <1>0, <2>2, <2>3, <2>4 DEF HandlesFit
  <1>5. ASSUME NEW c \in Callers, AcquireGrowFails(c)
        PROVE  HandlesFit'
    <2>1. Busy' = Busy /\ WindowSize' = WindowSize
      BY <1>5 DEF AcquireGrowFails, Busy, WindowSize
    <2> QED BY <1>0, <1>5, <2>1 DEF AcquireGrowFails, HandlesFit
  <1>6. ASSUME NEW c \in Callers, HandleAlloc(c) \/ HandleAllocFails(c)
        PROVE  HandlesFit'
    <2>1. Busy' = Busy \/ Busy' = Busy \ {c}
      BY <1>6, HandlePoolAssumption
         DEF HandleAlloc, HandleAllocFails, Busy, PoolTypes
    <2>2. Cardinality(Busy') <= Cardinality(Busy)
      BY <1>0, <2>1, BusyShrinks
    <2>3. UNCHANGED <<numSlots, numUsedSlots>> /\ WindowSize' = WindowSize
      BY <1>6 DEF HandleAlloc, HandleAllocFails, poolVars, WindowSize
    <2> QED BY <1>0, <2>2, <2>3 DEF HandlesFit
  <1>7. ASSUME NEW c \in Callers, ReleaseBeforeEnd(c)
        PROVE  HandlesFit'
    BY <1>7, ReleaseCapacity DEF ReleaseBeforeEnd
  <1>8. ASSUME NEW c \in Callers, EndPublicFn(c)
        PROVE  HandlesFit'
    <2>1. CASE handle[c] # NIL
      BY <1>8, <2>1, ReleaseCapacity DEF EndPublicFn
    <2>2. CASE handle[c] = NIL
      <3>1. Busy' = Busy
        BY <1>8, <2>2 DEF EndPublicFn, Busy, PoolTypes
      <3> QED BY <1>8, <2>2, <3>1
              DEF EndPublicFn, poolVars, HandlesFit, WindowSize
    <2> QED BY <2>1, <2>2
  <1>9. ASSUME NEW c \in Callers, ReturnWithoutEnd(c)
        PROVE  HandlesFit'
    <2>1. Busy' = Busy \ {c}
      BY <1>9 DEF ReturnWithoutEnd, Busy, PoolTypes
    <2>2. Cardinality(Busy') <= Cardinality(Busy)
      BY <2>1, BusyShrinks
    <2>3. UNCHANGED <<numSlots, numUsedSlots>> /\ WindowSize' = WindowSize
      BY <1>9 DEF ReturnWithoutEnd, poolVars, WindowSize
    <2> QED BY <1>0, <2>2, <2>3 DEF HandlesFit
  <1> QED
    BY <1>1, <1>2, <1>3, <1>4, <1>5, <1>6, <1>7, <1>8, <1>9 DEF PoolNext

(***************************************************************************)
(* The ring always has room for every handle that exists and every handle  *)
(* that is being created: growing it by a constant amount is enough.       *)
(***************************************************************************)
THEOREM RingHasRoom == PoolSpec => []HandlesFit
  BY InitCapacity, NextCapacity, PTL DEF PoolSpec, CapacityInv

(* The positions meet only when all but one of the slots were taken, and   *)
(* then the handle that comes back is the only one in use.                 *)
LEMMA ReleaseLosesOnlyWhenIdle ==
    ASSUME CapacityInv, NEW c \in Callers, handle[c] # NIL, PoolRelease(c),
           releasePos' = acquirePos'
    PROVE  Busy \subseteq {c}
  <1> USE DEF CapacityInv, OwnershipInv
  <1>1. WindowSize + 1 = numSlots
    BY WindowGrows DEF PoolRelease
  <1>2. Cardinality(Busy) <= 1
    BY <1>1, BusyFinite, WindowType DEF HandlesFit, PoolTypes
  <1>3. c \in Busy
    BY DEF Busy
  <1>4. Cardinality(Busy \ {c}) = 0
    BY <1>2, <1>3, BusyFinite, FS_RemoveElement, FS_CardinalityType,
       FS_Subset
  <1>5. Busy \ {c} = {}
    BY <1>4, BusyFinite, FS_RemoveElement, FS_EmptySet
  <1> QED BY <1>5

LEMMA StepLosesOnlyWhenIdle ==
    ASSUME CapacityInv, [PoolNext]_allVars, NEW c \in Callers,
           handle[c] # NIL, handle'[c] = NIL,
           handles' # handles, releasePos' = acquirePos'
    PROVE  Busy \subseteq {c}
  <1> USE DEF CapacityInv, OwnershipInv
  <1>1. PoolRelease(c)
    <2>1. handle' # handle
      OBVIOUS
    <2>2. PICK d \in Callers :
             \/ AcquireAvailable(d) \/ HandleAlloc(d)
             \/ PoolRelease(d) \/ ReturnWithoutEnd(d)
      BY <2>1 DEF PoolNext, allVars, StartPublicFn, AcquireNone, AcquireGrowFails,
                  HandleAllocFails, ReleaseBeforeEnd, EndPublicFn
    <2>3. ~ ReturnWithoutEnd(d)
      BY DEF ReturnWithoutEnd, poolVars
    <2>4. ~ AcquireAvailable(d)
      <3>1. SUFFICES ASSUME AcquireAvailable(d) PROVE FALSE
        OBVIOUS
      <3>2. d # c /\ handle'[c] = handle[c]
        BY <3>1 DEF AcquireAvailable, HasNone, PoolTypes
      <3> QED BY <3>2
    <2>5. ~ HandleAlloc(d)
      BY DEF HandleAlloc, poolVars
    <2>6. d = c
      BY <2>2, <2>3, <2>4, <2>5 DEF PoolRelease, PoolTypes
    <2> QED BY <2>2, <2>3, <2>4, <2>5, <2>6
  <1> QED BY <1>1, ReleaseLosesOnlyWhenIdle

(***************************************************************************)
(* The pool forgets waiting handles only at a moment when nobody else uses *)
(* one: the loss can never hit a handle of a call in progress.             *)
(***************************************************************************)
THEOREM LossesAreHarmless == PoolSpec => LosesOnlyWhenIdle
  <1>1. CapacityInv /\ [PoolNext]_allVars =>
          [\A c \in Callers :
              (/\ handle[c] # NIL /\ handle'[c] = NIL
               /\ handles' # handles /\ releasePos' = acquirePos')
                 => Busy \subseteq {c}]_allVars
    BY StepLosesOnlyWhenIdle
  <1> QED
    BY <1>1, InitCapacity, NextCapacity, PTL DEF PoolSpec, LosesOnlyWhenIdle

-----------------------------------------------------------------------------
(***************************************************************************)
(* The ring is a queue.  Its k-th waiting handle is in the slot that is    *)
(* k - 1 places after acquirePos, which the code reaches by advancing.     *)
(***************************************************************************)
Ring(k) == (acquirePos + k - 1) % numSlots
Waiting == [k \in 1 .. WindowSize |-> handles[Ring(k)]]

LEMMA Round ==
    ASSUME NEW n \in Nat \ {0}, NEW i \in 0 .. n - 1, NEW j \in 0 .. n
    PROVE  (i + j) % n = IF i + j < n THEN i + j ELSE i + j - n
  OBVIOUS

LEMMA RingSlots ==
    ASSUME PoolTypes, NEW k \in 1 .. WindowSize + 1
    PROVE  /\ Ring(k) = IF acquirePos + k - 1 < numSlots THEN acquirePos + k - 1
                        ELSE acquirePos + k - 1 - numSlots
           /\ k <= WindowSize => Ring(k) \in Window
           /\ k = WindowSize + 1 => Ring(k) = releasePos
           /\ k > 1 => Ring(k) # acquirePos
  <1>1. /\ numSlots \in Nat \ {0} /\ acquirePos \in 0 .. numSlots - 1
        /\ releasePos \in 0 .. numSlots - 1
        /\ WindowSize \in 0 .. numSlots - 1
    BY DEF PoolTypes, Slots, WindowSize
  <1>2. k - 1 \in 0 .. numSlots /\ acquirePos + (k - 1) = acquirePos + k - 1
    BY <1>1
  <1>3. Ring(k) = IF acquirePos + k - 1 < numSlots THEN acquirePos + k - 1
                  ELSE acquirePos + k - 1 - numSlots
    BY <1>1, <1>2, Round DEF Ring
  <1>4. k <= WindowSize => Ring(k) \in Window
    BY <1>1, <1>3 DEF WindowSize, Window, Slots
  <1>5. k = WindowSize + 1 => Ring(k) = releasePos
    BY <1>1, <1>3 DEF WindowSize
  <1>6. k > 1 => Ring(k) # acquirePos
    BY <1>1, <1>3
  <1> QED BY <1>3, <1>4, <1>5, <1>6

WaitingIsQueue ==
    /\ WindowSize \in Nat
    /\ Waiting \in Seq(Handles) /\ Len(Waiting) = WindowSize
    /\ \A k \in 1 .. WindowSize : Waiting[k] = handles[Ring(k)]

LEMMA WaitingHandles == OwnershipInv => WaitingIsQueue
  <1> SUFFICES ASSUME OwnershipInv PROVE WaitingIsQueue
    OBVIOUS
  <1>1. WindowSize \in Nat
    BY WindowType DEF OwnershipInv
  <1>2. \A k \in 1 .. WindowSize : Ring(k) \in Window
    <2> SUFFICES ASSUME NEW k \in 1 .. WindowSize PROVE Ring(k) \in Window
      OBVIOUS
    <2>1. k \in 1 .. WindowSize + 1 /\ k <= WindowSize
      BY <1>1
    <2> QED BY <2>1, RingSlots DEF OwnershipInv
  <1>3. \A k \in 1 .. WindowSize : handles[Ring(k)] \in Handles
    BY <1>2, WindowType DEF OwnershipInv, PoolTypes, WindowHoldsHandles
  <1>4. Waiting \in [1 .. WindowSize -> Handles]
    BY <1>3 DEF Waiting
  <1>5. Waiting \in Seq(Handles)
    BY <1>1, <1>4, SeqDef
  <1>6. DOMAIN Waiting = 1 .. WindowSize
    BY DEF Waiting
  <1>7. Len(Waiting) = WindowSize
    BY <1>1, <1>5, <1>6, LenProperties
  <1> QED BY <1>1, <1>5, <1>7 DEF Waiting, WaitingIsQueue

LEMMA WaitingHandlesNext == OwnershipInv' => WaitingIsQueue'
  BY WaitingHandles, PTL

(* The handle at acquirePos has waited longest.                             *)
LEMMA TakesHead ==
    ASSUME OwnershipInv, OwnershipInv', NEW c \in Callers, AcquireAvailable(c)
    PROVE  Queue!Take(c)
  <1> USE DEF AcquireAvailable, HasNone
  <1>1. /\ PoolTypes /\ acquirePos \in Window /\ acquirePos' = Advance(acquirePos)
        /\ WindowSize' = WindowSize - 1 /\ numSlots' = numSlots
    BY WindowShrinks DEF OwnershipInv
  <1>2. WaitingIsQueue /\ WaitingIsQueue'
    BY WaitingHandles, WaitingHandlesNext
  <1>3. WindowSize \in Nat \ {0} /\ WindowSize' \in Nat
    BY <1>1, <1>2 DEF WaitingIsQueue
  <1>4. /\ numSlots \in Nat \ {0} /\ acquirePos \in 0 .. numSlots - 1
        /\ WindowSize \in 0 .. numSlots - 1
    BY DEF OwnershipInv, PoolTypes, Slots, WindowSize
  <1>5. Waiting # <<>> /\ Head(Waiting) = handles[acquirePos]
    <2>1. 1 \in 1 .. WindowSize /\ 1 \in 1 .. WindowSize + 1
      BY <1>3
    <2>2. Ring(1) = acquirePos
      BY <1>1, <1>4, <2>1, RingSlots
    <2>3. Waiting # <<>>
      BY <1>2, <1>3, EmptySeq DEF WaitingIsQueue
    <2>4. Waiting[1] = handles[acquirePos]
      BY <1>2, <2>1, <2>2 DEF WaitingIsQueue
    <2> QED BY <2>3, <2>4
  <1>6. Tail(Waiting) = Waiting'
    <2>1. /\ Tail(Waiting) \in Seq(Handles) /\ Len(Tail(Waiting)) = WindowSize - 1
          /\ \A k \in 1 .. WindowSize - 1 : Tail(Waiting)[k] = Waiting[k + 1]
      BY <1>2, <1>5, HeadTailProperties DEF WaitingIsQueue
    <2>2. ASSUME NEW k \in 1 .. WindowSize - 1
          PROVE  Tail(Waiting)[k] = Waiting'[k]
      <3>1. /\ k + 1 \in 1 .. WindowSize /\ k + 1 \in 1 .. WindowSize + 1
            /\ k \in 1 .. WindowSize' /\ k + 1 > 1
        BY <1>1, <1>3
      <3>2. Ring(k + 1) # acquirePos
        BY <1>1, <3>1, RingSlots
      <3>3. Ring(k + 1) = IF acquirePos + k < numSlots THEN acquirePos + k
                          ELSE acquirePos + k - numSlots
        BY <1>1, <1>4, <3>1, RingSlots
      <3>4. Ring(k)' = Ring(k + 1)
        <4>1. /\ acquirePos' \in 0 .. numSlots - 1 /\ k - 1 \in 0 .. numSlots
              /\ acquirePos' = IF acquirePos + 1 = numSlots THEN 0
                               ELSE acquirePos + 1
          BY <1>1, <1>3, <1>4 DEF Advance
        <4>2. (acquirePos' + (k - 1)) % numSlots =
                 IF acquirePos' + (k - 1) < numSlots THEN acquirePos' + (k - 1)
                 ELSE acquirePos' + (k - 1) - numSlots
          BY <1>4, <4>1, Round
        <4>3. Ring(k)' = (acquirePos' + (k - 1)) % numSlots
          BY <1>1, <1>4, <4>1 DEF Ring
        <4> QED BY <1>3, <1>4, <3>3, <4>1, <4>2, <4>3
      <3>5. Ring(k + 1) \in Slots
        BY <1>1, <3>1, RingSlots, WindowType
      <3>6. handles'[Ring(k + 1)] = handles[Ring(k + 1)]
        BY <1>1, <3>2, <3>5 DEF PoolTypes
      <3>7. Waiting'[k] = handles'[Ring(k)']
        BY <1>2, <3>1 DEF WaitingIsQueue
      <3>8. Waiting[k + 1] = handles[Ring(k + 1)]
        BY <1>2, <3>1 DEF WaitingIsQueue
      <3> QED BY <2>1, <3>4, <3>6, <3>7, <3>8
    <2>3. Waiting' \in Seq(Handles) /\ Len(Waiting') = WindowSize - 1
      BY <1>1, <1>2 DEF WaitingIsQueue
    <2> HIDE DEF Waiting, WindowSize
    <2> QED BY <2>1, <2>2, <2>3, SeqEqual
  <1>7. /\ c \notin {d \in Callers : fn[d] = "allocating"}
        /\ UNCHANGED <<fn, allocated>> /\ handle[c] = NIL
        /\ handle' = [handle EXCEPT ![c] = Head(Waiting)]
    BY <1>5
  <1> QED BY <1>5, <1>6, <1>7 DEF Queue!Take, Waiting, Ring

(* A handle that comes back waits behind the others, or all are forgotten.  *)
LEMMA GivesBack ==
    ASSUME CapacityInv, CapacityInv', NEW c \in Callers, handle[c] # NIL,
           fn[c] = "running", PoolRelease(c), UNCHANGED allocated,
           fn' = fn \/ fn' = [fn EXCEPT ![c] = "idle"]
    PROVE  Queue!GiveBack(c)
  <1> USE DEF CapacityInv, OwnershipInv, PoolRelease
  <1>1. WaitingIsQueue /\ WaitingIsQueue'
    BY WaitingHandles, WaitingHandlesNext
  <1>2. {d \in Callers : fn'[d] = "allocating"} = {d \in Callers : fn[d] = "allocating"}
    BY DEF PoolTypes
  <1>3. CASE releasePos' = acquirePos'
    <2>1. Busy \subseteq {c}
      BY <1>3, ReleaseLosesOnlyWhenIdle
    <2>2. /\ {d \in Callers : fn[d] = "allocating"} = {}
          /\ \A d \in Callers \ {c} : handle[d] = NIL
      BY <2>1 DEF Busy
    <2>3. Waiting' = <<>>
      <3>1. WindowSize' = 0
        BY <1>3, WindowGrows
      <3>2. Waiting' \in Seq(Handles) /\ Len(Waiting') = 0
        BY <1>1, <3>1 DEF WaitingIsQueue
      <3> QED BY <3>2, EmptySeq
    <2> QED BY <1>2, <2>2, <2>3 DEF Queue!GiveBack, Waiting, Ring
  <1>4. CASE releasePos' # acquirePos'
    <2>1. /\ releasePos \notin Window /\ WindowSize' = WindowSize + 1
          /\ numSlots' = numSlots /\ acquirePos' = acquirePos
      BY <1>4, WindowGrows
    <2>2. Waiting' = Append(Waiting, handle[c])
      <3>1. /\ Waiting \in Seq(Handles) /\ Waiting' \in Seq(Handles)
            /\ Len(Waiting) = WindowSize /\ Len(Waiting') = WindowSize + 1
            /\ WindowSize \in Nat /\ handle[c] \in Handles
        BY <1>1, <2>1 DEF WaitingIsQueue, PoolTypes
      <3>2. /\ Append(Waiting, handle[c]) \in Seq(Handles)
            /\ Len(Append(Waiting, handle[c])) = WindowSize + 1
            /\ Append(Waiting, handle[c])[WindowSize + 1] = handle[c]
            /\ \A k \in 1 .. WindowSize : Append(Waiting, handle[c])[k] = Waiting[k]
        BY <3>1, AppendProperties
      <3>3. ASSUME NEW k \in 1 .. WindowSize + 1
            PROVE  Waiting'[k] = Append(Waiting, handle[c])[k]
        <4>1. Ring(k)' = Ring(k)
          BY <2>1 DEF Ring
        <4>2. Waiting'[k] = handles'[Ring(k)]
          BY <1>1, <2>1, <4>1 DEF WaitingIsQueue
        <4>3. CASE k = WindowSize + 1
          <5>1. Ring(k) = releasePos
            BY <4>3, RingSlots
          <5> QED BY <3>2, <4>2, <4>3, <5>1 DEF PoolTypes
        <4>4. CASE k \in 1 .. WindowSize
          <5>1. Ring(k) \in Window
            BY <4>4, RingSlots
          <5>2. handles'[Ring(k)] = handles[Ring(k)]
            BY <2>1, <5>1, WindowType DEF PoolTypes
          <5> QED BY <1>1, <3>2, <4>2, <4>4, <5>2 DEF WaitingIsQueue
        <4> QED BY <3>1, <4>3, <4>4
      <3> HIDE DEF Waiting, WindowSize
      <3> QED BY <3>1, <3>2, <3>3, SeqEqual
    <2> QED BY <1>2, <2>2 DEF Queue!GiveBack, Waiting, Ring
  <1> QED BY <1>3, <1>4

(* Every step of the pool is one of the queue, or changes nothing of it.    *)
LEMMA QueueStep ==
    CapacityInv /\ CapacityInv' /\ [PoolNext]_allVars => [Queue!QNext]_Queue!qvars
  <1> SUFFICES ASSUME CapacityInv, CapacityInv', [PoolNext]_allVars
               PROVE  Queue!QNext \/ UNCHANGED Queue!qvars
    OBVIOUS
  <1> USE DEF CapacityInv, OwnershipInv
  <1>0. WaitingIsQueue /\ WaitingIsQueue'
    BY WaitingHandles, WaitingHandlesNext
  <1>1. ASSUME NEW c \in Callers, StartPublicFn(c) PROVE UNCHANGED Queue!qvars
    <2>1. {d \in Callers : fn'[d] = "allocating"} = {d \in Callers : fn[d] = "allocating"}
      BY <1>1 DEF StartPublicFn, PoolTypes
    <2> QED BY <1>1, <2>1 DEF StartPublicFn, poolVars, Queue!qvars, WindowSize
  <1>2. ASSUME NEW c \in Callers, AcquireAvailable(c) PROVE Queue!QNext
    BY <1>2, TakesHead DEF Queue!QNext
  <1>3. ASSUME NEW c \in Callers, AcquireNone(c) \/ AcquireGrowFails(c)
        PROVE  Waiting = <<>> /\ Waiting' = <<>>
    <2>0. /\ acquirePos = releasePos /\ acquirePos' = acquirePos
          /\ releasePos' = releasePos
      BY <1>3 DEF AcquireNone, AcquireGrowFails, poolVars
    <2>1. WindowSize = 0 /\ WindowSize' = 0
      <3>1. acquirePos \in Nat /\ releasePos \in Nat
        BY DEF PoolTypes, Slots
      <3> QED BY <2>0, <3>1 DEF WindowSize
    <2> QED BY <1>0, <2>1, EmptySeq DEF WaitingIsQueue
  <1>4. ASSUME NEW c \in Callers, AcquireNone(c) PROVE Queue!QNext
    <2>1. {d \in Callers : fn'[d] = "allocating"}
             = {d \in Callers : fn[d] = "allocating"} \cup {c}
      BY <1>4 DEF AcquireNone, PoolTypes
    <2>2. /\ handle[c] = NIL /\ fn[c] # "allocating"
          /\ UNCHANGED <<allocated, handle>>
      BY <1>4 DEF AcquireNone, HasNone
    <2>3. Queue!FindEmpty(c)
      BY <1>3, <1>4, <2>1, <2>2 DEF Queue!FindEmpty, Waiting, Ring
    <2> QED BY <2>3 DEF Queue!QNext
  <1>5. ASSUME NEW c \in Callers, AcquireGrowFails(c) PROVE UNCHANGED Queue!qvars
    <2>1. UNCHANGED <<fn, allocated, handle>>
      BY <1>5 DEF AcquireGrowFails
    <2> QED BY <1>3, <1>5, <2>1 DEF Queue!qvars, Waiting, Ring
  <1>6. ASSUME NEW c \in Callers, HandleAlloc(c) \/ HandleAllocFails(c)
        PROVE  Queue!QNext
    <2>1. /\ {d \in Callers : fn'[d] = "allocating"}
               = {d \in Callers : fn[d] = "allocating"} \ {c}
          /\ c \in {d \in Callers : fn[d] = "allocating"}
      BY <1>6 DEF HandleAlloc, HandleAllocFails, PoolTypes
    <2>2. \/ \E h \in Handles \ allocated :
                /\ allocated' = allocated \cup {h}
                /\ handle' = [handle EXCEPT ![c] = h]
          \/ UNCHANGED <<allocated, handle>>
      BY <1>6 DEF HandleAlloc, HandleAllocFails
    <2>3. Waiting' = Waiting
      BY <1>6 DEF HandleAlloc, HandleAllocFails, poolVars, Waiting, Ring,
         WindowSize
    <2>4. Queue!Create(c)
      BY <2>1, <2>2, <2>3 DEF Queue!Create, Waiting, Ring
    <2> QED BY <2>4 DEF Queue!QNext
  <1>7. ASSUME NEW c \in Callers, ReleaseBeforeEnd(c) PROVE Queue!QNext
    BY <1>7, GivesBack DEF ReleaseBeforeEnd, Queue!QNext
  <1>8. ASSUME NEW c \in Callers, EndPublicFn(c)
        PROVE  Queue!QNext \/ UNCHANGED Queue!qvars
    <2>1. CASE handle[c] # NIL
      BY <1>8, <2>1, GivesBack DEF EndPublicFn, Queue!QNext
    <2>2. CASE handle[c] = NIL
      <3>1. {d \in Callers : fn'[d] = "allocating"}
               = {d \in Callers : fn[d] = "allocating"}
        BY <1>8 DEF EndPublicFn, PoolTypes
      <3> QED BY <1>8, <2>2, <3>1
              DEF EndPublicFn, poolVars, Queue!qvars, WindowSize
    <2> QED BY <2>1, <2>2
  <1>9. ASSUME NEW c \in Callers, ReturnWithoutEnd(c) PROVE Queue!QNext
    <2>1. {d \in Callers : fn'[d] = "allocating"} = {d \in Callers : fn[d] = "allocating"}
      BY <1>9 DEF ReturnWithoutEnd, PoolTypes
    <2>2. Waiting' = Waiting
      BY <1>9 DEF ReturnWithoutEnd, poolVars, Waiting, Ring, WindowSize
    <2>3. Queue!Forget(c)
      BY <1>9, <2>1, <2>2 DEF ReturnWithoutEnd, Queue!Forget, Waiting, Ring
    <2> QED BY <2>3 DEF Queue!QNext
  <1>10. CASE UNCHANGED allVars
    BY <1>10 DEF allVars, poolVars, Queue!qvars, WindowSize
  <1> QED
    BY <1>1, <1>2, <1>4, <1>5, <1>6, <1>7, <1>8, <1>9, <1>10 DEF PoolNext

(***************************************************************************)
(* The ring with its two positions, its growth and its clearing of slots   *)
(* keeps what HandleQueue promises: the handle that has waited longest is  *)
(* used next, a new one is created only when none waits, and the waiting   *)
(* ones are forgotten only when nobody uses one.                           *)
(***************************************************************************)
THEOREM RingIsQueue == PoolSpec => ImplementsQueue
  <1>1. PoolInit => Queue!QInit
    <2> SUFFICES ASSUME PoolInit PROVE Queue!QInit
      OBVIOUS
    <2>1. WindowSize = 0 /\ WaitingIsQueue
      BY WaitingHandles, InitOwnership DEF PoolInit, WindowSize
    <2>2. Waiting = <<>>
      BY <2>1, EmptySeq DEF WaitingIsQueue
    <2>3. {c \in Callers : fn[c] = "allocating"} = {}
      BY DEF PoolInit
    <2> QED BY <2>2, <2>3 DEF PoolInit, Queue!QInit, Waiting, Ring
  <1> QED
    BY <1>1, InitCapacity, NextCapacity, QueueStep, PTL
       DEF PoolSpec, ImplementsQueue, Queue!QSpec
=============================================================================
