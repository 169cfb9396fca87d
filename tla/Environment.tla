---------------------------- MODULE Environment ----------------------------
(***************************************************************************)
(* Global state, contexts and environments (dpiGlobal.c, dpiContext.c,     *)
(* dpiEnv.c): the first thread that creates a context initialises ODPI-C,  *)
(* every call gets the error buffer of its thread, a connection or pool    *)
(* makes an environment, and the calls on it share the environment's base  *)
(* date.                                                                   *)
(*                                                                         *)
(* pc[t] is where thread t's C function will go on.  What is done under    *)
(* the mutex, on the thread's own key or to an environment that no other   *)
(* thread knows is one step for each call of OCI that matters.             *)
(***************************************************************************)
EXTENDS Integers, Sequences

CONSTANTS
    Threads,        \* threads of the program
    Conns,          \* standalone connections or pools, each with a dpiEnv
    NULL,           \* no thread and no connection
    Failures        \* what may fail

ASSUME EnvironmentAssumption ==
    /\ NULL \notin Threads \cup Conns
    /\ Failures \subseteq {"loadLib", "loadLibValidate", "envNlsCreate",
          "errorAlloc", "threadKeyInit", "threadKeyGet", "bufferAlloc",
          "threadKeySet", "contextAlloc", "lookupCharSet", "poolCreate",
          "initHandle", "lookupEncoding", "sodaMetadataCache", "attach",
          "descriptorAlloc", "nlsCharSetConvert", "dateTimeConstruct"}

VARIABLES
    initialized,    \* dpiGlobalInitialized
    mutex,          \* the owner of dpiGlobalMutex
    library,        \* whether dpiOciLibHandle is set
    globalEnv,      \* dpiGlobalEnvHandle: "none", "open" or "freed"
    threadKey,      \* whether dpiGlobalThreadKey is there
    openEnvs,       \* global environments that OCI has created and not freed
    buffers,        \* the threads with an error buffer under the key
    contexts,       \* the contexts that exist, by the thread that made them
    env,            \* the dpiEnv of each connection
    error,          \* each call's dpiError: its OCI handle and environment
    call,           \* what each thread has called, and on which connection
    pc,
    exited          \* whether the process has ended

globalVars == <<initialized, mutex, library, globalEnv, threadKey, openEnvs>>
programVars == <<contexts, env>>
vars == <<globalVars, buffers, programVars, error, call, pc, exited>>

NoEnv == [handle |-> FALSE, pool |-> FALSE, threaded |-> FALSE, date |-> "none"]
NoError == [handle |-> FALSE, env |-> NULL]
NoCall == [do |-> "nothing", conn |-> NULL]

Init ==
    /\ initialized = FALSE /\ mutex = NULL /\ library = FALSE
    /\ globalEnv = "none" /\ threadKey = FALSE /\ openEnvs = 0
    /\ buffers = {} /\ contexts = {}
    /\ env = [c \in Conns |-> NoEnv]
    /\ error = [t \in Threads |-> NoError]
    /\ call = [t \in Threads |-> NoCall]
    /\ pc = [t \in Threads |-> "idle"]
    /\ exited = FALSE

GoTo(t, at) == pc' = [pc EXCEPT ![t] = at]

-----------------------------------------------------------------------------
(* The calls of the program.  A thread makes connections with its own      *)
(* context; any thread uses them, several at once in threaded mode, and    *)
(* the last reference is released when no other call is on it.             *)

OnConn(c) == { t \in Threads : call[t].conn = c }

MayCall(t, do, c) ==
    CASE do = "create"   -> c = NULL /\ t \notin contexts
      [] do = "getError" -> c = NULL
      [] do = "destroy"  -> c = NULL /\ t \in contexts
      [] do = "connect"  -> c # NULL /\ t \in contexts /\ OnConn(c) = {}
                            /\ ~env[c].handle
      [] do = "baseDate" -> /\ c # NULL /\ env[c].handle
                            /\ OnConn(c) # {} => env[c].threaded
                            /\ \A u \in OnConn(c) : call[u].do = "baseDate"
      [] do = "release"  -> c # NULL /\ env[c].handle /\ OnConn(c) = {}

(* dpiGlobal__ensureInitialized and dpiGlobal__initError begin alike: with *)
(* no error handle and no look at the mutex.                               *)
Call(t, do, c) ==
    /\ pc[t] = "idle" /\ ~exited /\ MayCall(t, do, c)
    /\ call' = [call EXCEPT ![t] = [do |-> do, conn |-> c]]
    /\ error' = [error EXCEPT ![t] = NoError]
    /\ GoTo(t, "check")
    /\ UNCHANGED <<globalVars, buffers, programVars, exited>>

Frame == UNCHANGED <<buffers, programVars, error, call, exited>>

Check(t) ==
    /\ pc[t] = "check"
    /\ GoTo(t, IF initialized THEN "keyGet"
               ELSE IF call[t].do = "create" THEN "lock" ELSE "end")
    /\ UNCHANGED globalVars /\ Frame

Lock(t) ==
    /\ pc[t] = "lock" /\ mutex = NULL
    /\ mutex' = t
    /\ GoTo(t, "recheck")
    /\ UNCHANGED <<initialized, library, globalEnv, threadKey, openEnvs>> /\ Frame

(* MUTANT: initialises without looking again once it holds the mutex. *)
RecheckNothing(t) ==
    /\ pc[t] = "recheck"
    /\ GoTo(t, "load")
    /\ UNCHANGED globalVars /\ Frame

(* Another thread may have initialised ODPI-C meanwhile. *)
Recheck(t) ==
    /\ pc[t] = "recheck"
    /\ GoTo(t, IF initialized THEN "unlock" ELSE "load")
    /\ UNCHANGED globalVars /\ Frame

-----------------------------------------------------------------------------
(* dpiGlobal__extendedInitialize, with the mutex. *)

LoadLib(t) ==
    /\ pc[t] = "load"
    /\ \/ library' = TRUE /\ GoTo(t, "validate")
       \/ "loadLib" \in Failures /\ GoTo(t, "unlock") /\ UNCHANGED library
    /\ UNCHANGED <<initialized, mutex, globalEnv, threadKey, openEnvs>> /\ Frame

(* A library that is too old, or lacks a symbol, is unloaded. *)
LoadLibValidate(t) ==
    /\ pc[t] = "validate"
    /\ \/ GoTo(t, "envCreate") /\ UNCHANGED library
       \/ "loadLibValidate" \in Failures /\ library' = FALSE /\ GoTo(t, "unlock")
    /\ UNCHANGED <<initialized, mutex, globalEnv, threadKey, openEnvs>> /\ Frame

(* MUTANT: marks ODPI-C initialised before the error and key steps. *)
EnvCreateMarksEarly(t) ==
    /\ pc[t] = "envCreate"
    /\ globalEnv' = "open" /\ openEnvs' = openEnvs + 1 /\ initialized' = TRUE
    /\ GoTo(t, "errorAlloc")
    /\ UNCHANGED <<mutex, library, threadKey>> /\ Frame

EnvCreate(t) ==
    /\ pc[t] = "envCreate"
    /\ \/ /\ globalEnv' = "open" /\ openEnvs' = openEnvs + 1
          /\ GoTo(t, "errorAlloc")
       \/ /\ "envNlsCreate" \in Failures
          /\ globalEnv' = "none" /\ GoTo(t, "unlock")
          /\ UNCHANGED openEnvs
    /\ UNCHANGED <<initialized, mutex, library, threadKey>> /\ Frame

(* The environment is freed; the variable that holds it is not cleared. *)
GiveUp(t) ==
    /\ globalEnv' = "freed" /\ openEnvs' = openEnvs - 1
    /\ GoTo(t, "unlock")

ErrorAlloc(t) ==
    /\ pc[t] = "errorAlloc"
    /\ \/ GoTo(t, "keyInit") /\ UNCHANGED <<globalEnv, openEnvs>>
       \/ "errorAlloc" \in Failures /\ GiveUp(t)
    /\ UNCHANGED <<initialized, mutex, library, threadKey>> /\ Frame

MarkInitialized(t) == initialized' = TRUE /\ threadKey' = TRUE

KeyInit(t) ==
    /\ pc[t] = "keyInit"
    /\ \/ MarkInitialized(t) /\ GoTo(t, "unlock") /\ UNCHANGED <<globalEnv, openEnvs>>
       \/ /\ "threadKeyInit" \in Failures /\ GiveUp(t)
          /\ UNCHANGED <<initialized, threadKey>>
    /\ UNCHANGED <<mutex, library>> /\ Frame

(* MUTANT: keeps the mutex when the initialisation failed. *)
UnlockIfInitialized(t) ==
    /\ pc[t] = "unlock"
    /\ mutex' = IF initialized THEN NULL ELSE mutex
    /\ GoTo(t, "initialized?")
    /\ UNCHANGED <<initialized, library, globalEnv, threadKey, openEnvs>> /\ Frame

(* The mutex is released however the initialisation ended; whether it      *)
(* succeeded is read after that, without the mutex.                        *)
Unlock(t) ==
    /\ pc[t] = "unlock"
    /\ mutex' = NULL
    /\ GoTo(t, "initialized?")
    /\ UNCHANGED <<initialized, library, globalEnv, threadKey, openEnvs>> /\ Frame

CheckAgain(t) ==
    /\ pc[t] = "initialized?"
    /\ GoTo(t, IF initialized THEN "keyGet" ELSE "end")
    /\ UNCHANGED globalVars /\ Frame

-----------------------------------------------------------------------------
(* dpiGlobal__getErrorBuffer: the buffer of the thread, made by its first  *)
(* call.                                                                   *)

BufferFrame == UNCHANGED <<globalVars, programVars, error, call, exited>>

KeyGet(t) ==
    /\ pc[t] = "keyGet"
    /\ \/ GoTo(t, IF t \in buffers THEN call[t].do ELSE "keySet")
       \/ "threadKeyGet" \in Failures /\ GoTo(t, "end")
    /\ UNCHANGED buffers /\ BufferFrame

(* The buffer is allocated and put under the key, or freed. *)
KeySet(t) ==
    /\ pc[t] = "keySet"
    /\ \/ buffers' = buffers \cup {t} /\ GoTo(t, call[t].do)
       \/ /\ Failures \cap {"bufferAlloc", "threadKeySet"} # {}
          /\ GoTo(t, "end") /\ UNCHANGED buffers
    /\ BufferFrame

-----------------------------------------------------------------------------
(* Contexts. *)

ContextCreate(t) ==
    /\ pc[t] = "create"
    /\ \/ contexts' = contexts \cup {t}
       \/ "contextAlloc" \in Failures /\ UNCHANGED contexts
    /\ GoTo(t, "end")
    /\ UNCHANGED <<globalVars, buffers, env, error, call, exited>>

ContextDestroy(t) ==
    /\ pc[t] = "destroy"
    /\ contexts' = contexts \ {t}
    /\ GoTo(t, "end")
    /\ UNCHANGED <<globalVars, buffers, env, error, call, exited>>

(* dpiContext_getError only reads what the thread's buffer holds.  The      *)
(* client version and the defaults of parameters are got in the same way.   *)
GetError(t) ==
    /\ pc[t] = "getError"
    /\ GoTo(t, "end")
    /\ UNCHANGED globalVars /\ Frame

-----------------------------------------------------------------------------
(* Environments.  dpiConn_create and dpiPool_create initialise one that    *)
(* only they know; "attach" stands for what they do afterwards.            *)

InitSteps == <<"lookupCharSet", "envNlsCreate", "poolCreate", "initHandle",
    "lookupEncoding", "sodaMetadataCache", "attach", "done">>

(* dpiEnv__init has got as far as the step before InitSteps[n]: what the   *)
(* environment is then.                                                    *)
InitUpTo(n, threaded) ==
    [handle |-> n > 2, pool |-> n > 3, threaded |-> threaded /\ n > 5,
     date |-> "none"]

(* MUTANT: the error handle survives the pool it belongs to. *)
ErrorAfterFreeKept(e, err) == err

(* dpiEnv__free ends the pool that the call's error handle belongs to. *)
ErrorAfterFree(e, err) == IF e.pool THEN [err EXCEPT !.handle = FALSE] ELSE err

FreeEnv(t, c, e, err) ==
    /\ env' = [env EXCEPT ![c] = NoEnv]
    /\ error' = [error EXCEPT ![t] = ErrorAfterFree(e, err)]

(* When all is done the error handle goes back before the call ends. *)
Connect(t) ==
    /\ pc[t] = "connect"
    /\ \E n \in 1..Len(InitSteps), threaded \in BOOLEAN :
          LET c == call[t].conn
              e == InitUpTo(n, threaded)
              err == [handle |-> n > 4, env |-> IF n > 3 THEN c ELSE NULL]
          IN  \/ /\ InitSteps[n] = "done"
                 /\ env' = [env EXCEPT ![c] = e]
                 /\ error' = [error EXCEPT ![t] = [handle |-> FALSE, env |-> c]]
              \/ InitSteps[n] \in Failures /\ FreeEnv(t, c, e, err)
    /\ GoTo(t, "end")
    /\ UNCHANGED <<globalVars, buffers, contexts, call, exited>>

(* The last reference: closing takes an error handle. *)
Release(t) ==
    /\ pc[t] = "release"
    /\ LET c == call[t].conn
       IN  FreeEnv(t, c, env[c], [handle |-> TRUE, env |-> c])
    /\ GoTo(t, "end")
    /\ UNCHANGED <<globalVars, buffers, contexts, call, exited>>

-----------------------------------------------------------------------------
(* dpiEnv__getBaseDate: the descriptor is stored before it is constructed. *)

DateFrame == UNCHANGED <<globalVars, buffers, contexts, call, exited>>

Store(t, date) == env' = [env EXCEPT ![call[t].conn].date = date]

NeedsHandle(t) == error' = [error EXCEPT ![t].handle = TRUE]

BaseDate(t) ==
    /\ pc[t] = "baseDate"
    /\ GoTo(t, IF env[call[t].conn].date = "none" THEN "descriptorAlloc" ELSE "useDate")
    /\ error' = [error EXCEPT ![t].env = call[t].conn]
    /\ UNCHANGED env /\ DateFrame

DescriptorAlloc(t) ==
    /\ pc[t] = "descriptorAlloc"
    /\ \/ Store(t, "empty") /\ GoTo(t, "nlsCharSetConvert")
       \/ "descriptorAlloc" \in Failures /\ GoTo(t, "end") /\ UNCHANGED env
    /\ UNCHANGED error /\ DateFrame

NlsCharSetConvert(t) ==
    /\ pc[t] = "nlsCharSetConvert"
    /\ GoTo(t, "dateTimeConstruct") \/ ("nlsCharSetConvert" \in Failures /\ GoTo(t, "end"))
    /\ NeedsHandle(t)
    /\ UNCHANGED env /\ DateFrame

DateTimeConstruct(t) ==
    /\ pc[t] = "dateTimeConstruct"
    /\ \/ Store(t, "built") /\ GoTo(t, "useDate")
       \/ "dateTimeConstruct" \in Failures /\ GoTo(t, "end") /\ UNCHANGED env
    /\ UNCHANGED error /\ DateFrame

(* dpiDataBuffer__fromOracleTimestampAsDouble and                          *)
(* dpiDataBuffer__toOracleTimestampFromDouble calculate with it.           *)
UseDate(t) ==
    /\ pc[t] = "useDate"
    /\ GoTo(t, "end")
    /\ NeedsHandle(t)
    /\ UNCHANGED env /\ DateFrame

-----------------------------------------------------------------------------
(* dpiGen__endPublicFn, and the return of dpiContext_createWithParams. *)
End(t) ==
    /\ pc[t] = "end"
    /\ error' = [error EXCEPT ![t] = NoError]
    /\ call' = [call EXCEPT ![t] = NoCall]
    /\ GoTo(t, "idle")
    /\ UNCHANGED <<globalVars, buffers, programVars, exited>>

(* dpiGlobal__finalize, at exit, on a thread that may have a buffer; the   *)
(* program ends when its calls have returned.                              *)
Finalize ==
    /\ ~exited /\ \A t \in Threads : pc[t] = "idle"
    /\ initialized' = FALSE
    /\ threadKey' = FALSE
    /\ buffers' = IF threadKey THEN {} ELSE buffers
    /\ globalEnv' = "none"
    /\ openEnvs' = IF globalEnv = "open" THEN openEnvs - 1 ELSE openEnvs
    /\ exited' = TRUE
    /\ UNCHANGED <<mutex, library, programVars, error, call, pc>>

-----------------------------------------------------------------------------
Continue(t) ==
    \/ Check(t) \/ Lock(t) \/ Recheck(t)
    \/ LoadLib(t) \/ LoadLibValidate(t) \/ EnvCreate(t)
    \/ ErrorAlloc(t) \/ KeyInit(t) \/ Unlock(t) \/ CheckAgain(t)
    \/ KeyGet(t) \/ KeySet(t)
    \/ ContextCreate(t) \/ ContextDestroy(t) \/ GetError(t)
    \/ Connect(t) \/ Release(t)
    \/ BaseDate(t) \/ DescriptorAlloc(t) \/ NlsCharSetConvert(t)
    \/ DateTimeConstruct(t) \/ UseDate(t)
    \/ End(t)

Calls == {"create", "getError", "destroy", "connect", "baseDate", "release"}

Next ==
    \/ \E t \in Threads : Continue(t)
    \/ \E t \in Threads, do \in Calls, c \in Conns \cup {NULL} : Call(t, do, c)
    \/ Finalize

Spec == Init /\ [][Next]_vars

(* Threads keep running, and a mutex that is free time and again is got.   *)
FairSpec ==
    /\ Spec
    /\ \A t \in Threads : WF_vars(Continue(t)) /\ SF_vars(Lock(t))

-----------------------------------------------------------------------------
Initializing == {"load", "validate", "envCreate", "errorAlloc", "keyInit"}
DateSteps == {"descriptorAlloc", "nlsCharSetConvert", "dateTimeConstruct", "useDate"}
Locations == Initializing \cup Calls \cup DateSteps \cup
    {"idle", "check", "lock", "recheck", "unlock", "initialized?", "keyGet",
     "keySet", "end"}

Envs == [handle : BOOLEAN, pool : BOOLEAN, threaded : BOOLEAN,
         date : {"none", "empty", "built"}]
Errors == [handle : BOOLEAN, env : Conns \cup {NULL}]

(* The variables have their types. *)
TypeOK ==
    /\ initialized \in BOOLEAN /\ library \in BOOLEAN
    /\ threadKey \in BOOLEAN /\ exited \in BOOLEAN
    /\ mutex \in Threads \cup {NULL}
    /\ globalEnv \in {"none", "open", "freed"} /\ openEnvs \in Int
    /\ buffers \subseteq Threads /\ contexts \subseteq Threads
    /\ env \in [Conns -> Envs]
    /\ error \in [Threads -> Errors]
    /\ call \in [Threads -> [do : Calls \cup {"nothing"}, conn : Conns \cup {NULL}]]
    /\ pc \in [Threads -> Locations]

(* However many threads create contexts at once and however often the      *)
(* initialisation fails, OCI has at most one global environment, and none  *)
(* after the process has ended: the double check of                        *)
(* dpiGlobal__ensureInitialized and the frees of its failures.             *)
OneEnvironment == openEnvs <= 1 /\ (exited => openEnvs = 0)

(* A thread that found ODPI-C initialised, without the mutex, finds the    *)
(* library, the key and its environment in place, and the call that        *)
(* follows has an error buffer of the thread's own                         *)
(* (dpiGlobal__getErrorBuffer).                                            *)
ReadyForCalls ==
    \A t \in Threads :
        /\ pc[t] \in {"keyGet", "keySet"} \cup Calls \cup DateSteps =>
               library /\ threadKey /\ globalEnv = "open"
        /\ pc[t] \in Calls => t \in buffers

(* The error handle that a call gives back at its end belongs to a pool    *)
(* that is still there, also when the call failed half-way through an      *)
(* environment's initialisation or freed the environment                   *)
(* (dpiGen__endPublicFn, dpiEnv__free).                                    *)
ReturnsToLivePool ==
    \A t \in Threads : pc[t] = "end" /\ error[t].handle =>
        error[t].env \in Conns /\ env[error[t].env].pool

(* Every call returns, whatever fails while the mutex is held. *)
CallsEnd == \A t \in Threads : pc[t] # "idle" ~> pc[t] = "idle"

(* "Return the base date (January 1, 1970 UTC)": a date that a call        *)
(* calculates with has been constructed (dpiEnv__getBaseDate).             *)
DatesAreBuilt ==
    \A t \in Threads : pc[t] = "useDate" => env[call[t].conn].date = "built"
=============================================================================
