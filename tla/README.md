# Models and proofs for oracle-swift

oracle-swift is a Swift client for Oracle databases: a thin Swift layer
(`src/Sources/OracleNIO`, about 1 100 lines) over a copy of ODPI-C
(`src/Sources/ODPIC`, about 28 000 lines of C), which itself calls the Oracle
Call Interface (OCI), a library that is loaded at run time. Almost all of the
state and almost all of the difficult behaviour is in ODPI-C: handles that are
reference counted and shared by threads, lists and pools of handles, a buffer
of fetched rows that four functions read and write, sessions that pass from one
connection to the next, callbacks from threads of the Oracle client.

This directory holds TLA+ models of that behaviour, the TLC configurations that
check them, and proofs for TLAPS. Paths such as `dpiStmt.c:351` are relative to
`src/Sources/ODPIC/src/`.

1. [The system](#1-the-system)
2. [What is hard in it](#2-what-is-hard-in-it)
3. [The modules](#3-the-modules)
4. [What the runs check](#4-what-the-runs-check)
5. [What is proved](#5-what-is-proved)
6. [Where code and comments disagree](#6-where-code-and-comments-disagree)
7. [What is not modelled](#7-what-is-not-modelled)
8. [Plan](#8-plan)

## 1. The system

| Component | Code | State | Operations | Module |
|---|---|---|---|---|
| error handle pool | `dpiHandlePool.c`, `dpiError.c`, `dpiGen.c` | ring of OCI error handles, one per environment, under its own mutex | acquire, release | `HandlePool`, `HandleQueue` |
| open handle lists | `dpiHandleList.c` | per connection: open statements, LOBs, objects; an array with holes | addHandle, removeHandle | `HandleList` |
| references, frame of public functions | `dpiGen.c` | `refCount` and `checkInt` of every handle, under the environment's mutex | addRef, release, setRefCount, checkHandle, startPublicFn, endPublicFn | in all below |
| connection: close, free | `dpiConn.c` | `handle`, `sessionHandle`, `closing`, `deadSession`, three lists | close, release, free | `HandleTree`, `StmtLifetime`, `SessionPool` |
| session pool | `dpiPool.c`, `dpiConn.c` | `handle`, `refCount`; in each session its time last used, timeouts, transaction | acquireConnection, close, release | `SessionPool` |
| statement: lifetime | `dpiStmt.c` | `handle`, `closing`, `parentStmt`, `openSlotNum` | prepare, getImplicitResult, addRef, release, close, free | `StmtLifetime`, `Variables` |
| statement: rows | `dpiStmt.c`, `dpiOci.c` | `rowCount`, `fetchArraySize`, `bufferRowCount/RowIndex/MinRow`, `hasRowsToFetch`, the define variable | execute, setFetchArraySize, define, fetch, fetchRows, scroll | `StmtFetch` |
| subscription | `dpiSubscr.c`, `dpiConn.c` | `registered`, `refCount`, its own mutex | subscribe, callback, addRef, release, unsubscribe | `Subscription` |
| binds and variables | `dpiStmt.c`, `dpiVar.c` | bind lists, the values of a variable and what returned rows are put in | bind, define, setFrom..., copyData, execute, fetch, getLastRowid | `Variables` |
| LOBs | `dpiLob.c` | locator, `closing`, `openSlotNum` | newTempLob, copy, close, free | `Lobs` |
| objects | `dpiObject.c`, `dpiObjectType.c`, `dpiObjectAttr.c` | instance, type, `dependsOnObj`, the type of elements | getObjectType, getAttributes, createObject, copy, get and set values, close, free | `Objects` |
| queues, messages, options, JSON | `dpiQueue.c`, `dpiMsgProps.c`, `dpiDeqOptions.c`, `dpiEnqOptions.c`, `dpiJson.c` | payloads, options, the buffer of messages | enqOne, enqMany, deqOne, deqMany, setPayload... | `Messages` |
| SODA | `dpiSodaDb.c`, `dpiSodaColl.c`, `dpiSodaCollCursor.c`, `dpiSodaDoc.c`, `dpiSodaDocCursor.c` | what each was found in, open cursors | open, find, getNext, insert, replace, close, free | `Soda` |
| transactions | `dpiConn.c` | `transactionHandle`, its association, `commitMode` | commit, rollback, tpcBegin ... tpcForget | `Transactions` |
| global state, contexts, environments | `dpiGlobal.c`, `dpiContext.c`, `dpiEnv.c` | `dpiGlobalInitialized`, the mutex, the thread key, base dates | create and destroy a context, initialise, getErrorBuffer, getBaseDate, finalise | `Environment` |
| values | `dpiData.c`, `dpiUtils.c`, `dpiOracleType.c` | none | conversions | not modelled |
| OracleNIO | `src/Sources/OracleNIO` | `handle` of a connection | query, close | not modelled |

How they interact:

- Every public function runs between `dpiGen__startPublicFn` and
  `dpiGen__endPublicFn`. The first call that needs OCI takes an error handle
  from the pool, the last line gives it back.
- Every handle has a reference count. A connection is referenced by its
  statements, LOBs, types, variables, queues, messages and subscriptions; a
  type by its objects, an object by those that are part of it; a variable by the
  statements it is bound to or fetched for, and its values by the variable; a
  pooled connection references the pool. The count is changed under the mutex of
  the environment, and whoever brings it to zero frees the handle, which gives
  back the handle's own references.
- The lists of a connection hold no references. `dpiConn_close` walks them and
  closes what it finds, taking a reference first.
- Sessions of a pool carry state from one connection to the next: the time last
  used, stored in the session's OCI context, the transaction, the timeouts.
- The first context that is created loads the Oracle client and makes one
  global environment for all threads; each connection or pool has an environment
  of its own, with its pool of error handles.
- The Oracle client calls `dpiSubscr__callback` on a thread of its own.
- OracleNIO calls all of this from the threads of an `NIOThreadPool` and hands
  rows to an event loop.

## 2. What is hard in it

- *Sharing*: two threads that close, release and use the same handle; the
  closing loop of the connection against statements that are freed meanwhile;
  three different mutexes and much that is read without any.
- *Failure half-way*: `dpiConn__close`, `dpiStmt__close` and the creation of a
  connection are long sequences in which each OCI call may fail, with errors
  either propagated (then the call is tried again) or ignored.
- *Index arithmetic with several writers*: the ring of error handles, the
  scan for an empty slot, the row buffer that `execute`, `fetch`, `fetchRows`,
  `scroll` and `setFetchArraySize` move over.
- *State that outlives its use*: the bounds of the buffer after a new
  execution, sessions that go back to a pool, base dates that an environment
  caches.
- *A graph of references*: twenty kinds of handles that hold each other and are
  released in any order, before or after the connection is closed, while the
  Oracle client wants its own handles freed in one order only.
- *Initialisation by whoever comes first*, while other threads look on without
  the mutex.
- *Callbacks* that run while the subscription is released or unsubscribed.

`PROJECT.json` lists each of these hazards at its line with the properties that
are about it.

## 3. The modules

An actor is a thread. Code that runs under a mutex, and code that touches
nothing other threads write, is one step; a read or a write of shared state
outside of a mutex is a step of its own. `pc` (or `stack` in `StmtLifetime`)
says where the C function of a thread goes on. OCI is modelled from how the
code uses it: each call may succeed, or fail if its name is in `Failures`.
Some operators are not part of a specification: each is a plausible slip in the
definition that it precedes (most have a comment that begins with MUTANT), which
the properties are known to detect.

**HandlePool** (`dpiHandlePool.c`, with its use in `dpiError.c`, `dpiGen.c`).
`handles` is the array, `acquirePos`, `releasePos`, `numSlots` and
`numUsedSlots` the fields. A caller is a public function in progress:
`StartPublicFn`, then `AcquireAvailable` or `AcquireNone` (which grows the ring)
or `AcquireGrowFails`; the new handle is created outside of the mutex
(`HandleAlloc`, `HandleAllocFails`); `PoolRelease` by `EndPublicFn` or, in two
functions, earlier (`ReleaseBeforeEnd`); `ReturnWithoutEnd` is the path of
`dpiConn_getObjectType` that forgets it. Growth is a constant because 8 is
arbitrary. `fn` says where a caller is. (The names are such that the module can be
extended together with `Environment`, as it is by their proofs.)

**HandleQueue** is what the pool promises without ring and positions: handles
wait in a queue, a new one is made only for a caller that found the queue empty,
and the queue may be forgotten as a whole when the last handle in use comes
back (see section 6). `HandlePool` implements it: `queue` is the window of the
ring read from `acquirePos`, checked by TLC as a property.

**HandleList** (`dpiHandleList.c`). `AddHandle` appends while there is room
(`numUsedSlots = numSlots` grows the array), otherwise scans from `currentPos`
for an empty slot; `RemoveHandle` empties the slot the handle remembers. Adding
and removing are each under the list's mutex, so one action each. Users add
once and remove once (the others are in section 6).

**StmtLifetime** (`dpiGen.c`, `dpiStmt.c`, `dpiConn.c`). The statements of one
standalone connection. `stack[t]` is the stack of C functions thread `t` is in;
`closeStmt`, `stmtFree`, `connClose` and `connFree` call each other as in the
code. Its list is an instance of `HandleList`, whose operators it uses. A thread
prepares, takes references for another thread, closes, releases; `Threaded`
decides whether the code takes references in the closing loop
(`conn->env->threaded`). Freed memory is not reused and reads as it was left.
`ConnSessionEnd` has the three ways in which the end of `dpiConn__close` goes:
everything succeeds; ending the session fails; or the session is ended and its
handle freed (`sessionHandle`), and detaching from the server fails.

**StmtFetch** (`dpiStmt.c`, `dpiOci__stmtFetch2`). One statement with a query.
The result has an unknown number of rows up to `MaxRows`; a row is its
execution and its number; the variable remembers which rows it holds. `Execute`,
`SetFetchArraySize`, `Define`, `Fetch`, `FetchRows`, `Scroll` are whole public
functions (one statement is used by one thread at a time), with
`dpiStmt__beforeFetch`, `dpiStmt__fetch` and `dpiStmt__postFetch` inside. The
database's cursor moves by what OCI is asked for. `MindsBuffer` says whether the
program minds what an execution leaves in the buffer: it makes the array no
smaller than what is in there before it executes again (`Leftover`), and fetches
before it scrolls (`LeftoverUntilFetch`). A program that does not is that of
`fetch_stale` in section 6.

**Subscription** (`dpiSubscr.c`, `dpiConn_subscribe`, `dpiConn_unsubscribe`).
Users are threads of the program, notifiers threads of the Oracle client.
`CallbackCheck ... CallbackUnref` are the steps of `dpiSubscr__callback`,
`FreeLock` and `FreeRest` those of `dpiSubscr__free`. A message is only whether
it ends the registration. `Lost` is an actor that touches freed memory: it
stops there, so that everything else is still checked.

**SessionPool** (`dpiPool.c`, `dpiConn__get`, `dpiConn__getSession`,
`dpiConn__close`). A thread has at most one connection, whose `pc` goes through
the ping loop, `open`, and the parts of `dpiConn__close` that concern a pooled
session. `call` says who closes: `dpiConn_close` propagates errors, with
DPI_MODE_CONN_CLOSE_DROP it does not, nor does `dpiConn__free`; an error that is
not propagated is ignored, and the connection goes on as if the call had
succeeded. A session's record has what OCI and the database keep of it: `at` is
"lost" when the release of the session has failed unnoticed, so that the pool
counts it as busy and no connection has it (`Forgotten`). `blind` is a
history variable: the session was last closed while `pool->handle` was cleared,
so that the code skipped its bookkeeping. The network timeouts that a ping sets
and restores are left out, since no other step depends on them and nothing can be
said of them (section 6).

**HandleTree** (`dpiGen.c`, `dpiConn.c`) has the handles of one standalone
connection in general: blocks of memory with a kind, a reference count, an OCI
handle, and `field`, the pointers with which a handle holds others. A public
function is one step if it only takes references; whatever releases leaves work
in `todo`, which is the call stack of `dpiGen__setRefCount`, the free functions
and the loops of `dpiConn__close`, innermost first. A behaviour begins with one
of the `Scenarios`, which says how many handles of each kind the program may
make, so that a run has many small programs instead of one with everything.
On top of it, each module with its kinds of handles and what the program can do:

- **Transactions**: a transaction is its handle, whether the service context is
  associated with it, and `commitMode`; each function is the set of its outcomes.
- **Lobs**: `NewLob`, `CopyLob`, `CloseLob`, `FreeLob`, and the loop of
  `dpiConn__close` over them.
- **Objects**: types with the type of their elements, attributes, objects with
  an instance of their own or as part of another's (`NewPart`), and LOBs that
  `SetValue` makes for the duration of a call.
- **Messages**: queues, the options they make when first needed, the buffer of
  message properties that is reused (`AllocateBuffer`, `PopulateProps`,
  `PopulatePayload`, `Dequeue`), payloads of objects and JSON.
- **Soda**: databases, collections, documents and both cursors.
- **Variables**: statements with one bind, one column and the last rowid;
  variables with one value and one returned value; setting, copying, binding
  (with the conversion to LOBs), executing, defining, fetching with the extended
  prefetch, closing.
- **Handles** puts them together and has the properties; **HandlesMC** has the
  scenarios.

Functions that change no handle, of which there are many (attributes, reading
and writing LOBs, elements of collections, indexes of SODA), are guards such as
`AccessLob(h)`: when they may be called. `UsesOpen` is about all of them.

**Environment** (`dpiGlobal.c`, `dpiContext.c`, `dpiEnv.c`, and the parts of
`dpiOci.c` and `dpiConn.c` they need). `pc[t]` follows a thread from `Check`
(without the mutex) by `Lock`, `Recheck`, `LoadLib`, `LoadLibValidate`,
`EnvCreate`, `ErrorAlloc` and `KeyInit` to `Unlock` and `CheckAgain`, then through
`dpiGlobal__getErrorBuffer` (`KeyGet`, `KeySet`) to what it called: create or
destroy a context, connect, use a base date, release. `Connect` is one step since
nobody knows the connection yet; `InitUpTo(n, ...)` is what `dpiEnv__init` has
done when its step `n` fails. `BaseDate ... UseDate` are separate steps because
all threads of a connection share the date.

| Module | Composes | For |
|---|---|---|
| `HandlePoolMC`, `HandleListMC`, `StmtLifetimeMC`, `HandlesMC` | the module of that name | symmetry and scenarios for TLC |
| `HandleListProofs`, `StmtFetchProofs`, `SubscriptionProofs`, `SessionPoolProofs` | the module of that name and TLAPS | section 5 |
| `EnvironmentProofs` | `Environment`, `HandlePool` and TLAPS | section 5 |
| `StmtLifetimeProofs` | `StmtLifetime` and TLAPS | section 5, and that the list of open statements implements `HandleList` |
| `HandlesLemmas`, `HandlesProofs` | `Handles` and TLAPS | section 5: the invariant and what steps do to it; that each step keeps it |
| `HandlePool` | `HandleQueue` | refinement |
| `StmtLifetime` | `HandleList` | the list of open statements |
| `Handles` | `Variables`, `Soda`, `Messages`, `Objects`, `Lobs`, `Transactions`, `HandleTree`, each extending the next | all handles of a connection |

## 4. What the runs check

All bounds are constants in the `.cfg` files. Deadlock is checked for the ring,
the list and the rows; in the other modules the program may really stop: all
handles are released and nobody calls anything any more.

| Run | Configuration | Shows |
|---|---|---|
| `pool_ring` | `HandlePool.cfg`: 3 callers, 5 handles, ring of 2 growing by 2, up to 6 slots | `PoolTypes`; `ExclusiveHandles`: no handle is used twice; `WindowHoldsHandles`: what acquire reads was returned; `HandlesFit`: the ring never overflows; `LosesOnlyWhenIdle`; `ImplementsQueue` |
| `handle_list` | `HandleList.cfg`: 5 handles, 2 slots growing by 2 | the list holds exactly the open handles, each in the slot it remembers; `numUsedSlots` is right; adding never overwrites |
| `stmt_lifetime` | `StmtLifetime.cfg`: 2 threads, 2 statements, implicit results, every failure but that of `dpiStmt__init` | `CountsReferences`, `HeldIsLive`, `ReleasedOnce` under all interleavings; the last says that each statement handle is released once and that no two closes end the session, but not that a close which is tried again after a failed detach ends it only once (it does not, section 6) |
| `stmt_sequential` | `StmtSequential.cfg`: 1 thread, 3 statements, every failure | `OpenStmtsAreListed`, `CloseClosesAll`, and `CallsEnd`: closing and freeing call each other but end |
| `fetch` | `StmtFetch.cfg`: 2 executions of up to 4 rows, array sizes 1 to 3, variables of 2 and 4, scroll modes next, first, last, absolute, failing executions and fetches | each row is handed out once and in order, and never one of an earlier execution (`ServesRows`), the end is the end (`EndsAtEnd`), a scroll lands on the desired row (`ScrollsToDesired`), no fetch exceeds the variable (`FitsVariable`) |
| `subscription` | `Subscription.cfg`: 2 users, 2 notifiers, 3 notifications, callbacks that release | references are counted, a freed subscription is unregistered, no notification after unsubscribing, every call returns |
| `session_pool` | `SessionPool.cfg`: 3 threads, 1 session, 2 faults, 8 kinds of failing call, 1 thread owning the pool | no session is shared, and none is left without a connection but by a failing release that the code ignores (`BusyIsOwned`); none waits with a transaction (`NoTransactionWaits`) or without a time (`UsedSessionsHaveTime`); the pool's references and handle are right; every call returns, also when a session is lost (`CallsEnd`) |
| `environment` | `Environment.cfg`: 2 threads, 1 connection, every call may fail | `OneEnvironment`: one global environment, and none after the exit; `ReadyForCalls`: no call runs before ODPI-C is ready and its thread has a buffer; `ReturnsToLivePool`: no error handle goes back to a pool that has ended; every call returns |
| `handles` | `Handles.cfg`: 21 scenarios of 1 to 5 handles, at most 2 references of the program to each, every failure | `CountsReferences`; `PointsToLive`: no pointer outlives what it points to, but statements that circles of variables keep while they are closed; `NothingLeaks`: a program that releases everything leaves nothing; `ListsOpenHandles`; `UsesOpen`: what the check functions ask is enough, if no close of the connection has failed; `OciOutlived`: OCI handles are freed before what they live in, except for two kinds that are not (the transaction handle, and rowids that the program keeps) |
| `fetch_stale`, `handles_close_sweep`, `environment_base_date` | see section 6 | a comment of the code that the code does not keep |

Why the bounds are enough. A ring of 2 that grows by 2 with 5 handles wraps,
grows, empties and grows again; the theorems of section 5 cover every size. A
list of 2 slots with 5 handles grows twice and has every pattern of holes; also
proved for every size. Two threads and two statements give every pair of
functions racing for one statement, a parent and its implicit result, and a
list that grows during the closing loop (initial size 1). Four rows with
arrays of 1 to 3 give empty, partly filled, exactly filled and repeated
buffers, and two executions every state in which one finds the other's. One
session and three threads put the pool at its limit all the time, and the
theorems of section 5 cover any number of both. Two faults let a session
be lost after another one was, in the middle of the ping loop or of a close.
Two notifiers are enough for a callback to be waiting for the mutex while
another one runs. Two threads are all that can meet at the mutex of the
initialisation: one is in it, the other before it or looking on; the theorems of
section 5 cover any number. A scenario of `handles` has the kinds of handles whose
code has to do with each other, with two of a kind where one may hold or replace
another, and blocks for what calls make themselves; two references of the
program are one that is given back and one that is left.

Fairness. `FairSpec` asks weak fairness of `Continue(a)` for each actor: a
thread inside a function that can go on does, because operating systems run
threads and nothing in the code spins. `Environment` also asks strong fairness
of `Lock(t)`: a mutex that is free time and again is got, since a thread may
create contexts for ever while another waits. Nothing is assumed of `Begin` or
`Call`: a program need not call anything. In `Subscription` this includes that
the program's callback returns, which the code has to rely on. In `SessionPool` the ping loop
is bounded by `MaxFaults`: a database that breaks every session just before
each ping keeps it going (`dpiConn.c:881` says that the loop "cannot run
forever", which holds if faults end).

## 5. What is proved

For every value of the constants, checked by TLAPS. The hypotheses are about
which calls fail and what the program does; what happens without them is in
section 6.

| Theorem | Statement | Hypotheses |
|---|---|---|
| `EnvironmentProofs!TypeCorrect` | `PoolSpec => []PoolTypes` | |
| `EnvironmentProofs!HandlesAreExclusive` | `PoolSpec => []ExclusiveHandles` | |
| `EnvironmentProofs!WindowIsFull` | `PoolSpec => []WindowHoldsHandles` | |
| `EnvironmentProofs!RingHasRoom` | `PoolSpec => []HandlesFit` | |
| `EnvironmentProofs!LossesAreHarmless` | `PoolSpec => LosesOnlyWhenIdle` | |
| `EnvironmentProofs!RingIsQueue` | `PoolSpec => ImplementsQueue` | |
| `HandleListProofs!TypeCorrect` | `Spec => []TypeOK` | |
| `HandleListProofs!OpenHandlesAreListed` | `Spec => []ListsOpenHandles` | |
| `HandleListProofs!UsedSlotsAreCounted` | `Spec => []CountsUsedSlots` | |
| `HandleListProofs!OpenHandlesAreKept` | `Spec => AddNeverOverwrites` | |
| `StmtLifetimeProofs!LifeInvariant` | `Spec => []LifeInv` | `Threaded`; `dpiStmt__init` does not fail |
| `StmtLifetimeProofs!ReferencesAreCounted` | `Spec => []CountsReferences` | the same |
| `StmtLifetimeProofs!WhatIsHeldIsLive` | `Spec => []HeldIsLive` | the same |
| `StmtLifetimeProofs!HandlesAreReleasedOnce` | `Spec => []ReleasedOnce` | the same |
| `StmtLifetimeProofs!StatementsUseTheList` | `Spec => ListOf!Spec` | the same; no implicit results |
| `StmtLifetimeProofs!OpenStatementsAreListed` | `Spec => []OpenStmtsAreListed` | the same; no implicit results |
| `StmtLifetimeProofs!ClosingClosesAll` | `Spec => []CloseClosesAll` | the same; no implicit results, one thread |
| `StmtFetchProofs!RowsFitVariable` | `Spec => FitsVariable` | |
| `StmtFetchProofs!EndIsTheEnd` | `Spec => []EndsAtEnd` | `MindsBuffer` |
| `StmtFetchProofs!RowsAreServedInOrder` | `Spec => []ServesRows` | `MindsBuffer`; converting a row does not fail |
| `StmtFetchProofs!ScrollFindsRow` | `Spec => []ScrollsToDesired` | the same; scroll modes next, first, last, absolute |
| `SubscriptionProofs!ReferencesAreCounted` | `Spec => []CountsReferences` | |
| `SubscriptionProofs!FreedSubscriptionsAreUnregistered` | `Spec => []FreedIsUnregistered` | unregistering does not fail |
| `SubscriptionProofs!NoCallbackAfterUnsubscribe` | `Spec => NotNotifiedAfter` | notifications do not end the registration, callbacks do not unsubscribe |
| `SessionPoolProofs!TypeCorrect` | `Spec => []TypeOK` | |
| `SessionPoolProofs!SessionsAreOwned` | `Spec => []BusyIsOwned` | |
| `SessionPoolProofs!PoolReferencesCounted` | `Spec => []PoolIsCounted` | |
| `SessionPoolProofs!NoTransactionIsInherited` | `Spec => []NoTransactionWaits` | `RollsBack` |
| `SessionPoolProofs!UsedSessionsAreTimed` | `Spec => []UsedSessionsHaveTime` | `KeepsTime` |
| `SessionPoolProofs!PoolCanBeUsedAgain` | `Spec => []OpenPoolHasHandle` | one thread closes the pool |
| `HandlesProofs!Invariant` | `Spec => []Inv` | `ReleasesCleanly` |
| `HandlesProofs!CountsKept` | `Spec => []CountsReferences` | `ReleasesCleanly` |
| `HandlesProofs!ListInvariant` | `Spec => []ListInv` | `ReleasesCleanly` |
| `HandlesProofs!ListsHoldOpen` | `Spec => []ListsOpenHandles` | `ReleasesCleanly` |
| `HandlesProofs!OnlyOpenUsed` | `Spec => []UsesOpen` | `ReleasesCleanly` |
| `HandlesProofs!PointersLive` | `Spec => []PointsToLive` | `ReleasesCleanly` |
| `HandlesProofs!ClosedLive` | `Spec => []ClosesLive` | `ReleasesCleanly`; no statement is the value of a variable |
| `EnvironmentProofs!EnvironmentOnce` | `Spec => []OneEnvironment` | |
| `EnvironmentProofs!InitializedIsReady` | `Spec => []ReadyForCalls` | |
| `EnvironmentProofs!HandlesHaveAPool` | `Spec => []ReturnsToLivePool` | |

*The pool.* None of the invariants is inductive by itself: that a handle is used
once follows from its not being in the ring, and that acquire reads a handle
follows from the window between the positions being full. `OwnershipInv` is
their conjunction, with every handle that is used or in the window being one
that was created. Three lemmas describe
how the window changes when a position advances around the ring. `CapacityInv`
adds `HandlesFit`: waiting handles and busy callers together are at most
`numUsedSlots`, which is why the ring need not check for room in `release`.
The action property follows from both: if `release` makes the positions meet,
the window had `numSlots - 1` handles, so that nobody else can be busy.
Assumptions: at least one initial slot and growth, finitely many callers.

*The ring is a queue.* The refinement mapping takes the window as a sequence:
its k-th handle is in the slot `(acquirePos + k - 1) % numSlots`. `RingSlots`
says that these slots are the window and that the one behind the last is
`releasePos`. From it follow that acquiring is taking the head (`TakesHead`) and
that releasing is appending, or forgetting everything where the positions meet,
which `ReleaseLosesOnlyWhenIdle` allows only when nobody is busy (`GivesBack`).
`QueueStep` has one case for each action of the pool; that growing changes nothing
of the queue is because the pool grows only when the window is empty.

*The list.* `ListInv` is type, `ListsOpenHandles` and `CountsUsedSlots`
together. The scan has no test for a full list; that it stops is
`ScanFindsEmptySlot`, from `CountTellsFull`: if fewer than `numSlots` slots are
counted, one is empty, which is a fact about the cardinality of the set of used
slots. Assumptions: a slot to begin with, growth by two or more, handles are not NULL.

*Statements.* The state of `StmtLifetime` that matters is on the stacks, and the
invariant is about them. `calls[t]` is the stack of thread `t` from the function
that was called first, so that a frame keeps its number while others come and
go; `In(s, labels)` says that some thread is in the code of these labels with
statement `s`. `LifeInv` is:

- `Shape`: who calls whom. A statement is closed by a thread that owns a
  reference, by the closing loop, which has taken one, or by whoever frees it.
- `Alone`: only one call can be preparing, freeing or closing (after `closing`
  was set) a statement, or closing or freeing the connection.
- `Counted`: `refCount` is the number of the references in `Refs(s)`, which are
  named: a thread's own, that of the call which is preparing, releasing or (in
  the loop) closing it, and that of each implicit result. A statement that is
  being freed has none, nor has one that is not live. This makes the release
  that brings the count to zero the last user.
- `NewIsAlone`, `FoundIsKnown`: the closing loop is the only way to a statement
  without a reference. What it finds is no longer `unused`, and if it is being
  freed the count is zero and the check integer cleared: the loop passes it by.
- `CloseState`, `FreedIsClosed`: how `closing`, `handle`, `parentStmt` and the OCI
  handle change together, label by label, which `ReleasedOnce` needs; a statement
  whose close failed is closed again with what is left. Of the connection
  `ReleasedOnce` needs `SessionKept` as well: while there is a service context there
  is a session, unless detaching from the server may fail.
- `ConnCounted`, `ConnState`, `FailedIsOpen`: the same for the connection, whose
  `Keepers` are the program, calls, and the statements that are live.

There is a lemma for what each operation on a stack (`GoOn`, `Call`, `Return`,
`Start`) does to the frames, one for what it does to `In`, and one for each
action. TLC checked `LifeInv` first, with two threads and two statements. The
hypotheses are those under which it holds: when `dpiStmt__init` fails, the code
frees a statement that the closing loop may have taken (section 6), and a
connection whose environment is not threaded takes no reference in that loop
(`dpiConn.c:189`). Assumptions (`StmtLifetimeAssumption`): finitely many threads
and statements, NULL is no statement, a list with a slot to begin with and
growth by two or more.

*The list of statements.* `StatementsUseTheList` maps the list to `HandleList`,
with the statements that are in a slot for its open handles. The mapping holds
because a statement is added by the call that prepares it and removed by the one
call that closes it (`Alone`), from the slot that it was put in (`RemovedIsListed`).
`ListedInv` adds that an open statement is listed but where it enters or leaves.
Implicit results are excluded as closing one empties slot 0 (section 6).
`ScanInv` follows the loop of `dpiConn__close`: whatever function it has called,
no statement in an earlier slot is open (`Scans`), and none at all once the
session has ended. `StepGoes` says where each step of the code leads; that a
close which the loop has called leaves the statement closed is `CloseEnds`. Other
threads are excluded: a statement that one of them is preparing is not on the list
yet, and stays open (section 6).

*The rows.* `BufferInv` says that a statement whose position can be trusted is in
one of three situations: `JustExecuted`, nothing to hand out and the cursor before
the first row; `Buffered`, where the cursor stands on the last row of the buffer
and the row handed out last is the one before `bufferRowIndex`; `AtEnd`. The
wanted rows of the buffer are in the variable (`RowsAreThere`) unless a conversion
failed; `FirstWanted` is the first that can still be asked for, which is the first
of all when the program scrolls. `FetchedRows` is the lemma about what the
database returns, `ScrollTarget` the one about where a scroll asks for rows.
`FitsVariable` needs types and the room of the variable only. The other theorems
ask for `MindsBuffer`, since a program without it is refuted in `fetch_stale`. The
invariant was checked by TLC for all six scroll modes.

*Subscriptions.* `SubscrInv` says who is alone with the subscription: its creator,
until it has given out a reference (`CreatorIsAlone`), and whoever holds the mutex
(`MutexHolderIsAlone`); who owns a reference finds it alive and nobody freeing it
(`OwnedIsLive`); `CountIsRight` is the count by callers, which makes the call that
brings it to zero the last one; and `registered` covers what the client knows
(`RegistrationIsKnown`). A callback holds a reference from `addRef` on, but a free
that has begun waits for it at the mutex only: that it finds a check integer that
is cleared is in `MutexHolderIsAlone` and `CountIsRight` together. There is a
lemma for each part with a case for each action. Assumptions: finitely many
actors, no user is a notifier, NULL is neither.

*The session pool.* `OwnerInv` has the types, where in the code a connection
has a session and that two connections never have the same (`Attached`), that a
busy session has a connection and the other way round while the pool is there,
and that a session that was lost has none (`Owned`). `BusyIsOwned` does not
follow from itself: that
the ping loop gives a session back before it asks for the next is in `Attached`,
by where `pc` is. `PoolInv` adds the count. There is a lemma for each action, and
the count changes only where a connection comes or goes (`CountStays`).
`UseInv` follows a session through `dpiConn__close`: `SessionOK` is about the
session in or out of the pool, `ConnOK` about what the closing code has found out
at each of its labels, such as that an unfinished transaction is left only on a
session already known to be dead, which the last step drops. The failures that
this code ignores are the hypotheses: `RollsBack`, the rollback when an open
connection is released, and `KeepsTime`, `OCIContextSetValue` and, when an open
connection is released, the memory for the time. `CloserInv` is about the handle
while a pool is destroyed: `savedHandle` of the one thread that closes it.
Assumptions: finitely many threads and NULL is not a session; otherwise none
about which calls fail, how often a session breaks, or who closes the pool when.

*The environment.* `GlobalInv` says what the mutex is for: who is between
`Recheck` and `Unlock` owns it, and finds ODPI-C not initialised in the steps
that initialise it; outside of them the global environment is open exactly when
`dpiGlobalInitialized` is set. That is what a thread without the mutex relies on,
and it holds because the variable is set by the last step. `ConnInv` says that
who makes or releases a connection is alone on it, and that a call which holds
an error handle is on a connection with a pool. `TypeStep`, `GlobalStep` and
`ConnStep` have a case for each action; `ConnectEffect` is about the failures of
`dpiEnv__init`. Assumption (`EnvironmentAssumption`): NULL is no thread and no
connection.

*The tree of handles.* `Inv` says that the count of a handle is the number of
references to it (`CountOK`): those of the program, those that work in `todo` is
about to give back (`PendingIn`), the pointers in fields (`PointersIn`) and last
rowids (`RowidsIn`), and one that a failed call forgot. A handle that is being
freed, or was, has none: `Dead`. A message may lose its JSON value, whose count is
therefore only bounded. The count alone is not inductive, since a step that
takes a reference has to know that what it takes is there, and one that frees
that nobody needs what it frees:

- `KindOK`, `FieldsOK`: a handle has the fields of its kind, `RolesOf`, which point
  to handles of the kinds in `KindsOf`; those in `Required` are not null until the
  handle is freed. No handle of a kind is in the list of another (`ListsOK`).
- `Shape`, about the work that is left, innermost first: a handle is freed
  once; what a public function does last is last; a value is prefetched after
  everything that this may free; whoever may give up (`dpiConn_close`,
  `dpiStmt_close`) has nothing waiting for it but the rest of its loops; closing
  a statement is part of freeing it, and ending the session part of freeing the
  connection, unless the program asked for it.
- `WorkOK`: what each call that is left relies on, such as that the program has
  the variable it binds and the statement is not closed.
- `StmtOK`, `EndOK`: a closed statement has no variables, and one that is closed
  and still has its OCI handle is about to be released.

`HandlesLemmas` counts: a pointer that moves changes one count (`Is`), taking the
head off `todo` takes its reference, a new handle is nowhere (it is not the value
of any pointer), and the fields of a handle that is freed are the references
that it gives back. `HandlesProofs` has a lemma for each action. `ReleasesCleanly`
is the hypothesis: no statement fails to be released in scenarios that have
last rowids, where the rowid would be released twice (section 6), or variables
of statements: when these hold each other in a circle, a statement may be freed
while it is being closed (section 6), and a failing release would then reset
`closing` of freed memory. Every scenario of `handles` satisfies it.
Assumption (`HandleTreeAssumption`): finitely many blocks, of which one is the
connection's, NULL is none. TLC checked `Inv` on all scenarios first.

*The lists of the tree.* That the connection's lists hold exactly what is open
is `OrderOK`: what is in a slot is live, open and remembers that slot, and what is
open is in the slot it remembers, while the connection is open, is not being
closed and nothing has failed (`InOrder`). It is kept only together with the rest
of `ListInv`:

- `NoteOK`: what the calls in `todo` do on whose behalf: the loops of
  `dpiConn__close` run while the connection is marked closing, and a handle is
  closed with errors propagated only for a program that holds it, or by the
  connection.
- `ConnOK`: a connection that is marked closing will come to end its session, has
  its OCI handle until then, and its session if no close has failed; the
  environment is freed only with the connection.
- `OciOK`: the OCI handle of a LOB or object that is closed is not open, one that is
  about to be freed was closed, and those of messages, options, JSON values and
  SODA collections and documents last as long as they do.

`ListStepKeeps` has a case for each action; most of them leave the lists alone and
are settled by a lemma about what such a step does (`GoesOn`). From `Inv` and
`ListInv` together follow `ListsOpenHandles`, `UsesOpen`, and `PointsToLive` with
`ClosesLive`: everything that leads to a handle either is counted by `Inv`, or is a
list, or is a call, of which `WorkLive` goes through the kinds. The one that it
cannot settle is a statement being closed that only variables keep: that
is how the circle of section 6 was found. TLC checked `ListInv` on all
scenarios first.

`HandleListProofs!TypeCorrect` and `SessionPoolProofs!TypeCorrect` are about
invariants that no run lists, since the other theorems rest on them.

Only model-checked: of `Handles`, `NothingLeaks` and `OciOutlived`; what the theorems above
exclude by their hypotheses (such as `CloseClosesAll` when `dpiStmt__init` fails);
and all liveness properties, which are outside of what the prover does.

## 6. Where code and comments disagree

Each of these is a run that TLC refutes.

- `fetch_stale`: `dpiStmt.c:482` "indicate start of fetch" sets
  `bufferRowIndex` to `fetchArraySize`; if the array size was made smaller than
  the last `bufferRowCount`, rows of the earlier execution are handed out.
- `handles_close_sweep`: "a reference needs to be acquired first, as otherwise
  the statement may be freed while the close is being performed!"
  (`dpiConn.c:183-187`) and, of LOBs, "the same comments apply as for statements"
  (`dpiConn.c:211`). The reference is taken when the loop comes to the handle. A
  statement that is closed before that releases the variable of its column,
  which frees the LOBs and cursors in it; as the connection is closing they do
  not leave their lists, and the loop reads freed memory.
- `environment_base_date`: "Return the base date (January 1, 1970 UTC)"
  (`dpiEnv.c:33`). The descriptor is stored in the environment before it is
  constructed (`dpiEnv.c:67`): a second thread uses one that is empty, as does
  every call after the construction has failed.

Also seen while modelling, and avoided by the constants of the passing runs or
told by a property's comment. In statements and connections:

- The closing loop reads a slot and then the statement's check integer; a
  statement that another thread frees after `closing` was set does not leave
  the list (`dpiStmt.c:351`), so that what is read may be freed memory. In
  `StmtLifetime` such an access is let pass, because it only reads.
- `dpiStmt__close` sets `parentStmt` to NULL before it tests it at line 351: closing
  an implicit result empties slot 0 of the list, which is another statement's.
  `stmt_sequential` has no implicit results.
- `dpiStmt__close` leaves `lastRowid` in place (`dpiStmt.c:338`): when releasing the
  statement fails, closing it again releases the rowid twice. The scenarios of
  `handles` have last rowids and failing releases, not both.
- `dpiStmt__reExecute` binds its variables again without giving back the
  reference it had (`dpiStmt.c:1067`). `dpiStmt__createBindVar` (432),
  `dpiStmt_defineValue` (1250) and `dpiStmt__beforeFetch` (984) forget the variable
  they made when what follows fails. `lost` has these variables.
- Binding bytes to PL/SQL converts the variable; if that fails the bind has no
  variable, which `dpiStmt_execute` does not expect (`dpiStmt.c:576`).
- Two statements bound to variables that hold each other, and which the program
  has released, are kept only by each other, until the connection is closed:
  `NothingLeaks` leaves such circles out (`KeepEachOther`). If the environment is
  not threaded the loop of `dpiConn__close` takes no reference (`dpiConn.c:189`,
  against the comment at 183-187): closing the first statement gives back its
  variable, with that the second statement, its variable and the first, which is
  freed within its own close. `PointsToLive` has the exception; the proof of
  it failed without. `ClosedLive` proves the rest.
- `dpiConn__close` ends the session and frees its handle (`dpiConn.c:244-247`), then
  detaches from the server. When that fails (250) `conn->handle` stays set and
  `closing` is reset: although `dpiConn__checkConnected` is to "check to see if the
  connection is still open" (99), the functions of the connection are let through
  to a session handle that is NULL (686), and a close that is tried again
  calls OCISessionEnd with it. `UsesOpen` and `ReleasedOnce` have the exceptions;
  in the models that call fails or succeeds.
- A rowid holds neither connection nor environment, and frees its descriptor
  when it is released: after the environment if the program keeps it so long.
  `OciOutlived` leaves rowids out.
- If returned rows do not fit, `dpiVar__outBindCallback` frees the buffer and
  makes it anew (`dpiVar.c:1062`); when that fails it is half-made.
- A ring that is full of returned handles reads as empty (`dpiHandlePool.c:49`):
  the handles are never used again. `LosesOnlyWhenIdle` bounds when.
- Scroll mode *prior* and relative offsets count from the end of the buffer,
  where the cursor is, not from the current row (`dpiStmt.c:1856`, 1868);
  directly after an execution the offset is one off. After a new execution a
  scroll may find its row in the buffer of the old one (1876).
- `dpiStmt_getQueryValue` returns the row of an earlier execution (1751), where
  `dpiErrorMessages.h:62` has an error for it. A failing conversion leaves
  rows that are fetched and not converted (701).
- `dpiConn_prepareStmt` frees a listed statement directly when its
  initialisation fails (2324). A close that finds another close of the same
  statement in progress returns before it is done (331), so that the session may
  end under it.
- A statement that one thread prepares while another closes the connection is
  not on the list until `dpiStmt.c:1011`: the loop does not see it, and it is still
  open when the session has ended. `CloseClosesAll` is for one thread.

In the other handles and the environment:

- A failed creation of an object empties slot 0 of the list of objects
  (`dpiObject.c:67`, with an instance but no slot). A failed close leaves freed
  handles in the lists. Both make `conn.ordered` false.
- A message never gives back its JSON payload (`dpiMsgProps.c:74-97`).
- The transaction handle is freed after the environment it was allocated from
  (`dpiConn.c:584`). `OciOutlived` is not about it: it has a state of its own,
  `tpc.handle`.
- `commitMode` stays two-phase after a rollback or forget (`dpiConn.c:2735`) and is
  used by the next local commit.
- A queue whose buffer cannot be allocated believes that it has one
  (`dpiQueue.c:94`). Memory that cannot be allocated is not modelled.
- When the global initialisation fails, the environment is freed and
  `dpiGlobalEnvHandle` keeps it (`dpiGlobal.c:141`); at exit it is freed again.
  Threads that fail at the same time share one error buffer.
- With an external service context, a failure between `dpiConn.c:393` and 407
  leaves the call with an error handle of the temporary environment, for which
  there is no pool yet. `Environment` has no external service contexts.

In subscriptions and sessions:

- "Once this call completes successfully no further notifications will be sent"
  (`dpiConn.c:2763-2764`): `registered` is read outside of the mutex, and a
  notification that ends the registration clears it before the program's callback
  runs (`Deregisters = TRUE`).
- A notification on its way while the last reference is released touches freed
  memory or frees the subscription again: the callback holds no reference until
  `dpiSubscr.c:80`. A callback that unsubscribes waits for its own mutex. Of two
  threads that unsubscribe at the same time the second fails and keeps its
  reference. A notification before line 265 is dropped.
- "drop the session if any errors take place" (`dpiConn.c:141-142`): when a
  connection is released without being closed, the error of the rollback is not
  reported, and the session goes back with its transaction
  (`ReleasesOpen = TRUE`).
- If setting the time last used fails (`dpiConn.c:301`), the session goes back
  without one and is taken for new (failure `contextSet`).
- `dpiOci__sessionPoolDestroy` clears `pool->handle` for as long as it runs
  (`dpiOci.c:3197`): connections closed meanwhile skip their bookkeeping, and
  two closes that both fail leave the open pool without its handle.
- "Errors are expected to be propagated" from dpiConn_close (`dpiConn.c:128-129`), but
  are not with DPI_MODE_CONN_CLOSE_DROP (1509): if OCISessionRelease fails, the
  call succeeds and the connection has forgotten a session that the pool still
  counts as busy. The same happens when `dpiConn__free` closes, and after a failed
  ping (974). Such a session is never used again, and the pool can only be closed by
  force. `session_pool` has this; `BusyIsOwned` says that nothing else loses one.
- "Keep original values so that they can be restored after the ping is completed"
  (`dpiConn.c:942-943`): the results of all calls that get, set and restore the
  timeouts are ignored. If one cannot be got, what is restored is a variable that
  is not initialised; if it cannot be restored, the connection keeps that of the ping.
- After a failed ping the session is dropped without freeing the memory of its
  time last used, as `dpiConn.c:286` does in order to "avoid memory leak". 
- A pooled connection whose creation fails before `conn->pool` is set frees the
  environment of the pool (`dpiConn.c:564`).

## 7. What is not modelled

- *OCI itself* and the database, other than what the code relies on.
- *Wrappers* (`dpiOci.c` mostly, attributes of `dpiConn.c` and `dpiPool.c`): one
  OCI call each, no state of their own.
- *Texts, codes and debug output* (`dpiErrorMessages.h`, `dpiDebug.c`).
- *Values* (`dpiData.c`, `dpiUtils.c`, `dpiOracleType.c`): pure conversions of
  numbers, dates and intervals, over strings and calendar fields that a model
  would have to copy digit by digit. One boundary was found by reading and is
  listed as a hazard: a number of 40 significant digits whose decimal point is at
  an odd position passes the check of `dpiUtils.c:408`, gets a leading zero at
  `dpiData.c:470` and becomes 21 mantissa bytes, one more than `dpiUtils.c:436`
  accepts when the number is read back.
- *OracleNIO*: sequences of calls of ODPI-C, with values that only pass through.
- *The timeouts of a ping* (section 6).
- *Memory that cannot be allocated*, in all modules but `Environment`.
- Within modelled components: batch errors, parse-only execution; raw
  payloads, arrays of values and chunks of bytes; threads that share handles
  other than statements, subscriptions, sessions and base dates; pool
  attributes, tagged and proxy sessions, the access token callback; the contents
  of notifications; the array of the open-handle list being replaced while the
  closing loop reads it; a connection that is marked as closing between the check
  of `dpiConn_prepareStmt` and its allocation of the statement.
- Weak memory: reads without a mutex see the last value written.

## 8. Plan

Done: all modules of section 3, with proofs of all of them. What would add most
next:

1. Two threads in `Handles`: the steps of a free function interleaved with
   another thread's use of what is held.
2. Theorems: `NothingLeaks` and `OciOutlived` of `Handles`; for `StmtLifetime`,
   what holds of the list when there are implicit results.
3. The arrays and chunks of `dpiVar.c`, against an abstract variable that is a
   sequence of values.
4. The Swift layer: queries on the thread pool, rows on the event loop, close.
