--------------------------- MODULE StmtLifetime ---------------------------
(***************************************************************************)
(* How the statements of one connection live and die: reference counts     *)
(* (dpiGen__setRefCount), closing and freeing a statement (dpiStmt.c),     *)
(* closing and freeing the connection (dpiConn.c), and the connection's    *)
(* list of open statements (HandleList).                                   *)
(*                                                                         *)
(* A thread executes one public function at a time.  stack[t] holds the    *)
(* C functions it is in, innermost first; a frame says where its function  *)
(* will go on (at), with which statement (s), at which slot of the list    *)
(* (i), whether errors are propagated and the status it was returned (ok). *)
(* Code that runs under a mutex is one step; a read or a write outside of  *)
(* one is a step of its own where another thread may come between.         *)
(*                                                                         *)
(* The connection is standalone.  Memory of a freed statement is not given *)
(* out again, and reads as it was left: its check integer is cleared.      *)
(***************************************************************************)
EXTENDS Integers, Sequences, FiniteSets

CONSTANTS
    Threads,        \* threads of the program
    Stmts,          \* the blocks of memory used for statements
    NULL,
    InitialSlots, Growth,   \* of the list of open statements
    Threaded,       \* whether the environment is in threaded mode
    ImplicitResults,\* whether statements return implicit results
    Failures        \* the calls that may fail

ASSUME StmtLifetimeAssumption ==
    /\ IsFiniteSet(Threads) /\ IsFiniteSet(Stmts)
    /\ NULL \notin Stmts
    /\ InitialSlots \in Nat \ {0} /\ Growth \in Nat \ {0, 1}
    /\ Threaded \in BOOLEAN /\ ImplicitResults \in BOOLEAN
    /\ Threaded \/ Cardinality(Threads) = 1
    /\ Failures \subseteq {"prepare", "addHandle", "init", "createQueryVars",
                           "stmtRelease", "rollback", "sessionEnd",
                           "serverDetach"}

VARIABLES
    mem,            \* "unused", "live" or "freed"
    refCount,       \* stmt->refCount; the check integer is cleared at 0
    closing,        \* stmt->closing
    handle,         \* whether stmt->handle is not NULL
    parent,         \* stmt->parentStmt
    oci,            \* the OCI statement handle: "none", "open", "released"
    connLive,       \* whether the memory of the connection is allocated
    connRefs,       \* conn->refCount
    connClosing,    \* conn->closing
    connHandle,     \* whether conn->handle is not NULL
    sessionHandle,  \* whether conn->sessionHandle is not NULL
    deadSession,    \* conn->deadSession
    numSlots, numUsedSlots, currentPos, openStmts, openSlotNum, \* the list
    userStmts,      \* the references to statements each thread owns
    userConn,       \* the threads that own a reference to the connection
    stack

listVars == <<numSlots, numUsedSlots, currentPos, openStmts, openSlotNum>>
stmtVars == <<mem, refCount, closing, handle, parent, oci>>
connVars == <<connLive, connRefs, connClosing, connHandle, sessionHandle,
              deadSession>>
userVars == <<userStmts, userConn>>
vars == <<stmtVars, connVars, listVars, userVars, stack>>

List == INSTANCE HandleList WITH
    Items <- Stmts, handles <- openStmts,
    open <- {s \in Stmts : mem[s] = "live"}

-----------------------------------------------------------------------------
(* The stack of a thread. *)
Frame(at, s, propagate) ==
    [at |-> at, s |-> s, i |-> 0, propagate |-> propagate, ok |-> TRUE]

At(t, at) == stack[t] # <<>> /\ Head(stack[t]).at = at
Top(t) == Head(stack[t])

Start(t, f) == stack' = [stack EXCEPT ![t] = <<f>>]
GoOn(t, f) == stack' = [stack EXCEPT ![t] = <<f>> \o Tail(@)]
GoTo(t, at) == GoOn(t, [Top(t) EXCEPT !.at = at])
Call(t, callee, f) == stack' = [stack EXCEPT ![t] = <<callee, f>> \o Tail(@)]
ReturnVoid(t) == stack' = [stack EXCEPT ![t] = Tail(@)]
Return(t, status) ==
    stack' = [stack EXCEPT ![t] =
                 IF Len(@) = 1 THEN <<>>
                 ELSE <<[@[2] EXCEPT !.ok = status]>> \o Tail(Tail(@))]

(* dpiGen__checkHandle: the check integer is in place. *)
Valid(s) == mem[s] = "live" /\ refCount[s] > 0

(* dpiConn__checkConnected and dpiStmt__check. *)
Connected == connHandle /\ ~connClosing /\ ~deadSession
Usable(s) ==
    /\ handle[s]
    /\ parent[s] # NULL => handle[parent[s]]
    /\ Connected

(***************************************************************************)
(* dpiGen__setRefCount(..., -1), under the environment's mutex; whoever    *)
(* brings the count to zero goes on to free the handle and then does f.    *)
(***************************************************************************)
ReleaseStmtRef(t, s, f) ==
    /\ refCount' = [refCount EXCEPT ![s] = @ - 1]
    /\ IF refCount[s] = 1 THEN Call(t, Frame("stmtFree", s, FALSE), f)
                          ELSE GoOn(t, f)

ReleaseConnRef(t, f) ==
    /\ connRefs' = connRefs - 1
    /\ IF connRefs = 1 THEN Call(t, Frame("connFree", NULL, FALSE), f)
                       ELSE GoOn(t, f)

-----------------------------------------------------------------------------
Init ==
    /\ mem = [s \in Stmts |-> "unused"]
    /\ refCount = [s \in Stmts |-> 0]
    /\ closing = [s \in Stmts |-> FALSE]
    /\ handle = [s \in Stmts |-> FALSE]
    /\ parent = [s \in Stmts |-> NULL]
    /\ oci = [s \in Stmts |-> "none"]
    /\ connLive = TRUE
    /\ connRefs = Cardinality(Threads)
    /\ connClosing = FALSE
    /\ connHandle = TRUE /\ sessionHandle = TRUE
    /\ deadSession = FALSE
    /\ List!InitList
    /\ userStmts = [t \in Threads |-> {}]
    /\ userConn = Threads
    /\ stack = [t \in Threads |-> <<>>]

(* A thread may call a public function when it has returned from the last. *)
Idle(t) == stack[t] = <<>>

(* MUTANT: the statement does not hold its connection. *)
AllocateUnheld(s) ==
    /\ mem[s] = "unused"
    /\ mem' = [mem EXCEPT ![s] = "live"]
    /\ refCount' = [refCount EXCEPT ![s] = 1]
    /\ UNCHANGED connRefs

(* dpiStmt__allocate with a reference to the connection. *)
Allocate(s) ==
    /\ mem[s] = "unused"
    /\ mem' = [mem EXCEPT ![s] = "live"]
    /\ refCount' = [refCount EXCEPT ![s] = 1]
    /\ connRefs' = connRefs + 1

(* dpiConn_prepareStmt begins. *)
PrepareStmt(t) ==
    /\ Idle(t) /\ t \in userConn
    /\ Connected
    /\ \E s \in Stmts :
          /\ Allocate(s)
          /\ Start(t, Frame("prepare", s, TRUE))
    /\ UNCHANGED <<closing, handle, parent, oci, connLive, connClosing,
                   connHandle, sessionHandle, deadSession, listVars, userVars>>

(* dpiOci__stmtPrepare2 in dpiStmt__prepare. *)
StmtPrepare2(t) ==
    /\ At(t, "prepare")
    /\ LET s == Top(t).s IN
       \/ /\ handle' = [handle EXCEPT ![s] = TRUE]
          /\ oci' = [oci EXCEPT ![s] = "open"]
          /\ GoTo(t, "addHandle")
       \/ /\ "prepare" \in Failures
          /\ GoTo(t, "stmtFree")
          /\ UNCHANGED <<handle, oci>>
    /\ UNCHANGED <<mem, refCount, closing, parent, connVars, listVars,
                   userVars>>

(* The statement is added to the list of open ones. *)
StmtAddHandle(t) ==
    /\ At(t, "addHandle")
    /\ LET s == Top(t).s IN
       \/ /\ List!AddHandle(s)
          /\ GoTo(t, "init")
          /\ UNCHANGED <<handle, oci>>
       \/ /\ "addHandle" \in Failures
          /\ numUsedSlots = numSlots
          /\ oci' = [oci EXCEPT ![s] = "released"]
          /\ handle' = [handle EXCEPT ![s] = FALSE]
          /\ GoTo(t, "stmtFree")
          /\ UNCHANGED listVars
    /\ UNCHANGED <<mem, refCount, closing, parent, connVars, userVars>>

(* dpiStmt__init; if it fails the new statement is freed at once. *)
StmtInit(t) ==
    /\ At(t, "init")
    /\ \/ /\ userStmts' = [userStmts EXCEPT ![t] = @ \cup {Top(t).s}]
          /\ ReturnVoid(t)
       \/ /\ "init" \in Failures
          /\ GoTo(t, "stmtFree")
          /\ UNCHANGED userStmts
    /\ UNCHANGED <<stmtVars, connVars, listVars, userConn>>

(***************************************************************************)
(* dpiStmt_getImplicitResult: a statement for the OCI handle that a        *)
(* procedure returned, with a reference to the statement that called it.   *)
(* It is not put on the list; its openSlotNum stays 0.                     *)
(***************************************************************************)
GetImplicitResult(t, p) ==
    /\ ImplicitResults
    /\ Idle(t) /\ p \in userStmts[t]
    /\ Usable(p)
    /\ \E s \in Stmts :
          /\ mem[s] = "unused"
          /\ mem' = [mem EXCEPT ![s] = "live"]
          /\ refCount' = [refCount EXCEPT ![s] = 1, ![p] = @ + 1]
          /\ connRefs' = connRefs + 1
          /\ handle' = [handle EXCEPT ![s] = TRUE]
          /\ parent' = [parent EXCEPT ![s] = p]
          /\ \/ /\ userStmts' = [userStmts EXCEPT ![t] = @ \cup {s}]
                /\ UNCHANGED stack
             \/ /\ "createQueryVars" \in Failures
                /\ Start(t, Frame("stmtFree", s, FALSE))
                /\ UNCHANGED userStmts
    /\ UNCHANGED <<closing, oci, connLive, connClosing, connHandle,
                   sessionHandle, deadSession, listVars, userConn>>

(* dpiStmt_addRef: the new reference is given to another thread. *)
AddRefFor(t, s, u) ==
    /\ Idle(t) /\ s \in userStmts[t] /\ s \notin userStmts[u]
    /\ refCount' = [refCount EXCEPT ![s] = @ + 1]
    /\ userStmts' = [userStmts EXCEPT ![u] = @ \cup {s}]
    /\ UNCHANGED <<mem, closing, handle, parent, oci, connVars, listVars,
                   userConn, stack>>

(* dpiStmt_release. *)
ReleaseStmt(t, s) ==
    /\ Idle(t) /\ s \in userStmts[t]
    /\ userStmts' = [userStmts EXCEPT ![t] = @ \ {s}]
    /\ Start(t, Frame("unref", s, FALSE))
    /\ UNCHANGED <<stmtVars, connVars, listVars, userConn>>

Unref(t) ==
    /\ At(t, "unref")
    /\ ReleaseStmtRef(t, Top(t).s, Frame("end", NULL, FALSE))
    /\ UNCHANGED <<mem, closing, handle, parent, oci, connVars, listVars,
                   userVars>>

(* dpiGen__endPublicFn of a function that ignored what happened inside. *)
EndPublicFn(t) ==
    /\ At(t, "end")
    /\ ReturnVoid(t)
    /\ UNCHANGED <<stmtVars, connVars, listVars, userVars>>

-----------------------------------------------------------------------------
(* dpiStmt_close. *)
CloseStmt(t, s) ==
    /\ Idle(t) /\ s \in userStmts[t]
    /\ Usable(s)
    /\ Start(t, Frame("stmtClose", s, TRUE))
    /\ UNCHANGED <<stmtVars, connVars, listVars, userVars>>

(* MUTANT: closing is set but not tested. *)
StmtMarkUntested(t) ==
    /\ At(t, "stmtClose")
    /\ LET s == Top(t).s IN
          /\ closing' = [closing EXCEPT ![s] = TRUE]
          /\ IF handle[s] THEN GoTo(t, "stmtRelease") ELSE Return(t, TRUE)
    /\ UNCHANGED <<mem, refCount, handle, parent, oci, connVars, listVars,
                   userVars>>

(* dpiStmt__close tests and sets closing under the environment's mutex. *)
StmtMarkClosing(t) ==
    /\ At(t, "stmtClose")
    /\ LET s == Top(t).s IN
          /\ closing' = [closing EXCEPT ![s] = TRUE]
          /\ IF closing[s] THEN Return(t, TRUE)
             ELSE IF handle[s] THEN GoTo(t, "stmtRelease")
             ELSE Return(t, TRUE)
    /\ UNCHANGED <<mem, refCount, handle, parent, oci, connVars, listVars,
                   userVars>>

(* The statement has a parent: the reference to it is given back. *)
StmtReleaseParent(t) ==
    /\ At(t, "stmtRelease")
    /\ LET s == Top(t).s IN
          /\ parent[s] # NULL
          /\ ReleaseStmtRef(t, parent[s], [Top(t) EXCEPT !.at = "unparent"])
    /\ UNCHANGED <<mem, closing, handle, parent, oci, connVars, listVars,
                   userVars>>

StmtClearParent(t) ==
    /\ At(t, "unparent")
    /\ parent' = [parent EXCEPT ![Top(t).s] = NULL]
    /\ GoTo(t, "unlist")
    /\ UNCHANGED <<mem, refCount, closing, handle, oci, connVars, listVars,
                   userVars>>

(* It has none: is there a session to release the OCI statement on? *)
StmtCheckSession(t) ==
    /\ At(t, "stmtRelease")
    /\ parent[Top(t).s] = NULL
    /\ GoTo(t, IF ~deadSession /\ connHandle THEN "ociRelease" ELSE "unlist")
    /\ UNCHANGED <<stmtVars, connVars, listVars, userVars>>

(* dpiOci__stmtRelease; the handle is given up even if this fails. *)
OciStmtRelease(t) ==
    /\ At(t, "ociRelease")
    /\ oci' = [oci EXCEPT ![Top(t).s] = "released"]
    /\ \E ok \in BOOLEAN :
          /\ ok \/ ("stmtRelease" \in Failures /\ Top(t).propagate)
          /\ GoOn(t, [Top(t) EXCEPT !.at = "unlist", !.ok = ok])
    /\ UNCHANGED <<mem, refCount, closing, handle, parent, connVars, listVars,
                   userVars>>

(* The statement leaves the list, unless the connection is being closed. *)
StmtCheckListed(t) ==
    /\ At(t, "unlist")
    /\ GoTo(t, IF ~connClosing /\ parent[Top(t).s] = NULL
               THEN "removeHandle" ELSE "closed")
    /\ UNCHANGED <<stmtVars, connVars, listVars, userVars>>

(* MUTANT: it is always the first slot that is emptied. *)
StmtRemoveFirst(t) ==
    /\ At(t, "removeHandle")
    /\ List!RemoveHandle(0)
    /\ GoTo(t, "closed")
    /\ UNCHANGED <<stmtVars, connVars, userVars>>

StmtRemoveHandle(t) ==
    /\ At(t, "removeHandle")
    /\ List!RemoveHandle(openSlotNum[Top(t).s])
    /\ GoTo(t, "closed")
    /\ UNCHANGED <<stmtVars, connVars, userVars>>

(* dpiStmt__close ends; it can be tried again if it failed. *)
StmtClosed(t) ==
    /\ At(t, "closed")
    /\ handle' = [handle EXCEPT ![Top(t).s] = FALSE]
    /\ closing' = IF Top(t).ok THEN closing
                  ELSE [closing EXCEPT ![Top(t).s] = FALSE]
    /\ Return(t, Top(t).ok)
    /\ UNCHANGED <<mem, refCount, parent, oci, connVars, listVars, userVars>>

-----------------------------------------------------------------------------
(* dpiStmt__free: close, give back the references held, free the memory. *)
StmtFree(t) ==
    /\ At(t, "stmtFree")
    /\ Call(t, Frame("stmtClose", Top(t).s, FALSE),
            Frame("freeParent", Top(t).s, FALSE))
    /\ UNCHANGED <<stmtVars, connVars, listVars, userVars>>

StmtFreeParent(t) ==
    /\ At(t, "freeParent")
    /\ LET s == Top(t).s
           f == Frame("freeConn", s, FALSE)
       IN  IF parent[s] = NULL THEN GoOn(t, f) /\ UNCHANGED refCount
           ELSE ReleaseStmtRef(t, parent[s], f)
    /\ UNCHANGED <<mem, closing, handle, parent, oci, connVars, listVars,
                   userVars>>

StmtFreeConn(t) ==
    /\ At(t, "freeConn")
    /\ ReleaseConnRef(t, Frame("freeMemory", Top(t).s, FALSE))
    /\ UNCHANGED <<stmtVars, connLive, connClosing, connHandle, sessionHandle,
                   deadSession, listVars, userVars>>

StmtFreeMemory(t) ==
    /\ At(t, "freeMemory")
    /\ mem' = [mem EXCEPT ![Top(t).s] = "freed"]
    /\ parent' = [parent EXCEPT ![Top(t).s] = NULL]
    /\ ReturnVoid(t)
    /\ UNCHANGED <<refCount, closing, handle, oci, connVars, listVars,
                   userVars>>

-----------------------------------------------------------------------------
(* dpiConn_close, with DPI_MODE_CONN_CLOSE_DROP if errors are ignored. *)
CloseConn(t) ==
    /\ Idle(t) /\ t \in userConn
    /\ connHandle /\ ~connClosing
    /\ Start(t, Frame("markClosing", NULL, TRUE))
    /\ UNCHANGED <<stmtVars, connVars, listVars, userVars>>

(* It tests and sets closing under the environment's mutex. *)
ConnMarkClosing(t) ==
    /\ At(t, "markClosing")
    /\ connClosing' = TRUE
    /\ IF connClosing THEN ReturnVoid(t)
       ELSE Call(t, Frame("connClose", NULL, TRUE),
                 Frame("connClosed", NULL, TRUE))
    /\ UNCHANGED <<stmtVars, connLive, connRefs, connHandle, sessionHandle,
                   deadSession, listVars, userVars>>

(* dpiConn__close rolls back; the session is dead if that fails. *)
ConnRollback(t) ==
    /\ At(t, "connClose")
    /\ \/ UNCHANGED deadSession
       \/ /\ sessionHandle /\ "rollback" \in Failures /\ Top(t).propagate
          /\ deadSession' = TRUE
    /\ GoTo(t, "nextSlot")
    /\ UNCHANGED <<stmtVars, connLive, connRefs, connClosing, connHandle,
                   sessionHandle, listVars, userVars>>

(* MUTANT: the last slot is not looked at. *)
ConnReadShort(t) ==
    /\ At(t, "nextSlot")
    /\ LET i == Top(t).i IN
       IF i >= numSlots - 1
       THEN GoOn(t, [Top(t) EXCEPT !.at = "sessionEnd", !.i = 0])
       ELSE IF openStmts[i] = NULL THEN GoOn(t, [Top(t) EXCEPT !.i = i + 1])
       ELSE GoOn(t, [Top(t) EXCEPT !.at = "takeRef", !.s = openStmts[i]])
    /\ UNCHANGED <<stmtVars, connVars, listVars, userVars>>

(* It reads the next slot of the list, without the mutex of the list. *)
ConnReadSlot(t) ==
    /\ At(t, "nextSlot")
    /\ LET i == Top(t).i IN
       IF i >= numSlots
       THEN GoOn(t, [Top(t) EXCEPT !.at = "sessionEnd", !.i = 0])
       ELSE IF openStmts[i] = NULL THEN GoOn(t, [Top(t) EXCEPT !.i = i + 1])
       ELSE GoOn(t, [Top(t) EXCEPT !.at = "takeRef", !.s = openStmts[i]])
    /\ UNCHANGED <<stmtVars, connVars, listVars, userVars>>

(* MUTANT: the loop does not go on to the next slot. *)
SameSlot(f) == [f EXCEPT !.at = "nextSlot", !.s = NULL]

NextSlot(f) == [f EXCEPT !.at = "nextSlot", !.s = NULL, !.i = f.i + 1]

(* In threaded mode it takes a reference to the statement if it is valid. *)
ConnTakeRef(t) ==
    /\ At(t, "takeRef")
    /\ LET s == Top(t).s
           close == Call(t, Frame("stmtClose", s, Top(t).propagate),
                         [Top(t) EXCEPT !.at = "dropRef"])
       IN  IF ~Threaded THEN close /\ UNCHANGED refCount
           ELSE IF Valid(s)
           THEN close /\ refCount' = [refCount EXCEPT ![s] = @ + 1]
           ELSE GoOn(t, NextSlot(Top(t))) /\ UNCHANGED refCount
    /\ UNCHANGED <<mem, closing, handle, parent, oci, connVars, listVars,
                   userVars>>

(* MUTANT: the reference taken for the close is not given back. *)
ConnKeepRef(t) ==
    /\ At(t, "dropRef")
    /\ GoTo(t, "slotDone")
    /\ UNCHANGED <<stmtVars, connVars, listVars, userVars>>

(* After dpiStmt__close it gives the reference back. *)
ConnDropRef(t) ==
    /\ At(t, "dropRef")
    /\ LET f == [Top(t) EXCEPT !.at = "slotDone"] IN
       IF Threaded THEN ReleaseStmtRef(t, Top(t).s, f)
       ELSE GoOn(t, f) /\ UNCHANGED refCount
    /\ UNCHANGED <<mem, closing, handle, parent, oci, connVars, listVars,
                   userVars>>

(* The close of the connection fails with that of the statement. *)
ConnSlotDone(t) ==
    /\ At(t, "slotDone")
    /\ IF Top(t).ok THEN GoOn(t, NextSlot(Top(t))) ELSE Return(t, FALSE)
    /\ UNCHANGED <<stmtVars, connVars, listVars, userVars>>

(***************************************************************************)
(* The session is ended and its handle is freed; then the connection is    *)
(* detached from the server, and the other handles are freed.  If ending   *)
(* the session fails, which it may without a session handle, nothing has   *)
(* changed; if detaching does, the session has ended but is still there    *)
(* for those who look at conn->handle.                                     *)
(***************************************************************************)
ConnSessionEnd(t) ==
    /\ At(t, "sessionEnd")
    /\ \/ /\ connHandle' = FALSE /\ sessionHandle' = FALSE
          /\ Return(t, TRUE)
       \/ /\ Top(t).propagate
          /\ "sessionEnd" \in Failures \/ ~sessionHandle
          /\ Return(t, FALSE)
          /\ UNCHANGED <<connHandle, sessionHandle>>
       \/ /\ "serverDetach" \in Failures /\ Top(t).propagate
          /\ sessionHandle' = FALSE
          /\ Return(t, FALSE)
          /\ UNCHANGED connHandle
    /\ UNCHANGED <<stmtVars, connLive, connRefs, connClosing, deadSession,
                   listVars, userVars>>

(* dpiConn_close ends; it can be tried again if it failed. *)
ConnClosed(t) ==
    /\ At(t, "connClosed")
    /\ connClosing' = Top(t).ok
    /\ ReturnVoid(t)
    /\ UNCHANGED <<stmtVars, connLive, connRefs, connHandle, sessionHandle,
                   deadSession, listVars, userVars>>

(* dpiConn_release. *)
ReleaseConn(t) ==
    /\ Idle(t) /\ t \in userConn
    /\ userConn' = userConn \ {t}
    /\ Start(t, Frame("unrefConn", NULL, FALSE))
    /\ UNCHANGED <<stmtVars, connVars, listVars, userStmts>>

UnrefConn(t) ==
    /\ At(t, "unrefConn")
    /\ ReleaseConnRef(t, Frame("end", NULL, FALSE))
    /\ UNCHANGED <<stmtVars, connLive, connClosing, connHandle, sessionHandle,
                   deadSession, listVars, userVars>>

(* dpiConn__free: a connection that is still open is closed first. *)
ConnFree(t) ==
    /\ At(t, "connFree")
    /\ LET f == Frame("connFreeMemory", NULL, FALSE) IN
       IF connHandle THEN Call(t, Frame("connClose", NULL, FALSE), f)
       ELSE GoOn(t, f)
    /\ UNCHANGED <<stmtVars, connVars, listVars, userVars>>

ConnFreeMemory(t) ==
    /\ At(t, "connFreeMemory")
    /\ connLive' = FALSE
    /\ ReturnVoid(t)
    /\ UNCHANGED <<stmtVars, connRefs, connClosing, connHandle, sessionHandle,
                   deadSession, listVars, userVars>>

-----------------------------------------------------------------------------
(* A thread calls a public function ... *)
Begin(t) ==
    \/ PrepareStmt(t)
    \/ CloseConn(t)
    \/ ReleaseConn(t)
    \/ \E s \in Stmts :
          \/ GetImplicitResult(t, s)
          \/ CloseStmt(t, s)
          \/ ReleaseStmt(t, s)
          \/ \E u \in Threads : AddRefFor(t, s, u)

(* ... and goes on with it. *)
Continue(t) ==
    \/ StmtPrepare2(t)
    \/ StmtAddHandle(t)
    \/ StmtInit(t)
    \/ Unref(t)
    \/ EndPublicFn(t)
    \/ StmtMarkClosing(t)
    \/ StmtReleaseParent(t)
    \/ StmtClearParent(t)
    \/ StmtCheckSession(t)
    \/ OciStmtRelease(t)
    \/ StmtCheckListed(t)
    \/ StmtRemoveHandle(t)
    \/ StmtClosed(t)
    \/ StmtFree(t)
    \/ StmtFreeParent(t)
    \/ StmtFreeConn(t)
    \/ StmtFreeMemory(t)
    \/ ConnMarkClosing(t)
    \/ ConnRollback(t)
    \/ ConnReadSlot(t)
    \/ ConnTakeRef(t)
    \/ ConnDropRef(t)
    \/ ConnSlotDone(t)
    \/ ConnSessionEnd(t)
    \/ ConnClosed(t)
    \/ UnrefConn(t)
    \/ ConnFree(t)
    \/ ConnFreeMemory(t)

Next == \E t \in Threads : Begin(t) \/ Continue(t)

Spec == Init /\ [][Next]_vars

(* The threads keep running: a function that can go on does. *)
FairSpec == Spec /\ \A t \in Threads : WF_vars(Continue(t))

-----------------------------------------------------------------------------
Frames(t) == {stack[t][k] : k \in 1 .. Len(stack[t])}
InFrame(s, labels) ==
    \E t \in Threads : \E f \in Frames(t) : f.s = s /\ f.at \in labels

Freeing == {"stmtFree", "freeParent", "freeConn", "freeMemory"}
(* Where a function works on a statement that it may use. *)
InStmt == {"prepare", "addHandle", "init", "unref", "stmtClose",
           "stmtRelease", "unparent", "ociRelease", "unlist", "removeHandle",
           "closed", "dropRef"} \cup Freeing

(* Where a call holds a reference of its own to the statement it works on. *)
HoldingLabels == {"prepare", "addHandle", "init", "unref"}
                 \cup (IF Threaded THEN {"dropRef"} ELSE {})

(* What keeps a statement alive: the references users own, those of calls   *)
(* in progress, and those of its implicit results.                          *)
Holders(s) ==
    {<<t, "user">> : t \in {u \in Threads : s \in userStmts[u]}}
    \cup {h \in Threads \X HoldingLabels :
              \E f \in Frames(h[1]) : f.s = s /\ f.at = h[2]}
    \cup {<<c, "result">> : c \in {d \in Stmts : parent[d] = s /\
             ~InFrame(d, {"unparent", "freeConn", "freeMemory"})}}

(* A statement counts exactly the references that exist to it, so none is   *)
(* freed while somebody may use it and none is kept for ever.               *)
CountsReferences ==
    \A s \in Stmts : mem[s] = "live" /\ ~InFrame(s, Freeing)
                        => refCount[s] = Cardinality(Holders(s))

(* Whatever a thread owns or works on is allocated memory, the parent of an *)
(* implicit result and the connection of a statement included.              *)
HeldIsLive ==
    /\ \A t \in Threads :
          /\ \A s \in userStmts[t] : mem[s] = "live"
          /\ \A f \in Frames(t) : f.at \in InStmt => mem[f.s] = "live"
    /\ \A s \in Stmts : mem[s] = "live" =>
          /\ connLive \/ InFrame(s, {"freeMemory"})
          /\ parent[s] # NULL => mem[parent[s]] = "live"
                                 \/ InFrame(s, {"unparent", "freeConn"})
    /\ userConn # {} => connLive

(* Each OCI statement handle is released once, by one thread, however many  *)
(* threads close and release the same handles.  The session is ended by one *)
(* thread at a time, on a service context that is there, and again by a     *)
(* retried close only if detaching from the server has failed.              *)
ReleasedOnce ==
    \A t \in Threads :
        /\ At(t, "ociRelease") => oci[Top(t).s] = "open"
        /\ At(t, "sessionEnd") =>
              connHandle /\ (sessionHandle \/ "serverDetach" \in Failures)
        /\ \A u \in Threads \ {t} :
              /\ ~(At(t, "sessionEnd") /\ At(u, "sessionEnd"))
              /\ At(t, "ociRelease") /\ At(u, "ociRelease")
                    => Top(t).s # Top(u).s

(* Every public function that a thread calls returns: closing and freeing   *)
(* call each other, but never without end.                                  *)
CallsEnd == \A t \in Threads : stack[t] # <<>> ~> stack[t] = <<>>

-----------------------------------------------------------------------------
(* Statements that are open and not about to leave or enter the list.       *)
OpenStmts ==
    {s \in Stmts : /\ mem[s] = "live" /\ handle[s] /\ parent[s] = NULL
                   /\ ~closing[s]
                   /\ ~InFrame(s, {"addHandle", "stmtFree", "unparent"})}

(* Every open statement of an open connection is on its list, in the slot   *)
(* it will be removed from, so that closing the connection finds it.        *)
OpenStmtsAreListed ==
    connHandle => \A s \in OpenStmts : openStmts[openSlotNum[s]] = s

(* dpiConn.c:183: "close all open statements": when dpiConn_close has ended *)
(* the session no statement of the connection is open.                      *)
CloseClosesAll ==
    ~connHandle => \A s \in Stmts :
        mem[s] = "live" /\ parent[s] = NULL => ~handle[s]
=============================================================================
