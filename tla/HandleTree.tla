----------------------------- MODULE HandleTree -----------------------------
(***************************************************************************)
(* The handles of one standalone connection and the references between     *)
(* them: what dpiGen.c does for every kind of handle, and how a connection *)
(* is closed and freed.  Lobs, Objects, Messages, Soda and Variables       *)
(* extend this module with the kinds of handles and their operations,      *)
(* Transactions with two-phase commit, and Handles puts them together.     *)
(*                                                                         *)
(* One thread calls public functions one after another.  A function either *)
(* is one step or leaves work in todo, the functions that are still to be  *)
(* called, innermost first: releasing a handle may free it, which releases *)
(* the handles it holds.  Freed memory is not given out again, and reads   *)
(* as it was left: its check integer is cleared.                           *)
(***************************************************************************)
EXTENDS Integers, Sequences, FiniteSets

CONSTANTS
    Conn,       \* the block of memory of the connection
    Blocks,     \* the blocks of memory of all handles
    NULL,
    MaxRefs,    \* bound on the references the program has to one handle
    Scenarios,  \* a behaviour has one: its quota
    Failures    \* the calls that may fail

ASSUME HandleTreeAssumption ==
    /\ IsFiniteSet(Blocks) /\ Conn \in Blocks
    /\ NULL \notin Blocks
    /\ \A s \in Scenarios : \A k \in DOMAIN s : s[k] \subseteq Blocks
    /\ MaxRefs \in Nat \ {0}

VARIABLES
    quota,      \* the blocks of memory for each kind of handles that the
                \* program makes, and "own", for those calls make themselves;
                \* other names in it allow a function to be called
    mem,        \* "unused", "live" or "freed"
    kind,       \* the type definition of a handle
    refCount,
    field,      \* the pointers with which a handle holds others
    oci,        \* its OCI handle: "none", "open" or "freed"
    closing,
    openSlotNum,\* where it is in the list of its connection
    lists,      \* openStmts, openLobs and objects of the connection
    conn,       \* the connection's handle, sessionHandle, closing, deadSession
                \* and env, and whether its lists are in order
    user,       \* the number of references the program owns
    todo        \* calls still to be made

blockVars == <<quota, mem, kind, refCount, field, oci>>
listVars == <<closing, openSlotNum, lists>>
vars == <<blockVars, listVars, conn, user, todo>>

Lists == {"openStmts", "openLobs", "objects"}
Slots == 1 .. Cardinality(Blocks)
NoFields == [r \in {} |-> NULL]

Init ==
    /\ quota \in Scenarios
    /\ mem = [h \in Blocks |-> IF h = Conn THEN "live" ELSE "unused"]
    /\ kind = [h \in Blocks |-> IF h = Conn THEN "conn" ELSE "none"]
    /\ refCount = [h \in Blocks |-> IF h = Conn THEN 1 ELSE 0]
    /\ field = [h \in Blocks |-> NoFields]
    /\ oci = [h \in Blocks |-> IF h = Conn THEN "open" ELSE "none"]
    /\ closing = [h \in Blocks |-> FALSE]
    /\ openSlotNum = [h \in Blocks |-> 1]
    /\ lists = [l \in Lists |-> [i \in Slots |-> NULL]]
    /\ conn = [handle |-> TRUE, session |-> TRUE, closing |-> FALSE,
               dead |-> FALSE, env |-> "open", ordered |-> TRUE]
    /\ user = [h \in Blocks |-> IF h = Conn THEN 1 ELSE 0]
    /\ todo = <<>>

-----------------------------------------------------------------------------
(* Calls still to be made. *)
WorkOn(do, h) == [do |-> do, h |-> h, arg |-> NULL, i |-> 0, why |-> "none",
                  propagate |-> FALSE]
Unref(h) == WorkOn("unref", h)
UnrefOf(p) == IF p = NULL THEN <<>> ELSE <<Unref(p)>>
Free(h) == WorkOn("free", h)
FreeMemory(h) == WorkOn("freeMemory", h)
Work(do, i, propagate) ==
    [WorkOn(do, Conn) EXCEPT !.i = i, !.propagate = propagate]

Doing(do) == todo # <<>> /\ Head(todo).do = do
Subject == Head(todo).h

(* The program may call the functions of a handle that it holds. *)
Idle == todo = <<>>
Has(h, k) == Idle /\ user[h] > 0 /\ kind[h] = k

(* dpiConn__checkConnected. *)
Connected == conn.handle /\ ~conn.closing /\ ~conn.dead

(* The block of memory handed out next: which one is of no matter. *)
Allowed(name) == name \in DOMAIN quota
Unused == {h \in Blocks : mem[h] = "unused"}
First(S) == IF S = {} THEN {} ELSE {CHOOSE h \in S : TRUE}
Room(k) == IF Allowed(k) THEN quota[k] \cap Unused ELSE {}
Fresh == First(Room("own"))
Held(fields) == {fields[r] : r \in DOMAIN fields} \ {NULL}
CountOf(fields, h) == Cardinality({r \in DOMAIN fields : fields[r] = h})

(***************************************************************************)
(* dpiGen__allocate, and the references the new handle takes to others.    *)
(***************************************************************************)
Make(h, k, fields) ==
    /\ mem[h] = "unused"
    /\ mem' = [mem EXCEPT ![h] = "live"]
    /\ kind' = [kind EXCEPT ![h] = k]
    /\ field' = [field EXCEPT ![h] = fields]
    /\ refCount' = [x \in Blocks |->
                       IF x = h THEN 1 ELSE refCount[x] + CountOf(fields, x)]

(* The same for the handles that the program asks for.                      *)
Allocate(h, k, fields) == h \in First(Room(k)) /\ Make(h, k, fields)

(* The handle is given to the program, or is freed because a call failed. *)
Give(h) ==
    /\ user' = [user EXCEPT ![h] = @ + 1]
    /\ UNCHANGED todo
Discard(h) ==
    /\ todo' = <<Free(h)>> \o todo
    /\ UNCHANGED user

(* A handle with an OCI handle of its own, which may not be had. *)
Create(h, k, fields) ==
    /\ Allocate(h, k, fields)
    /\ \/ oci' = [oci EXCEPT ![h] = "open"] /\ Give(h)
       \/ "descriptorAlloc" \in Failures /\ UNCHANGED oci /\ Discard(h)
    /\ UNCHANGED <<quota, listVars, conn>>

(* dpiHandleList__addHandle: which empty slot it takes is of no matter. *)
AddHandle(l, h) ==
    LET i == CHOOSE i \in Slots : lists[l][i] = NULL IN
    /\ lists' = [lists EXCEPT ![l][i] = h]
    /\ openSlotNum' = [openSlotNum EXCEPT ![h] = i]
RemoveHandle(l, h) == [lists EXCEPT ![l][openSlotNum[h]] = NULL]

-----------------------------------------------------------------------------
(* dpiGen__addRef and dpiGen__release, called by the program. *)
AddRef(h) ==
    /\ Idle /\ Allowed("shared")
    /\ user[h] \in 1 .. MaxRefs - 1
    /\ user' = [user EXCEPT ![h] = @ + 1]
    /\ refCount' = [refCount EXCEPT ![h] = @ + 1]
    /\ UNCHANGED <<quota, mem, kind, field, oci, listVars, conn, todo>>

Release(h) ==
    /\ Idle
    /\ user[h] > 0
    /\ user' = [user EXCEPT ![h] = @ - 1]
    /\ todo' = <<Unref(h)>>
    /\ UNCHANGED <<blockVars, listVars, conn>>

(* MUTANT: the handle is freed when one reference is left. *)
SetRefCountEarly ==
    /\ Doing("unref")
    /\ refCount' = [refCount EXCEPT ![Subject] = @ - 1]
    /\ todo' = IF refCount[Subject] <= 2 THEN <<Free(Subject)>> \o Tail(todo)
                                         ELSE Tail(todo)
    /\ UNCHANGED <<quota, mem, kind, field, oci, listVars, conn, user>>

(* dpiGen__setRefCount(..., -1): at zero the free function is called. *)
SetRefCount ==
    /\ Doing("unref")
    /\ refCount' = [refCount EXCEPT ![Subject] = @ - 1]
    /\ todo' = IF refCount[Subject] = 1 THEN <<Free(Subject)>> \o Tail(todo)
                                        ELSE Tail(todo)
    /\ UNCHANGED <<quota, mem, kind, field, oci, listVars, conn, user>>

(***************************************************************************)
(* The end of a free function: the references are given back, in the order *)
(* of unrefs, then the memory is freed.                                    *)
(***************************************************************************)
UnrefField(r) == UnrefOf(field[Subject][r])
GiveBack(unrefs) ==
    /\ todo' = unrefs \o <<FreeMemory(Subject)>> \o Tail(todo)
    /\ field' = [field EXCEPT ![Subject] = NoFields]

(* The free function of the kinds that have one OCI handle and are in no   *)
(* list: the OCI handle is freed if there is one, then the rest.           *)
FreeSimple(k, unrefs) ==
    /\ Doing("free")
    /\ kind[Subject] = k
    /\ oci' = [oci EXCEPT ![Subject] = IF @ = "open" THEN "freed" ELSE @]
    /\ GiveBack(unrefs)
    /\ UNCHANGED <<quota, mem, kind, refCount, listVars, conn, user>>

DoFreeMemory ==
    /\ Doing("freeMemory")
    /\ mem' = [mem EXCEPT ![Subject] = "freed"]
    /\ todo' = Tail(todo)
    /\ UNCHANGED <<quota, kind, refCount, field, oci, listVars, conn, user>>

-----------------------------------------------------------------------------
CloseWork(propagate) ==
    << Work("closeObjects", 1, propagate), Work("closeStmts", 1, propagate),
       Work("closeLobs", 1, propagate), Work("endSession", 0, propagate) >>

(* The functions that read and that set attributes of the service context,  *)
(* server and session, and change no handle: dpiConn__check, then OCI.      *)
DescribeConn(h) == Has(h, "conn") /\ Connected
AlterConn(h) == Has(h, "conn") /\ Connected

(* dpiConn_close; the rollback with which it begins fails or not, and is    *)
(* not tried when the session is dead or was ended by an earlier call.      *)
CloseConn ==
    /\ Has(Conn, "conn")
    /\ conn.handle /\ ~conn.closing
    /\ \E fails \in {FALSE, conn.session /\ Allowed("closeFails")} :
          conn' = [conn EXCEPT !.closing = TRUE, !.dead = @ \/ fails]
    /\ todo' = CloseWork(TRUE)
    /\ UNCHANGED <<blockVars, listVars, user>>

(* The loops of dpiConn__close: the next slot of a list that is not empty,  *)
(* and what is left to do behind it.                                        *)
NextSlot(do, l) ==
    LET rest == {i \in Slots : i >= Head(todo).i /\ lists[l][i] # NULL} IN
    IF rest = {} THEN 0 ELSE CHOOSE i \in rest : \A j \in rest : i <= j
LoopOn(i) ==
    todo' = IF i = 0 THEN Tail(todo)
            ELSE <<[Head(todo) EXCEPT !.i = i + 1]>> \o Tail(todo)

(* dpiConn__close returns a failure: dpiConn_close resets closing.  What   *)
(* was closed stays in the lists.                                           *)
CloseFails ==
    /\ conn' = [conn EXCEPT !.closing = FALSE, !.ordered = FALSE]
    /\ todo' = <<>>

(* The same, when the session has ended, but not the service context.      *)
DetachFails ==
    /\ conn' = [conn EXCEPT !.session = FALSE, !.closing = FALSE,
                            !.ordered = FALSE]
    /\ todo' = <<>>

(***************************************************************************)
(* The end of dpiConn__close for a standalone connection: the session is   *)
(* ended, which may fail and does without a session handle; that handle is *)
(* freed; the connection is detached from the server, which may fail too;  *)
(* and the other handles are freed.                                        *)
(***************************************************************************)
EndSession ==
    /\ Doing("endSession")
    /\ \/ /\ conn' = [conn EXCEPT !.handle = FALSE, !.session = FALSE]
          /\ oci' = [oci EXCEPT ![Conn] = "freed"]
          /\ todo' = Tail(todo)
       \/ /\ Head(todo).propagate
          /\ \/ (Allowed("closeFails") \/ ~conn.session) /\ CloseFails
             \/ Allowed("closeFails") /\ DetachFails
          /\ UNCHANGED oci
    /\ UNCHANGED <<quota, mem, kind, refCount, field, listVars, user>>

(* dpiConn__free closes first if need be; then the environment goes, then   *)
(* the transaction handle.                                                  *)
FreeConn ==
    /\ Doing("free")
    /\ Subject = Conn
    /\ todo' = (IF conn.handle THEN CloseWork(FALSE) ELSE <<>>)
               \o <<Work("freeEnv", 0, FALSE), Work("freeTransaction", 0, FALSE),
                    FreeMemory(Conn)>> \o Tail(todo)
    /\ UNCHANGED <<blockVars, listVars, conn, user>>

FreeEnv ==
    /\ Doing("freeEnv")
    /\ conn' = [conn EXCEPT !.env = "freed"]
    /\ todo' = Tail(todo)
    /\ UNCHANGED <<blockVars, listVars, user>>
=============================================================================
