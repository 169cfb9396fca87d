------------------------------ MODULE Variables ------------------------------
(***************************************************************************)
(* Variables (dpiVar.c) and the statements they are bound to and fetch for *)
(* (dpiStmt.c).  A variable holds the handles of its values: LOBs, rowids, *)
(* cursors or objects; or it holds bytes (bytesVar), and LOBs for them     *)
(* once it is bound to PL/SQL (longVar).  A statement holds the variable   *)
(* of its bind, that of its column and the last rowid.                     *)
(*                                                                         *)
(* There is one bind, one column, and one value in each of the two buffers *)
(* of a variable: the one of its own, and the one into which a statement   *)
(* returns rows (dynBindBuffers).  JSON values go the way of rowids.  The  *)
(* contents of values that are copied, bytes among them, are left out.     *)
(***************************************************************************)
EXTENDS Soda

VARIABLES
    numBindVars,        \* of a statement, 0 or 1
    lastRowid,          \* of a statement
    requiresPreFetch,   \* of a variable
    lost                \* variables to which a reference was forgotten

varVars == <<numBindVars, lastRowid, requiresPreFetch, lost>>

(* A cursor is the query of a REF CURSOR or of a column of cursors.         *)
Queries == {"query", "cursor"}
StmtKinds == Queries \cup {"plsql", "dml"}
VarKinds == {"lobVar", "stmtVar", "rowidVar", "objectVar", "bytesVar",
             "longVar"}
ContentKinds == [lobVar |-> {"lob"}, stmtVar |-> StmtKinds,
                 rowidVar |-> {"rowid"}, objectVar |-> {"object"},
                 bytesVar |-> {}, longVar |-> {}]

StmtFields == [conn |-> Conn, bind |-> NULL, column |-> NULL]
VarFields(type) ==
    [conn |-> Conn, type |-> type, value |-> NULL, returned |-> NULL]

VarsInit ==
    /\ numBindVars = [h \in Blocks |-> 0]
    /\ lastRowid = [h \in Blocks |-> NULL]
    /\ requiresPreFetch = [h \in Blocks |-> FALSE]
    /\ lost = {}

IsStmt(h) == kind[h] \in StmtKinds
IsVar(h) == kind[h] \in VarKinds
HasStmt(s) == Idle /\ user[s] > 0 /\ IsStmt(s)
HasVar(v) == Idle /\ user[v] > 0 /\ IsVar(v)

(* dpiStmt__check. *)
StmtCheck(s) == HasStmt(s) /\ oci[s] = "open" /\ Connected

(* The functions that only ask OCI: about the binds in the text, and about  *)
(* the rows and queries of the last execution.                              *)
DescribeStmt(s) == StmtCheck(s)
CountRows(s) == StmtCheck(s)

-----------------------------------------------------------------------------
(* dpiStmt__allocate and dpiStmt__prepare, which may fail before or after   *)
(* the statement is listed.                                                 *)
PrepareStmt(h, k) ==
    /\ ConnMakes
    /\ Allocate(h, k, StmtFields)
    /\ \/ /\ oci' = [oci EXCEPT ![h] = "open"]
          /\ AddHandle("openStmts", h)
          /\ Give(h) \/ ("prepare" \in Failures /\ Discard(h))
       \/ /\ "prepare" \in Failures
          /\ Discard(h)
          /\ UNCHANGED <<oci, lists, openSlotNum>>
    /\ UNCHANGED <<quota, closing, conn, varVars>>

CloseWorkOn(s, propagate) ==
    [WorkOn("closeStmt", s) EXCEPT !.propagate = propagate]

(* dpiStmt_close. *)
CloseStmt(s) ==
    /\ StmtCheck(s)
    /\ todo' = <<CloseWorkOn(s, TRUE)>>
    /\ UNCHANGED <<blockVars, listVars, conn, user, varVars>>

(* MUTANT: the variable of the column is kept. *)
StmtMarkClosingKeeps ==
    LET s == Subject IN
    /\ Doing("closeStmt")
    /\ closing' = [closing EXCEPT ![s] = TRUE]
    /\ IF closing[s] THEN todo' = Tail(todo) /\ UNCHANGED <<field, numBindVars>>
       ELSE /\ todo' = UnrefOf(field[s].bind) \o UnrefOf(lastRowid[s])
                       \o <<[Head(todo) EXCEPT !.do = "releaseStmt"]>>
                       \o Tail(todo)
            /\ field' = [field EXCEPT ![s].bind = NULL, ![s].column = NULL]
            /\ numBindVars' = [numBindVars EXCEPT ![s] = 0]
    /\ UNCHANGED <<quota, mem, kind, refCount, oci, openSlotNum, lists, conn,
                   user, lastRowid, requiresPreFetch, lost>>

(***************************************************************************)
(* dpiStmt__close of a statement that nobody else is closing gives back    *)
(* its variables and the last rowid.  The pointer to the latter is left    *)
(* in place, and counts as held when the statement is not closing.         *)
(***************************************************************************)
StmtMarkClosing ==
    LET s == Subject IN
    /\ Doing("closeStmt")
    /\ closing' = [closing EXCEPT ![s] = TRUE]
    /\ IF closing[s] THEN todo' = Tail(todo) /\ UNCHANGED <<field, numBindVars>>
       ELSE /\ todo' = UnrefOf(field[s].bind) \o UnrefOf(field[s].column)
                       \o UnrefOf(lastRowid[s])
                       \o <<[Head(todo) EXCEPT !.do = "releaseStmt"]>>
                       \o Tail(todo)
            /\ field' = [field EXCEPT ![s].bind = NULL, ![s].column = NULL]
            /\ numBindVars' = [numBindVars EXCEPT ![s] = 0]
    /\ UNCHANGED <<quota, mem, kind, refCount, oci, openSlotNum, lists, conn,
                   user, lastRowid, requiresPreFetch, lost>>

(* The OCI statement is released, which may fail on a session that is not   *)
(* dead, and the statement leaves the list unless its connection is closed  *)
(* as a whole.  It is closed all the same; only closing is reset, and what  *)
(* the caller had to do is not done when this is told to it.                *)
StmtReleased ==
    LET s == Subject IN
    /\ Doing("releaseStmt")
    /\ oci' = [oci EXCEPT ![s] = IF @ = "open" THEN "freed" ELSE @]
    /\ lists' = IF oci[s] = "open" /\ ~conn.closing
                THEN RemoveHandle("openStmts", s) ELSE lists
    /\ \/ /\ todo' = Tail(todo)
          /\ UNCHANGED <<closing, conn>>
       \/ /\ Allowed("releaseFails")
          /\ Head(todo).propagate
          /\ oci[s] = "open" /\ kind[s] # "cursor" /\ ~conn.dead
          /\ closing' = [closing EXCEPT ![s] = FALSE]
          /\ IF conn.closing THEN CloseFails
             ELSE todo' = Tail(todo) /\ UNCHANGED conn
    /\ UNCHANGED <<quota, mem, kind, refCount, field, openSlotNum, user,
                   varVars>>

(* The loop of dpiConn__close over the statements, one statement: that of a *)
(* freed one is closing.                                                    *)
CloseEachStmt ==
    LET i == NextSlot("closeStmts", "openStmts")
        s == lists["openStmts"][i]
        after == [Head(todo) EXCEPT !.i = i + 1] IN
    /\ Doing("closeStmts")
    /\ todo' = IF i = 0 THEN Tail(todo)
               ELSE IF closing[s] THEN <<after>> \o Tail(todo)
               ELSE <<CloseWorkOn(s, Head(todo).propagate), after>> \o Tail(todo)
    /\ UNCHANGED <<blockVars, listVars, conn, user, varVars>>

(* dpiStmt__free. *)
FreeStmt ==
    /\ Doing("free") /\ IsStmt(Subject)
    /\ todo' = <<CloseWorkOn(Subject, FALSE), WorkOn("freeStmt", Subject)>>
               \o Tail(todo)
    /\ UNCHANGED <<blockVars, listVars, conn, user, varVars>>
FreeStmtEnds ==
    /\ Doing("freeStmt")
    /\ GiveBack(UnrefField("conn"))
    /\ UNCHANGED <<quota, mem, kind, refCount, oci, listVars, conn, user,
                   varVars>>

-----------------------------------------------------------------------------
Prefetch(v, why) == [WorkOn("prefetch", v) EXCEPT !.why = why]

(***************************************************************************)
(* A variable of kind k, owned once: dpiVar__allocate.  What it does then  *)
(* is work; bytes and objects need none.                                   *)
(***************************************************************************)
Types(k) == IF k = "objectVar"
            THEN {t \in Blocks : mem[t] = "live" /\ kind[t] = "objectType"
                                 /\ user[t] > 0}
            ELSE {NULL}
InitBuffer(v, k) ==
    IF k \in {"objectVar", "bytesVar"} THEN <<>> ELSE <<Prefetch(v, "new")>>

AllocateVar(h, k) ==
    /\ k \in VarKinds
    /\ \E type \in Types(k) : Allocate(h, k, VarFields(type))

(* dpiConn_newVar. *)
NewVar(h, k) ==
    /\ ConnMakes
    /\ AllocateVar(h, k)
    /\ todo' = InitBuffer(h, k) \o <<WorkOn("give", h)>>
    /\ UNCHANGED <<quota, oci, listVars, conn, user, varVars>>
GiveVar ==
    /\ Doing("give")
    /\ user' = [user EXCEPT ![Subject] = @ + 1]
    /\ todo' = Tail(todo)
    /\ UNCHANGED <<blockVars, listVars, conn, varVars>>

(* The place of the value that is prefetched. *)
Place == IF Head(todo).why = "returned" THEN "returned" ELSE "value"
Content == field[Subject][Place]

(***************************************************************************)
(* dpiVar__extendedPreFetch, and dpiVar__finalizeBuffer of a buffer that   *)
(* is made anew: the value before is released.                             *)
(***************************************************************************)
PrefetchRelease ==
    /\ Doing("prefetch") /\ Content # NULL
    /\ todo' = <<Unref(Content)>> \o todo
    /\ field' = [field EXCEPT ![Subject] = [@ EXCEPT ![Place] = NULL]]
    /\ UNCHANGED <<quota, mem, kind, refCount, oci, listVars, conn, user,
                   varVars>>

(* Then a handle for the next one is made, with its OCI handle and, unless  *)
(* it is a rowid, a slot of a list.  If one of these is not to be had, the  *)
(* call fails and a new variable is freed.                                  *)
MadeFor == [lobVar |-> "lob", longVar |-> "lob", stmtVar |-> "cursor",
            rowidVar |-> "rowid", objectVar |-> "object"]
FieldsOf(k, v) == CASE k = "lob" -> LobFields
                    [] k = "rowid" -> NoFields
                    [] k = "cursor" -> StmtFields
                    [] k = "object" -> ObjectFields(field[v].type, NULL)
ListOf(k) == CASE k = "lob" -> "openLobs"
               [] k = "cursor" -> "openStmts"
               [] k = "object" -> "objects"

MakeContent(h) ==
    LET v == Subject
        k == MadeFor[kind[v]]
        fields == FieldsOf(k, v) IN
    /\ mem' = [mem EXCEPT ![h] = "live"]
    /\ kind' = [kind EXCEPT ![h] = k]
    /\ refCount' = [x \in Blocks |->
                       IF x = h THEN 1 ELSE refCount[x] + CountOf(fields, x)]
    /\ \/ /\ oci' = [oci EXCEPT ![h] = "open"]
          /\ field' = [field EXCEPT ![h] = fields, ![v] = [@ EXCEPT ![Place] = h]]
          /\ todo' = Tail(todo)
          /\ IF k = "rowid" THEN UNCHANGED <<lists, openSlotNum>>
             ELSE AddHandle(ListOf(k), h)
       \/ /\ "prefetch" \in Failures
          /\ field' = [field EXCEPT ![h] = fields]
          /\ todo' = <<Free(h)>> \o (IF Head(todo).why = "new" THEN <<Free(v)>>
                                     ELSE <<>>)
          /\ UNCHANGED <<oci, lists, openSlotNum>>
    /\ UNCHANGED <<quota, closing, conn, user, varVars>>

PrefetchAllocate ==
    /\ Doing("prefetch") /\ Content = NULL
    /\ \E h \in Fresh : MakeContent(h)

(* The database returns a null value of an object type. *)
PrefetchNull ==
    /\ Doing("prefetch") /\ Content = NULL
    /\ kind[Subject] = "objectVar" /\ Head(todo).why = "fetch"
    /\ todo' = Tail(todo)
    /\ UNCHANGED <<blockVars, listVars, conn, user, varVars>>

(* dpiVar__free. *)
FreeVar ==
    /\ Doing("free") /\ IsVar(Subject)
    /\ GiveBack(UnrefField("value") \o UnrefField("returned")
                \o UnrefField("type") \o UnrefField("conn"))
    /\ UNCHANGED <<quota, mem, kind, refCount, oci, listVars, conn, user,
                   varVars>>

-----------------------------------------------------------------------------
(* Whether a value may be the value of v: of its kind and type, and no      *)
(* statement that v is bound to.                                            *)
Fits(v, x) ==
    /\ kind[x] \in ContentKinds[kind[v]]
    /\ kind[v] = "objectVar" => field[x].type = field[v].type

(* MUTANT: a statement is bound to itself. *)
MayBindToSelf(v, x) == FALSE
BindsItself(v, x) == IsStmt(x) /\ field[x].bind = v

(* The value x is held in place of the one before. *)
HoldValue(v, x) ==
    /\ Fits(v, x) /\ ~BindsItself(v, x) /\ field[v].value # x
    /\ field' = [field EXCEPT ![v].value = x]
    /\ refCount' = [refCount EXCEPT ![x] = @ + 1]
    /\ todo' = UnrefOf(field[v].value)
    /\ UNCHANGED <<quota, mem, kind, oci, listVars, conn, user, varVars>>

(* dpiVar_setFromLob, dpiVar_setFromObject, dpiVar_setFromRowid,            *)
(* dpiVar_setFromJson and dpiVar_setFromStmt.                               *)
SetFromHandle(v, x) == HasVar(v) /\ user[x] > 0 /\ HoldValue(v, x)

(* dpiVar_copyData of two variables of the same type. *)
CopyData(v, source) ==
    /\ HasVar(v) /\ HasVar(source) /\ field[source].value # NULL
    /\ HoldValue(v, field[source].value)

(* The program asks for a value, of the variable itself or one returned     *)
(* (dpiVar_getReturnedData) or fetched (dpiStmt_getQueryValue), and keeps it *)
(* with a reference of its own.                                             *)
KeepValue(v) ==
    /\ HasVar(v) \/ \E s \in Blocks : HasStmt(s) /\ field[s].column = v
    /\ \E x \in {field[v].value, field[v].returned} \ {NULL} :
          /\ user[x] = 0
          /\ kind[x] \in ContentKinds[kind[v]]
          /\ user' = [user EXCEPT ![x] = 1]
          /\ refCount' = [refCount EXCEPT ![x] = @ + 1]
    /\ UNCHANGED <<quota, mem, kind, field, oci, listVars, conn, todo, varVars>>

-----------------------------------------------------------------------------
(* What dpiStmt__bind refuses, or does not do again. *)
MayBind(s, v) == /\ field[v].value # s
                 /\ numBindVars[s] = 0 \/ field[s].bind # v

IsDynamicForPlSql(s, v) == kind[s] = "plsql" /\ kind[v] = "bytesVar"

Attach(s, v, extra) ==
    /\ field' = [field EXCEPT ![s].bind = v]
    /\ refCount' = [refCount EXCEPT ![v] = @ + 1]
    /\ numBindVars' = [numBindVars EXCEPT ![s] = 1]
    /\ todo' = UnrefOf(field[s].bind) \o extra

(* dpiStmt_bindByName and dpiStmt_bindByPos; the variable stays bound even  *)
(* if binding it in OCI fails.                                              *)
Bind(s, v) ==
    /\ StmtCheck(s) /\ HasVar(v)
    /\ MayBind(s, v) /\ ~IsDynamicForPlSql(s, v)
    /\ Attach(s, v, <<>>)
    /\ UNCHANGED <<quota, mem, kind, oci, listVars, conn, user, lastRowid,
                   requiresPreFetch, lost>>

(* A variable of bytes is bound to PL/SQL: it becomes one of LOBs first     *)
(* (dpiVar__convertToLob).  If that fails the bind has no variable.         *)
BindConverts(s, v) ==
    /\ StmtCheck(s) /\ HasVar(v)
    /\ MayBind(s, v) /\ IsDynamicForPlSql(s, v)
    /\ kind' = [kind EXCEPT ![v] = "longVar"]
    /\ requiresPreFetch' = [requiresPreFetch EXCEPT ![v] = TRUE]
    /\ numBindVars' = [numBindVars EXCEPT ![s] = 1]
    /\ field' = [field EXCEPT ![s].bind = NULL]
    /\ todo' = UnrefOf(field[s].bind)
               \o <<Prefetch(v, "convert"),
                    [WorkOn("bind", s) EXCEPT !.arg = v]>>
    /\ UNCHANGED <<quota, mem, refCount, oci, listVars, conn, user, lastRowid,
                   lost>>
BindConverted ==
    LET s == Subject IN
    /\ Doing("bind")
    /\ \/ /\ field' = [field EXCEPT ![s].bind = Head(todo).arg]
          /\ refCount' = [refCount EXCEPT ![Head(todo).arg] = @ + 1]
       \/ "prefetch" \in Failures /\ UNCHANGED <<field, refCount>>
    /\ todo' = Tail(todo)
    /\ UNCHANGED <<quota, mem, kind, oci, listVars, conn, user, varVars>>

(* dpiStmt_bindValueByName and dpiStmt_bindValueByPos of an object: a       *)
(* variable for it, which is forgotten when the object cannot be its value. *)
BindValue(s, o, h) ==
    /\ StmtCheck(s) /\ Has(o, "object") /\ Allowed("bindValue")
    /\ mem' = [mem EXCEPT ![h] = "live"]
    /\ kind' = [kind EXCEPT ![h] = "objectVar"]
    /\ LET type == field[o].type IN
       \/ /\ refCount' = [refCount EXCEPT ![h] = 1, ![o] = @ + 1,
                                          ![type] = @ + 1, ![Conn] = @ + 1]
          /\ field' = [field EXCEPT ![s].bind = h,
                                    ![h] = [VarFields(type) EXCEPT !.value = o]]
          /\ numBindVars' = [numBindVars EXCEPT ![s] = 1]
          /\ todo' = UnrefOf(field[s].bind)
          /\ UNCHANGED lost
       \/ /\ "copyData" \in Failures
          /\ refCount' = [refCount EXCEPT ![h] = 1, ![type] = @ + 1,
                                          ![Conn] = @ + 1]
          /\ field' = [field EXCEPT ![h] = VarFields(type)]
          /\ lost' = lost \cup {h}
          /\ UNCHANGED <<numBindVars, todo>>
    /\ UNCHANGED <<quota, oci, listVars, conn, user, lastRowid,
                   requiresPreFetch>>

-----------------------------------------------------------------------------
(* The variables may be used: the bind has one (it is not asked for).       *)
Executable(s) == StmtCheck(s) /\ (numBindVars[s] = 1 => field[s].bind # NULL)

(***************************************************************************)
(* dpiStmt_execute: dpiVar__setValue makes an object for a null value of   *)
(* its type, OCI takes and fills the values, and returns rows of DML into  *)
(* another buffer (dpiVar__outBindCallback), which is made anew if it has  *)
(* not the room.  Cursors are not returned by DML.                         *)
(***************************************************************************)
ExecuteWork(s, v, grows) ==
    (IF kind[v] = "objectVar" /\ field[v].value = NULL
     THEN <<Prefetch(v, "null")>> ELSE <<>>)
    \o (IF grows THEN <<Prefetch(v, "returned")>> ELSE <<>>)

Execute(s) ==
    LET v == field[s].bind IN
    /\ Executable(s) /\ v # NULL
    /\ \E grows \in BOOLEAN :
          /\ grows => kind[s] = "dml" /\ kind[v] \notin {"stmtVar", "bytesVar"}
          /\ todo' = ExecuteWork(s, v, grows)
    /\ UNCHANGED <<blockVars, listVars, conn, user, varVars>>

(* dpiStmt__reExecute binds the variable again, with another reference.     *)
ReExecute(s) ==
    LET v == field[s].bind IN
    /\ Executable(s) /\ v # NULL /\ kind[s] = "query"
    /\ Allowed("reExecute") /\ v \notin lost
    /\ refCount' = [refCount EXCEPT ![v] = @ + 1]
    /\ lost' = lost \cup {v}
    /\ todo' = UnrefOf(field[s].column)
    /\ field' = [field EXCEPT ![s].column = NULL]
    /\ UNCHANGED <<quota, mem, kind, oci, listVars, conn, user, numBindVars,
                   lastRowid, requiresPreFetch>>

(* dpiStmt_define: dpiStmt__define of a variable of the program.            *)
SetColumn(q, v) ==
    /\ field' = [field EXCEPT ![q].column = v]
    /\ refCount' = [refCount EXCEPT ![v] = @ + 1]
    /\ todo' = UnrefOf(field[q].column)

Define(q, v) ==
    /\ StmtCheck(q) /\ kind[q] \in Queries
    /\ HasVar(v) /\ kind[v] # "stmtVar"
    /\ field[q].column # v
    /\ SetColumn(q, v)
    /\ UNCHANGED <<quota, mem, kind, oci, listVars, conn, user, varVars>>

DefineWork(q, v) == [WorkOn("define", q) EXCEPT !.arg = v]

(* dpiStmt_defineValue and dpiStmt__beforeFetch make a variable and define  *)
(* it; it is forgotten when this fails.                                     *)
DefineNew(q, h, k) ==
    /\ StmtCheck(q) /\ kind[q] \in Queries
    /\ AllocateVar(h, k)
    /\ todo' = InitBuffer(h, k) \o <<DefineWork(q, h)>>
    /\ UNCHANGED <<quota, oci, listVars, conn, user, varVars>>
DefineNewVar ==
    LET q == Subject
        v == Head(todo).arg IN
    /\ Doing("define")
    /\ \/ /\ todo' = UnrefOf(field[q].column) \o Tail(todo)
          /\ field' = [field EXCEPT ![q].column = v]
          /\ UNCHANGED lost
       \/ /\ "define" \in Failures
          /\ lost' = lost \cup {v}
          /\ todo' = <<>>
          /\ UNCHANGED field
    /\ UNCHANGED <<quota, mem, kind, refCount, oci, listVars, conn, user,
                   numBindVars, lastRowid, requiresPreFetch>>

(* dpiStmt__fetch into the variable of the column: the values before are    *)
(* replaced, except by the first fetch; rows were fetched or not.           *)
Fetch(q) ==
    LET v == field[q].column IN
    /\ StmtCheck(q) /\ v # NULL
    /\ todo' = IF \/ requiresPreFetch[v] /\ kind[v] # "bytesVar"
                  \/ kind[v] = "objectVar" /\ field[v].value = NULL
               THEN <<Prefetch(v, "fetch")>> ELSE <<>>
    /\ \E rows \in BOOLEAN :
          requiresPreFetch' = [requiresPreFetch EXCEPT ![v] =
              @ \/ (rows /\ kind[v] # "bytesVar")]
    /\ UNCHANGED <<blockVars, listVars, conn, user, numBindVars, lastRowid,
                   lost>>

(* dpiStmt_getLastRowid: the rowid before is released, and the program is   *)
(* told the new one without a reference.                                    *)
GetLastRowid(s) ==
    /\ StmtCheck(s) /\ kind[s] = "dml" /\ Allowed("rowid")
    /\ todo' = UnrefOf(lastRowid[s]) \o <<WorkOn("lastRowid", s)>>
    /\ lastRowid' = [lastRowid EXCEPT ![s] = NULL]
    /\ UNCHANGED <<blockVars, listVars, conn, user, numBindVars,
                   requiresPreFetch, lost>>
AllocateRowid ==
    LET s == Subject IN
    /\ Doing("lastRowid")
    /\ \E h \in Fresh :
          /\ Make(h, "rowid", NoFields)
          /\ \/ /\ oci' = [oci EXCEPT ![h] = "open"]
                /\ lastRowid' = [lastRowid EXCEPT ![s] = h]
                /\ todo' = Tail(todo)
             \/ /\ "prefetch" \in Failures
                /\ todo' = <<Free(h)>>
                /\ UNCHANGED <<oci, lastRowid>>
    /\ UNCHANGED <<quota, listVars, conn, user, numBindVars, requiresPreFetch,
                   lost>>

FreeRowid == FreeSimple("rowid", <<>>) /\ UNCHANGED varVars

VariableStep ==
    \/ StmtMarkClosing \/ StmtReleased \/ CloseEachStmt
    \/ FreeStmt \/ FreeStmtEnds \/ FreeVar \/ FreeRowid
    \/ GiveVar \/ PrefetchRelease \/ PrefetchAllocate \/ PrefetchNull
    \/ BindConverted \/ DefineNewVar \/ AllocateRowid
    \/ /\ Idle
       /\ \/ \E h \in Unused :
                \/ \E k \in StmtKinds : PrepareStmt(h, k)
                \/ \E k \in VarKinds : NewVar(h, k)
                \/ \E s \in Blocks : \E k \in VarKinds : DefineNew(s, h, k)
          \/ \E h \in Fresh : \E s, o \in Blocks : BindValue(s, o, h)
          \/ \E s \in Blocks :
                \/ CloseStmt(s) \/ Execute(s) \/ ReExecute(s) \/ Fetch(s)
                \/ GetLastRowid(s) \/ KeepValue(s)
                \/ \E x \in Blocks :
                      \/ SetFromHandle(s, x) \/ CopyData(s, x)
                      \/ Bind(s, x) \/ BindConverts(s, x) \/ Define(s, x)
=============================================================================
