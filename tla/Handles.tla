------------------------------- MODULE Handles -------------------------------
(***************************************************************************)
(* All the handles of one standalone connection: a program that creates,   *)
(* uses, holds and releases LOBs, object types, objects, messages, queues, *)
(* JSON values, SODA collections and documents, variables and statements   *)
(* in any order, with calls that fail, and closes and releases the         *)
(* connection when it likes.                                               *)
(***************************************************************************)
EXTENDS Variables

HandleVars == <<vars, tpc, numElements, varVars>>

HandlesInit ==
    /\ Init
    /\ tpc = NoTransaction
    /\ numElements = [h \in Blocks |-> 0]
    /\ VarsInit

Next ==
    \/ /\ \/ \E h \in Blocks : AddRef(h) \/ Release(h)
          \/ SetRefCount
          \/ DoFreeMemory
          \/ CloseConn
          \/ EndSession
          \/ FreeConn
          \/ FreeEnv
          \/ LobStep
          \/ ObjectStep
          \/ SodaStep
       /\ UNCHANGED <<tpc, numElements, varVars>>
    \/ MessageStep /\ UNCHANGED <<tpc, varVars>>
    \/ TransactionStep /\ UNCHANGED <<numElements, varVars>>
    \/ VariableStep /\ UNCHANGED <<tpc, numElements>>

Spec == HandlesInit /\ [][Next]_HandleVars

-----------------------------------------------------------------------------
(* A handle whose free function is running.                                 *)
BeingFreed(h) == \E i \in DOMAIN todo :
                    /\ todo[i].do \in {"free", "freeStmt", "freeMemory"}
                    /\ todo[i].h = h

(* References that the running function owns: it gives them back, or to the *)
(* program or a statement.                                                  *)
Pending(h) == Cardinality(
    {i \in DOMAIN todo : \/ todo[i].do \in {"unref", "give"} /\ todo[i].h = h
                         \/ todo[i].do = "define" /\ todo[i].arg = h})
Pointers == UNION {{x} \X DOMAIN field[x] : x \in Blocks}
Holding(h) ==
    Cardinality({p \in Pointers : field[p[1]][p[2]] = h})
    + Cardinality({s \in Blocks : lastRowid[s] = h /\ ~closing[s]})

(* The reference count of a handle is the number of references that the    *)
(* program owns, that other handles have in their fields, and that the      *)
(* function that is running is about to give back (dpiGen__setRefCount),    *)
(* and one more if a failed call forgot one.  JSON values are left out:     *)
(* messages lose theirs.                                                    *)
CountsReferences ==
    \A h \in Blocks :
        mem[h] = "live" /\ ~BeingFreed(h) /\ kind[h] # "json" =>
            refCount[h] = user[h] + Pending(h) + Holding(h)
                          + (IF h \in lost THEN 1 ELSE 0)

(* No pointer outlives what it points to: neither the fields of a handle,   *)
(* nor the lists with which an open connection finds its statements, LOBs   *)
(* and objects, nor the calls still to be made; unless closing the          *)
(* connection is on its way, or the lists are no longer in order.           *)
PointsToLive ==
    /\ \A x \in Blocks : \A h \in Held(field[x]) : mem[h] = "live"
    /\ \A s \in Blocks : lastRowid[s] # NULL /\ ~closing[s] =>
          mem[lastRowid[s]] = "live"
    /\ conn.handle /\ conn.ordered /\ ~conn.closing =>
          \A l \in Lists : \A i \in Slots :
              lists[l][i] # NULL => mem[lists[l][i]] = "live"
    /\ \A i \in DOMAIN todo :
          mem[todo[i].h] = "live" \/ (todo[i].do = "releaseStmt" /\ conn.closing)

(* The program has released everything it was given. *)
Released == Idle /\ \A h \in Blocks : user[h] = 0
JsonFreed == \A h \in Blocks : kind[h] = "json" => mem[h] = "freed"

(* Statements that keep one another, by variables that they are bound to    *)
(* and whose values they are (a statement on its own cannot: module         *)
(* Variables forbids that: BindsItself).                                    *)
KeepEachOther ==
    \E S \in SUBSET Blocks :
        /\ \A h \in S : \E x \in S : h \in Held(field[x])
        /\ \E s, t \in S : s # t /\ IsStmt(s) /\ IsStmt(t)

(* Then everything is freed, handles and OCI handles, the connection, its   *)
(* environment and its transaction included, unless a message has lost its  *)
(* JSON payload or a failed call a variable, or statements keep each other. *)
NothingLeaks ==
    Released /\ JsonFreed /\ lost = {} /\ ~KeepEachOther =>
        /\ \A h \in Blocks : mem[h] # "live" /\ oci[h] # "open"
        /\ conn.env = "freed"
        /\ tpc.handle # "open"

(* Between calls, while the connection is open, its lists hold exactly the  *)
(* open statements, the LOBs with a locator and the objects with an         *)
(* instance of their own; unless closing it has failed or an object was     *)
(* half made.                                                               *)
Listed == [openStmts |-> StmtKinds, openLobs |-> {"lob"},
           objects |-> {"object"}]
ListsOpenHandles ==
    Idle /\ conn.handle /\ conn.ordered =>
        \A l \in Lists :
            {lists[l][i] : i \in Slots} \ {NULL} =
                {h \in Blocks : /\ mem[h] = "live" /\ oci[h] = "open"
                                /\ kind[h] \in Listed[l]}

(* The handles that a public function may be called with and then be used   *)
(* for OCI calls.                                                           *)
Usable(h) ==
    \/ DescribeConn(h) \/ AlterConn(h) \/ DescribeStmt(h) \/ CountRows(h)
    \/ DescribeLob(h) \/ AccessLob(h)
    \/ AccessObject(h) \/ EnqueuesObject(h) \/ EnqDeqObject(h)
    \/ GetMsgAttr(h) \/ SetMsgAttr(h) \/ GetDeqAttr(h) \/ SetDeqAttr(h)
    \/ GetSetEnqAttr(h) \/ GetSetJson(h)
    \/ ManageIndex(h) \/ CountDocuments(h) \/ RemoveDocuments(h)
    \/ GetContent(h) \/ GetAttributeText(h)
    \/ SodaCollCursorCheck(h) \/ SodaDocCursorCheck(h)

(* No OCI call is made with a handle that has been closed or freed, or when *)
(* the environment is gone: what the check functions ask is enough, until   *)
(* dpiConn_close has failed.  After that an object is not asked whether it  *)
(* still has its instance, nor the connection whether it still has its      *)
(* session, which the failed call may have taken (dpiConn.c:246).           *)
UsesOpen ==
    \A h \in Blocks :
        /\ Usable(h) => /\ mem[h] = "live" /\ conn.env = "open"
                        /\ oci[h] \in {"open", "part"}
                           \/ (kind[h] = "object" /\ ~conn.ordered)
        /\ DescribeConn(h) \/ AlterConn(h) => conn.session \/ ~conn.ordered

(* The OCI handle of the connection (with its session) and those of all the *)
(* handles that hold it are freed while the environment they were allocated *)
(* from is there, and that of a SODA document cursor while its collection   *)
(* is; an object that lives in the instance of another loses it to nothing  *)
(* but the closing of the connection.  ("Note that the reference to the     *)
(* database must remain until after the handle is freed; otherwise, a       *)
(* segfault can take place.")  Two kinds are freed after the environment:   *)
(* the transaction handle (tpc), which dpiConn__free leaves to its end, and *)
(* rowids that the program keeps, which hold nothing.                       *)
OciOutlived ==
    [][ \A h \in Blocks :
          oci[h] = "open" /\ oci'[h] = "freed" =>
              /\ conn.env = "open" \/ kind[h] = "rowid"
              /\ kind[h] = "sodaDocCursor" => oci[field[h].coll] = "open"
              /\ kind[h] = "object" /\ ~conn.closing =>
                    \A p \in Blocks :
                        mem[p] = "live" /\ "dependsOn" \in DOMAIN field[p] =>
                            field[p].dependsOn # h
      ]_HandleVars

(* The handles that a connection that is being closed finds in its lists    *)
(* are there: "a reference needs to be acquired first, as otherwise the     *)
(* statement may be freed while the close is being performed!", and "the    *)
(* same comments apply" to LOBs (dpiConn__close).                           *)
Swept(do, l) ==
    LET i == NextSlot(do, l) IN IF i = 0 THEN Conn ELSE lists[l][i]
SweepsLive ==
    /\ Doing("closeObjects") => mem[Swept("closeObjects", "objects")] = "live"
    /\ Doing("closeStmts") => mem[Swept("closeStmts", "openStmts")] = "live"
    /\ Doing("closeLobs") => mem[Swept("closeLobs", "openLobs")] = "live"

(* No statement is freed while it is being closed: "a reference needs to be *)
(* acquired first, as otherwise the statement may be freed while the close  *)
(* is being performed!" (dpiConn__close), but is not if the environment is  *)
(* not threaded.  HandlesProofs!ClosedLive says when this holds all the     *)
(* same: not with statements that variables hold in a circle.               *)
ClosesLive ==
    \A i \in DOMAIN todo :
        todo[i].do = "releaseStmt" => mem[todo[i].h] = "live"
=============================================================================
