---------------------------- MODULE Transactions ----------------------------
(***************************************************************************)
(* Transactions of a standalone connection (dpiConn.c): commit, rollback   *)
(* and two-phase commit.  The service context of the connection may be     *)
(* associated with its transaction handle, which names a global            *)
(* transaction; commitMode is the mode of the next commit.                 *)
(*                                                                         *)
(* Every call to the database may fail ("transaction").  What the database *)
(* does with a transaction is left out, but for whether a prepared one has *)
(* something to commit.                                                    *)
(***************************************************************************)
EXTENDS HandleTree

VARIABLE tpc    \* transactionHandle, the association and commitMode

NoTransaction ==
    [handle |-> "none", associated |-> FALSE, commitMode |-> "default"]

Cleared(t) == [t EXCEPT !.associated = FALSE]

MayFail(t) == IF "transaction" \in Failures THEN {t} ELSE {}

(* dpiConn__setXid, when every call succeeds, and when one does not.        *)
WithXid(t) == [t EXCEPT !.handle = "open", !.associated = TRUE]
XidFails(t) ==
    IF "transaction" \in Failures
    THEN {t, [t EXCEPT !.handle = "open"], WithXid(t)} ELSE {}

(* dpiConn__commit, with dpiConn__clearTransaction, which may fail as well. *)
Committed(t) ==
    {[Cleared(t) EXCEPT !.commitMode = "default"]} \cup MayFail(t)

(* dpiConn__rollback and then dpiConn__clearTransaction.                    *)
RolledBack(t) == {Cleared(t)} \cup MayFail(t)

Transact(outcomes) ==
    /\ Allowed("tpc")
    /\ Has(Conn, "conn") /\ Connected
    /\ tpc' \in outcomes
    /\ UNCHANGED <<blockVars, listVars, conn, user, todo>>

(* dpiConn_commit and dpiConn_rollback. *)
Commit == Transact(Committed(tpc))
Rollback == Transact(RolledBack(tpc))

(* dpiConn_tpcBegin, and dpiConn_beginDistribTrans that calls it.           *)
TpcBegin == Transact({WithXid(tpc)} \cup XidFails(tpc))

(* dpiConn_tpcCommit with an XID; without one it is dpiConn_commit.         *)
TpcCommit(onePhase) ==
    LET mode == IF onePhase THEN "default" ELSE "twoPhase" IN
    Transact(Committed([WithXid(tpc) EXCEPT !.commitMode = mode])
             \cup XidFails(tpc))

(* dpiConn_tpcEnd and dpiConn_tpcForget; dpiConn_tpcEnd takes an XID or not.*)
TpcEnd ==
    \E t \in {tpc, WithXid(tpc)} :
        Transact({Cleared(t)} \cup MayFail(t) \cup XidFails(tpc))
TpcForget ==
    Transact({Cleared(WithXid(tpc))} \cup MayFail(WithXid(tpc))
             \cup XidFails(tpc))

(* dpiConn_tpcPrepare: a commit is needed or not.                           *)
TpcPrepare ==
    \E t \in {tpc, WithXid(tpc)} :
        Transact({t, [t EXCEPT !.commitMode = "twoPhase"]} \cup XidFails(tpc))

(* dpiConn_tpcRollback with an XID.                                         *)
TpcRollback == Transact(RolledBack(WithXid(tpc)) \cup XidFails(tpc))

(* The end of dpiConn__free: the transaction handle.                        *)
FreeTransaction ==
    /\ Doing("freeTransaction")
    /\ tpc' = [tpc EXCEPT !.handle = IF @ = "open" THEN "freed" ELSE @]
    /\ todo' = Tail(todo)
    /\ UNCHANGED <<blockVars, listVars, conn, user>>

TransactionStep ==
    \/ /\ Idle
       /\ \/ Commit
          \/ Rollback
          \/ TpcBegin
          \/ \E onePhase \in BOOLEAN : TpcCommit(onePhase)
          \/ TpcEnd
          \/ TpcForget
          \/ TpcPrepare
          \/ TpcRollback
    \/ FreeTransaction
=============================================================================
