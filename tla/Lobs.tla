-------------------------------- MODULE Lobs --------------------------------
(***************************************************************************)
(* LOBs (dpiLob.c): a locator, which may name a temporary LOB of the       *)
(* database, in the list of open LOBs of the connection.                   *)
(***************************************************************************)
EXTENDS Transactions

LobFields == [conn |-> Conn]

(***************************************************************************)
(* dpiLob__allocate: a locator, then a slot of the list.  When either is   *)
(* not to be had, the LOB is freed without a locator.                      *)
(***************************************************************************)
AllocateLob(h, fields) ==
    /\ Allocate(h, "lob", fields)
    /\ oci' = [oci EXCEPT ![h] = "open"]
    /\ AddHandle("openLobs", h)
AllocateLobFails(h, fields) ==
    /\ Failures \cap {"descriptorAlloc", "addLob"} # {}
    /\ Allocate(h, "lob", fields)
    /\ Discard(h)
    /\ UNCHANGED <<oci, openSlotNum, lists>>

(* dpiLob__allocate and one more call that makes the locator useful: it is *)
(* created, assigned or read from elsewhere.  If it fails, the LOB is freed.*)
NewLob(h) ==
    /\ \/ AllocateLobFails(h, LobFields)
       \/ /\ AllocateLob(h, LobFields)
          /\ Give(h) \/ ("lob" \in Failures /\ Discard(h))
    /\ UNCHANGED <<quota, closing, conn>>

NewTempLob(h) == Has(Conn, "conn") /\ Connected /\ NewLob(h)

(* dpiLob__check. *)
LobCheck(h) == Has(h, "lob") /\ oci[h] = "open" /\ Connected

(* dpiLob_copy: a LOB of the same connection. *)
CopyLob(source, h) == LobCheck(source) /\ NewLob(h)

(* The functions that change no handle, and call OCI with the locator: the  *)
(* size, the type, the file name; reading, writing and trimming.            *)
DescribeLob(h) == LobCheck(h)
AccessLob(h) == LobCheck(h)

(* MUTANT: the LOB stays in the list. *)
LobClosedListed(h) ==
    /\ closing' = [closing EXCEPT ![h] = TRUE]
    /\ oci' = [oci EXCEPT ![h] = IF @ = "open" THEN "freed" ELSE @]
    /\ UNCHANGED lists

(* dpiLob__close, when nobody else is closing it: the locator goes, and it  *)
(* leaves the list unless the connection is being closed as a whole.        *)
LobClosed(h) ==
    /\ closing' = [closing EXCEPT ![h] = TRUE]
    /\ oci' = [oci EXCEPT ![h] = IF @ = "open" THEN "freed" ELSE @]
    /\ lists' = IF oci[h] = "open" /\ ~conn.closing
                THEN RemoveHandle("openLobs", h) ELSE lists

(* The temporary LOB is not freed, which is told to callers that ask for    *)
(* errors: closing is reset.  Not tried when the session is dead or gone.   *)
LobCloseFails(h) ==
    /\ "freeTemporary" \in Failures
    /\ oci[h] = "open" /\ ~conn.dead /\ conn.handle
    /\ oci' = [oci EXCEPT ![h] = "freed"]
    /\ lists' = IF conn.closing THEN lists ELSE RemoveHandle("openLobs", h)
    /\ UNCHANGED closing

(* dpiLob_close. *)
CloseLob(h) ==
    /\ LobCheck(h)
    /\ IF closing[h] THEN UNCHANGED <<oci, closing, lists>>
       ELSE LobClosed(h) \/ LobCloseFails(h)
    /\ UNCHANGED <<quota, mem, kind, refCount, field, openSlotNum, conn, user,
                   todo>>

(* The loop of dpiConn__close over the open LOBs, one LOB. *)
CloseEachLob ==
    LET i == NextSlot("closeLobs", "openLobs")
        h == lists["openLobs"][i] IN
    /\ Doing("closeLobs")
    /\ \/ /\ IF i # 0 /\ ~closing[h] THEN LobClosed(h)
             ELSE UNCHANGED <<oci, closing, lists>>
          /\ LoopOn(i)
          /\ UNCHANGED conn
       \/ /\ i # 0 /\ ~closing[h]
          /\ Head(todo).propagate /\ Allowed("closeFails")
          /\ LobCloseFails(h)
          /\ CloseFails
    /\ UNCHANGED <<quota, mem, kind, refCount, field, openSlotNum, user>>

(* dpiLob__free. *)
FreeLob ==
    /\ Doing("free")
    /\ kind[Subject] = "lob"
    /\ IF closing[Subject] THEN UNCHANGED <<oci, closing, lists>>
                           ELSE LobClosed(Subject)
    /\ GiveBack(UnrefField("conn"))
    /\ UNCHANGED <<quota, mem, kind, refCount, openSlotNum, conn, user>>

LobStep ==
    \/ CloseEachLob
    \/ FreeLob
    \/ /\ Idle
       /\ \/ \E h \in Unused : NewTempLob(h) \/ \E l \in Blocks : CopyLob(l, h)
          \/ \E h \in Blocks : CloseLob(h)
=============================================================================
