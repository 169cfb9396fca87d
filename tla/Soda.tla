-------------------------------- MODULE Soda --------------------------------
(***************************************************************************)
(* SODA: the database of a connection (dpiSodaDb.c), its collections       *)
(* (dpiSodaColl.c) and documents (dpiSodaDoc.c), and the cursors over them *)
(* (dpiSodaCollCursor.c, dpiSodaDocCursor.c).  Everything holds what it    *)
(* was found in, because its OCI handle must be freed first.               *)
(*                                                                         *)
(* The OCI handles that a function makes for its own call, such as the     *)
(* operation options, are freed on every path out of it and left out.  So  *)
(* is a handle that OCI returned when there is no memory for the handle    *)
(* that should own it.                                                     *)
(***************************************************************************)
EXTENDS Messages

DbFields == [conn |-> Conn]
InDb(db) == [db |-> db]
InColl(coll) == [coll |-> coll]

(* The database of a collection, a document or a cursor.                    *)
DbOf(h) == IF "coll" \in DOMAIN field[h] THEN field[field[h].coll].db
           ELSE field[h].db

(* The check functions: a dead session is not noticed.                      *)
SodaConnected == conn.handle /\ ~conn.closing
SodaDbCheck(d) == Has(d, "sodaDb") /\ SodaConnected
SodaCollCheck(c) == Has(c, "sodaColl") /\ SodaConnected
SodaDocCheck(d) == Has(d, "sodaDoc") /\ SodaConnected
SodaCollCursorCheck(c) ==
    Has(c, "sodaCollCursor") /\ oci[c] = "open" /\ SodaConnected

(* MUTANT: a closed cursor is used. *)
SodaDocCursorUnchecked(c) == Has(c, "sodaDocCursor") /\ SodaConnected
SodaDocCursorCheck(c) ==
    Has(c, "sodaDocCursor") /\ oci[c] = "open" /\ SodaConnected

(* The allocate functions: a handle for what OCI has found or made.         *)
Found(h, k, fields) ==
    /\ Allocate(h, k, fields)
    /\ oci' = [oci EXCEPT ![h] = "open"]
    /\ Give(h)
    /\ UNCHANGED <<quota, listVars, conn>>

(* dpiConn_getSodaDb. *)
GetSodaDb(h) ==
    /\ Has(Conn, "conn") /\ Connected
    /\ Describe(h, "sodaDb", DbFields, TRUE)

(* dpiSodaDb_createCollection and dpiSodaDb_openCollection. *)
CreateCollection(d, h) == SodaDbCheck(d) /\ Found(h, "sodaColl", InDb(d))
OpenCollection(d, h) == SodaDbCheck(d) /\ Found(h, "sodaColl", InDb(d))

(* dpiSodaDb_createDocument. *)
CreateDocument(d, h) == SodaDbCheck(d) /\ Found(h, "sodaDoc", InDb(d))

(* dpiSodaDb_getCollections; dpiSodaDb_getCollectionNames iterates over a   *)
(* cursor of its own.                                                       *)
GetCollections(d, h) ==
    SodaDbCheck(d) /\ Found(h, "sodaCollCursor", InDb(d))
GetCollectionNames(d) == SodaDbCheck(d)

(* dpiSodaCollCursor_getNext. *)
NextCollection(c, h) ==
    SodaCollCursorCheck(c) /\ Found(h, "sodaColl", InDb(DbOf(c)))

(* dpiSodaColl_find. *)
Find(c, h) == SodaCollCheck(c) /\ Found(h, "sodaDocCursor", InColl(c))

(* dpiSodaDocCursor_getNext. *)
NextDocument(c, h) ==
    SodaDocCursorCheck(c) /\ Found(h, "sodaDoc", InDb(DbOf(c)))

(* dpiSodaColl_findOne and dpiSodaColl_getDataGuide. *)
FindOne(c, h) == SodaCollCheck(c) /\ Found(h, "sodaDoc", InDb(DbOf(c)))
GetDataGuide(c, h) == SodaCollCheck(c) /\ Found(h, "sodaDoc", InDb(DbOf(c)))

(* A document is stored and a handle for the stored one returned.           *)
Stored(c, d, h) ==
    /\ SodaCollCheck(c)
    /\ Has(d, "sodaDoc")
    /\ Found(h, "sodaDoc", InDb(DbOf(c)))

(* Inserting documents (of many, one), replacing and saving one.            *)
InsertMany(c, d, h) == Stored(c, d, h)
InsertOne(c, d, h) == Stored(c, d, h)
ReplaceOne(c, d, h) == Stored(c, d, h)
Save(c, d, h) == Stored(c, d, h)

(* The functions of a collection that return no handle: indexing it,        *)
(* counting and removing documents.                                         *)
ManageIndex(c) == SodaCollCheck(c)
CountDocuments(c) == SodaCollCheck(c)
RemoveDocuments(c) == SodaCollCheck(c)

(* The content and the attributes of a document.                            *)
GetContent(d) == SodaDocCheck(d)
GetAttributeText(d) == SodaDocCheck(d)

(* The close functions of the cursors. *)
CloseCursor(c) ==
    /\ SodaCollCursorCheck(c) \/ SodaDocCursorCheck(c)
    /\ oci' = [oci EXCEPT ![c] = "freed"]
    /\ UNCHANGED <<quota, mem, kind, refCount, field, listVars, conn, user,
                   todo>>

FreeSodaDb == FreeSimple("sodaDb", UnrefField("conn"))
FreeSodaColl == FreeSimple("sodaColl", UnrefField("db"))
FreeSodaDoc == FreeSimple("sodaDoc", UnrefField("db"))
FreeSodaCollCursor == FreeSimple("sodaCollCursor", UnrefField("db"))
FreeSodaDocCursor == FreeSimple("sodaDocCursor", UnrefField("coll"))

SodaStep ==
    \/ FreeSodaDb
    \/ FreeSodaColl
    \/ FreeSodaDoc
    \/ FreeSodaCollCursor
    \/ FreeSodaDocCursor
    \/ /\ Idle
       /\ \E h \in Unused :
             \/ GetSodaDb(h)
             \/ \E x \in Blocks :
                   \/ CreateCollection(x, h) \/ OpenCollection(x, h)
                   \/ CreateDocument(x, h) \/ GetCollections(x, h)
                   \/ NextCollection(x, h) \/ Find(x, h)
                   \/ NextDocument(x, h) \/ FindOne(x, h) \/ GetDataGuide(x, h)
                   \/ \E d \in Blocks :
                         \/ InsertMany(x, d, h) \/ InsertOne(x, d, h)
                         \/ ReplaceOne(x, d, h) \/ Save(x, d, h)
    \/ Idle /\ \E x \in Blocks : CloseCursor(x)
=============================================================================
