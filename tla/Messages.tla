------------------------------ MODULE Messages ------------------------------
(***************************************************************************)
(* Advanced queueing: message properties with their payload (dpiMsgProps.c,*)
(* dpiJson.c), options (dpiDeqOptions.c, dpiEnqOptions.c) and queues       *)
(* (dpiQueue.c).  A queue makes the message properties it dequeues into,   *)
(* keeps those that no message came for, and gives the others away.        *)
(*                                                                         *)
(* The payload of a queue is a type of objects, JSON or raw bytes; raw     *)
(* payloads and message ids are memory of the message properties alone     *)
(* and left out.  A call handles one message or two.                       *)
(***************************************************************************)
EXTENDS Objects

VARIABLE numElements    \* the room in the buffer of a queue

PropsFields == [conn |-> Conn, payloadObj |-> NULL, payloadJson |-> NULL]
OptionsFields == [conn |-> Conn]
QueueFields(type) == [conn |-> Conn, payloadType |-> type, deqOptions |-> NULL,
                      enqOptions |-> NULL, first |-> NULL, second |-> NULL]
Queues == {"queue", "jsonQueue"}
Places == <<"first", "second">>
Count(many) == IF many THEN 2 ELSE 1

-----------------------------------------------------------------------------
(* What the connection makes: dpiConn_newMsgProps, newDeqOptions,          *)
(* newEnqOptions, newJson, newQueue and newJsonQueue.                      *)
ConnMakes == Has(Conn, "conn") /\ Connected

NewMsgProps(h) == ConnMakes /\ Create(h, "msgProps", PropsFields)
NewDeqOptions(h) ==
    ConnMakes /\ Create(h, "deqOptions", OptionsFields)
NewEnqOptions(h) ==
    ConnMakes /\ Create(h, "enqOptions", OptionsFields)
NewJson(h) == ConnMakes /\ Create(h, "json", OptionsFields)

(* A queue has no OCI handle; its name may find no memory. *)
NewQueue(h) ==
    \E k \in Queues :
        /\ ConnMakes
        /\ \E type \in {NULL} \cup {t \in Blocks : Has(t, "objectType")} :
              /\ k = "jsonQueue" => type = NULL
              /\ \E ok \in BOOLEAN : Describe(h, k, QueueFields(type), ok)

(* dpiMsgProps__free: nothing is done about payloadJson. *)
FreeMsgProps ==
    FreeSimple("msgProps", UnrefField("payloadObj") \o UnrefField("conn"))
FreeDeqOptions == FreeSimple("deqOptions", UnrefField("conn"))
FreeEnqOptions == FreeSimple("enqOptions", UnrefField("conn"))
FreeJson == FreeSimple("json", UnrefField("conn"))

(* dpiQueue__free, with dpiQueue__freeBuffer. *)
FreeQueue ==
    \E k \in Queues :
        FreeSimple(k, UnrefField("conn") \o UnrefField("payloadType")
                      \o UnrefField("deqOptions") \o UnrefField("enqOptions")
                      \o UnrefField("first") \o UnrefField("second"))

(* The attributes of messages and of options, and the values of JSON are    *)
(* got and set without asking for a connection.                             *)
GetMsgAttr(h) == Has(h, "msgProps")
SetMsgAttr(h) == Has(h, "msgProps")
GetDeqAttr(h) == Has(h, "deqOptions")
SetDeqAttr(h) == Has(h, "deqOptions")
GetSetEnqAttr(h) == Has(h, "enqOptions")
GetSetJson(h) == Has(h, "json")

(***************************************************************************)
(* dpiMsgProps_setPayloadObject and dpiMsgProps_setPayloadJson: the one    *)
(* before is released, the new one is held.                                *)
(***************************************************************************)
SetPayload(p, role, x) ==
    /\ Has(p, "msgProps")
    /\ user[x] > 0
    /\ todo' = UnrefOf(field[p][role])
    /\ refCount' = [refCount EXCEPT ![x] = @ + 1]
    /\ field' = [field EXCEPT ![p][role] = x]
    /\ UNCHANGED <<quota, mem, kind, oci, listVars, conn, user>>

SetPayloadObject(p, o) == kind[o] = "object" /\ SetPayload(p, "payloadObj", o)
SetPayloadJson(p, j) == kind[j] = "json" /\ SetPayload(p, "payloadJson", j)

-----------------------------------------------------------------------------
(* dpiQueue__check. *)
QueueCheck(q) == Idle /\ user[q] > 0 /\ kind[q] \in Queues
                 /\ conn.handle /\ ~conn.closing

QueueWork(do, q, i, many) ==
    [WorkOn(do, q) EXCEPT !.i = i, !.propagate = many]

(* The options that a queue makes when they are first needed; they are not  *)
(* the program's.  Creating them may fail.                                  *)
MakeOptions(q, h, role) ==
    /\ field[q][role] = NULL
    /\ mem' = [mem EXCEPT ![h] = "live"]
    /\ kind' = [kind EXCEPT ![h] = role]
    /\ refCount' = [refCount EXCEPT ![h] = 1, ![Conn] = @ + 1]
    /\ \/ /\ oci' = [oci EXCEPT ![h] = "open"]
          /\ field' = [field EXCEPT ![h] = OptionsFields, ![q][role] = h]
          /\ UNCHANGED todo
       \/ /\ "descriptorAlloc" \in Failures
          /\ field' = [field EXCEPT ![h] = OptionsFields]
          /\ todo' = <<Free(h)>>
          /\ UNCHANGED oci
    /\ UNCHANGED <<quota, listVars, conn, user, numElements>>

(* dpiQueue_getDeqOptions and dpiQueue_getEnqOptions: the program is told   *)
(* which they are, without a reference.  Enqueuing and dequeuing make them  *)
(* in the same way before anything else.                                    *)
GetDeqOptions(q, h) == Idle /\ user[q] > 0 /\ kind[q] \in Queues
                       /\ MakeOptions(q, h, "deqOptions")
GetEnqOptions(q, h) == Idle /\ user[q] > 0 /\ kind[q] \in Queues
                       /\ MakeOptions(q, h, "enqOptions")

(***************************************************************************)
(* dpiQueue__allocateBuffer, if the buffer is too small: the messages      *)
(* kept in the old one are released.                                       *)
(***************************************************************************)
AllocateBuffer(q, many, then) ==
    IF numElements[q] < Count(many)
    THEN /\ numElements' = [numElements EXCEPT ![q] = Count(many)]
         /\ todo' = UnrefOf(field[q].first) \o UnrefOf(field[q].second)
                    \o then
         /\ field' = [field EXCEPT ![q].first = NULL, ![q].second = NULL]
    ELSE /\ todo' = then
         /\ UNCHANGED <<numElements, field>>

(* dpiQueue_deqOne and dpiQueue_deqMany begin. *)
Deq(q, many) ==
    /\ QueueCheck(q)
    /\ field[q].deqOptions # NULL
    /\ AllocateBuffer(q, many, <<QueueWork("populate", q, 1, many)>>)
    /\ UNCHANGED <<quota, mem, kind, refCount, oci, listVars, conn, user>>

(* Message properties for the next place of the buffer, if it has none.     *)
PopulateProps(h) ==
    LET q == Subject
        place == Places[Head(todo).i] IN
    /\ Doing("populate")
    /\ field[q][place] = NULL
    /\ mem' = [mem EXCEPT ![h] = "live"]
    /\ kind' = [kind EXCEPT ![h] = "msgProps"]
    /\ refCount' = [refCount EXCEPT ![h] = 1, ![Conn] = @ + 1]
    /\ \/ /\ oci' = [oci EXCEPT ![h] = "open"]
          /\ field' = [field EXCEPT ![h] = PropsFields, ![q][place] = h]
          /\ UNCHANGED todo
       \/ /\ "descriptorAlloc" \in Failures
          /\ field' = [field EXCEPT ![h] = PropsFields]
          /\ todo' = <<Free(h)>>
          /\ UNCHANGED oci
    /\ UNCHANGED <<quota, listVars, conn, user, numElements>>

NextPlace ==
    LET w == Head(todo) IN
    todo' = IF w.i = Count(w.propagate)
            THEN <<QueueWork("dequeue", w.h, 0, w.propagate)>>
            ELSE <<[w EXCEPT !.i = @ + 1]>>

(* An object for its payload, if it has none; a JSON payload is made anew.  *)
PopulatePayload ==
    LET q == Subject
        p == field[q][Places[Head(todo).i]]
        type == field[q].payloadType IN
    /\ Doing("populate")
    /\ p # NULL
    /\ \/ /\ type # NULL /\ field[p].payloadObj = NULL
          /\ \E h \in Fresh :
                /\ mem' = [mem EXCEPT ![h] = "live"]
                /\ kind' = [kind EXCEPT ![h] = "object"]
                /\ refCount' = [refCount EXCEPT ![h] = 1, ![type] = @ + 1]
                /\ \/ /\ oci' = [oci EXCEPT ![h] = "open"]
                      /\ field' = [field EXCEPT
                            ![h] = ObjectFields(type, NULL), ![p].payloadObj = h]
                      /\ AddHandle("objects", h)
                      /\ NextPlace
                   \/ /\ "objectNew" \in Failures
                      /\ field' = [field EXCEPT ![h] = ObjectFields(type, NULL)]
                      /\ todo' = <<Free(h)>>
                      /\ UNCHANGED <<oci, lists, openSlotNum>>
       \/ /\ kind[q] = "jsonQueue"
          /\ \E h \in Fresh :
                /\ mem' = [mem EXCEPT ![h] = "live"]
                /\ kind' = [kind EXCEPT ![h] = "json"]
                /\ refCount' = [refCount EXCEPT ![h] = 1, ![Conn] = @ + 1]
                /\ oci' = [oci EXCEPT ![h] = "open"]
                /\ field' = [field EXCEPT
                      ![h] = OptionsFields, ![p].payloadJson = h]
                /\ NextPlace
                /\ UNCHANGED <<lists, openSlotNum>>
       \/ /\ kind[q] = "queue"
          /\ type # NULL => field[p].payloadObj # NULL
          /\ NextPlace
          /\ UNCHANGED <<mem, kind, refCount, oci, field, lists, openSlotNum>>
    /\ UNCHANGED <<quota, closing, conn, user, numElements>>

(***************************************************************************)
(* Messages come for the first n places, and are given to the program.     *)
(* When the call fails, none is, even if some have been dequeued.          *)
(***************************************************************************)
Dequeue ==
    LET q == Subject IN
    /\ Doing("dequeue")
    /\ \E n \in 0 .. Count(Head(todo).propagate) :
          /\ user' = [x \in Blocks |->
                IF \E i \in 1 .. n : field[q][Places[i]] = x
                THEN user[x] + 1 ELSE user[x]]
          /\ field' = [field EXCEPT ![q] =
                [r \in DOMAIN @ |->
                    IF \E i \in 1 .. n : Places[i] = r THEN NULL ELSE @[r]]]
    /\ todo' = <<>>
    /\ UNCHANGED <<quota, mem, kind, refCount, oci, listVars, conn,
                   numElements>>

(* dpiQueue_enqOne and dpiQueue_enqMany: with or without success, nothing   *)
(* changes hands.                                                           *)
Enq(q, p, r) ==
    /\ QueueCheck(q)
    /\ field[q].enqOptions # NULL
    /\ Has(p, "msgProps") /\ Has(r, "msgProps")
    /\ AllocateBuffer(q, p # r, <<>>)
    /\ UNCHANGED <<quota, mem, kind, refCount, oci, listVars, conn, user>>

(* dpiQueue__enq calls OCI with the payload: of the type of the queue.      *)
EnqueuesObject(o) ==
    \E q, p \in Blocks :
        /\ QueueCheck(q) /\ Has(p, "msgProps")
        /\ field[p].payloadObj = o
        /\ field[q].payloadType = field[o].type

(* dpiConn_enqObject and dpiConn_deqObject: the handles are the program's.  *)
EnqDeqObject(o) ==
    /\ Has(Conn, "conn") /\ Connected
    /\ Has(o, "object")
    /\ \E p \in Blocks : Has(p, "msgProps")

MessageStep ==
    \/ FreeMsgProps /\ UNCHANGED numElements
    \/ FreeDeqOptions /\ UNCHANGED numElements
    \/ FreeEnqOptions /\ UNCHANGED numElements
    \/ FreeJson /\ UNCHANGED numElements
    \/ FreeQueue /\ UNCHANGED numElements
    \/ PopulatePayload
    \/ Dequeue
    \/ \E h \in Fresh : PopulateProps(h)
    \/ /\ Idle
       /\ \/ \E h \in Unused :
                /\ \/ NewMsgProps(h) \/ NewDeqOptions(h) \/ NewEnqOptions(h)
                   \/ NewJson(h) \/ NewQueue(h)
                /\ UNCHANGED numElements
          \/ \E h \in Fresh : \E q \in Blocks :
                GetDeqOptions(q, h) \/ GetEnqOptions(q, h)
    \/ /\ Idle
       /\ \E h \in Blocks :
             \/ \E many \in BOOLEAN : Deq(h, many)
             \/ \E x \in Blocks :
                   \/ (SetPayloadObject(h, x) \/ SetPayloadJson(h, x))
                      /\ UNCHANGED numElements
                   \/ \E y \in Blocks : Enq(h, x, y)
=============================================================================
