------------------------------- MODULE Objects -------------------------------
(***************************************************************************)
(* Object types, their attributes and objects (dpiObjectType.c,            *)
(* dpiObjectAttr.c, dpiObject.c).  A type of a collection holds the type   *)
(* of its elements, an attribute the type it belongs to and, if its values *)
(* are objects, their type.  An object owns its instance and is listed by  *)
(* its connection, or lives in the instance of the object it depends on.   *)
(***************************************************************************)
EXTENDS Lobs

TypeFields(element) == [conn |-> Conn, element |-> element]
AttrFields(type, valueType) == [belongsTo |-> type, valueType |-> valueType]
ObjectFields(type, dependsOn) == [type |-> type, dependsOn |-> dependsOn]

(* A handle without an OCI handle of its own, given to the program if ok.   *)
Describe(h, k, fields, ok) ==
    /\ Allocate(h, k, fields)
    /\ ok \/ "describe" \in Failures
    /\ IF ok THEN Give(h) ELSE Discard(h)
    /\ UNCHANGED <<quota, oci, listVars, conn>>

(***************************************************************************)
(* A new type that nothing but the field of h holds: dpiObjectType__init   *)
(* and dpiOracleType__populateTypeInfo describe the type of the elements   *)
(* or of the values as part of describing h, as the last that may fail.    *)
(* (A type SYS.XMLTYPE is taken for a text, and freed again.)              *)
(***************************************************************************)
DescribeBoth(h, k, fields, t) ==
    /\ h \in First(Room(k)) /\ t # h
    /\ mem' = [mem EXCEPT ![h] = "live", ![t] = "live"]
    /\ kind' = [kind EXCEPT ![h] = k, ![t] = "objectType"]
    /\ field' = [field EXCEPT ![h] = fields, ![t] = TypeFields(NULL)]
    /\ refCount' = [x \in Blocks |->
                       IF x \in {h, t} THEN 1
                       ELSE refCount[x] + CountOf(fields, x)
                            + CountOf(TypeFields(NULL), x)]
    /\ Give(h)
    /\ UNCHANGED <<quota, oci, listVars, conn>>

(* dpiConn_getObjectType and dpiObjectType__allocate. *)
GetObjectType(h) ==
    /\ Has(Conn, "conn") /\ Connected
    /\ \/ Describe(h, "objectType", TypeFields(NULL), TRUE)
       \/ Describe(h, "objectType", TypeFields(NULL), FALSE)
       \/ \E t \in First(Room("objectType") \ {h}) :
             DescribeBoth(h, "objectType", TypeFields(t), t)

(* dpiObjectType__check. *)
TypeCheck(t) == Has(t, "objectType") /\ Connected

(* dpiObjectType_getAttributes, for a type with one attribute. *)
GetAttributes(t, h) ==
    /\ TypeCheck(t)
    /\ \/ Describe(h, "objectAttr", AttrFields(t, NULL), TRUE)
       \/ Describe(h, "objectAttr", AttrFields(t, NULL), FALSE)
       \/ \E v \in First(Room("objectType") \ {h}) :
             DescribeBoth(h, "objectAttr", AttrFields(t, v), v)

FreeObjectType == 
    FreeSimple("objectType", UnrefField("conn") \o UnrefField("element"))
FreeObjectAttr == 
    FreeSimple("objectAttr",
               UnrefField("belongsTo") \o UnrefField("valueType"))

-----------------------------------------------------------------------------
(***************************************************************************)
(* dpiObject__allocate of an object of its own.  Getting the indicator or  *)
(* listing the object may fail when it has its instance already: freeing   *)
(* it then empties the first slot of the list, which is not its own.       *)
(***************************************************************************)
NewObject(h, type) ==
    /\ Allocate(h, "object", ObjectFields(type, NULL))
    /\ \/ /\ oci' = [oci EXCEPT ![h] = "open"]
          /\ AddHandle("objects", h)
          /\ Give(h) \/ ("object" \in Failures /\ Discard(h))
          /\ UNCHANGED conn
       \/ /\ "objectNew" \in Failures
          /\ Discard(h)
          /\ UNCHANGED <<oci, lists, openSlotNum, conn>>
       \/ /\ "objectGetInd" \in Failures
          /\ oci' = [oci EXCEPT ![h] = "open"]
          /\ conn' = [conn EXCEPT !.ordered = FALSE]
          /\ Discard(h)
          /\ UNCHANGED <<lists, openSlotNum>>
    /\ UNCHANGED <<quota, closing>>

(* dpiObjectType_createObject. *)
CreateObject(t, h) == TypeCheck(t) /\ NewObject(h, t)

(* dpiObject__check. *)
ObjectCheck(o) == Has(o, "object") /\ Connected

(* dpiObject_copy: a new object of the same type; the copying may fail. *)
CopyObject(o, h) == ObjectCheck(o) /\ NewObject(h, field[o].type)

(* MUTANT: no reference is taken to the object it is part of. *)
NewPartUnheld(o, type, h) ==
    /\ mem' = [mem EXCEPT ![h] = "live"]
    /\ h \in First(Room("object"))
    /\ kind' = [kind EXCEPT ![h] = "object"]
    /\ field' = [field EXCEPT ![h] = ObjectFields(type, o)]
    /\ refCount' = [refCount EXCEPT ![h] = 1, ![type] = @ + 1]
    /\ oci' = [oci EXCEPT ![h] = "part"]
    /\ Give(h)
    /\ UNCHANGED <<quota, listVars, conn>>

(* dpiObject__allocate for a value that is part of the instance of o. *)
NewPart(o, type, h) ==
    /\ Allocate(h, "object", ObjectFields(type, o))
    /\ oci' = [oci EXCEPT ![h] = "part"]
    /\ Give(h)
    /\ UNCHANGED <<quota, listVars, conn>>

(* The types of the objects that are elements or attributes of o. *)
PartTypes(o) ==
    ({field[field[o].type].element} \cup
     {field[a].valueType : a \in {a \in Blocks :
         Has(a, "objectAttr") /\ field[a].belongsTo = field[o].type}}) \ {NULL}

(***************************************************************************)
(* dpiObject_getElementValueByIndex and dpiObject_getAttributeValue, by    *)
(* way of dpiObject__fromOracleValue: an object, or a LOB of its own.      *)
(* Other values are copied.                                                *)
(***************************************************************************)
GetValue(o, h) ==
    /\ ObjectCheck(o)
    /\ \/ \E type \in PartTypes(o) : NewPart(o, type, h)
       \/ NewLob(h)

(***************************************************************************)
(* dpiObject_setElementValueByIndex, dpiObject_appendElement and           *)
(* dpiObject_setAttributeValue with a LOB given as bytes: for the call a   *)
(* LOB is made (dpiObject__toOracleValue), written, and released again     *)
(* (dpiObject__clearOracleValue) whether or not writing it fails.          *)
(***************************************************************************)
SetValue(o, h) ==
    /\ ObjectCheck(o)
    /\ \/ AllocateLobFails(h, LobFields)
       \/ /\ AllocateLob(h, LobFields)
          /\ todo' = <<Unref(h)>>
          /\ UNCHANGED user
    /\ UNCHANGED <<quota, closing, conn>>

(* The functions that look at or change the elements of a collection. *)
AccessObject(o) == ObjectCheck(o)

(* dpiObject__close, with dpiObject__closeHelper: only an instance of its   *)
(* own is freed and taken from the list.                                    *)
ObjectClosed(o) ==
    /\ closing' = [closing EXCEPT ![o] = TRUE]
    /\ oci' = [oci EXCEPT ![o] = IF @ = "open" THEN "freed" ELSE @]
    /\ lists' = IF oci[o] = "open" /\ ~conn.closing
                THEN RemoveHandle("objects", o) ELSE lists

(* The loop of dpiConn__close over the objects, one object. *)
CloseEachObject ==
    LET i == NextSlot("closeObjects", "objects")
        o == lists["objects"][i] IN
    /\ Doing("closeObjects")
    /\ \/ /\ IF i # 0 /\ ~closing[o] THEN ObjectClosed(o)
             ELSE UNCHANGED <<closing, oci, lists>>
          /\ LoopOn(i)
          /\ UNCHANGED conn
       \/ /\ i # 0 /\ ~closing[o]
          /\ Head(todo).propagate /\ Allowed("closeFails")
          /\ CloseFails
          /\ UNCHANGED <<closing, oci, lists>>
    /\ UNCHANGED <<quota, mem, kind, refCount, field, openSlotNum, user>>

(* dpiObject__free. *)
FreeObject ==
    /\ Doing("free")
    /\ kind[Subject] = "object"
    /\ IF closing[Subject] THEN UNCHANGED <<closing, oci, lists>>
                           ELSE ObjectClosed(Subject)
    /\ GiveBack(UnrefField("type") \o UnrefField("dependsOn"))
    /\ UNCHANGED <<quota, mem, kind, refCount, openSlotNum, conn, user>>

ObjectStep ==
    \/ CloseEachObject
    \/ FreeObject
    \/ FreeObjectType
    \/ FreeObjectAttr
    \/ /\ Idle
       /\ \E h \in Unused :
             \/ GetObjectType(h)
             \/ \E x \in Blocks : \/ GetAttributes(x, h)
                                  \/ CreateObject(x, h)
                                  \/ CopyObject(x, h)
                                  \/ GetValue(x, h)
                                  \/ SetValue(x, h)
=============================================================================
