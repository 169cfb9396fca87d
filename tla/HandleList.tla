---------------------------- MODULE HandleList ----------------------------
(***************************************************************************)
(* The list of open handles that a connection keeps (dpiHandleList.c):     *)
(* one for statements, one for LOBs and one for objects, so that closing   *)
(* the connection can close them too.  The list is an array with holes; a  *)
(* handle remembers the slot it was put in (openSlotNum) and its owner     *)
(* passes that number to removeHandle, which trusts it.  Both functions    *)
(* run under list->mutex and are one step each.                            *)
(*                                                                         *)
(* The users modelled here follow the pattern of dpiLob__allocate and      *)
(* dpiLob__close: a handle is added once when it is opened and removed     *)
(* once, from its own slot, when it is closed.                             *)
(***************************************************************************)
EXTENDS Integers, FiniteSets

CONSTANTS
    Items,          \* the handles that can be put on the list
    NULL,           \* the null pointer, an empty slot
    InitialSlots,   \* slots of a new list (8 in the code)
    Growth          \* slots added when the list grows (8 in the code)

ASSUME HandleListAssumption ==
    /\ InitialSlots \in Nat \ {0}
    /\ Growth \in Nat \ {0, 1}
    /\ NULL \notin Items

VARIABLES
    numSlots, numUsedSlots, currentPos, handles,    \* dpiHandleList
    openSlotNum,    \* the slot each handle was told it has
    open            \* handles that are open

listVars == <<numSlots, numUsedSlots, currentPos, handles, openSlotNum>>
vars == <<listVars, open>>

Slots == 0 .. numSlots - 1
Used == {i \in Slots : handles[i] # NULL}

InitList ==
    /\ numSlots = InitialSlots
    /\ numUsedSlots = 0
    /\ currentPos = 0
    /\ handles = [i \in 0 .. InitialSlots - 1 |-> NULL]
    /\ openSlotNum = [h \in Items |-> 0]

(* MUTANT: the slot at currentPos is taken without looking for an empty one. *)
ScanNothing == currentPos

(***************************************************************************)
(* Where the scan for an empty slot stops: the first one at or after       *)
(* currentPos, round the end of the array; back at currentPos if there is  *)
(* none, which the code does not notice.                                   *)
(***************************************************************************)
ScanPos ==
    LET slotAfter(k) == IF currentPos + k < numSlots
                        THEN currentPos + k ELSE currentPos + k - numSlots
        empty == {k \in Slots : handles[slotAfter(k)] = NULL}
    IN  IF empty = {} THEN currentPos
        ELSE slotAfter(CHOOSE k \in empty : \A j \in empty : k <= j)

(* dpiHandleList__addHandle into a list whose slots are all in use. *)
AddHandleGrow(h) ==
    /\ numUsedSlots = numSlots
    /\ numSlots' = numSlots + Growth
    /\ numUsedSlots' = numUsedSlots + 1
    /\ currentPos' = numUsedSlots'
    /\ handles' = [i \in 0 .. numSlots' - 1 |->
                      IF i = numUsedSlots THEN h
                      ELSE IF i \in Slots THEN handles[i] ELSE NULL]
    /\ openSlotNum' = [openSlotNum EXCEPT ![h] = numUsedSlots]

(* dpiHandleList__addHandle into an empty slot. *)
AddHandleScan(h) ==
    /\ numUsedSlots # numSlots
    /\ numUsedSlots' = numUsedSlots + 1
    /\ handles' = [handles EXCEPT ![ScanPos] = h]
    /\ openSlotNum' = [openSlotNum EXCEPT ![h] = ScanPos]
    /\ currentPos' = IF ScanPos + 1 = numSlots THEN 0 ELSE ScanPos + 1
    /\ UNCHANGED numSlots

AddHandle(h) == AddHandleGrow(h) \/ AddHandleScan(h)

(* MUTANT: the slot keeps the handle. *)
RemoveKeeps(slotNum) ==
    /\ numUsedSlots' = numUsedSlots - 1
    /\ UNCHANGED <<numSlots, currentPos, handles, openSlotNum>>

(* MUTANT: the slot is not given back to the count. *)
RemoveUncounted(slotNum) ==
    /\ handles' = [handles EXCEPT ![slotNum] = NULL]
    /\ UNCHANGED <<numSlots, numUsedSlots, currentPos, openSlotNum>>

(* dpiHandleList__removeHandle: the slot is emptied, whatever it holds. *)
RemoveHandle(slotNum) ==
    /\ handles' = [handles EXCEPT ![slotNum] = NULL]
    /\ numUsedSlots' = numUsedSlots - 1
    /\ UNCHANGED <<numSlots, currentPos, openSlotNum>>

-----------------------------------------------------------------------------
Init ==
    /\ InitList
    /\ open = {}

Open(h) ==
    /\ h \notin open
    /\ AddHandle(h)
    /\ open' = open \cup {h}

Close(h) ==
    /\ h \in open
    /\ RemoveHandle(openSlotNum[h])
    /\ open' = open \ {h}

Next == \E h \in Items : Open(h) \/ Close(h)

Spec == Init /\ [][Next]_vars

-----------------------------------------------------------------------------
(* The fields of the list have their C types and every position is a slot. *)
TypeOK ==
    /\ numSlots \in Nat \ {0}
    /\ numUsedSlots \in Nat
    /\ currentPos \in Slots
    /\ handles \in [Slots -> Items \cup {NULL}]
    /\ openSlotNum \in [Items -> Nat]
    /\ open \subseteq Items

(* The list holds the open handles, each exactly once and in the slot it    *)
(* remembers: closing the connection finds every one of them and nothing    *)
(* that is closed already.                                                  *)
ListsOpenHandles ==
    /\ \A h \in open : openSlotNum[h] \in Slots
                       /\ handles[openSlotNum[h]] = h
    /\ \A i \in Used : handles[i] \in open /\ openSlotNum[handles[i]] = i

(* numUsedSlots counts the slots in use, so that the list grows exactly     *)
(* when no slot is empty and the scan always finds one otherwise.           *)
CountsUsedSlots == numUsedSlots = Cardinality(Used)

(* Opening a handle never takes the slot of another one that is open.       *)
AddNeverOverwrites ==
    [][\A i \in Slots : handles[i] # NULL => handles'[i] \in {handles[i], NULL}
      ]_vars
=============================================================================
