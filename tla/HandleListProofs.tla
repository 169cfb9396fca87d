------------------------- MODULE HandleListProofs -------------------------
(***************************************************************************)
(* Machine-checked safety of the list of open handles, for every set of    *)
(* handles and every initial size and growth of the array.                 *)
(***************************************************************************)
EXTENDS HandleList, FiniteSetTheorems, WellFoundedInduction, TLAPS

ListInv == TypeOK /\ ListsOpenHandles /\ CountsUsedSlots

-----------------------------------------------------------------------------
(* The scan of addHandle ends at an empty slot whenever there is one.      *)

LEMMA SmallestExists ==
    ASSUME NEW S \in SUBSET Nat, S # {}
    PROVE  \E k \in S : \A j \in S : k <= j
  <1>1. PICK k \in S : \A j \in S : ~(<<j, k>> \in OpToRel(<, Nat))
    BY NatLessThanWellFounded, WFMin, Zenon
  <1>2. \A j \in S : ~(j < k)
    BY <1>1 DEF OpToRel
  <1> QED BY <1>2

LEMMA ScanFindsEmptySlot ==
    ASSUME TypeOK, NEW i \in Slots, handles[i] = NULL
    PROVE  ScanPos \in Slots /\ handles[ScanPos] = NULL
  <1> DEFINE slotAfter(k) == IF currentPos + k < numSlots
                             THEN currentPos + k ELSE currentPos + k - numSlots
             empty == {k \in Slots : handles[slotAfter(k)] = NULL}
             first == CHOOSE k \in empty : \A j \in empty : k <= j
  <1>1. \A k \in Slots : slotAfter(k) \in Slots
    BY DEF TypeOK, Slots
  <1>2. \E k \in Slots : slotAfter(k) = i
    <2>1. CASE currentPos <= i
      BY <2>1, i - currentPos \in Slots, slotAfter(i - currentPos) = i
         DEF TypeOK, Slots
    <2>2. CASE ~(currentPos <= i)
      BY <2>2, i - currentPos + numSlots \in Slots,
         slotAfter(i - currentPos + numSlots) = i
         DEF TypeOK, Slots
    <2> QED BY <2>1, <2>2
  <1>3. empty # {} /\ empty \in SUBSET Nat
    BY <1>2 DEF Slots
  <1>4. \E k \in empty : \A j \in empty : k <= j
    BY <1>3, SmallestExists
  <1>5. first \in empty
    BY <1>4, Zenon
  <1>6. ScanPos = slotAfter(first)
    BY <1>3 DEF ScanPos
  <1> QED BY <1>1, <1>5, <1>6

LEMMA SlotsFinite ==
    ASSUME TypeOK
    PROVE  /\ IsFiniteSet(Slots) /\ Cardinality(Slots) = numSlots
           /\ IsFiniteSet(Used) /\ Used \subseteq Slots
           /\ Used = Slots => Cardinality(Used) = numSlots
  <1>1. IsFiniteSet(Slots) /\ Cardinality(Slots) = numSlots
    BY FS_Interval DEF TypeOK, Slots
  <1>2. Used \in SUBSET Slots
    BY DEF Used
  <1> QED BY <1>1, <1>2, FS_Subset

(* An empty slot exists exactly when the count says so. *)
LEMMA CountTellsFull ==
    ASSUME TypeOK, CountsUsedSlots
    PROVE  /\ numUsedSlots = numSlots => Used = Slots
           /\ numUsedSlots # numSlots =>
                 \E i \in Slots : handles[i] = NULL
  <1>1. numUsedSlots = numSlots => Used = Slots
    <2> HAVE numUsedSlots = numSlots
    <2>1. Used \in SUBSET Slots /\ Cardinality(Slots) = Cardinality(Used)
      BY SlotsFinite DEF CountsUsedSlots
    <2> QED BY <2>1, SlotsFinite, FS_Subset
  <1>2. ASSUME numUsedSlots # numSlots
        PROVE  \E i \in Slots : handles[i] = NULL
    <2>1. Used # Slots
      BY <1>2, SlotsFinite DEF CountsUsedSlots
    <2> QED BY <2>1 DEF Used
  <1> QED BY <1>1, <1>2

-----------------------------------------------------------------------------
LEMMA InitInv == Init => ListInv
  <1> SUFFICES ASSUME Init PROVE ListInv
    OBVIOUS
  <1>1. TypeOK
    BY HandleListAssumption DEF Init, InitList, TypeOK, Slots
  <1>2. Used = {}
    BY HandleListAssumption DEF Init, InitList, Used, Slots
  <1>3. ListsOpenHandles
    BY <1>2 DEF ListsOpenHandles, Init
  <1>4. CountsUsedSlots
    BY <1>2, FS_EmptySet DEF CountsUsedSlots, Init, InitList
  <1> QED BY <1>1, <1>3, <1>4 DEF ListInv

(* What both branches of addHandle do: one empty slot gets the handle.     *)
LEMMA AddHandleEffect ==
    ASSUME ListInv, NEW h \in Items, AddHandle(h)
    PROVE  /\ \E pos \in Slots' :
                 /\ pos \in Slots => handles[pos] = NULL
                 /\ handles'[pos] = h
                 /\ \A i \in Slots' \ {pos} :
                       handles'[i] = IF i \in Slots THEN handles[i] ELSE NULL
                 /\ openSlotNum' = [openSlotNum EXCEPT ![h] = pos]
           /\ Slots \subseteq Slots'
           /\ numSlots' \in Nat \ {0}
           /\ currentPos' \in Slots'
           /\ handles' \in [Slots' -> Items \cup {NULL}]
           /\ numUsedSlots' = numUsedSlots + 1
  <1> USE DEF ListInv
  <1>1. CASE AddHandleGrow(h)
    <2>1. /\ numSlots' = numSlots + Growth
          /\ numSlots' \in Nat \ {0}
          /\ Slots \subseteq Slots'
          /\ numUsedSlots \in Slots' /\ numUsedSlots \notin Slots
          /\ numUsedSlots + 1 \in Slots'
      BY <1>1, HandleListAssumption DEF AddHandleGrow, TypeOK, Slots
    <2>2. handles' = [i \in Slots' |->
                         IF i = numUsedSlots THEN h
                         ELSE IF i \in Slots THEN handles[i] ELSE NULL]
      BY <1>1 DEF AddHandleGrow, Slots
    <2>3. handles' \in [Slots' -> Items \cup {NULL}]
      BY <2>2 DEF TypeOK
    <2> QED BY <1>1, <2>1, <2>2, <2>3 DEF AddHandleGrow
  <1>2. CASE AddHandleScan(h)
    <2>1. ScanPos \in Slots /\ handles[ScanPos] = NULL
      BY <1>2, CountTellsFull, ScanFindsEmptySlot DEF AddHandleScan
    <2>2. Slots' = Slots /\ numSlots' = numSlots
      BY <1>2 DEF AddHandleScan, Slots
    <2>3. handles' \in [Slots' -> Items \cup {NULL}]
      BY <1>2, <2>1, <2>2 DEF AddHandleScan, TypeOK
    <2>4. currentPos' \in Slots'
      BY <1>2, <2>1, <2>2 DEF AddHandleScan, TypeOK, Slots
    <2>5. /\ handles'[ScanPos] = h
          /\ \A i \in Slots \ {ScanPos} : handles'[i] = handles[i]
      BY <1>2, <2>1 DEF AddHandleScan, TypeOK
    <2>6. openSlotNum' = [openSlotNum EXCEPT ![h] = ScanPos]
      BY <1>2 DEF AddHandleScan
    <2>7. numUsedSlots' = numUsedSlots + 1
      BY <1>2 DEF AddHandleScan
    <2> QED BY <2>1, <2>2, <2>3, <2>4, <2>5, <2>6, <2>7 DEF TypeOK
  <1> QED BY <1>1, <1>2 DEF AddHandle

LEMMA OpenInv ==
    ASSUME ListInv, NEW h \in Items, Open(h)
    PROVE  ListInv'
  <1>1. AddHandle(h) /\ h \notin open /\ open' = open \cup {h}
    BY DEF Open
  <1>2. PICK pos \in Slots' :
             /\ pos \in Slots => handles[pos] = NULL
             /\ handles'[pos] = h
             /\ \A i \in Slots' \ {pos} :
                   handles'[i] = IF i \in Slots THEN handles[i] ELSE NULL
             /\ openSlotNum' = [openSlotNum EXCEPT ![h] = pos]
    BY <1>1, AddHandleEffect
  <1>3. /\ Slots \subseteq Slots'
        /\ numSlots' \in Nat \ {0}
        /\ currentPos' \in Slots'
        /\ handles' \in [Slots' -> Items \cup {NULL}]
        /\ numUsedSlots' = numUsedSlots + 1
    BY <1>1, AddHandleEffect
  <1>4. TypeOK'
    <2>1. pos \in Nat
      BY <1>3 DEF Slots
    <2>2. openSlotNum' \in [Items -> Nat]
      BY <1>2, <2>1 DEF ListInv, TypeOK
    <2>3. numUsedSlots' \in Nat /\ open' \subseteq Items
      BY <1>1, <1>3 DEF ListInv, TypeOK
    <2> QED BY <1>3, <2>2, <2>3 DEF TypeOK
  <1>5. Used' = Used \cup {pos} /\ pos \notin Used
    BY <1>2, <1>3, HandleListAssumption DEF Used
  <1>6. CountsUsedSlots'
    BY <1>3, <1>5, SlotsFinite, FS_AddElement DEF CountsUsedSlots, ListInv
  <1>7. openSlotNum'[h] = pos /\ \A g \in Items \ {h} :
            openSlotNum'[g] = openSlotNum[g]
    BY <1>2 DEF ListInv, TypeOK
  <1>8. \A g \in open' : openSlotNum'[g] \in Slots'
                          /\ handles'[openSlotNum'[g]] = g
    <2> TAKE g \in open'
    <2>1. CASE g = h
      BY <1>2, <1>7, <2>1
    <2>2. CASE g # h
      <3>1. g \in open /\ g \in Items /\ g # NULL
        BY <1>1, <2>2, HandleListAssumption DEF ListInv, TypeOK
      <3>2. openSlotNum[g] \in Slots /\ handles[openSlotNum[g]] = g
        BY <3>1 DEF ListInv, ListsOpenHandles
      <3>3. openSlotNum[g] # pos
        BY <1>2, <3>1, <3>2
      <3> QED BY <1>2, <1>3, <1>7, <2>2, <3>1, <3>2, <3>3
    <2> QED BY <2>1, <2>2
  <1>9. \A i \in Used' : handles'[i] \in open'
                          /\ openSlotNum'[handles'[i]] = i
    <2> TAKE i \in Used'
    <2>1. CASE i = pos
      BY <1>1, <1>2, <1>7, <2>1
    <2>2. CASE i # pos
      <3>1. i \in Used /\ handles'[i] = handles[i]
        BY <1>2, <1>3, <1>5, <2>2 DEF Used
      <3>2. handles[i] \in open /\ openSlotNum[handles[i]] = i
        BY <3>1 DEF ListInv, ListsOpenHandles
      <3> QED BY <1>1, <1>7, <3>1, <3>2 DEF ListInv, TypeOK
    <2> QED BY <2>1, <2>2
  <1> QED BY <1>4, <1>6, <1>8, <1>9 DEF ListInv, ListsOpenHandles

LEMMA CloseInv ==
    ASSUME ListInv, NEW h \in Items, Close(h)
    PROVE  ListInv'
  <1> DEFINE pos == openSlotNum[h]
  <1>1. /\ pos \in Slots /\ handles[pos] = h /\ h \in open
        /\ open' = open \ {h}
        /\ handles' = [handles EXCEPT ![pos] = NULL]
        /\ numUsedSlots' = numUsedSlots - 1
        /\ UNCHANGED <<numSlots, currentPos, openSlotNum>>
    BY DEF Close, RemoveHandle, ListInv, ListsOpenHandles
  <1>2. Slots' = Slots
    BY <1>1 DEF Slots
  <1>3. Used' = Used \ {pos} /\ pos \in Used
    BY <1>1, <1>2, HandleListAssumption DEF Used, ListInv, TypeOK
  <1>4. CountsUsedSlots' /\ numUsedSlots' \in Nat
    <2>1. /\ Cardinality(Used') = Cardinality(Used) - 1
          /\ IsFiniteSet(Used') /\ Cardinality(Used') \in Nat
      BY <1>3, SlotsFinite, FS_RemoveElement, FS_CardinalityType DEF ListInv
    <2> QED BY <1>1, <2>1 DEF CountsUsedSlots, ListInv
  <1>5. TypeOK'
    BY <1>1, <1>2, <1>4 DEF ListInv, TypeOK
  <1>6. ListsOpenHandles'
    <2>1. \A g \in open' : openSlotNum'[g] \in Slots'
                            /\ handles'[openSlotNum'[g]] = g
      BY <1>1, <1>2 DEF ListInv, ListsOpenHandles, TypeOK
    <2>2. \A i \in Used' : handles'[i] \in open'
                            /\ openSlotNum'[handles'[i]] = i
      BY <1>1, <1>2, <1>3 DEF ListInv, ListsOpenHandles, TypeOK, Used
    <2> QED BY <2>1, <2>2 DEF ListsOpenHandles
  <1> QED BY <1>4, <1>5, <1>6 DEF ListInv

LEMMA StutterInv == ListInv /\ UNCHANGED vars => ListInv'
  BY DEF ListInv, TypeOK, ListsOpenHandles, CountsUsedSlots, Used, Slots,
         vars, listVars

LEMMA ListInvariant == Spec => []ListInv
  <1>1. ListInv /\ [Next]_vars => ListInv'
    BY OpenInv, CloseInv, StutterInv DEF Next
  <1> QED BY InitInv, <1>1, PTL DEF Spec

-----------------------------------------------------------------------------
(* TypeOK holds throughout: every position the list uses is a slot of the  *)
(* array, however often it has grown.                                      *)
THEOREM TypeCorrect == Spec => []TypeOK
  BY ListInvariant, PTL DEF ListInv

(* ListsOpenHandles holds throughout: the connection can find exactly the  *)
(* handles that are open, each in the slot it will be removed from.        *)
THEOREM OpenHandlesAreListed == Spec => []ListsOpenHandles
  BY ListInvariant, PTL DEF ListInv

(* CountsUsedSlots holds throughout: the list grows when it must.          *)
THEOREM UsedSlotsAreCounted == Spec => []CountsUsedSlots
  BY ListInvariant, PTL DEF ListInv

(* AddNeverOverwrites: no step of the list replaces an open handle.        *)
THEOREM OpenHandlesAreKept == Spec => AddNeverOverwrites
  <1> DEFINE Kept == \A i \in Slots : handles[i] # NULL =>
                        handles'[i] \in {handles[i], NULL}
  <1>1. ListInv /\ [Next]_vars => Kept
    <2> SUFFICES ASSUME ListInv, [Next]_vars PROVE Kept
      OBVIOUS
    <2>1. CASE UNCHANGED vars
      BY <2>1 DEF vars, listVars
    <2>2. ASSUME NEW h \in Items, Open(h) PROVE Kept
      BY <2>2, AddHandleEffect DEF Open
    <2>3. ASSUME NEW h \in Items, Close(h) PROVE Kept
      BY <2>3 DEF Close, RemoveHandle, ListInv, TypeOK
    <2> QED BY <2>1, <2>2, <2>3 DEF Next
  <1>2. ListInv /\ [Next]_vars => [Kept]_vars
    BY <1>1
  <1> QED BY <1>2, ListInvariant, PTL DEF Spec, AddNeverOverwrites
=============================================================================
