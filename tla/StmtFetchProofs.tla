--------------------------- MODULE StmtFetchProofs ---------------------------
(***************************************************************************)
(* Proofs about StmtFetch, for every result, every array size, every scroll *)
(* mode and offset, and any number of executions.                          *)
(***************************************************************************)
EXTENDS StmtFetch, TLAPS

TypeOK ==
    /\ exec \in Nat /\ total \in Nat /\ pos \in 0 .. total
    /\ cursorOpen \in BOOLEAN /\ hasRowsToFetch \in BOOLEAN
    /\ positioned \in BOOLEAN
    /\ fetchArraySize \in Nat \ {0}
    /\ bufferRowCount \in Nat /\ bufferRowIndex \in Nat
    /\ bufferMinRow \in Int /\ rowCount \in Int
    /\ maxArraySize \in Nat

(* Executed, and no row fetched yet: the buffer has no row to hand out. *)
JustExecuted ==
    /\ hasRowsToFetch
    /\ pos = 0 /\ rowCount = 0
    /\ bufferRowIndex >= bufferRowCount

(* The buffer has rows, the last of which is where the cursor stands; the  *)
(* row before bufferRowIndex is the one handed out last.                   *)
Buffered ==
    /\ bufferRowCount > 0 /\ bufferRowIndex <= bufferRowCount
    /\ bufferMinRow >= 1
    /\ pos = bufferMinRow + bufferRowCount - 1
    /\ rowCount = bufferMinRow + bufferRowIndex - 1
    /\ ~hasRowsToFetch => pos = total

(* A fetch has found no more rows. *)
AtEnd ==
    /\ bufferRowCount = 0 /\ ~hasRowsToFetch
    /\ pos = total /\ rowCount = total

(* The rows of the buffer that can still be handed out: by a scroll also   *)
(* those that were handed out before.                                      *)
FirstWanted == IF ScrollModes = {} THEN bufferRowIndex ELSE 0

RowsAreThere ==
    \A i \in FirstWanted .. bufferRowCount - 1 :
        i < maxArraySize /\ data[i] = <<exec, bufferMinRow + i>>

BufferInv ==
    positioned =>
        \/ JustExecuted
        \/ Buffered /\ ("postFetch" \notin Failures => RowsAreThere)
        \/ AtEnd

FetchInv == TypeOK /\ BufferInv

(* What the last function returned. *)
ResultInv ==
    /\ EndsAtEnd
    /\ "postFetch" \notin Failures =>
          /\ ServesRows
          /\ ScrollModes \cap {"prior", "relative"} = {} => ScrollsToDesired
-----------------------------------------------------------------------------
(* What the database returns of the n rows from first on.                  *)
LEMMA FetchedRows ==
    ASSUME total \in Nat, NEW first \in Int, NEW n \in Nat \ {0}
    PROVE  /\ RowsFetched(first, n) \in 0 .. n
           /\ RowsFetched(first, n) > 0 =>
                 /\ first >= 1 /\ first + RowsFetched(first, n) - 1 <= total
                 /\ RowsFetched(first, n) < n => first + RowsFetched(first, n) - 1 = total
           /\ RowsFetched(first, n) = 0 => first < 1 \/ first > total
  BY DEF RowsFetched

(* What both functions hand out of a buffer: nothing if it is used up, or   *)
(* some rows, and they say that there are more if any are left.            *)
LEMMA HandsOut ==
    ASSUME NEW asked \in {0} \cup Sizes, NEW index \in Nat, NEW count \in Nat,
           NEW rows \in Int, NEW more \in BOOLEAN,
           Serve(asked, index, count, rows, more)
    PROVE  \/ /\ index >= count
              /\ bufferRowIndex' = index /\ rowCount' = rows
              /\ result' = [kind |-> "end"]
           \/ /\ index < count
              /\ \E n \in 1 .. count - index, moreRows \in BOOLEAN :
                    /\ bufferRowIndex' = index + n /\ rowCount' = rows + n
                    /\ result' = Served(index, n, moreRows)
                    /\ ~moreRows => ~more /\ index + n = count
<1>1. CASE index >= count
  BY <1>1 DEF Serve, ServeRow, ServeRows
<1>2. CASE index < count /\ asked = 0
  <2>1. /\ bufferRowIndex' = index + 1 /\ rowCount' = rows + 1
        /\ result' = Served(index, 1, TRUE)
    <3>1. ~(index >= count)  BY <1>2
    <3>2. QED  BY <1>2, <3>1, Zenon DEF Serve, ServeRow
  <2>2. 1 \in 1 .. count - index  BY <1>2
  <2>3. QED  BY <1>2, <2>1, <2>2
<1>3. CASE index < count /\ asked \in Sizes
  <2>1. asked \in Nat \ {0}  BY <1>3, StmtFetchAssumption
  <2>  DEFINE n == IF count - index > asked THEN asked ELSE count - index
              moreRows == more \/ count - index > asked
  <2>2. /\ bufferRowIndex' = index + n /\ rowCount' = rows + n
        /\ result' = Served(index, n, moreRows)
    BY <1>3, <2>1 DEF Serve, ServeRows
  <2>3. n \in 1 .. count - index  BY <1>3, <2>1
  <2>4. moreRows \in BOOLEAN  OBVIOUS
  <2>5. ~moreRows => ~more /\ index + n = count  BY <2>1
  <2>  HIDE DEF n, moreRows
  <2>6. QED  BY <1>3, <2>2, <2>3, <2>4, <2>5
<1>4. QED  BY <1>1, <1>2, <1>3

(* The variable has room for what is fetched.                              *)
LEMMA RoomForRows ==
    ASSUME TypeOK, HasRoom
    PROVE  Room \in Nat \ {0} /\ fetchArraySize <= Room
  BY DEF TypeOK, HasRoom, Room

LEMMA ScrollTarget ==
    ASSUME TypeOK, NEW mode \in AllModes, NEW offset \in Int
    PROVE  /\ ScrollRow(mode, offset) \in Int /\ DesiredRow(mode, offset) \in Int
           /\ ScrollSize(mode) \in Nat \ {0} /\ ScrollSize(mode) <= fetchArraySize
<1>1. FetchOffset(mode, offset) \in Int  BY DEF FetchOffset, TypeOK
<1>2. FirstRow(mode, FetchOffset(mode, offset)) \in Int
  BY <1>1 DEF FirstRow, TypeOK, AllModes
<1>3. DesiredRow(mode, offset) \in Int  BY DEF DesiredRow, TypeOK, AllModes
<1>4. QED  BY <1>2, <1>3 DEF ScrollRow, ScrollSize, TypeOK

-----------------------------------------------------------------------------
(* Every step keeps the types. *)
LEMMA TypeStep == TypeOK /\ [Next]_vars => TypeOK'
<1>  SUFFICES ASSUME TypeOK, [Next]_vars PROVE TypeOK'
  OBVIOUS
<1>  USE StmtFetchAssumption
<1>1. CASE Execute
  <2>1. CASE UNCHANGED <<exec, total, pos, rowCount, bufferRowIndex,
                         hasRowsToFetch, positioned>>
    <3>1. cursorOpen' \in BOOLEAN  BY <1>1 DEF Execute, TypeOK
    <3>2. QED  BY <1>1, <2>1, <3>1 DEF Execute, TypeOK
  <2>2. CASE /\ exec' = exec + 1 /\ total' \in 0 .. MaxRows /\ pos' = 0
             /\ rowCount' = 0 /\ bufferRowIndex' = fetchArraySize
             /\ cursorOpen' = TRUE /\ hasRowsToFetch' = TRUE /\ positioned' = TRUE
    <3>1. /\ cursorOpen' \in BOOLEAN /\ hasRowsToFetch' \in BOOLEAN
          /\ positioned' \in BOOLEAN
      BY <2>2
    <3>2. /\ exec' \in Nat /\ total' \in Nat /\ pos' \in 0 .. total'
          /\ bufferRowIndex' \in Nat /\ rowCount' \in Int
      BY <2>2 DEF TypeOK
    <3>3. QED  BY <1>1, <3>1, <3>2 DEF Execute, TypeOK
  <2>3. QED  BY <1>1, <2>1, <2>2 DEF Execute
<1>2. ASSUME NEW asked \in {0} \cup Sizes, FetchAndServe(asked) PROVE TypeOK'
  <2>1. CASE BeforeFetchFails
    BY <2>1 DEF BeforeFetchFails, TypeOK, cursorVars, bufferVars
  <2>2. CASE FetchFails
    BY <2>2, RoomForRows DEF FetchFails, TypeOK, cursorVars, bufferVars
  <2>3. CASE FetchNext(asked)
    <3>  DEFINE count == RowsFetched(pos + 1, fetchArraySize)
    <3>1. count \in Nat /\ pos + count \in 0 .. total
      <4>1. /\ total \in Nat /\ pos \in 0 .. total /\ pos + 1 \in Int
            /\ fetchArraySize \in Nat \ {0}
        BY DEF TypeOK
      <4>2. count \in 0 .. fetchArraySize /\ (count > 0 => pos + 1 + count - 1 <= total)
        BY <4>1, FetchedRows
      <4>  HIDE DEF count
      <4>3. QED  BY <4>1, <4>2
    <3>2. MoreToFetch("next", count, fetchArraySize) \in BOOLEAN
      BY DEF MoreToFetch
    <3>3. bufferRowIndex' \in Nat /\ rowCount' \in Int
      <4>1. CASE Serve(asked, 0, count, rowCount, hasRowsToFetch')
        <5>1. hasRowsToFetch' \in BOOLEAN  BY <2>3, <3>2 DEF FetchNext
        <5>2. QED  BY <1>2, <4>1, <3>1, <5>1, HandsOut DEF TypeOK
      <4>2. CASE bufferRowIndex' = 0 /\ UNCHANGED rowCount
        BY <4>2 DEF TypeOK
      <4>3. QED  BY <2>3, <4>1, <4>2 DEF FetchNext
    <3>4. QED
      BY <2>3, <3>1, <3>2, <3>3, RoomForRows DEF FetchNext, TypeOK
  <2>4. CASE /\ Serve(asked, bufferRowIndex, bufferRowCount, rowCount, hasRowsToFetch)
             /\ UNCHANGED <<cursorVars, bufferRowCount, bufferMinRow,
                            hasRowsToFetch, fetchArraySize, maxArraySize, data,
                            positioned>>
    <3>1. bufferRowIndex' \in Nat /\ rowCount' \in Int
      BY <1>2, <2>4, HandsOut DEF TypeOK
    <3>2. QED  BY <2>4, <3>1 DEF TypeOK, cursorVars
  <2>5. QED  BY <1>2, <2>1, <2>2, <2>3, <2>4 DEF FetchAndServe
<1>3. ASSUME NEW n \in DefineSizes, Define(n) PROVE TypeOK'
  BY <1>3 DEF Define, TypeOK, cursorVars, bufferVars
<1>4. ASSUME NEW n \in Sizes, SetFetchArraySize(n) PROVE TypeOK'
  BY <1>4 DEF SetFetchArraySize, TypeOK, cursorVars, bufferVars
<1>5. ASSUME NEW mode \in ScrollModes, NEW offset \in Offsets, Scroll(mode, offset)
      PROVE  TypeOK'
  <2>1. mode \in AllModes /\ offset \in Int  OBVIOUS
  <2>2. CASE ScrollInBuffer(mode, offset)
    BY <2>1, <2>2, ScrollTarget DEF ScrollInBuffer, InBuffer, TypeOK,
       cursorVars
  <2>3. CASE BeforeFetchFails
    BY <2>3 DEF BeforeFetchFails, TypeOK, cursorVars, bufferVars
  <2>4. CASE FetchFails
    BY <2>4, RoomForRows DEF FetchFails, TypeOK, cursorVars, bufferVars
  <2>5. CASE ScrollOutside(mode, offset)
    <3>1. positioned' \in BOOLEAN /\ hasRowsToFetch' \in BOOLEAN
      BY <2>5 DEF ScrollOutside, TypeOK
    <3>2. QED  BY <2>5, <3>1, RoomForRows DEF ScrollOutside, TypeOK
  <2>6. CASE ScrollFetch(mode, offset)
    <3>  DEFINE first == ScrollRow(mode, offset)
                n == ScrollSize(mode)
                count == RowsFetched(first, n)
    <3>1. first \in Int /\ n \in Nat \ {0}  BY <2>1, ScrollTarget
    <3>2. count > 0 /\ pos' = first + count - 1  BY <2>6 DEF ScrollFetch
    <3>3. count \in Nat /\ pos' \in 0 .. total
      <4>1. /\ count \in 0 .. n
            /\ count > 0 => first >= 1 /\ first + count - 1 <= total
        BY <3>1, FetchedRows DEF TypeOK
      <4>2. total \in Nat  BY DEF TypeOK
      <4>  HIDE DEF count, first, n
      <4>3. QED  BY <3>1, <3>2, <4>1, <4>2
    <3>4. hasRowsToFetch' \in BOOLEAN /\ positioned' \in BOOLEAN
      BY <2>6 DEF ScrollFetch, MoreToFetch, TypeOK
    <3>5. QED  BY <2>6, <3>3, <3>4, RoomForRows DEF ScrollFetch, TypeOK
  <2>7. QED  BY <1>5, <2>2, <2>3, <2>4, <2>5, <2>6 DEF Scroll
<1>6. CASE UNCHANGED vars
  BY <1>6 DEF vars, cursorVars, bufferVars, TypeOK
<1>7. QED
  BY <1>1, <1>2, <1>3, <1>4, <1>5, <1>6 DEF Next, Fetch, FetchRows

-----------------------------------------------------------------------------
(* A function that fails, or has no rows to return, says nothing of them.  *)
LEMMA NothingReturned ==
    ASSUME result' \in {Error, Done} PROVE ResultInv'
  BY DEF Error, Done, ResultInv, EndsAtEnd, ServesRows, ScrollsToDesired

LEMMA NotPositioned ==
    ASSUME ~positioned' PROVE BufferInv' /\ ResultInv'
  BY DEF BufferInv, ResultInv, EndsAtEnd, ServesRows, ScrollsToDesired

(* Rows handed out of the buffer are the next ones, and if none is left    *)
(* and there is nothing to fetch, all have been handed out.                *)
LEMMA ServesFromBuffer ==
    ASSUME NEW asked \in {0} \cup Sizes, NEW index \in Nat,
           NEW count \in Nat \ {0}, NEW min \in Nat \ {0}, NEW more \in BOOLEAN,
           bufferRowCount' = count, bufferMinRow' = min, hasRowsToFetch' = more,
           total' \in Nat, pos' = min + count - 1, ~more => pos' = total',
           index <= count, index >= count => ~more,
           Serve(asked, index, count, min + index - 1, more)
    PROVE  /\ Buffered' /\ index <= bufferRowIndex' /\ EndsAtEnd'
           /\ (\A i \in index .. count - 1 : data'[i] = <<exec', min + i>>) =>
                 ServesRows'
           /\ ScrollsToDesired'
<1>  DEFINE Goal == /\ Buffered' /\ index <= bufferRowIndex' /\ EndsAtEnd'
                    /\ (\A i \in index .. count - 1 :
                           data'[i] = <<exec', min + i>>) => ServesRows'
                    /\ ScrollsToDesired'
<1>1. CASE /\ index >= count
           /\ bufferRowIndex' = index /\ rowCount' = min + index - 1
           /\ result' = [kind |-> "end"]
  <2>1. bufferRowIndex' = index /\ rowCount' = min + index - 1 /\ index = count
    BY <1>1
  <2>2. Buffered'  BY <2>1 DEF Buffered
  <2>3. rowCount' = total'  BY <1>1, <2>1
  <2>4. QED
    BY <1>1, <2>2, <2>3 DEF EndsAtEnd, ServesRows, ScrollsToDesired
<1>2. ASSUME index < count,
             NEW n \in 1 .. count - index, NEW moreRows \in BOOLEAN,
             bufferRowIndex' = index + n, rowCount' = min + index - 1 + n,
             result' = Served(index, n, moreRows),
             ~moreRows => ~more /\ index + n = count
      PROVE  Goal
  <2>1. Buffered' /\ index <= bufferRowIndex'
    <3>1. bufferRowIndex' = index + n /\ rowCount' = min + index - 1 + n
      BY <1>2
    <3>2. QED  BY <3>1 DEF Buffered
  <2>2. ~moreRows => rowCount' = total'
    <3>1. rowCount' = min + index - 1 + n /\ (~moreRows => ~more /\ index + n = count)
      BY <1>2
    <3>2. QED  BY <3>1
  <2>3. /\ result'.kind = "rows" /\ result'.more = moreRows
        /\ result'.first = index /\ result'.count = n
    BY <1>2 DEF Served
  <2>4. EndsAtEnd'  BY <2>2, <2>3 DEF EndsAtEnd
  <2>5. ASSUME \A i \in index .. count - 1 : data'[i] = <<exec', min + i>>
        PROVE  ServesRows'
    <3>1. ASSUME NEW j \in 0 .. n - 1
          PROVE  data'[index + j] = <<exec', rowCount' - n + 1 + j>>
      <4>1. index + j \in index .. count - 1  OBVIOUS
      <4>2. rowCount' = min + index - 1 + n  BY <1>2
      <4>3. min + (index + j) = rowCount' - n + 1 + j  BY <4>2
      <4>4. QED  BY <2>5, <4>1, <4>3
    <3>2. QED  BY <2>3, <3>1 DEF ServesRows
  <2>6. ScrollsToDesired'  BY <2>3 DEF ScrollsToDesired
  <2>7. QED  BY <2>1, <2>4, <2>5, <2>6
<1>3. min + index - 1 \in Int  OBVIOUS
<1>  HIDE DEF Goal
<1>4. Goal  BY <1>1, <1>2, <1>3, HandsOut DEF Goal
<1>5. QED  BY <1>4 DEF Goal

(* Nothing is handed out at the end. *)
LEMMA ServesNothing ==
    ASSUME total' \in Nat, NEW asked \in {0} \cup Sizes, NEW index \in Nat,
           NEW more \in BOOLEAN, ~more, hasRowsToFetch' = more,
           bufferRowCount' = 0, pos' = total', Serve(asked, index, 0, total', more)
    PROVE  AtEnd' /\ ResultInv'
<1>1. total' \in Int /\ index >= 0  OBVIOUS
<1>2. /\ bufferRowIndex' = index /\ rowCount' = total'
      /\ result' = [kind |-> "end"]
  BY <1>1, HandsOut
<1>3. QED
  BY <1>2 DEF AtEnd, ResultInv, EndsAtEnd, ServesRows, ScrollsToDesired

(* A failing fetch leaves the rows of the buffer where they are.           *)
LEMMA FailureKeepsBuffer ==
    ASSUME FetchInv, FetchFails PROVE BufferInv' /\ ResultInv'
<1>1. ResultInv'  BY NothingReturned DEF FetchFails
<1>2. RowsAreThere => RowsAreThere'
  <2>  SUFFICES ASSUME RowsAreThere, NEW i \in FirstWanted .. bufferRowCount - 1
                PROVE  i < maxArraySize' /\ data'[i] = <<exec, bufferMinRow + i>>
    BY DEF RowsAreThere, FirstWanted, FetchFails, bufferVars, cursorVars
  <2>1. i \in Nat  BY DEF FirstWanted, FetchInv, TypeOK
  <2>2. i < maxArraySize /\ data[i] = <<exec, bufferMinRow + i>>
    BY DEF RowsAreThere
  <2>3. maxArraySize # 0 /\ Room = maxArraySize
    BY <2>1, <2>2 DEF Room, FetchInv, TypeOK
  <2>4. maxArraySize' = Room /\ data' = Converted(0, 0)  BY DEF FetchFails
  <2>5. i \in 0 .. Room - 1 /\ ~(i < 0)
    BY <2>1, <2>2, <2>3 DEF FetchInv, TypeOK
  <2>6. data'[i] = data[i]  BY <2>3, <2>4, <2>5 DEF Converted
  <2>7. QED  BY <2>2, <2>3, <2>4, <2>6
<1>3. BufferInv'
  BY <1>2 DEF FetchInv, BufferInv, JustExecuted, Buffered, AtEnd, FetchFails,
              bufferVars, cursorVars
<1>4. QED  BY <1>1, <1>3

(* The rows that a fetch has converted. *)
LEMMA ConvertedRows ==
    ASSUME TypeOK, HasRoom, NEW first \in Int, NEW count \in 0 .. fetchArraySize,
           maxArraySize' = Room, data' = Converted(first, count)
    PROVE  \A i \in 0 .. count - 1 :
              i < maxArraySize' /\ data'[i] = <<exec, first + i>>
<1>  SUFFICES ASSUME NEW i \in 0 .. count - 1
              PROVE  i < maxArraySize' /\ data'[i] = <<exec, first + i>>
  OBVIOUS
<1>1. fetchArraySize \in Nat  BY DEF TypeOK
<1>2. i < count /\ i < Room /\ i \in 0 .. Room - 1
  BY <1>1, RoomForRows
<1>3. QED  BY <1>2 DEF Converted

-----------------------------------------------------------------------------
(* dpiStmt_fetch and dpiStmt_fetchRows. *)
LEMMA FetchStep ==
    ASSUME FetchInv, NEW asked \in {0} \cup Sizes, FetchAndServe(asked)
    PROVE  BufferInv' /\ ResultInv'
<1>  USE StmtFetchAssumption
<1>1. positioned' = positioned
  BY DEF FetchAndServe, BeforeFetchFails, FetchFails, FetchNext
<1>2. CASE ~positioned
  BY <1>1, <1>2, NotPositioned DEF FetchInv, TypeOK
<1>3. CASE positioned /\ bufferRowIndex >= bufferRowCount /\ hasRowsToFetch
  <2>1. CASE BeforeFetchFails
    <3>1. ResultInv'  BY <2>1, NothingReturned DEF BeforeFetchFails
    <3>2. BufferInv'
      BY <2>1 DEF FetchInv, BufferInv, JustExecuted, Buffered, AtEnd,
         RowsAreThere, FirstWanted, BeforeFetchFails, cursorVars, bufferVars
    <3>3. QED  BY <3>1, <3>2
  <2>2. CASE FetchFails
    BY <2>2, FailureKeepsBuffer
  <2>3. CASE FetchNext(asked)
    <3>  DEFINE count == RowsFetched(pos + 1, fetchArraySize)
    <3>1. /\ pos \in Nat /\ total \in Nat /\ fetchArraySize \in Nat \ {0}
          /\ pos <= total
      BY DEF FetchInv, TypeOK
    <3>2. rowCount = pos
      BY <1>3 DEF FetchInv, TypeOK, BufferInv, JustExecuted, Buffered, AtEnd
    <3>3. /\ count \in 0 .. fetchArraySize
          /\ count > 0 =>
                /\ pos + 1 + count - 1 <= total
                /\ count < fetchArraySize => pos + 1 + count - 1 = total
          /\ count = 0 => pos + 1 > total
      BY <3>1, FetchedRows
    <3>  DEFINE more == MoreToFetch("next", count, fetchArraySize)
    <3>4. /\ bufferRowCount' = count /\ hasRowsToFetch' = more /\ more \in BOOLEAN
          /\ pos' = pos + count /\ total' = total /\ exec' = exec
          /\ bufferMinRow' = pos + 1 /\ maxArraySize' = Room /\ HasRoom
      BY <2>3, <3>2 DEF FetchNext, MoreToFetch
    <3>5. more <=> count = fetchArraySize  BY DEF MoreToFetch
    <3>  HIDE DEF count, more
    <3>6. CASE count = 0
      <4>1. pos = total  BY <3>1, <3>3, <3>6
      <4>2. ~hasRowsToFetch'  BY <3>1, <3>4, <3>5, <3>6
      <4>3. Serve(asked, 0, count, rowCount, hasRowsToFetch')
        BY <2>3, <3>6 DEF FetchNext, count
      <4>4. Serve(asked, 0, 0, total', more)
        BY <3>2, <3>4, <3>6, <4>1, <4>3
      <4>5. bufferRowCount' = 0 /\ pos' = total' /\ total' \in Nat
        BY <3>1, <3>4, <3>6, <4>1
      <4>6. AtEnd' /\ ResultInv'  BY <3>4, <4>2, <4>4, <4>5, ServesNothing
      <4>7. QED  BY <4>6 DEF BufferInv
    <3>7. CASE count > 0
      <4>1. count \in Nat \ {0} /\ pos + 1 \in Nat \ {0}
        BY <3>1, <3>3, <3>7
      <4>2. /\ pos' = (pos + 1) + count - 1 /\ total' \in Nat
            /\ ~more => pos' = total'
        BY <3>1, <3>3, <3>4, <3>5, <3>7
      <4>3. CASE /\ data' = Converted(pos + 1, count)
                 /\ Serve(asked, 0, count, rowCount, hasRowsToFetch')
        <5>1. Serve(asked, 0, count, (pos + 1) + 0 - 1, more)
          <6>1. (pos + 1) + 0 - 1 = rowCount  BY <3>1, <3>2
          <6>2. QED  BY <3>4, <4>3, <6>1
        <5>2. ~(0 >= count) /\ 0 <= count  BY <4>1
        <5>3. /\ Buffered' /\ 0 <= bufferRowIndex' /\ EndsAtEnd'
              /\ (\A i \in 0 .. count - 1 : data'[i] = <<exec', pos + 1 + i>>) =>
                    ServesRows'
              /\ ScrollsToDesired'
          BY <3>4, <4>1, <4>2, <5>1, <5>2, ServesFromBuffer
        <5>4. \A i \in 0 .. count - 1 :
                 i < maxArraySize' /\ data'[i] = <<exec', pos + 1 + i>>
          BY <3>3, <3>4, <4>1, <4>3, ConvertedRows DEF FetchInv
        <5>5. RowsAreThere'
          <6>1. bufferRowIndex' \in Nat
            BY TypeStep DEF FetchInv, TypeOK, Next, Fetch, FetchRows
          <6>2. \A i \in FirstWanted' .. bufferRowCount' - 1 : i \in 0 .. count - 1
            BY <3>4, <4>1, <6>1 DEF FirstWanted
          <6>3. QED  BY <3>4, <5>4, <6>2 DEF RowsAreThere
        <5>6. QED  BY <5>3, <5>4, <5>5 DEF BufferInv, ResultInv
      <4>4. CASE /\ "postFetch" \in Failures
                 /\ bufferRowIndex' = 0 /\ result' = Error /\ UNCHANGED rowCount
        <5>1. ResultInv'  BY <4>4, NothingReturned
        <5>2. Buffered'
          BY <3>1, <3>2, <3>4, <4>1, <4>2, <4>4 DEF Buffered
        <5>3. QED  BY <4>4, <5>1, <5>2 DEF BufferInv
      <4>5. QED  BY <2>3, <4>3, <4>4 DEF FetchNext, count
    <3>8. QED  BY <3>1, <3>3, <3>6, <3>7
  <2>4. QED  BY <1>3, <2>1, <2>2, <2>3 DEF FetchAndServe
<1>4. CASE positioned /\ ~(bufferRowIndex >= bufferRowCount /\ hasRowsToFetch)
  <2>1. /\ Serve(asked, bufferRowIndex, bufferRowCount, rowCount, hasRowsToFetch)
        /\ UNCHANGED <<exec, total, pos, cursorOpen, bufferRowCount, bufferMinRow,
                       hasRowsToFetch, fetchArraySize, maxArraySize, data,
                       positioned>>
    BY <1>4 DEF FetchAndServe, cursorVars
  <2>2. CASE AtEnd
    <3>1. Serve(asked, bufferRowIndex, 0, total', hasRowsToFetch)
      BY <2>1, <2>2 DEF AtEnd
    <3>2. /\ bufferRowIndex \in Nat /\ bufferRowCount' = 0
          /\ ~hasRowsToFetch /\ hasRowsToFetch' = hasRowsToFetch
          /\ hasRowsToFetch \in BOOLEAN /\ pos' = total' /\ total' \in Nat
      BY <2>1, <2>2 DEF AtEnd, FetchInv, TypeOK
    <3>3. AtEnd' /\ ResultInv'  BY <3>1, <3>2, ServesNothing
    <3>4. QED  BY <3>3 DEF BufferInv
  <2>3. CASE Buffered /\ ("postFetch" \notin Failures => RowsAreThere)
    <3>1. /\ bufferRowIndex \in Nat /\ bufferRowCount \in Nat \ {0}
          /\ bufferMinRow \in Nat \ {0} /\ hasRowsToFetch \in BOOLEAN
          /\ total' \in Nat /\ pos' = bufferMinRow + bufferRowCount - 1
          /\ ~hasRowsToFetch => pos' = total'
          /\ bufferRowIndex <= bufferRowCount
          /\ bufferRowIndex >= bufferRowCount => ~hasRowsToFetch
      BY <1>4, <2>1, <2>3 DEF Buffered, FetchInv, TypeOK
    <3>2. Serve(asked, bufferRowIndex, bufferRowCount,
                bufferMinRow + bufferRowIndex - 1, hasRowsToFetch)
      BY <2>1, <2>3 DEF Buffered
    <3>3. /\ Buffered' /\ bufferRowIndex <= bufferRowIndex' /\ EndsAtEnd'
          /\ (\A i \in bufferRowIndex .. bufferRowCount - 1 :
                 data'[i] = <<exec', bufferMinRow + i>>) => ServesRows'
          /\ ScrollsToDesired'
      BY <2>1, <3>1, <3>2, ServesFromBuffer
    <3>4. CASE "postFetch" \in Failures
      BY <3>3, <3>4 DEF BufferInv, ResultInv
    <3>5. CASE "postFetch" \notin Failures
      <4>1. bufferRowIndex' \in Nat
        BY TypeStep DEF FetchInv, TypeOK, Next, Fetch, FetchRows
      <4>2. RowsAreThere'
        BY <2>1, <2>3, <3>1, <3>3, <3>5, <4>1 DEF RowsAreThere, FirstWanted
      <4>3. \A i \in bufferRowIndex .. bufferRowCount - 1 :
               data'[i] = <<exec', bufferMinRow + i>>
        BY <2>1, <2>3, <3>1, <3>5 DEF RowsAreThere, FirstWanted
      <4>4. QED  BY <3>3, <4>2, <4>3 DEF BufferInv, ResultInv
    <3>6. QED  BY <3>4, <3>5
  <2>4. CASE JustExecuted
    BY <1>4, <2>4 DEF JustExecuted
  <2>5. QED  BY <1>4, <2>2, <2>3, <2>4 DEF FetchInv, BufferInv
<1>5. QED  BY <1>2, <1>3, <1>4

(***************************************************************************)
(* dpiStmt_scroll, by a program that does not scroll in what an earlier    *)
(* execution has left in the buffer.                                       *)
(***************************************************************************)
LEMMA ScrollStep ==
    ASSUME FetchInv, MindsBuffer, NEW mode \in ScrollModes, NEW offset \in Offsets,
           Scroll(mode, offset)
    PROVE  BufferInv' /\ ResultInv'
<1>  USE StmtFetchAssumption
<1>1. mode \in AllModes /\ offset \in Int /\ ScrollModes # {}  OBVIOUS
<1>2. pos = 0 => bufferRowCount = 0  BY DEF Scroll, LeftoverUntilFetch
<1>3. CASE ScrollInBuffer(mode, offset)
  <2>1. CASE positioned
    <3>  DEFINE row == DesiredRow(mode, offset)
    <3>1. row \in Int /\ row >= bufferMinRow /\ row < bufferMinRow + bufferRowCount
      BY <1>1, <1>3, ScrollTarget DEF ScrollInBuffer, InBuffer, FetchInv
    <3>2. /\ bufferRowIndex' = row - bufferMinRow /\ rowCount' = row - 1
          /\ result' = Scrolled(row)
          /\ UNCHANGED <<exec, total, pos, bufferRowCount, bufferMinRow, hasRowsToFetch,
                         maxArraySize, data, positioned>>
      BY <1>3 DEF ScrollInBuffer, cursorVars
    <3>  HIDE DEF row
    <3>3. Buffered /\ ("postFetch" \notin Failures => RowsAreThere)
      BY <1>2, <2>1, <3>1 DEF FetchInv, TypeOK, BufferInv, JustExecuted, AtEnd
    <3>4. Buffered'
      BY <3>1, <3>2, <3>3 DEF Buffered, FetchInv, TypeOK
    <3>5. RowsAreThere => RowsAreThere'
      BY <1>1, <3>2 DEF RowsAreThere, FirstWanted
    <3>6. result'.kind = "scrolled" /\ result'.row = row  BY <3>2 DEF Scrolled
    <3>7. EndsAtEnd' /\ ServesRows'  BY <3>6 DEF EndsAtEnd, ServesRows
    <3>8. ASSUME RowsAreThere PROVE ScrollsToDesired'
      <4>1. /\ bufferRowIndex' \in 0 .. bufferRowCount - 1
            /\ bufferMinRow + bufferRowIndex' = row /\ rowCount' + 1 = row
        BY <3>1, <3>2, <3>3 DEF Buffered, FetchInv, TypeOK
      <4>2. data[bufferRowIndex'] = <<exec, row>>
        BY <1>1, <3>8, <4>1 DEF RowsAreThere, FirstWanted
      <4>3. QED  BY <3>2, <3>6, <4>1, <4>2 DEF ScrollsToDesired
    <3>9. QED  BY <3>3, <3>4, <3>5, <3>7, <3>8 DEF BufferInv, ResultInv
  <2>2. CASE ~positioned
    BY <1>3, <2>2, NotPositioned DEF ScrollInBuffer, FetchInv, TypeOK
  <2>3. QED  BY <2>1, <2>2
<1>4. CASE BeforeFetchFails
  <2>1. ResultInv'  BY <1>4, NothingReturned DEF BeforeFetchFails
  <2>2. BufferInv'
    BY <1>4 DEF FetchInv, BufferInv, JustExecuted, Buffered, AtEnd,
       RowsAreThere, FirstWanted, BeforeFetchFails, cursorVars, bufferVars
  <2>3. QED  BY <2>1, <2>2
<1>5. CASE FetchFails
  BY <1>5, FailureKeepsBuffer
<1>6. CASE ScrollOutside(mode, offset)
  <2>1. total \in Nat /\ pos \in 0 .. total /\ rowCount \in Int  BY DEF FetchInv, TypeOK
  <2>2. bufferRowCount' = 0 /\ ~hasRowsToFetch' /\ total' = total
    BY <1>6 DEF ScrollOutside
  <2>3. CASE mode \in {"first", "last"}
    <3>1. total = 0
      <4>1. ScrollRow(mode, offset) = IF mode = "first" THEN 1 ELSE total
        BY <2>3 DEF ScrollRow, FirstRow
      <4>2. /\ ScrollSize(mode) \in Nat \ {0}
            /\ RowsFetched(ScrollRow(mode, offset), ScrollSize(mode)) = 0
        BY <1>1, <1>6, ScrollTarget DEF ScrollOutside, FetchInv
      <4>3. ScrollRow(mode, offset) < 1 \/ ScrollRow(mode, offset) > total
        BY <2>1, <4>1, <4>2, FetchedRows
      <4>4. QED  BY <2>1, <4>1, <4>3
    <3>2. pos' = pos /\ rowCount' = 0 /\ bufferRowIndex' = 0 /\ result' = Scrolled(1)
      BY <1>6, <2>3 DEF ScrollOutside
    <3>3. AtEnd'  BY <2>1, <2>2, <3>1, <3>2 DEF AtEnd
    <3>4. EndsAtEnd' /\ ServesRows' /\ ScrollsToDesired'
      BY <2>2, <3>2 DEF Scrolled, EndsAtEnd, ServesRows, ScrollsToDesired
    <3>5. QED  BY <3>3, <3>4 DEF BufferInv, ResultInv
  <2>4. CASE mode \notin {"first", "last"}
    <3>1. /\ positioned' => rowCount = total /\ pos' = total
          /\ rowCount' = rowCount /\ result' = Error
      BY <1>6, <2>4 DEF ScrollOutside
    <3>2. BufferInv'  BY <2>2, <3>1 DEF BufferInv, AtEnd
    <3>3. QED  BY <3>1, <3>2, NothingReturned
  <2>5. QED  BY <2>3, <2>4
<1>7. CASE ScrollFetch(mode, offset) /\ ~InBuffer(mode, DesiredRow(mode, offset))
  <2>  DEFINE first == ScrollRow(mode, offset)
              n == ScrollSize(mode)
              count == RowsFetched(first, n)
              desired == IF mode = "last" THEN total ELSE DesiredRow(mode, offset)
  <2>1. /\ total \in Nat /\ fetchArraySize \in Nat /\ first \in Int
        /\ n \in Nat \ {0} /\ n <= fetchArraySize
    BY <1>1, ScrollTarget DEF FetchInv, TypeOK
  <2>2. /\ count \in 0 .. n
        /\ count > 0 => /\ first >= 1 /\ first + count - 1 <= total
                        /\ count < n => first + count - 1 = total
    BY <2>1, FetchedRows
  <2>3. /\ count > 0 /\ bufferRowCount' = count /\ pos' = first + count - 1
        /\ rowCount' = pos' - count /\ bufferMinRow' = rowCount' + 1
        /\ bufferRowIndex' = 0 /\ total' = total /\ exec' = exec
        /\ hasRowsToFetch' = MoreToFetch(mode, count, n)
        /\ maxArraySize' = Room /\ HasRoom
        /\ \/ data' = Converted(first, count) /\ result' = Scrolled(desired)
           \/ "postFetch" \in Failures /\ result' = Error
    BY <1>7 DEF ScrollFetch
  <2>4. mode = "last" => first = total
    BY DEF ScrollRow, FirstRow
  <2>5. ~hasRowsToFetch' => count < n \/ mode = "last"
    <3>1. count = n \/ count < n
      <4>  HIDE DEF count, n
      <4>1. QED  BY <2>1, <2>2
    <3>2. hasRowsToFetch' <=> count = n /\ mode # "last"
      BY <2>3 DEF MoreToFetch
    <3>  HIDE DEF count, n
    <3>3. QED  BY <3>1, <3>2
  <2>6. CASE ~positioned'
    BY <2>6, NotPositioned
  <2>7. CASE positioned'
    <3>1. (mode \notin {"prior", "relative"}) => desired = first
      <4>1. CASE mode = "next"
        <5>1. positioned  BY <1>7, <2>7, <4>1 DEF ScrollFetch
        <5>2. rowCount = pos
          <6>1. ~(rowCount + 1 >= bufferMinRow /\ rowCount + 1 < bufferMinRow + bufferRowCount)
            BY <1>7, <4>1 DEF InBuffer, DesiredRow
          <6>2. QED
            BY <5>1, <6>1 DEF FetchInv, TypeOK, BufferInv, JustExecuted,
               Buffered, AtEnd
        <5>3. QED  BY <4>1, <5>2 DEF DesiredRow, ScrollRow, FirstRow
      <4>2. CASE mode \in {"first", "last", "absolute"}
        BY <4>2 DEF DesiredRow, ScrollRow, FirstRow, FetchOffset
      <4>3. QED  BY <1>1, <4>1, <4>2 DEF AllModes
    <3>  HIDE DEF first, n, count, desired
    <3>2. Buffered'
      <4>1. count \in Nat /\ first \in Int /\ rowCount' = first - 1 /\ bufferMinRow' = first
        BY <2>1, <2>2, <2>3
      <4>2. ~hasRowsToFetch' => pos' = total'
        BY <2>1, <2>2, <2>3, <2>4, <2>5
      <4>3. QED  BY <2>2, <2>3, <4>1, <4>2 DEF Buffered
    <3>3. CASE data' = Converted(first, count) /\ result' = Scrolled(desired)
      <4>1. \A i \in 0 .. count - 1 :
               i < maxArraySize' /\ data'[i] = <<exec, first + i>>
        <5>1. count \in 0 .. fetchArraySize  BY <2>1, <2>2
        <5>2. QED  BY <2>1, <2>3, <3>3, <5>1, ConvertedRows DEF FetchInv
      <4>2. bufferMinRow' = first /\ rowCount' + 1 = first
        BY <2>1, <2>2, <2>3
      <4>3. RowsAreThere'
        BY <1>1, <2>3, <4>1, <4>2 DEF RowsAreThere, FirstWanted
      <4>4. result'.kind = "scrolled" /\ result'.row = desired
        BY <3>3 DEF Scrolled
      <4>5. EndsAtEnd' /\ ServesRows'  BY <4>4 DEF EndsAtEnd, ServesRows
      <4>6. desired = first => ScrollsToDesired'
        <5>1. count > 0 => data'[0] = <<exec', first>>
          <6>1. count > 0 => 0 \in 0 .. count - 1  BY <2>1, <2>2
          <6>2. first + 0 = first  BY <2>1
          <6>3. QED  BY <2>3, <4>1, <6>1, <6>2
        <5>2. QED  BY <2>3, <4>2, <4>4, <5>1 DEF ScrollsToDesired
      <4>7. QED  BY <3>1, <3>2, <4>3, <4>5, <4>6 DEF BufferInv, ResultInv
    <3>4. CASE "postFetch" \in Failures /\ result' = Error
      BY <3>2, <3>4, NothingReturned DEF BufferInv
    <3>5. QED  BY <2>3, <3>3, <3>4
  <2>8. QED  BY <2>6, <2>7
<1>8. QED  BY <1>3, <1>4, <1>5, <1>6, <1>7 DEF Scroll
(***************************************************************************)
(* dpiStmt_execute, of a program that does not shrink the array size below *)
(* the rows that are in the buffer.                                        *)
(***************************************************************************)
LEMMA ExecuteStep ==
    ASSUME FetchInv, MindsBuffer, Execute PROVE BufferInv' /\ ResultInv'
<1>1. ResultInv'  BY NothingReturned DEF Execute
<1>2. CASE /\ pos' = 0 /\ rowCount' = 0 /\ bufferRowIndex' = fetchArraySize
           /\ hasRowsToFetch' = TRUE
  <2>1. bufferRowIndex' >= bufferRowCount'
    BY <1>2 DEF Execute, Leftover, FetchInv, TypeOK
  <2>2. JustExecuted'  BY <1>2, <2>1 DEF JustExecuted
  <2>3. QED  BY <1>1, <2>2 DEF BufferInv
<1>3. CASE UNCHANGED <<exec, total, pos, rowCount, bufferRowIndex,
                       hasRowsToFetch, positioned>>
  BY <1>1, <1>3 DEF Execute, FetchInv, BufferInv, JustExecuted, Buffered,
     AtEnd, RowsAreThere, FirstWanted
<1>4. QED  BY <1>2, <1>3 DEF Execute

(* dpiStmt_define: the new variable has no rows, and none is wanted. *)
LEMMA DefineStep ==
    ASSUME FetchInv, NEW n \in DefineSizes, Define(n)
    PROVE  BufferInv' /\ ResultInv'
<1>1. ResultInv'  BY NothingReturned DEF Define
<1>2. RowsAreThere'
  <2>1. FirstWanted' .. bufferRowCount' - 1 = {}
    BY DEF Define, NoRowWanted, FirstWanted, bufferVars, FetchInv, TypeOK
  <2>2. QED  BY <2>1 DEF RowsAreThere
<1>3. QED
  BY <1>1, <1>2 DEF Define, FetchInv, BufferInv, JustExecuted, Buffered, AtEnd,
                    cursorVars, bufferVars

(* Every step of such a program keeps the buffer right, and what is        *)
(* returned is right.                                                      *)
LEMMA BufferStep ==
    ASSUME MindsBuffer
    PROVE  FetchInv /\ ResultInv /\ [Next]_vars => (FetchInv /\ ResultInv)'
<1>  SUFFICES ASSUME FetchInv, ResultInv, [Next]_vars
              PROVE  TypeOK' /\ BufferInv' /\ ResultInv'
  BY DEF FetchInv
<1>1. TypeOK'  BY TypeStep DEF FetchInv
<1>2. CASE Execute
  BY <1>1, <1>2, ExecuteStep
<1>3. CASE Fetch
  BY <1>1, <1>3, FetchStep DEF Fetch
<1>4. ASSUME NEW n \in DefineSizes, Define(n) PROVE BufferInv' /\ ResultInv'
  BY <1>4, DefineStep
<1>5. ASSUME NEW n \in Sizes, FetchRows(n) PROVE BufferInv' /\ ResultInv'
  BY <1>5, FetchStep DEF FetchRows
<1>6. ASSUME NEW n \in Sizes, SetFetchArraySize(n) PROVE BufferInv' /\ ResultInv'
  <2>1. ResultInv'  BY <1>6, NothingReturned DEF SetFetchArraySize
  <2>2. QED
    BY <1>6, <2>1 DEF SetFetchArraySize, FetchInv, BufferInv, JustExecuted,
       Buffered, AtEnd, RowsAreThere, FirstWanted, cursorVars, bufferVars
<1>7. ASSUME NEW mode \in ScrollModes, NEW offset \in Offsets, Scroll(mode, offset)
      PROVE  BufferInv' /\ ResultInv'
  BY <1>7, ScrollStep
<1>8. CASE UNCHANGED vars
  BY <1>1, <1>8 DEF FetchInv, ResultInv, BufferInv, JustExecuted, Buffered,
     AtEnd, RowsAreThere, FirstWanted, EndsAtEnd, ServesRows, ScrollsToDesired,
     vars, cursorVars, bufferVars
<1>9. QED  BY <1>1, <1>2, <1>3, <1>4, <1>5, <1>6, <1>7, <1>8 DEF Next

LEMMA Initial == Init => FetchInv /\ ResultInv
<1>  SUFFICES ASSUME Init PROVE FetchInv /\ ResultInv
  OBVIOUS
<1>1. cursorOpen \in BOOLEAN /\ hasRowsToFetch \in BOOLEAN /\ positioned \in BOOLEAN
  BY DEF Init
<1>2. TypeOK  BY <1>1, StmtFetchAssumption DEF Init, TypeOK
<1>3. JustExecuted  BY DEF Init, JustExecuted
<1>4. result.kind = "done"  BY DEF Init, Done
<1>5. QED
  BY <1>2, <1>3, <1>4 DEF FetchInv, BufferInv, ResultInv, EndsAtEnd,
     ServesRows, ScrollsToDesired

-----------------------------------------------------------------------------
(* The rows and positions of dpiStmt_fetch and dpiStmt_scroll keep their    *)
(* types, whatever fails and however the array size is changed.             *)
THEOREM TypeCorrect == Spec => []TypeOK
<1>1. Init => TypeOK  BY Initial DEF FetchInv
<1>2. QED  BY <1>1, TypeStep, PTL DEF Spec

(***************************************************************************)
(* A fetch never writes more rows than the variable has room for: a new    *)
(* variable is created for fetchArraySize rows, one of the program's is    *)
(* compared with it, and the database returns no more than it was asked    *)
(* for.  No assumption about the program is needed.                        *)
(***************************************************************************)
THEOREM RowsFitVariable == Spec => FitsVariable
<1>  DEFINE Fits == bufferRowCount' # bufferRowCount => bufferRowCount' <= maxArraySize'
<1>1. ASSUME TypeOK, Next PROVE Fits
  <2>1. ASSUME NEW asked, FetchNext(asked) PROVE Fits
    <3>1. RowsFetched(pos + 1, fetchArraySize) \in 0 .. fetchArraySize
      BY <1>1, FetchedRows DEF TypeOK
    <3>2. /\ bufferRowCount' = RowsFetched(pos + 1, fetchArraySize)
          /\ maxArraySize' = Room /\ HasRoom
      BY <2>1 DEF FetchNext
    <3>3. Room \in Nat /\ fetchArraySize <= Room /\ fetchArraySize \in Nat
      BY <1>1, <3>2, RoomForRows DEF TypeOK
    <3>4. QED  BY <3>1, <3>2, <3>3
  <2>2. ASSUME NEW asked, FetchAndServe(asked) PROVE Fits
    BY <2>1, <2>2 DEF FetchAndServe, BeforeFetchFails, FetchFails, bufferVars
  <2>3. ASSUME NEW mode \in ScrollModes, NEW offset \in Offsets,
               ScrollFetch(mode, offset)
        PROVE  Fits
    <3>  DEFINE count == RowsFetched(ScrollRow(mode, offset), ScrollSize(mode))
    <3>1. /\ ScrollRow(mode, offset) \in Int /\ ScrollSize(mode) \in Nat \ {0}
          /\ ScrollSize(mode) <= fetchArraySize
      BY <1>1, ScrollTarget, StmtFetchAssumption
    <3>2. count \in 0 .. ScrollSize(mode)
      BY <1>1, <3>1, FetchedRows DEF TypeOK
    <3>3. bufferRowCount' = count /\ maxArraySize' = Room /\ HasRoom
      BY <2>3 DEF ScrollFetch
    <3>4. Room \in Nat /\ fetchArraySize <= Room /\ fetchArraySize \in Nat
      BY <1>1, <3>3, RoomForRows DEF TypeOK
    <3>  HIDE DEF count
    <3>5. QED  BY <3>1, <3>2, <3>3, <3>4
  <2>4. ASSUME NEW mode \in ScrollModes, NEW offset \in Offsets,
               ScrollOutside(mode, offset)
        PROVE  Fits
    <3>1. bufferRowCount' = 0 /\ maxArraySize' = Room /\ HasRoom
      BY <2>4 DEF ScrollOutside
    <3>2. Room \in Nat  BY <1>1, <3>1, RoomForRows
    <3>3. QED  BY <3>1, <3>2
  <2>5. ASSUME NEW mode \in ScrollModes, NEW offset \in Offsets, Scroll(mode, offset)
        PROVE  Fits
    BY <2>3, <2>4, <2>5 DEF Scroll, ScrollInBuffer, BeforeFetchFails,
       FetchFails, bufferVars
  <2>6. QED
    BY <1>1, <2>2, <2>5 DEF Next, Fetch, FetchRows, Execute, Define,
                            SetFetchArraySize, bufferVars
<1>2. TypeOK /\ [Next]_vars => [Fits]_vars  BY <1>1
<1>3. QED  BY <1>2, TypeCorrect, PTL DEF Spec, FitsVariable

(***************************************************************************)
(* The end of the rows is reported only when all of them were handed out,  *)
(* whatever calls fail, to a program that minds what an earlier execution  *)
(* has left in the buffer.                                                 *)
(***************************************************************************)
THEOREM EndIsTheEnd ==
    ASSUME MindsBuffer PROVE Spec => []EndsAtEnd
<1>1. FetchInv /\ ResultInv => EndsAtEnd  BY DEF ResultInv
<1>2. QED  BY <1>1, Initial, BufferStep, PTL DEF Spec

(***************************************************************************)
(* The rows handed out are those of the last execution, in order, if no    *)
(* row fails to be converted: such a failure leaves the rows after it in   *)
(* the buffer as they were.                                                *)
(***************************************************************************)
THEOREM RowsAreServedInOrder ==
    ASSUME MindsBuffer, "postFetch" \notin Failures PROVE Spec => []ServesRows
<1>1. FetchInv /\ ResultInv => ServesRows  BY DEF ResultInv
<1>2. QED  BY <1>1, Initial, BufferStep, PTL DEF Spec

(***************************************************************************)
(* After dpiStmt_scroll with one of the modes "next", "first", "last" and  *)
(* "absolute" the row asked for is fetched next.                           *)
(***************************************************************************)
THEOREM ScrollFindsRow ==
    ASSUME MindsBuffer, "postFetch" \notin Failures,
           ScrollModes \cap {"prior", "relative"} = {}
    PROVE  Spec => []ScrollsToDesired
<1>1. FetchInv /\ ResultInv => ScrollsToDesired  BY DEF ResultInv
<1>2. QED  BY <1>1, Initial, BufferStep, PTL DEF Spec
=============================================================================
