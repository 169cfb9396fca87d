----------------------------- MODULE StmtFetch -----------------------------
(***************************************************************************)
(* Fetching the rows of a query (dpiStmt.c): execution, array fetches into *)
(* the buffer of the define variable, rows handed out of the buffer one or *)
(* several at a time, changes of the array size and scrolling.             *)
(*                                                                         *)
(* A row is <<execution, row number>>.  The cursor of the database is      *)
(* modelled from the way the code uses it (dpiOci__stmtFetch2 and the two  *)
(* attributes it reads): it stands on the last row fetched.  One variable  *)
(* stands for all the columns.  data is its externalData array, which      *)
(* dpiStmt__postFetch fills from what was fetched, row after row.          *)
(***************************************************************************)
EXTENDS Integers, FiniteSets

CONSTANTS
    NULL,           \* no row
    Sizes,          \* values for the fetch array size
    DefineSizes,    \* sizes of variables the program defines itself
    MaxRows,        \* bound on the rows of a result set
    MaxExecs,       \* bound on the executions
    ScrollModes,    \* the modes used: a subset of AllModes
    Offsets,        \* offsets used with "absolute" and "relative"
    MindsBuffer,    \* whether the program minds what an earlier execution
                    \* has left in the buffer (see Leftover)
    Failures        \* the calls that may fail

AllModes == {"next", "prior", "first", "last", "absolute", "relative"}

ASSUME StmtFetchAssumption ==
    /\ Sizes # {} /\ Sizes \subseteq Nat \ {0} /\ IsFiniteSet(Sizes)
    /\ DefineSizes \subseteq Nat \ {0}
    /\ MaxRows \in Nat /\ MaxExecs \in Nat \ {0}
    /\ ScrollModes \subseteq AllModes
    /\ Offsets \subseteq Int
    /\ MindsBuffer \in BOOLEAN
    /\ Failures \subseteq {"execute", "fetch", "postFetch"}

VARIABLES
    exec,           \* executions so far
    total,          \* rows in the result set of the last one
    pos,            \* the row the database's cursor stands on, 0 before all
    cursorOpen,
    fetchArraySize, bufferRowCount, bufferRowIndex, bufferMinRow, rowCount,
    hasRowsToFetch, \* dpiStmt
    maxArraySize,   \* of the variable, 0 when there is none yet
    data,           \* its externalData
    result,         \* what the last public function returned
    positioned      \* whether rowCount can be trusted (see ScrollOutside)

cursorVars == <<exec, total, pos, cursorOpen>>
bufferVars == <<bufferRowCount, bufferRowIndex, bufferMinRow, rowCount,
                hasRowsToFetch>>
vars == <<cursorVars, bufferVars, fetchArraySize, maxArraySize, data, result,
          positioned>>

Error == [kind |-> "error"]
Done == [kind |-> "done"]

Init ==
    /\ exec = 0 /\ total = 0 /\ pos = 0 /\ cursorOpen = FALSE
    /\ fetchArraySize \in Sizes
    /\ bufferRowCount = 0 /\ bufferRowIndex = 0 /\ bufferMinRow = 0
    /\ rowCount = 0
    /\ hasRowsToFetch = TRUE
    /\ maxArraySize = 0
    /\ data = <<>>
    /\ result = Done
    /\ positioned = TRUE

(***************************************************************************)
(* Executing does not empty the buffer.  Its rows could be taken for rows  *)
(* of the new execution if there are more than fetchArraySize of them, and *)
(* by a scroll that comes before the first fetch.                          *)
(***************************************************************************)
Leftover == fetchArraySize < bufferRowCount

LeftoverUntilFetch == pos = 0 /\ bufferRowCount # 0

(* dpiStmt_execute of the query, which may return any number of rows. *)
Execute ==
    /\ exec < MaxExecs
    /\ ~(MindsBuffer /\ Leftover)
    /\ \/ /\ exec' = exec + 1
          /\ total' \in 0 .. MaxRows
          /\ pos' = 0
          /\ cursorOpen' = TRUE
          /\ rowCount' = 0
          /\ bufferRowIndex' = fetchArraySize
          /\ hasRowsToFetch' = TRUE
          /\ positioned' = TRUE
          /\ result' = Done
       \/ /\ "execute" \in Failures
          /\ cursorOpen' = FALSE
          /\ result' = Error
          /\ UNCHANGED <<exec, total, pos, rowCount, bufferRowIndex,
                         hasRowsToFetch, positioned>>
    /\ UNCHANGED <<bufferRowCount, bufferMinRow, fetchArraySize, maxArraySize,
                   data>>

(* dpiStmt_setFetchArraySize: the variable must have room for it. *)
SetFetchArraySize(n) ==
    /\ exec > 0
    /\ IF maxArraySize # 0 /\ maxArraySize < n
       THEN result' = Error /\ UNCHANGED fetchArraySize
       ELSE result' = Done /\ fetchArraySize' = n
    /\ UNCHANGED <<cursorVars, bufferVars, maxArraySize, data, positioned>>

(* The program has been handed all the rows of the buffer and, if it       *)
(* scrolls, there is none that it could scroll back to.                    *)
NoRowWanted ==
    /\ exec > 0
    /\ bufferRowIndex >= bufferRowCount
    /\ ScrollModes = {} \/ bufferRowCount = 0

(***************************************************************************)
(* dpiStmt_define: the program fetches into a variable of its own, which   *)
(* it defines while there is no row in the buffer that it still wants      *)
(* (the new variable has none of them).                                    *)
(***************************************************************************)
Define(n) ==
    /\ NoRowWanted
    /\ maxArraySize' = n
    /\ data' = [i \in 0 .. n - 1 |-> NULL]
    /\ result' = Done
    /\ UNCHANGED <<cursorVars, bufferVars, fetchArraySize, positioned>>

-----------------------------------------------------------------------------
(* The rows the database returns for a fetch of n, as first and number.     *)
FirstRow(mode, offset) ==
    CASE mode = "next" -> pos + 1
      [] mode = "prior" -> pos - 1
      [] mode = "first" -> 1
      [] mode = "last" -> total
      [] mode = "absolute" -> offset
      [] mode = "relative" -> pos + offset

RowsFetched(first, n) ==
    IF first < 1 \/ first > total THEN 0
    ELSE IF first + n - 1 <= total THEN n ELSE total - first + 1

(* dpiStmt__beforeFetch: the variable is created for the array size. *)
Room == IF maxArraySize = 0 THEN fetchArraySize ELSE maxArraySize

(* MUTANT: the size of the variable is not checked. *)
AnyRoom == TRUE

(* dpiStmt__beforeFetch: it must be large enough. *)
HasRoom == fetchArraySize <= Room

(* dpiOci__stmtFetch2: hasRowsToFetch after n rows were asked for. *)
MoreToFetch(mode, count, n) == count = n /\ mode # "last"

(***************************************************************************)
(* dpiStmt__postFetch converts the rows fetched, or the first k of them if *)
(* the next one cannot be converted.                                       *)
(***************************************************************************)
Converted(first, k) ==
    [i \in 0 .. Room - 1 |->
        IF i < k THEN <<exec, first + i>>
        ELSE IF maxArraySize = 0 THEN NULL ELSE data[i]]

BeforeFetchFails ==
    /\ ~HasRoom
    /\ result' = Error
    /\ UNCHANGED <<cursorVars, bufferVars, fetchArraySize, maxArraySize, data,
                   positioned>>

(* The database reports an error; the variable has been created. *)
FetchFails ==
    /\ HasRoom
    /\ ~cursorOpen \/ "fetch" \in Failures
    /\ maxArraySize' = Room
    /\ data' = Converted(0, 0)
    /\ result' = Error
    /\ UNCHANGED <<cursorVars, bufferVars, fetchArraySize, positioned>>

Served(index, n, more) ==
    [kind |-> "rows", first |-> index, count |-> n, more |-> more]

(* dpiStmt_fetch hands out one row. *)
ServeRow(index, count, rows) ==
    IF index >= count
    THEN /\ bufferRowIndex' = index
         /\ rowCount' = rows
         /\ result' = [kind |-> "end"]
    ELSE /\ bufferRowIndex' = index + 1
         /\ rowCount' = rows + 1
         /\ result' = Served(index, 1, TRUE)

(* MUTANT: moreRows forgets the rows left in the buffer. *)
ServeRowsNoMore(maxRows, index, count, rows, more) ==
    IF index >= count
    THEN /\ bufferRowIndex' = index
         /\ rowCount' = rows
         /\ result' = [kind |-> "end"]
    ELSE LET n == IF count - index > maxRows THEN maxRows ELSE count - index
         IN  /\ bufferRowIndex' = index + n
             /\ rowCount' = rows + n
             /\ result' = Served(index, n, more)

(* dpiStmt_fetchRows hands out at most maxRows rows. *)
ServeRows(maxRows, index, count, rows, more) ==
    IF index >= count
    THEN /\ bufferRowIndex' = index
         /\ rowCount' = rows
         /\ result' = [kind |-> "end"]
    ELSE LET n == IF count - index > maxRows THEN maxRows ELSE count - index
         IN  /\ bufferRowIndex' = index + n
             /\ rowCount' = rows + n
             /\ result' = Served(index, n, more \/ count - index > maxRows)

(* Which of the two was called: dpiStmt_fetchRows for that many rows, or     *)
(* dpiStmt_fetch, for which asked is 0.                                     *)
Serve(asked, index, count, rows, more) ==
    IF asked = 0 THEN ServeRow(index, count, rows)
    ELSE ServeRows(asked, index, count, rows, more)

(* dpiStmt__fetch, after which the caller hands out rows of the new buffer. *)
FetchNext(asked) ==
    LET count == RowsFetched(pos + 1, fetchArraySize) IN
    /\ cursorOpen /\ HasRoom
    /\ pos' = pos + count
    /\ maxArraySize' = Room
    /\ bufferRowCount' = count
    /\ bufferMinRow' = rowCount + 1
    /\ hasRowsToFetch' = MoreToFetch("next", count, fetchArraySize)
    /\ \/ /\ data' = Converted(pos + 1, count)
          /\ Serve(asked, 0, count, rowCount, hasRowsToFetch')
       \/ /\ "postFetch" \in Failures
          /\ \E k \in 0 .. count - 1 : data' = Converted(pos + 1, k)
          /\ bufferRowIndex' = 0
          /\ result' = Error
          /\ UNCHANGED rowCount
    /\ UNCHANGED <<exec, total, cursorOpen, fetchArraySize, positioned>>

(* Both fetch only when the buffer is used up and there may be more rows. *)
FetchAndServe(asked) ==
    /\ exec > 0
    /\ IF bufferRowIndex >= bufferRowCount /\ hasRowsToFetch
       THEN BeforeFetchFails \/ FetchFails \/ FetchNext(asked)
       ELSE /\ Serve(asked, bufferRowIndex, bufferRowCount, rowCount,
                     hasRowsToFetch)
            /\ UNCHANGED <<cursorVars, bufferRowCount, bufferMinRow,
                           hasRowsToFetch, fetchArraySize, maxArraySize, data,
                           positioned>>

Fetch == FetchAndServe(0)

FetchRows(maxRows) == FetchAndServe(maxRows)

-----------------------------------------------------------------------------
(* dpiStmt_scroll: the row that is to be fetched next. *)
DesiredRow(mode, offset) ==
    CASE mode = "next" -> rowCount + 1
      [] mode = "prior" -> rowCount - 1
      [] mode = "first" -> 1
      [] mode = "last" -> 0
      [] mode = "absolute" -> offset
      [] mode = "relative" -> rowCount + offset

(* MUTANT: the case of "absolute" falls through to that of "relative". *)
RelativeAlways(mode, offset) ==
    rowCount + offset - (bufferMinRow + bufferRowCount - 1)

(* Relative to the last row of the buffer, where the cursor stands. *)
FetchOffset(mode, offset) ==
    IF mode = "relative"
    THEN rowCount + offset - (bufferMinRow + bufferRowCount - 1)
    ELSE offset

InBuffer(mode, row) ==
    /\ mode # "last"
    /\ row >= bufferMinRow
    /\ row < bufferMinRow + bufferRowCount

Scrolled(row) == [kind |-> "scrolled", row |-> row]

(* MUTANT: rowCount counts the row that is still to be fetched. *)
ScrollCountsRow(mode, offset) ==
    LET row == DesiredRow(mode, offset) IN
    /\ InBuffer(mode, row)
    /\ bufferRowIndex' = row - bufferMinRow
    /\ rowCount' = row
    /\ result' = Scrolled(row)
    /\ UNCHANGED <<cursorVars, bufferRowCount, bufferMinRow, hasRowsToFetch,
                   fetchArraySize, maxArraySize, data, positioned>>

(* No fetch is required. *)
ScrollInBuffer(mode, offset) ==
    LET row == DesiredRow(mode, offset) IN
    /\ InBuffer(mode, row)
    /\ bufferRowIndex' = row - bufferMinRow
    /\ rowCount' = row - 1
    /\ result' = Scrolled(row)
    /\ UNCHANGED <<cursorVars, bufferRowCount, bufferMinRow, hasRowsToFetch,
                   fetchArraySize, maxArraySize, data, positioned>>

ScrollRow(mode, offset) == FirstRow(mode, FetchOffset(mode, offset))
ScrollSize(mode) == IF mode = "last" THEN 1 ELSE fetchArraySize

(***************************************************************************)
(* The fetch finds no row.  The result set is empty if the first or the    *)
(* last was asked for; otherwise it is an error, and where the cursor is   *)
(* left is not known to the code: it stays, or goes to either end.  After  *)
(* that error rowCount says where the program was, but the rows it had not *)
(* seen are gone from the buffer and hasRowsToFetch is 0, so the next rows *)
(* handed out are not rowCount + 1 ...: positioned says so, until the      *)
(* program scrolls to a row by its number or executes again.               *)
(***************************************************************************)
ScrollOutside(mode, offset) ==
    /\ cursorOpen /\ HasRoom
    /\ RowsFetched(ScrollRow(mode, offset), ScrollSize(mode)) = 0
    /\ maxArraySize' = Room
    /\ data' = Converted(0, 0)
    /\ bufferRowCount' = 0
    /\ hasRowsToFetch' = FALSE
    /\ IF mode \in {"first", "last"}
       THEN /\ rowCount' = 0 /\ bufferRowIndex' = 0 /\ bufferMinRow' = 0
            /\ result' = Scrolled(1)
            /\ UNCHANGED <<pos, positioned>>
       ELSE /\ pos' \in {0, pos, total}
            /\ positioned' = (positioned /\ rowCount = total /\ pos' = total)
            /\ result' = Error
            /\ UNCHANGED <<rowCount, bufferRowIndex, bufferMinRow>>
    /\ UNCHANGED <<exec, total, cursorOpen, fetchArraySize>>

(* The fetch finds rows; the code asks the cursor where it is. *)
ScrollFetch(mode, offset) ==
    LET first == ScrollRow(mode, offset)
        n == ScrollSize(mode)
        count == RowsFetched(first, n)
        desired == IF mode = "last" THEN total ELSE DesiredRow(mode, offset)
    IN
    /\ cursorOpen /\ HasRoom
    /\ count > 0
    /\ pos' = first + count - 1
    /\ maxArraySize' = Room
    /\ hasRowsToFetch' = MoreToFetch(mode, count, n)
    /\ bufferRowCount' = count
    /\ rowCount' = pos' - count
    /\ bufferMinRow' = rowCount' + 1
    /\ bufferRowIndex' = 0
    /\ positioned' = (positioned \/ mode \in {"first", "last", "absolute"})
    /\ \/ /\ data' = Converted(first, count)
          /\ result' = Scrolled(desired)
       \/ /\ "postFetch" \in Failures
          /\ \E k \in 0 .. count - 1 : data' = Converted(first, k)
          /\ result' = Error
    /\ UNCHANGED <<exec, total, cursorOpen, fetchArraySize>>

Scroll(mode, offset) ==
    /\ exec > 0
    /\ ~(MindsBuffer /\ LeftoverUntilFetch)
    /\ \/ ScrollInBuffer(mode, offset)
       \/ /\ ~InBuffer(mode, DesiredRow(mode, offset))
          /\ \/ BeforeFetchFails
             \/ FetchFails
             \/ ScrollOutside(mode, offset)
             \/ ScrollFetch(mode, offset)

Next ==
    \/ Execute
    \/ Fetch
    \/ \E n \in DefineSizes : Define(n)
    \/ \E n \in Sizes : SetFetchArraySize(n) \/ FetchRows(n)
    \/ \E mode \in ScrollModes, offset \in Offsets : Scroll(mode, offset)

Spec == Init /\ [][Next]_vars

-----------------------------------------------------------------------------
(* The rows handed out are those of the last execution, in order: the last  *)
(* of them is row number rowCount of the result set, and none is skipped,   *)
(* repeated or left over from an earlier fetch.                             *)
ServesRows ==
    positioned /\ result.kind = "rows" =>
        \A j \in 0 .. result.count - 1 :
            data[result.first + j] = <<exec, rowCount - result.count + 1 + j>>

(* The end of the rows is reported only when all of them were handed out,   *)
(* by dpiStmt_fetch and dpiStmt_fetchRows and by the latter's moreRows.     *)
EndsAtEnd ==
    \/ ~positioned \/ ~cursorOpen
    \/ result.kind \notin {"rows", "end"}
    \/ result.kind = "rows" /\ result.more
    \/ rowCount = total

(* A fetch never writes more rows than the variable has room for, whatever  *)
(* array sizes and variables the program chooses and in which order.        *)
FitsVariable ==
    [][bufferRowCount' # bufferRowCount => bufferRowCount' <= maxArraySize']_vars

(* dpi.h:2071: "scroll the statement to the desired row": that row is the   *)
(* one fetched next, and the buffer has it.                                 *)
ScrollsToDesired ==
    positioned /\ result.kind = "scrolled" =>
        /\ rowCount + 1 = result.row
        /\ bufferRowIndex < bufferRowCount =>
              data[bufferRowIndex] = <<exec, result.row>>
=============================================================================
