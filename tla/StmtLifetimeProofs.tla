------------------------- MODULE StmtLifetimeProofs -------------------------
(***************************************************************************)
(* Proofs about StmtLifetime, for any number of threads and statements, a  *)
(* list of any size, and calls that fail as they like, but for that which  *)
(* initialises a prepared statement (see the README, section 6).           *)
(*                                                                         *)
(* LifeInv is inductive: for each action A of the model there is a lemma   *)
(* AInv.  The lemmas before them say what the operations on a stack keep:  *)
(* WentOn, Called, Ended, Returned and Began (Popped: Ended or Returned;   *)
(* Still: the stacks do not change; Kept: nor does what is read).          *)
(***************************************************************************)
EXTENDS StmtLifetime, FiniteSetTheorems, TLAPS

New == {"prepare", "addHandle", "init"}
InClose == {"stmtRelease", "unparent", "ociRelease", "unlist", "removeHandle",
            "closed"}
Closing == {"stmtClose"} \cup InClose
ConnClosing == {"connClose", "nextSlot", "takeRef", "dropRef", "slotDone",
                "sessionEnd"}
ConnFreeing == {"connFree", "connFreeMemory"}
(* The public functions, and where they go on when they have called.        *)
Public == New \cup {"unref", "end", "markClosing", "connClosed", "unrefConn"}
Labels == Public \cup Closing \cup Freeing \cup ConnClosing \cup ConnFreeing

FrameType ==
    {f \in [at : Labels, s : Stmts \cup {NULL}, i : Nat, propagate : BOOLEAN,
            ok : BOOLEAN] :
        /\ f.at \in InStmt \cup {"takeRef"} => f.s # NULL
        /\ f.at \in {"connClosed"} \cup ConnFreeing => f.s = NULL}

Stacks == stack \in [Threads -> Seq(FrameType)]

TypeOK ==
    /\ Stacks
    /\ mem \in [Stmts -> {"unused", "live", "freed"}]
    /\ refCount \in [Stmts -> Int]
    /\ closing \in [Stmts -> BOOLEAN] /\ handle \in [Stmts -> BOOLEAN]
    /\ parent \in [Stmts -> Stmts \cup {NULL}]
    /\ oci \in [Stmts -> {"none", "open", "released"}]
    /\ connLive \in BOOLEAN /\ connRefs \in Int
    /\ connClosing \in BOOLEAN /\ connHandle \in BOOLEAN
    /\ deadSession \in BOOLEAN
    /\ numSlots \in Nat
    /\ openStmts \in [0 .. numSlots - 1 -> Stmts \cup {NULL}]
    /\ userStmts \in [Threads -> SUBSET Stmts]
    /\ userConn \in SUBSET Threads

-----------------------------------------------------------------------------
(* The frames of a thread from the function that was called first.          *)
depth == [t \in Threads |-> Len(stack[t])]
calls == [t \in Threads |-> [k \in 1 .. Len(stack[t]) |->
                                 stack[t][Len(stack[t]) + 1 - k]]]
Last(t) == calls[t][depth[t]]

(* Whether a function is at one of the labels with s.                       *)
In(s, labels) ==
    \E t \in Threads : \E k \in 1 .. depth[t] :
        calls[t][k].s = s /\ calls[t][k].at \in labels
(* ... not counting the one that thread t is in.                            *)
Elsewhere(t, s, labels) ==
    \E u \in Threads : \E k \in 1 .. depth[u] :
        (u = t => k # depth[t]) /\ calls[u][k].s = s /\ calls[u][k].at \in labels
Is(f, s, labels) == f.s = s /\ f.at \in labels
Any(labels) == \E s \in Stmts \cup {NULL} : In(s, labels)

(***************************************************************************)
(* Which function called which.  A statement is closed by a thread that    *)
(* owns a reference to it, by the closing loop of the connection, which    *)
(* has taken one, or by whoever frees it.                                  *)
(***************************************************************************)
MayBegin(t, f) ==
    /\ f.at \in Closing => f.s \in userStmts[t]
    /\ f.at \notin ConnClosing
    /\ f.at \in {"markClosing", "connClosed"} => t \in userConn
MayCall(f, g) ==
    /\ g.at \notin Public
    /\ g.at \in Closing => f.at \in {"dropRef", "freeParent"} /\ f.s = g.s
    /\ f.at = "freeParent" => g.at \in Closing
    /\ g.at \in ConnClosing => f.at \in {"connClosed", "connFreeMemory"}
    /\ g.at = "dropRef" => f.at = "connClosed"
Ordered(t) ==
    /\ depth[t] >= 1 => MayBegin(t, calls[t][1])
    /\ \A k \in 1 .. depth[t] - 1 : MayCall(calls[t][k], calls[t][k + 1])
Shape == \A t \in Threads : Ordered(t)

(* What only one call can be doing: preparing, closing or freeing a         *)
(* statement, closing or freeing the connection.                            *)
Once(labels) ==
    \A t, u \in Threads : \A k \in 1 .. depth[t], j \in 1 .. depth[u] :
        /\ calls[t][k].s = calls[u][j].s
        /\ calls[t][k].at \in labels /\ calls[u][j].at \in labels
        => t = u /\ k = j
Sole == {New, Freeing, InClose, {"connClosed"}, ConnFreeing}
Alone == \A labels \in Sole : Once(labels)

(* The reference to a statement that a call has of its own.                 *)
Refers == New \cup {"unref"}
CallRef(t) ==
    IF depth[t] >= 1 /\ calls[t][1].at \in Refers THEN calls[t][1].s
    ELSE IF depth[t] >= 2 /\ calls[t][2].at = "dropRef" THEN calls[t][2].s
    ELSE NULL

Unparenting == {"unparent"}
Refs(s) ==
    {<<t, "user">> : t \in {u \in Threads : s \in userStmts[u]}}
    \cup {<<t, "call">> : t \in {u \in Threads : CallRef(u) = s}}
    \cup {<<c, "result">> :
             c \in {d \in Stmts : parent[d] = s /\ ~In(d, Unparenting)}}

CountedAt(s) ==
    /\ mem[s] # "live" => Refs(s) = {} /\ ~In(s, Freeing)
    /\ In(s, Freeing) => Refs(s) = {}
    /\ mem[s] = "live" /\ ~In(s, Freeing) =>
          refCount[s] = Cardinality(Refs(s))
Counted == \A s \in Stmts : CountedAt(s)

(* Nobody but the closing loop has a reference to a statement that is being *)
(* prepared, ...                                                            *)
Unrefing == {"unref"}
NewIsAlone ==
    \A s \in Stmts : In(s, New) =>
        /\ parent[s] = NULL /\ ~In(s, Unrefing)
        /\ \A u \in Threads : s \notin userStmts[u]
        /\ \A c \in Stmts : parent[c] # s

(* ... and that not before it is listed.                                    *)
Unlisted == {"prepare", "addHandle"}
Sought == {"takeRef", "dropRef"}
Found(s) == In(s, Sought) \/ \E i \in 0 .. numSlots - 1 : openStmts[i] = s
FoundIsKnown ==
    \A s \in Stmts : Found(s) =>
        /\ mem[s] # "unused" /\ ~In(s, Unlisted)
        /\ In(s, Freeing) => refCount[s] = 0

(* How far closing a statement is.                                          *)
Unheld == {"ociRelease", "unlist", "removeHandle", "closed"}
Let == {"unlist", "removeHandle", "closed"}
Closed == {"freeConn", "freeMemory"}
Preparing == {"prepare"}
CloseStateAt(s) ==
    /\ In(s, InClose) => closing[s] /\ handle[s]
    /\ closing[s] /\ ~In(s, InClose) => ~handle[s]
    /\ ~handle[s] => parent[s] = NULL
    /\ In(s, Unheld) => parent[s] = NULL
    /\ handle[s] /\ parent[s] = NULL /\ ~In(s, Let) => oci[s] = "open"
    /\ In(s, Closed) => ~handle[s]
    /\ mem[s] = "unused" \/ In(s, Preparing) => ~closing[s] /\ ~handle[s]
    /\ parent[s] # NULL => mem[parent[s]] # "unused"
CloseState == \A s \in Stmts : CloseStateAt(s)
FreedIsClosed ==
    \A t \in Threads : \A s \in Stmts :
        depth[t] >= 1 /\ Is(Last(t), s, {"freeParent"}) => ~handle[s]

(* What keeps the connection: references of the program, of calls, and of   *)
(* statements.                                                              *)
UnrefsConn(t) == depth[t] >= 1 /\ calls[t][1].at = "unrefConn"
Letting == {"freeMemory"}
Keepers ==
    {<<t, "user">> : t \in userConn}
    \cup {<<t, "call">> : t \in {u \in Threads : UnrefsConn(u)}}
    \cup {<<s, "stmt">> : s \in {r \in Stmts : mem[r] = "live"
                                                /\ ~In(r, Letting)}}
ConnCounted ==
    IF connLive /\ ~In(NULL, ConnFreeing)
    THEN connRefs = Cardinality(Keepers) ELSE Keepers = {}

ConnState ==
    /\ In(NULL, {"connClosed"}) => connClosing
    /\ Any(ConnClosing) => connHandle
    /\ Keepers # {} /\ ~connClosing => connHandle
FailedIsOpen ==
    \A t \in Threads : \A k \in 1 .. depth[t] :
        calls[t][k].at = "connClosed" /\ ~calls[t][k].ok => connHandle

LifeInv ==
    /\ TypeOK /\ Shape /\ Alone /\ Counted /\ NewIsAlone /\ FoundIsKnown
    /\ CloseState /\ FreedIsClosed /\ ConnCounted /\ ConnState /\ FailedIsOpen
-----------------------------------------------------------------------------
(* What the operations on a thread's stack do to its frames.               *)
Others(t) == \A u \in Threads : u # t => depth'[u] = depth[u]
                                         /\ calls'[u] = calls[u]
Below(t, n) == \A k \in 1 .. n : calls'[t][k] = calls[t][k]

WentOn(t, f) ==
    /\ depth'[t] = depth[t] /\ calls'[t][depth[t]] = f
    /\ Below(t, depth[t] - 1) /\ Others(t)
Called(t, callee, f) ==
    /\ depth'[t] = depth[t] + 1
    /\ calls'[t][depth[t]] = f /\ calls'[t][depth[t] + 1] = callee
    /\ Below(t, depth[t] - 1) /\ Others(t)
Ended(t) ==
    /\ depth'[t] = depth[t] - 1
    /\ Below(t, depth[t] - 1) /\ Others(t)
Returned(t, status) ==
    /\ depth'[t] = depth[t] - 1
    /\ depth[t] >= 2 => calls'[t][depth[t] - 1]
                            = [calls[t][depth[t] - 1] EXCEPT !.ok = status]
    /\ Below(t, depth[t] - 2) /\ Others(t)
Began(t, f) ==
    /\ depth[t] = 0 /\ depth'[t] = 1 /\ calls'[t][1] = f /\ Others(t)

(* A thread's calls are its stack, read from the bottom. *)
LEMMA DepthOf ==
    ASSUME Stacks, NEW t \in Threads
    PROVE  /\ depth[t] = Len(stack[t]) /\ depth[t] \in Nat
           /\ depth[t] = 0 <=> stack[t] = <<>>
           /\ stack[t] \in Seq(FrameType)
           /\ \A k \in 1 .. depth[t] : calls[t][k] \in FrameType
  <1>1. stack[t] \in Seq(FrameType) BY DEF Stacks
  <1>2. depth[t] = Len(stack[t]) /\ Len(stack[t]) \in Nat BY <1>1 DEF depth
  <1>3. \A k \in 1 .. Len(stack[t]) : calls[t][k] = stack[t][Len(stack[t]) + 1 - k]
    BY DEF calls
  <1> QED BY <1>1, <1>2, <1>3

LEMMA DepthOfNext ==
    ASSUME Stacks', NEW t \in Threads
    PROVE  /\ depth'[t] = Len(stack'[t]) /\ depth'[t] \in Nat
           /\ stack'[t] \in Seq(FrameType)
           /\ \A k \in 1 .. depth'[t] : calls'[t][k] \in FrameType
  <1>1. stack'[t] \in Seq(FrameType) BY DEF Stacks
  <1>2. depth'[t] = Len(stack'[t]) /\ Len(stack'[t]) \in Nat BY <1>1 DEF depth
  <1>3. \A k \in 1 .. Len(stack'[t]) : calls'[t][k] = stack'[t][Len(stack'[t]) + 1 - k]
    BY DEF calls
  <1> QED BY <1>1, <1>2, <1>3

(* The frame that is at place j of the stack. *)
LEMMA CallAt ==
    ASSUME NEW t \in Threads, NEW n \in Nat, n = Len(stack[t]),
           NEW k \in 1 .. n, NEW j \in Int, j = n + 1 - k
    PROVE  calls[t][k] = stack[t][j]
  BY DEF calls

LEMMA CallAtNext ==
    ASSUME NEW t \in Threads, NEW n \in Nat, n = Len(stack'[t]),
           NEW k \in 1 .. n, NEW j \in Int, j = n + 1 - k
    PROVE  calls'[t][k] = stack'[t][j]
  BY DEF calls

(* The threads whose stacks are as they were. *)
LEMMA OthersSame ==
    ASSUME Stacks, NEW t \in Threads, NEW new,
           stack' = [stack EXCEPT ![t] = new]
    PROVE  Others(t) /\ stack'[t] = new
  BY DEF Stacks, Others, depth, calls

(* Sequences. *)
LEMMA ElementIn ==
    ASSUME NEW S, NEW q \in Seq(S), NEW i \in 1 .. Len(q)
    PROVE  q[i] \in S
  OBVIOUS

LEMMA TailOf ==
    ASSUME NEW S, NEW q \in Seq(S), NEW n \in Nat, Len(q) = n + 1
    PROVE  /\ Tail(q) \in Seq(S) /\ Len(Tail(q)) = n
           /\ \A k \in 1 .. n : Tail(q)[k] = q[k + 1]
  OBVIOUS

(* What GoOn, Call, ReturnVoid, Return and Start do to the calls. *)
LEMMA GoOnIs ==
    ASSUME Stacks, NEW t \in Threads, stack[t] # <<>>, NEW f \in FrameType,
           GoOn(t, f)
    PROVE  Stacks' /\ WentOn(t, f)
  <1>1. stack' = [stack EXCEPT ![t] = <<f>> \o Tail(stack[t])]
    BY DEF GoOn, Stacks
  <1>2. Others(t) /\ stack'[t] = <<f>> \o Tail(stack[t])
    BY <1>1, OthersSame, Zenon
  <1>3. stack[t] \in Seq(FrameType) BY DEF Stacks
  <1> DEFINE n == Len(stack[t])
  <1>4. /\ n \in Nat \ {0} /\ stack'[t] \in Seq(FrameType) /\ n = Len(stack'[t])
        /\ stack'[t][1] = f
        /\ \A k \in 2 .. n : stack'[t][k] = stack[t][k]
    BY <1>2, <1>3
  <1>5. Stacks' BY <1>1, <1>2, <1>4 DEF Stacks
  <1>6. depth[t] = n /\ depth'[t] = n /\ n = Len(stack[t])
    BY <1>4, <1>5, DepthOf, DepthOfNext
  <1> HIDE DEF n
  <1>7. calls'[t][n] = f
    <2>1. n \in 1 .. n /\ 1 = n + 1 - n /\ n \in Nat /\ 1 \in Int BY <1>4
    <2>2. calls'[t][n] = stack'[t][1] BY <1>4, <2>1, CallAtNext
    <2> QED BY <1>4, <2>2
  <1>8. \A k \in 1 .. n - 1 : calls'[t][k] = calls[t][k]
    <2> SUFFICES ASSUME NEW k \in 1 .. n - 1 PROVE calls'[t][k] = calls[t][k]
      OBVIOUS
    <2> DEFINE j == n + 1 - k
    <2>1. j \in 2 .. n /\ j \in Int /\ j = n + 1 - k /\ k \in 1 .. n /\ n \in Nat
      BY <1>4
    <2> HIDE DEF j
    <2>2. calls[t][k] = stack[t][j] BY <1>6, <2>1, CallAt
    <2>3. calls'[t][k] = stack'[t][j] BY <1>4, <2>1, CallAtNext
    <2> QED BY <1>4, <2>1, <2>2, <2>3
  <1> QED BY <1>2, <1>5, <1>6, <1>7, <1>8 DEF WentOn, Below

LEMMA CallIs ==
    ASSUME Stacks, NEW t \in Threads, stack[t] # <<>>, NEW f \in FrameType,
           NEW callee \in FrameType, Call(t, callee, f)
    PROVE  Stacks' /\ Called(t, callee, f)
  <1>1. stack' = [stack EXCEPT ![t] = <<callee, f>> \o Tail(stack[t])]
    BY DEF Call, Stacks
  <1>2. Others(t) /\ stack'[t] = <<callee, f>> \o Tail(stack[t])
    BY <1>1, OthersSame, Zenon
  <1>3. stack[t] \in Seq(FrameType) BY DEF Stacks
  <1> DEFINE n == Len(stack[t])
             m == Len(stack[t]) + 1
  <1>4. /\ n \in Nat \ {0} /\ m = n + 1 /\ m \in Nat
        /\ stack'[t] \in Seq(FrameType) /\ m = Len(stack'[t])
        /\ stack'[t][1] = callee /\ stack'[t][2] = f
        /\ \A k \in 2 .. n : stack'[t][k + 1] = stack[t][k]
    BY <1>2, <1>3
  <1>5. Stacks' BY <1>1, <1>2, <1>4 DEF Stacks
  <1>6. depth[t] = n /\ depth'[t] = m /\ n = Len(stack[t])
    BY <1>4, <1>5, DepthOf, DepthOfNext
  <1> HIDE DEF n, m
  <1>7. calls'[t][n] = f /\ calls'[t][n + 1] = callee
    <2>1. /\ n \in 1 .. m /\ 2 = m + 1 - n /\ 2 \in Int
          /\ m \in 1 .. m /\ 1 = m + 1 - m /\ 1 \in Int
      BY <1>4
    <2>2. calls'[t][n] = stack'[t][2] BY <1>4, <2>1, CallAtNext
    <2>3. calls'[t][m] = stack'[t][1] BY <1>4, <2>1, CallAtNext
    <2> QED BY <1>4, <2>2, <2>3
  <1>8. \A k \in 1 .. n - 1 : calls'[t][k] = calls[t][k]
    <2> SUFFICES ASSUME NEW k \in 1 .. n - 1 PROVE calls'[t][k] = calls[t][k]
      OBVIOUS
    <2> DEFINE j == n + 1 - k
               l == j + 1
    <2>1. /\ j \in 2 .. n /\ j \in Int /\ j = n + 1 - k /\ k \in 1 .. n
          /\ l \in Int /\ l = m + 1 - k /\ k \in 1 .. m /\ l = j + 1 /\ n \in Nat
      BY <1>4
    <2> HIDE DEF j, l
    <2>2. calls[t][k] = stack[t][j] BY <1>6, <2>1, CallAt
    <2>3. calls'[t][k] = stack'[t][l] BY <1>4, <2>1, CallAtNext
    <2> QED BY <1>4, <2>1, <2>2, <2>3
  <1> QED BY <1>2, <1>4, <1>5, <1>6, <1>7, <1>8 DEF Called, Below

LEMMA ReturnVoidIs ==
    ASSUME Stacks, NEW t \in Threads, stack[t] # <<>>, ReturnVoid(t)
    PROVE  Stacks' /\ Ended(t)
  <1>1. stack' = [stack EXCEPT ![t] = Tail(stack[t])] BY DEF ReturnVoid, Stacks
  <1>2. Others(t) /\ stack'[t] = Tail(stack[t]) BY <1>1, OthersSame, Zenon
  <1>3. stack[t] \in Seq(FrameType) BY DEF Stacks
  <1> DEFINE n == Len(stack[t])
             m == Len(stack[t]) - 1
  <1>4. /\ n \in Nat \ {0} /\ m = n - 1 /\ m \in Nat
        /\ stack'[t] \in Seq(FrameType) /\ m = Len(stack'[t])
        /\ \A k \in 1 .. m : stack'[t][k] = stack[t][k + 1]
    BY <1>2, <1>3
  <1>5. Stacks' BY <1>1, <1>2, <1>4 DEF Stacks
  <1>6. depth[t] = n /\ depth'[t] = m /\ n = Len(stack[t])
    BY <1>4, <1>5, DepthOf, DepthOfNext
  <1> HIDE DEF n, m
  <1>8. \A k \in 1 .. n - 1 : calls'[t][k] = calls[t][k]
    <2> SUFFICES ASSUME NEW k \in 1 .. n - 1 PROVE calls'[t][k] = calls[t][k]
      OBVIOUS
    <2> DEFINE j == n - k
               l == j + 1
    <2>1. /\ j \in 1 .. m /\ j \in Int /\ j = m + 1 - k /\ k \in 1 .. m
          /\ l \in Int /\ l = n + 1 - k /\ k \in 1 .. n /\ l = j + 1 /\ n \in Nat
      BY <1>4
    <2> HIDE DEF j, l
    <2>2. calls[t][k] = stack[t][l] BY <1>6, <2>1, CallAt
    <2>3. calls'[t][k] = stack'[t][j] BY <1>4, <2>1, CallAtNext
    <2> QED BY <1>4, <2>1, <2>2, <2>3
  <1> QED BY <1>2, <1>4, <1>5, <1>6, <1>8 DEF Ended, Below

LEMMA ReturnIs ==
    ASSUME Stacks, NEW t \in Threads, stack[t] # <<>>, NEW status \in BOOLEAN,
           Return(t, status)
    PROVE  Stacks' /\ Returned(t, status)
  <1>0. /\ stack[t] \in Seq(FrameType) /\ Len(stack[t]) \in Nat \ {0}
        /\ depth[t] = Len(stack[t])
    BY DepthOf DEF Stacks
  <1>3. Len(stack[t]) \in Nat /\ (Len(stack[t]) # 1 => Len(stack[t]) >= 2)
    <2> DEFINE n == Len(stack[t])
    <2>1. n \in Nat \ {0} BY <1>0
    <2> HIDE DEF n
    <2>2. n \in Nat /\ (n # 1 => n >= 2) BY <2>1
    <2> QED BY <2>2 DEF n
  <1>1. CASE Len(stack[t]) = 1
    <2>1. stack' = [stack EXCEPT ![t] = <<>>] BY <1>1 DEF Return, Stacks
    <2>2. Others(t) /\ stack'[t] = <<>> BY <2>1, OthersSame, Zenon
    <2>3. Stacks' BY <2>1 DEF Stacks
    <2>4. depth[t] = 1 /\ depth'[t] = 0 BY <1>0, <1>1, <2>2, <2>3, DepthOfNext
    <2> QED BY <2>2, <2>3, <2>4 DEF Returned, Below
  <1>2. CASE Len(stack[t]) # 1
    <2> DEFINE g == [stack[t][2] EXCEPT !.ok = status]
               r == Tail(stack[t])
               n == Len(stack[t])
               m == Len(stack[t]) - 1
    <2>1. stack' = [stack EXCEPT ![t] = <<g>> \o Tail(r)]
      BY <1>2 DEF Return, Stacks
    <2>2. Others(t) /\ stack'[t] = <<g>> \o Tail(r) BY <2>1, OthersSame, Zenon
    <2>3. stack[t][2] \in FrameType
      <3>1. 2 \in 1 .. Len(stack[t]) BY <1>2, <1>3
      <3> QED BY <1>0, <3>1, ElementIn
    <2>4. g \in FrameType /\ g = [stack[t][2] EXCEPT !.ok = status]
      BY <2>3 DEF FrameType
    <2>5. n = Len(stack[t]) /\ n \in Nat /\ n >= 2 /\ m \in Nat /\ m = n - 1
      BY <1>2, <1>3
    <2>13. /\ r \in Seq(FrameType) /\ Len(r) = m
           /\ \A k \in 1 .. m : r[k] = stack[t][k + 1]
      BY <1>0, <2>5, TailOf
    <2> HIDE DEF g, r, n, m
    <2>6. /\ stack'[t] \in Seq(FrameType) /\ Len(stack'[t]) = m
          /\ stack'[t][1] = g
          /\ \A k \in 2 .. m : stack'[t][k] = r[k]
      <3>1. Tail(r) \in Seq(FrameType) /\ Len(Tail(r)) = m - 1
            /\ \A k \in 1 .. m - 1 : Tail(r)[k] = r[k + 1]
        <4>1. m - 1 \in Nat /\ m = (m - 1) + 1 BY <2>5
        <4> QED BY <2>13, <4>1, TailOf
      <3> DEFINE q == Tail(r)
      <3> HIDE DEF q
      <3>2. /\ q \in Seq(FrameType) /\ Len(q) = m - 1
            /\ \A k \in 1 .. m - 1 : q[k] = r[k + 1]
        BY <3>1 DEF q
      <3>5. stack'[t] = <<g>> \o q BY <2>2 DEF q
      <3>6. m \in Nat /\ m >= 1 BY <2>5
      <3>3. /\ stack'[t] \in Seq(FrameType) /\ Len(stack'[t]) = m
            /\ stack'[t][1] = g
            /\ \A k \in 2 .. m : stack'[t][k] = q[k - 1]
        BY <2>4, <3>2, <3>5, <3>6
      <3>4. \A k \in 2 .. m : k - 1 \in 1 .. m - 1 /\ (k - 1) + 1 = k BY <3>6
      <3> QED BY <3>2, <3>3, <3>4
    <2>7. Stacks' BY <2>1, <2>2, <2>6 DEF Stacks
    <2>8. depth[t] = n /\ depth'[t] = m BY <1>0, <2>5, <2>6, <2>7, DepthOfNext
    <2>9. calls'[t][m] = g
      <3>1. m \in 1 .. m /\ 1 = m + 1 - m /\ 1 \in Int /\ m \in Nat BY <2>5
      <3>3. m = Len(stack'[t]) BY <2>6
      <3>2. calls'[t][m] = stack'[t][1] BY <3>1, <3>3, CallAtNext
      <3> QED BY <2>6, <3>2
    <2>10. calls[t][m] = stack[t][2]
      <3>1. m \in 1 .. n /\ 2 = n + 1 - m /\ 2 \in Int /\ n \in Nat BY <2>5
      <3>2. n = Len(stack[t]) BY <2>5
      <3> QED BY <3>1, <3>2, CallAt
    <2>11. \A k \in 1 .. n - 2 : calls'[t][k] = calls[t][k]
      <3> SUFFICES ASSUME NEW k \in 1 .. n - 2 PROVE calls'[t][k] = calls[t][k]
        OBVIOUS
      <3> DEFINE j == n - k
                 l == j + 1
      <3>1. /\ j \in 2 .. m /\ j \in 1 .. m /\ j \in Int /\ j = m + 1 - k
            /\ k \in 1 .. m /\ l \in Int /\ l = n + 1 - k /\ k \in 1 .. n
            /\ l = j + 1 /\ n \in Nat /\ m \in Nat
        BY <2>5
      <3> HIDE DEF j, l
      <3>2. calls[t][k] = stack[t][l] BY <2>5, <3>1, CallAt
      <3>3. calls'[t][k] = stack'[t][j] BY <2>6, <3>1, CallAtNext
      <3> QED BY <2>6, <2>13, <3>1, <3>2, <3>3
    <2>12. calls'[t][n - 1] = [calls[t][n - 1] EXCEPT !.ok = status]
      BY <2>4, <2>5, <2>9, <2>10
    <2> QED BY <2>2, <2>5, <2>7, <2>8, <2>11, <2>12 DEF Returned, Below
  <1> QED BY <1>1, <1>2

LEMMA StartIs ==
    ASSUME Stacks, NEW t \in Threads, stack[t] = <<>>, NEW f \in FrameType,
           Start(t, f)
    PROVE  Stacks' /\ Began(t, f)
  <1>1. stack' = [stack EXCEPT ![t] = <<f>>] BY DEF Start
  <1>2. Others(t) /\ stack'[t] = <<f>> BY <1>1, OthersSame, Zenon
  <1>3. Stacks' BY <1>1 DEF Stacks
  <1>4. Len(stack'[t]) = 1 /\ stack'[t][1] = f BY <1>2
  <1>7. depth[t] = 0 /\ depth'[t] = 1 BY <1>3, <1>4, DepthOf, DepthOfNext
  <1>5. 1 \in 1 .. 1 /\ 1 = 1 + 1 - 1 /\ 1 \in Int /\ 1 \in Nat OBVIOUS
  <1>6. calls'[t][1] = stack'[t][1] BY <1>4, <1>5, CallAtNext
  <1> QED BY <1>2, <1>3, <1>4, <1>6, <1>7 DEF Began

(* A step that leaves the stacks leaves the calls. *)
LEMMA SameStacks == UNCHANGED stack => UNCHANGED <<depth, calls>>
  BY DEF depth, calls

(* What a thread is doing. *)
LEMMA LastIs ==
    ASSUME Stacks, NEW t \in Threads, NEW l, At(t, l)
    PROVE  /\ stack[t] # <<>> /\ depth[t] \in Nat \ {0}
           /\ Top(t) = Last(t) /\ Last(t).at = l
           /\ Last(t) \in FrameType /\ Last(t) = calls[t][depth[t]]
  <1>1. /\ stack[t] \in Seq(FrameType) /\ stack[t] # <<>>
        /\ depth[t] = Len(stack[t]) /\ depth[t] \in Nat
        /\ \A k \in 1 .. depth[t] : calls[t][k] \in FrameType
    BY DepthOf DEF At
  <1> DEFINE n == Len(stack[t])
  <1>2. /\ n \in Nat \ {0} /\ n = Len(stack[t]) /\ depth[t] = n
        /\ n \in 1 .. n /\ 1 = n + 1 - n /\ 1 \in Int /\ n \in Nat
    BY <1>1
  <1>3. Head(stack[t]) = stack[t][1] BY <1>1
  <1> HIDE DEF n
  <1>4. calls[t][n] = stack[t][1] BY <1>2, CallAt
  <1> QED BY <1>1, <1>2, <1>3, <1>4 DEF At, Top, Last
-----------------------------------------------------------------------------
(* Where the frames are after each of these operations.                     *)
Same(labels) == \A s \in Stmts \cup {NULL} : In(s, labels)' <=> In(s, labels)

(* Where a function is: at the thread's last call, or elsewhere; and after a step. *)
LEMMA InNow ==
    ASSUME NEW t \in Threads, depth[t] \in Nat \ {0}, NEW s, NEW L
    PROVE  In(s, L) <=> Is(Last(t), s, L) \/ Elsewhere(t, s, L)
  <1>1. depth[t] \in 1 .. depth[t] OBVIOUS
  <1> QED BY <1>1 DEF In, Is, Last, Elsewhere

LEMMA InWentOn ==
    ASSUME Stacks, NEW t \in Threads, depth[t] \in Nat \ {0}, NEW f,
           WentOn(t, f), NEW s, NEW L
    PROVE  In(s, L)' <=> Is(f, s, L) \/ Elsewhere(t, s, L)
  <1>1. depth[t] \in 1 .. depth[t] /\ \A u \in Threads : depth[u] \in Nat
    BY DepthOf
  <1> QED BY <1>1 DEF In, Is, Elsewhere, WentOn, Below, Others

LEMMA InCalled ==
    ASSUME Stacks, NEW t \in Threads, depth[t] \in Nat \ {0}, NEW f,
           NEW callee, Called(t, callee, f), NEW s, NEW L
    PROVE  In(s, L)' <=> Is(f, s, L) \/ Is(callee, s, L) \/ Elsewhere(t, s, L)
  <1>1. depth[t] \in 1 .. depth[t] /\ \A u \in Threads : depth[u] \in Nat
    BY DepthOf
  <1>2. \A k : k \in 1 .. depth[t] + 1 <=>
                  k \in 1 .. depth[t] - 1 \/ k = depth[t] \/ k = depth[t] + 1
    OBVIOUS
  <1> QED BY <1>1, <1>2 DEF In, Is, Elsewhere, Called, Below, Others

LEMMA InEnded ==
    ASSUME Stacks, NEW t \in Threads, depth[t] \in Nat \ {0}, Ended(t),
           NEW s, NEW L
    PROVE  In(s, L)' <=> Elsewhere(t, s, L)
  <1>1. \A u \in Threads : depth[u] \in Nat BY DepthOf
  <1> QED BY <1>1 DEF In, Elsewhere, Ended, Below, Others

(* A return changes nothing of the calls below but their result. *)
LEMMA SameBelow ==
    ASSUME Stacks, NEW t \in Threads, depth[t] \in Nat \ {0},
           NEW status, Returned(t, status)
    PROVE  \A k \in 1 .. depth[t] - 1 : /\ calls'[t][k].s = calls[t][k].s
                                        /\ calls'[t][k].at = calls[t][k].at
  <1> SUFFICES ASSUME NEW k \in 1 .. depth[t] - 1
               PROVE  /\ calls'[t][k].s = calls[t][k].s
                      /\ calls'[t][k].at = calls[t][k].at
    OBVIOUS
  <1>1. calls[t][k] \in FrameType BY DepthOf
  <1>2. CASE k = depth[t] - 1
    <2>1. calls'[t][k] = [calls[t][k] EXCEPT !.ok = status]
      BY <1>2 DEF Returned
    <2> QED BY <1>1, <2>1 DEF FrameType
  <1>3. CASE k # depth[t] - 1 BY <1>3 DEF Returned, Below
  <1> QED BY <1>2, <1>3

LEMMA PoppedIs ==
    ASSUME Stacks, NEW t \in Threads, depth[t] \in Nat \ {0},
           Ended(t) \/ \E status : Returned(t, status)
    PROVE  /\ depth'[t] = depth[t] - 1 /\ Others(t)
           /\ \A k \in 1 .. depth[t] - 1 : calls'[t][k].s = calls[t][k].s
                                           /\ calls'[t][k].at = calls[t][k].at
  <1>1. CASE Ended(t) BY <1>1 DEF Ended, Below
  <1>2. ASSUME NEW status, Returned(t, status)
        PROVE  /\ depth'[t] = depth[t] - 1 /\ Others(t)
               /\ \A k \in 1 .. depth[t] - 1 :
                     calls'[t][k].s = calls[t][k].s
                     /\ calls'[t][k].at = calls[t][k].at
    <2>1. depth'[t] = depth[t] - 1 /\ Others(t) BY <1>2 DEF Returned
    <2> QED BY <1>2, <2>1, SameBelow
  <1> QED BY <1>1, <1>2

LEMMA InReturned ==
    ASSUME Stacks, NEW t \in Threads, depth[t] \in Nat \ {0},
           NEW status, Returned(t, status), NEW s, NEW L
    PROVE  In(s, L)' <=> Elsewhere(t, s, L)
  <1>1. \A u \in Threads : depth[u] \in Nat BY DepthOf
  <1>2. \A k \in 1 .. depth[t] - 1 : /\ calls'[t][k].s = calls[t][k].s
                                     /\ calls'[t][k].at = calls[t][k].at
    BY SameBelow
  <1>3. depth'[t] = depth[t] - 1 /\ Others(t) BY DEF Returned
  <1> QED BY <1>1, <1>2, <1>3 DEF In, Elsewhere, Others

LEMMA InBegan ==
    ASSUME Stacks, NEW t \in Threads, NEW f, Began(t, f), NEW s, NEW L
    PROVE  In(s, L)' <=> Is(f, s, L) \/ In(s, L)
  BY DEF In, Is, Began, Others

(* The marks of a step that leaves its function at a label with the same.   *)
LEMMA SameWentOn ==
    ASSUME Stacks, NEW t \in Threads, depth[t] \in Nat \ {0}, NEW f,
           WentOn(t, f), NEW L,
           Last(t).at \in L \/ f.at \in L =>
               Last(t).at \in L /\ f.at \in L /\ Last(t).s = f.s
    PROVE  Same(L)
  <1> SUFFICES ASSUME NEW s \in Stmts \cup {NULL}
               PROVE  In(s, L)' <=> In(s, L)
    BY DEF Same
  <1>1. In(s, L) <=> Is(Last(t), s, L) \/ Elsewhere(t, s, L) BY InNow
  <1>2. In(s, L)' <=> Is(f, s, L) \/ Elsewhere(t, s, L) BY InWentOn
  <1> QED BY <1>1, <1>2 DEF Is

LEMMA SameCalled ==
    ASSUME Stacks, NEW t \in Threads, depth[t] \in Nat \ {0}, NEW f,
           NEW callee, Called(t, callee, f), NEW L, callee.at \notin L,
           Last(t).at \in L \/ f.at \in L =>
               Last(t).at \in L /\ f.at \in L /\ Last(t).s = f.s
    PROVE  Same(L)
  <1> SUFFICES ASSUME NEW s \in Stmts \cup {NULL}
               PROVE  In(s, L)' <=> In(s, L)
    BY DEF Same
  <1>1. In(s, L) <=> Is(Last(t), s, L) \/ Elsewhere(t, s, L) BY InNow
  <1>2. In(s, L)' <=> Is(f, s, L) \/ Is(callee, s, L) \/ Elsewhere(t, s, L)
    BY InCalled
  <1> QED BY <1>1, <1>2 DEF Is

LEMMA SameEnded ==
    ASSUME Stacks, NEW t \in Threads, depth[t] \in Nat \ {0}, Ended(t),
           NEW L, Last(t).at \notin L
    PROVE  Same(L)
  <1> SUFFICES ASSUME NEW s \in Stmts \cup {NULL}
               PROVE  In(s, L)' <=> In(s, L)
    BY DEF Same
  <1>1. In(s, L) <=> Is(Last(t), s, L) \/ Elsewhere(t, s, L) BY InNow
  <1>2. In(s, L)' <=> Elsewhere(t, s, L) BY InEnded
  <1> QED BY <1>1, <1>2 DEF Is

LEMMA SameReturned ==
    ASSUME Stacks, NEW t \in Threads, depth[t] \in Nat \ {0},
           NEW status, Returned(t, status), NEW L, Last(t).at \notin L
    PROVE  Same(L)
  <1> SUFFICES ASSUME NEW s \in Stmts \cup {NULL}
               PROVE  In(s, L)' <=> In(s, L)
    BY DEF Same
  <1>1. In(s, L) <=> Is(Last(t), s, L) \/ Elsewhere(t, s, L) BY InNow
  <1>2. In(s, L)' <=> Elsewhere(t, s, L) BY InReturned
  <1> QED BY <1>1, <1>2 DEF Is

LEMMA SameBegan ==
    ASSUME Stacks, NEW t \in Threads, NEW f, Began(t, f), NEW L, f.at \notin L
    PROVE  Same(L)
  <1> SUFFICES ASSUME NEW s \in Stmts \cup {NULL}
               PROVE  In(s, L)' <=> In(s, L)
    BY DEF Same
  <1>2. In(s, L)' <=> Is(f, s, L) \/ In(s, L) BY InBegan
  <1> QED BY <1>2 DEF Is

LEMMA SameStill ==
    ASSUME UNCHANGED stack, NEW L
    PROVE  Same(L)
  BY SameStacks DEF Same, In

-----------------------------------------------------------------------------
(* Which function called which, after each of them.                         *)
UsersKeep ==
    \A u \in Threads : depth[u] # 0 =>
        userStmts[u] \subseteq userStmts'[u] /\ (u \in userConn => u \in userConn')
Fits(t, f) ==
    /\ depth[t] = 1 => MayBegin(t, f)
    /\ depth[t] >= 2 => MayCall(calls[t][depth[t] - 1], f)

(* The last call, and what remains when it has returned, is where it may be. *)
LEMMA LastFits ==
    ASSUME Stacks, Shape, NEW t \in Threads, depth[t] \in Nat \ {0}
    PROVE  Fits(t, Last(t))
  <1>1. depth[t] >= 2 => depth[t] - 1 \in 1 .. depth[t] - 1
                         /\ (depth[t] - 1) + 1 = depth[t]
    OBVIOUS
  <1>2. depth[t] >= 2 => MayCall(calls[t][depth[t] - 1], Last(t))
    BY <1>1 DEF Shape, Ordered, Last
  <1>3. depth[t] = 1 => MayBegin(t, Last(t)) BY DEF Shape, Ordered, Last
  <1> QED BY <1>2, <1>3 DEF Fits

(* Who may be called where depends on the label and the statement. *)
LEMMA MayBeginStill ==
    ASSUME UsersKeep, NEW t \in Threads, depth[t] # 0, NEW f, NEW g,
           MayBegin(t, f), g.at = f.at, g.s = f.s
    PROVE  MayBegin(t, g)'
  BY DEF UsersKeep, MayBegin

LEMMA MayCallStill ==
    ASSUME NEW f, NEW g, NEW f2, NEW g2, MayCall(f, g),
           f2.at = f.at, f2.s = f.s, g2.at = g.at, g2.s = g.s
    PROVE  MayCall(f2, g2)
  BY DEF MayCall

(* The order of the calls is kept by each of the operations on the stack. *)
LEMMA OthersOrdered ==
    ASSUME Stacks, Shape, UsersKeep, NEW t \in Threads, Others(t),
           Ordered(t)'
    PROVE  Shape'
  <1> SUFFICES ASSUME NEW u \in Threads, u # t PROVE Ordered(u)' BY DEF Shape
  <1>1. depth'[u] = depth[u] /\ calls'[u] = calls[u] /\ depth[u] \in Nat
        /\ Ordered(u)
    BY DepthOf DEF Others, Shape
  <1>2. ASSUME depth'[u] >= 1 PROVE MayBegin(u, calls[u][1])'
    BY <1>1, <1>2, MayBeginStill DEF Ordered, MayBegin, UsersKeep
  <1>3. \A k \in 1 .. depth[u] - 1 : MayCall(calls[u][k], calls[u][k + 1])
    BY <1>1 DEF Ordered
  <1>4. \A k \in 1 .. depth'[u] - 1 : MayCall(calls[u][k], calls[u][k + 1])'
    BY <1>1, <1>3 DEF MayCall
  <1> QED BY <1>2, <1>4 DEF Ordered

(* The frames that stay are in order. *)
LEMMA RestOrdered ==
    ASSUME Stacks, Shape, UsersKeep, NEW t \in Threads, NEW n \in Nat,
           n <= depth[t],
           \A k \in 1 .. n : calls'[t][k].s = calls[t][k].s
                             /\ calls'[t][k].at = calls[t][k].at
    PROVE  /\ n >= 1 => MayBegin(t, calls[t][1])'
           /\ \A k \in 1 .. n - 1 : MayCall(calls[t][k], calls[t][k + 1])'
  <1>1. depth[t] \in Nat /\ Ordered(t) BY DepthOf DEF Shape
  <1>2. ASSUME n >= 1 PROVE MayBegin(t, calls[t][1])'
    <2>1. MayBegin(t, calls[t][1]) /\ 1 \in 1 .. n /\ depth[t] # 0
      BY <1>1, <1>2 DEF Ordered
    <2> QED BY <2>1 DEF MayBegin, UsersKeep
  <1>3. ASSUME NEW k \in 1 .. n - 1
        PROVE  MayCall(calls[t][k], calls[t][k + 1])'
    <2>1. k \in 1 .. depth[t] - 1 /\ k \in 1 .. n /\ k + 1 \in 1 .. n BY <1>1
    <2>2. MayCall(calls[t][k], calls[t][k + 1]) BY <1>1, <2>1 DEF Ordered
    <2> QED BY <2>1, <2>2 DEF MayCall
  <1> QED BY <1>2, <1>3

LEMMA ShapeWentOn ==
    ASSUME Stacks, Shape, UsersKeep, NEW t \in Threads,
           depth[t] \in Nat \ {0}, NEW f, WentOn(t, f), Fits(t, f)
    PROVE  Shape'
  <1>0. \E n, m : n = depth[t] /\ m = depth[t] - 1 OBVIOUS
  <1> PICK n, m : n = depth[t] /\ m = depth[t] - 1 BY <1>0
  <1>1. /\ n \in Nat /\ n >= 1 /\ m \in Nat /\ m = n - 1 /\ n = depth[t]
        /\ m <= depth[t]
    OBVIOUS
  <1>2. /\ depth'[t] = n /\ calls'[t][n] = f /\ Others(t)
        /\ \A k \in 1 .. m : calls'[t][k] = calls[t][k]
    BY DEF WentOn, Below
  <1>3. Fits(t, f) /\ UsersKeep OBVIOUS
  <1>4. /\ m >= 1 => MayBegin(t, calls[t][1])'
        /\ \A k \in 1 .. m - 1 : MayCall(calls[t][k], calls[t][k + 1])'
    BY <1>1, <1>2, RestOrdered
  <1>5. ASSUME m = 0 PROVE MayBegin(t, calls[t][1])'
    <2>1. n = 1 /\ MayBegin(t, f) /\ depth[t] # 0 BY <1>1, <1>3, <1>5 DEF Fits
    <2> QED BY <1>2, <2>1 DEF MayBegin, UsersKeep
  <1>6. ASSUME m >= 1 PROVE MayCall(calls[t][m], calls[t][m + 1])'
    <2>1. MayCall(calls[t][m], f) /\ m \in 1 .. m /\ m + 1 = n
      BY <1>1, <1>3, <1>6 DEF Fits
    <2> QED BY <1>2, <2>1 DEF MayCall
  <1>7. \A k \in 1 .. n - 1 : MayCall(calls[t][k], calls[t][k + 1])'
    <2>1. \A k \in 1 .. n - 1 : k \in 1 .. m - 1 \/ (k = m /\ m >= 1) BY <1>1
    <2> QED BY <1>4, <1>6, <2>1
  <1>8. MayBegin(t, calls[t][1])' BY <1>1, <1>4, <1>5
  <1>9. Ordered(t)' BY <1>2, <1>7, <1>8 DEF Ordered
  <1> QED BY <1>2, <1>9, OthersOrdered

LEMMA ShapeCalled ==
    ASSUME Stacks, Shape, UsersKeep, NEW t \in Threads,
           depth[t] \in Nat \ {0}, NEW f, NEW callee, Called(t, callee, f),
           Fits(t, f), MayCall(f, callee)
    PROVE  Shape'
  <1>0. \E n, m : n = depth[t] /\ m = depth[t] - 1 OBVIOUS
  <1> PICK n, m : n = depth[t] /\ m = depth[t] - 1 BY <1>0
  <1>1. /\ n \in Nat /\ n >= 1 /\ m \in Nat /\ m = n - 1 /\ n = depth[t]
        /\ m <= depth[t]
    OBVIOUS
  <1>2. /\ depth'[t] = n + 1 /\ calls'[t][n] = f /\ calls'[t][n + 1] = callee
        /\ Others(t)
        /\ \A k \in 1 .. m : calls'[t][k] = calls[t][k]
    BY DEF Called, Below
  <1>3. Fits(t, f) /\ UsersKeep OBVIOUS
  <1>4. /\ m >= 1 => MayBegin(t, calls[t][1])'
        /\ \A k \in 1 .. m - 1 : MayCall(calls[t][k], calls[t][k + 1])'
    BY <1>1, <1>2, RestOrdered
  <1>5. ASSUME m = 0 PROVE MayBegin(t, calls[t][1])'
    <2>1. n = 1 /\ MayBegin(t, f) /\ depth[t] # 0 BY <1>1, <1>3, <1>5 DEF Fits
    <2> QED BY <1>2, <2>1 DEF MayBegin, UsersKeep
  <1>6. ASSUME m >= 1 PROVE MayCall(calls[t][m], calls[t][m + 1])'
    <2>1. MayCall(calls[t][m], f) /\ m \in 1 .. m /\ m + 1 = n
      BY <1>1, <1>3, <1>6 DEF Fits
    <2> QED BY <1>2, <2>1 DEF MayCall
  <1>7. MayCall(calls[t][n], calls[t][n + 1])' BY <1>2 DEF MayCall
  <1>8. \A k \in 1 .. n : MayCall(calls[t][k], calls[t][k + 1])'
    <2>1. \A k \in 1 .. n : k \in 1 .. m - 1 \/ (k = m /\ m >= 1) \/ k = n
      BY <1>1
    <2> QED BY <1>4, <1>6, <1>7, <2>1
  <1>9. MayBegin(t, calls[t][1])' BY <1>1, <1>4, <1>5
  <1>10. Ordered(t)'
    <2>1. (n + 1) - 1 = n BY <1>1
    <2> QED BY <1>2, <1>8, <1>9, <2>1 DEF Ordered
  <1> QED BY <1>2, <1>10, OthersOrdered

LEMMA ShapePopped ==
    ASSUME Stacks, Shape, UsersKeep, NEW t \in Threads,
           depth[t] \in Nat \ {0},
           Ended(t) \/ \E status : Returned(t, status)
    PROVE  Shape'
  <1>1. /\ depth'[t] = depth[t] - 1 /\ Others(t)
        /\ \A k \in 1 .. depth[t] - 1 : calls'[t][k].s = calls[t][k].s
                                        /\ calls'[t][k].at = calls[t][k].at
    BY PoppedIs
  <1>2. depth[t] - 1 \in Nat /\ depth[t] - 1 <= depth[t] OBVIOUS
  <1>3. /\ depth[t] - 1 >= 1 => MayBegin(t, calls[t][1])'
        /\ \A k \in 1 .. (depth[t] - 1) - 1 :
              MayCall(calls[t][k], calls[t][k + 1])'
    BY <1>1, <1>2, RestOrdered
  <1>4. Ordered(t)' BY <1>1, <1>3 DEF Ordered
  <1> QED BY <1>1, <1>4, OthersOrdered

LEMMA ShapeBegan ==
    ASSUME Stacks, Shape, UsersKeep, NEW t \in Threads, NEW f, Began(t, f),
           MayBegin(t, f)'
    PROVE  Shape'
  <1>1. depth'[t] = 1 /\ calls'[t][1] = f /\ Others(t) BY DEF Began
  <1>2. MayBegin(t, calls[t][1])' BY <1>1 DEF MayBegin
  <1>3. Ordered(t)' BY <1>1, <1>2 DEF Ordered
  <1> QED BY <1>1, <1>3, OthersOrdered

LEMMA ShapeStill ==
    ASSUME Stacks, Shape, UsersKeep, UNCHANGED stack
    PROVE  Shape'
  <1> SUFFICES ASSUME NEW u \in Threads PROVE Ordered(u)' BY DEF Shape
  <1>1. depth' = depth /\ calls' = calls /\ depth[u] \in Nat /\ Ordered(u)
    BY SameStacks, DepthOf DEF Shape
  <1>2. ASSUME depth'[u] >= 1 PROVE MayBegin(u, calls[u][1])'
    BY <1>1, <1>2 DEF Ordered, MayBegin, UsersKeep
  <1>3. \A k \in 1 .. depth'[u] - 1 : MayCall(calls[u][k], calls[u][k + 1])'
    BY <1>1 DEF MayCall, Ordered
  <1> QED BY <1>2, <1>3 DEF Ordered

-----------------------------------------------------------------------------
(* What is done by one call only, after each of them.                       *)
LEMMA LastOnce ==
    ASSUME NEW L, Once(L), NEW t \in Threads, depth[t] \in Nat \ {0},
           NEW s, Last(t).at \in L, Last(t).s = s
    PROVE  ~Elsewhere(t, s, L)
  <1>1. depth[t] \in 1 .. depth[t] OBVIOUS
  <1> QED BY <1>1 DEF Once, Last, Elsewhere

(* Only one call is at some labels after each of these operations, if it was so before. *)
LEMMA OnceWentOn ==
    ASSUME Stacks, NEW t \in Threads, depth[t] \in Nat \ {0}, NEW f,
           WentOn(t, f), NEW L, Once(L),
           f.at \in L => (Last(t).at \in L /\ Last(t).s = f.s) \/ ~In(f.s, L)
    PROVE  Once(L)'
  <1>1. \A u \in Threads : depth[u] \in Nat BY DepthOf
  <1>2. f.at \in L => ~Elsewhere(t, f.s, L) BY InNow, LastOnce
  <1>3. /\ depth'[t] = depth[t] /\ calls'[t][depth[t]] = f
        /\ \A u \in Threads : u # t => depth'[u] = depth[u]
                                       /\ calls'[u] = calls[u]
        /\ \A k \in 1 .. depth[t] - 1 : calls'[t][k] = calls[t][k]
    BY DEF WentOn, Below, Others
  <1> SUFFICES ASSUME NEW u \in Threads, NEW v \in Threads,
                      NEW k \in 1 .. depth'[u], NEW j \in 1 .. depth'[v],
                      calls'[u][k].s = calls'[v][j].s,
                      calls'[u][k].at \in L, calls'[v][j].at \in L
               PROVE  u = v /\ k = j
    BY DEF Once
  <1>4. CASE u = t /\ k = depth[t]
    <2>1. ASSUME ~(v = t /\ j = depth[t])
          PROVE  Elsewhere(t, f.s, L)
      <3>1. calls'[v][j] = calls[v][j] /\ j \in 1 .. depth[v]
        BY <1>1, <1>3, <2>1
      <3> QED BY <1>3, <1>4, <2>1, <3>1 DEF Elsewhere
    <2> QED BY <1>2, <1>3, <1>4, <2>1
  <1>5. CASE v = t /\ j = depth[t]
    <2>1. ASSUME ~(u = t /\ k = depth[t])
          PROVE  Elsewhere(t, f.s, L)
      <3>1. calls'[u][k] = calls[u][k] /\ k \in 1 .. depth[u]
        BY <1>1, <1>3, <2>1
      <3> QED BY <1>3, <1>5, <2>1, <3>1 DEF Elsewhere
    <2> QED BY <1>2, <1>3, <1>5, <2>1
  <1>6. CASE ~(u = t /\ k = depth[t]) /\ ~(v = t /\ j = depth[t])
    <2>1. calls'[u][k] = calls[u][k] /\ k \in 1 .. depth[u] BY <1>1, <1>3, <1>6
    <2>2. calls'[v][j] = calls[v][j] /\ j \in 1 .. depth[v] BY <1>1, <1>3, <1>6
    <2> QED BY <2>1, <2>2 DEF Once
  <1> QED BY <1>4, <1>5, <1>6

LEMMA OncePopped ==
    ASSUME Stacks, NEW t \in Threads, depth[t] \in Nat \ {0},
           Ended(t) \/ \E status : Returned(t, status), NEW L, Once(L)
    PROVE  Once(L)'
  <1>1. /\ depth'[t] = depth[t] - 1 /\ Others(t)
        /\ \A k \in 1 .. depth[t] - 1 : calls'[t][k].s = calls[t][k].s
                                        /\ calls'[t][k].at = calls[t][k].at
    BY PoppedIs
  <1>2. \A u \in Threads : depth[u] \in Nat BY DepthOf
  <1>3. \A u \in Threads : \A k \in 1 .. depth'[u] :
           /\ k \in 1 .. depth[u] /\ calls'[u][k].s = calls[u][k].s
           /\ calls'[u][k].at = calls[u][k].at
    BY <1>1, <1>2 DEF Others
  <1> QED BY <1>3 DEF Once

LEMMA OnceCalled ==
    ASSUME Stacks, NEW t \in Threads, depth[t] \in Nat \ {0}, NEW f,
           NEW callee, Called(t, callee, f), NEW L, Once(L),
           f.at \in L => (Last(t).at \in L /\ Last(t).s = f.s) \/ ~In(f.s, L),
           callee.at \in L => ~In(callee.s, L) /\ ~Is(f, callee.s, L)
    PROVE  Once(L)'
  <1>1. \A u \in Threads : depth[u] \in Nat BY DepthOf
  <1>2. /\ f.at \in L => ~Elsewhere(t, f.s, L)
        /\ callee.at \in L => ~Elsewhere(t, callee.s, L)
    BY InNow, LastOnce
  <1>3. /\ depth'[t] = depth[t] + 1 /\ calls'[t][depth[t]] = f
        /\ calls'[t][depth[t] + 1] = callee
        /\ \A u \in Threads : u # t => depth'[u] = depth[u]
                                       /\ calls'[u] = calls[u]
        /\ \A k \in 1 .. depth[t] - 1 : calls'[t][k] = calls[t][k]
    BY DEF Called, Below, Others
  <1> DEFINE Old(u, k) == u = t => k \in 1 .. depth[t] - 1
  <1>4. \A u \in Threads : \A k \in 1 .. depth'[u] :
          /\ Old(u, k) => calls'[u][k] = calls[u][k] /\ k \in 1 .. depth[u]
                          /\ (u = t => k # depth[t])
          /\ ~Old(u, k) => u = t /\ (k = depth[t] \/ k = depth[t] + 1)
    BY <1>1, <1>3
  <1> HIDE DEF Old
  <1>5. \A u \in Threads : \A k \in 1 .. depth'[u] :
           Old(u, k) /\ calls'[u][k].at \in L =>
               Elsewhere(t, calls'[u][k].s, L)
    BY <1>4 DEF Elsewhere
  <1> SUFFICES ASSUME NEW u \in Threads, NEW v \in Threads,
                      NEW k \in 1 .. depth'[u], NEW j \in 1 .. depth'[v],
                      calls'[u][k].s = calls'[v][j].s,
                      calls'[u][k].at \in L, calls'[v][j].at \in L
               PROVE  u = v /\ k = j
    BY DEF Once
  <1>6. CASE Old(u, k) /\ Old(v, j) BY <1>4, <1>6 DEF Once
  <1>7. CASE Old(u, k) /\ ~Old(v, j)
    <2>1. Elsewhere(t, calls'[v][j].s, L) BY <1>5, <1>7
    <2>2. v = t /\ (j = depth[t] \/ j = depth[t] + 1) BY <1>4, <1>7
    <2> QED BY <1>2, <1>3, <2>1, <2>2
  <1>8. CASE ~Old(u, k) /\ Old(v, j)
    <2>1. Elsewhere(t, calls'[u][k].s, L) BY <1>5, <1>8
    <2>2. u = t /\ (k = depth[t] \/ k = depth[t] + 1) BY <1>4, <1>8
    <2> QED BY <1>2, <1>3, <2>1, <2>2
  <1>9. CASE ~Old(u, k) /\ ~Old(v, j)
    <2>1. /\ u = t /\ (k = depth[t] \/ k = depth[t] + 1)
          /\ v = t /\ (j = depth[t] \/ j = depth[t] + 1)
      BY <1>4, <1>9
    <2> QED BY <1>3, <2>1 DEF Is
  <1> QED BY <1>6, <1>7, <1>8, <1>9

LEMMA OnceBegan ==
    ASSUME Stacks, NEW t \in Threads, NEW f, Began(t, f), NEW L, Once(L),
           f.at \in L => ~In(f.s, L)
    PROVE  Once(L)'
  <1>1. /\ depth'[t] = 1 /\ calls'[t][1] = f /\ depth[t] = 0
        /\ \A u \in Threads : u # t => depth'[u] = depth[u]
                                       /\ calls'[u] = calls[u]
    BY DEF Began, Others
  <1>2. \A u \in Threads : \A k \in 1 .. depth'[u] : u = t => k = 1 BY <1>1
  <1> QED BY <1>1, <1>2 DEF Once, In

LEMMA OnceStill ==
    ASSUME UNCHANGED stack, NEW L, Once(L)
    PROVE  Once(L)'
  BY SameStacks DEF Once

(* The same of all the labels that only one call can be at. *)
LEMMA AloneWentOn ==
    ASSUME Stacks, Alone, NEW t \in Threads, depth[t] \in Nat \ {0}, NEW f,
           WentOn(t, f),
           \A L \in Sole : f.at \in L =>
               (Last(t).at \in L /\ Last(t).s = f.s) \/ ~In(f.s, L)
    PROVE  Alone'
  BY OnceWentOn DEF Alone

LEMMA AloneCalled ==
    ASSUME Stacks, Alone, NEW t \in Threads, depth[t] \in Nat \ {0}, NEW f,
           NEW callee, Called(t, callee, f),
           \A L \in Sole : f.at \in L =>
               (Last(t).at \in L /\ Last(t).s = f.s) \/ ~In(f.s, L),
           \A L \in Sole : callee.at \in L =>
               ~In(callee.s, L) /\ ~Is(f, callee.s, L)
    PROVE  Alone'
  BY OnceCalled DEF Alone

LEMMA AlonePopped ==
    ASSUME Stacks, Alone, NEW t \in Threads, depth[t] \in Nat \ {0},
           Ended(t) \/ \E status : Returned(t, status)
    PROVE  Alone'
  BY OncePopped DEF Alone

LEMMA AloneBegan ==
    ASSUME Stacks, Alone, NEW t \in Threads, NEW f, Began(t, f),
           \A L \in Sole : f.at \in L => ~In(f.s, L)
    PROVE  Alone'
  BY OnceBegan DEF Alone

LEMMA AloneStill ==
    ASSUME Alone, UNCHANGED stack
    PROVE  Alone'
  BY OnceStill DEF Alone

-----------------------------------------------------------------------------
(* Where some functions are on the stack.                                   *)
LEMMA CallerOf ==
    ASSUME Stacks, Shape, NEW t \in Threads, NEW k \in 2 .. depth[t]
    PROVE  MayCall(calls[t][k - 1], calls[t][k])
  <1>1. depth[t] \in Nat BY DepthOf
  <1>2. k - 1 \in 1 .. depth[t] - 1 /\ (k - 1) + 1 = k BY <1>1
  <1> QED BY <1>2 DEF Shape, Ordered

(* A public function is called by nobody, and the closing loop by a public one. *)
LEMMA PublicIsFirst ==
    ASSUME Stacks, Shape, NEW t \in Threads, NEW k \in 1 .. depth[t],
           calls[t][k].at \in Public
    PROVE  k = 1
  <1>1. depth[t] \in Nat BY DepthOf
  <1>2. CASE k \in 2 .. depth[t] BY <1>2, CallerOf DEF MayCall
  <1> QED BY <1>1, <1>2

LEMMA RefersIsFirst ==
    ASSUME Stacks, Shape, NEW t \in Threads, NEW k \in 1 .. depth[t],
           calls[t][k].at \in Refers
    PROVE  k = 1 /\ CallRef(t) = calls[t][k].s
  <1>1. k = 1 BY PublicIsFirst DEF Refers, Public
  <1>2. depth[t] \in Nat /\ depth[t] >= 1 BY DepthOf
  <1> QED BY <1>1, <1>2 DEF CallRef

LEMMA DropRefIsSecond ==
    ASSUME Stacks, Shape, NEW t \in Threads, NEW k \in 1 .. depth[t],
           calls[t][k].at = "dropRef"
    PROVE  k = 2 /\ calls[t][1].at = "connClosed" /\ CallRef(t) = calls[t][k].s
  <1>1. depth[t] \in Nat BY DepthOf
  <1>2. k # 1 BY DEF Shape, Ordered, MayBegin, ConnClosing
  <1>3. k \in 2 .. depth[t] /\ k - 1 \in 1 .. depth[t] BY <1>1, <1>2
  <1>4. calls[t][k - 1].at = "connClosed" BY <1>3, CallerOf DEF MayCall
  <1>5. k - 1 = 1 BY <1>3, <1>4, PublicIsFirst DEF Public
  <1>6. k = 2 /\ depth[t] >= 2 BY <1>1, <1>3, <1>5
  <1> QED BY <1>4, <1>6 DEF CallRef, Refers, New

RefLabels == Refers \cup {"dropRef"}

(* The reference that a call has is that of one of its functions. *)
LEMMA CallRefIs ==
    ASSUME Stacks, Shape, NEW t \in Threads, NEW s, CallRef(t) = s, s # NULL
    PROVE  \E k \in 1 .. depth[t] : Is(calls[t][k], s, RefLabels)
  <1>1. depth[t] \in Nat BY DepthOf
  <1>2. CASE depth[t] >= 1 /\ calls[t][1].at \in Refers
    BY <1>1, <1>2 DEF CallRef, Is, RefLabels
  <1>3. CASE ~(depth[t] >= 1 /\ calls[t][1].at \in Refers)
    <2>1. depth[t] >= 2 /\ calls[t][2].at = "dropRef" /\ calls[t][2].s = s
      BY <1>3 DEF CallRef
    <2>2. 2 \in 1 .. depth[t] BY <1>1, <2>1
    <2> QED BY <2>1, <2>2 DEF Is, RefLabels
  <1> QED BY <1>2, <1>3

-----------------------------------------------------------------------------
(* The reference that a call has of its own, after each of the operations.  *)
LEMMA CallRefOthers ==
    ASSUME NEW t \in Threads, Others(t), NEW u \in Threads, u # t
    PROVE  /\ CallRef(u)' = CallRef(u)
           /\ UnrefsConn(u)' <=> UnrefsConn(u)
  BY DEF Others, CallRef, UnrefsConn

(* What becomes of the reference of a call in each of these operations. *)
LEMMA CallRefWentOn ==
    ASSUME Stacks, Shape, NEW t \in Threads, depth[t] \in Nat \ {0}, NEW f,
           WentOn(t, f)
    PROVE  /\ Last(t).at \notin RefLabels /\ f.at \notin RefLabels =>
                  CallRef(t)' = CallRef(t)
           /\ Last(t).at \in RefLabels /\ f.at \notin RefLabels =>
                  CallRef(t)' = NULL
           /\ Last(t).at \in New /\ f.at \in New /\ f.s = Last(t).s =>
                  CallRef(t)' = CallRef(t)
  <1>1. /\ depth'[t] = depth[t] /\ calls'[t][depth[t]] = f
        /\ \A k \in 1 .. depth[t] - 1 : calls'[t][k] = calls[t][k]
        /\ Last(t) = calls[t][depth[t]] /\ depth[t] \in 1 .. depth[t]
    BY DEF WentOn, Below, Last
  <1>2. CASE depth[t] = 1
    BY <1>1, <1>2, DropRefIsSecond DEF CallRef, RefLabels, Refers, New
  <1>3. CASE depth[t] = 2
    <2>1. calls'[t][1] = calls[t][1] /\ calls'[t][2] = f /\ Last(t) = calls[t][2]
      BY <1>1, <1>3
    <2>2. Last(t).at \notin Refers BY <1>1, <1>3, RefersIsFirst
    <2>3. Last(t).at = "dropRef" => calls[t][1].at = "connClosed"
      BY <1>1, <1>3, DropRefIsSecond
    <2>4. "connClosed" \notin Refers BY DEF Refers, New
    <2> QED BY <1>1, <1>3, <2>1, <2>2, <2>3, <2>4 DEF CallRef, RefLabels,
        Refers
  <1>4. CASE depth[t] > 2
    <2>1. calls'[t][1] = calls[t][1] /\ calls'[t][2] = calls[t][2]
      BY <1>1, <1>4
    <2>2. Last(t).at \notin RefLabels
      BY <1>1, <1>4, RefersIsFirst, DropRefIsSecond DEF RefLabels
    <2> QED BY <1>1, <1>4, <2>1, <2>2 DEF CallRef, RefLabels, Refers
  <1> QED BY <1>2, <1>3, <1>4

LEMMA CallRefCalled ==
    ASSUME Stacks, Shape, NEW t \in Threads, depth[t] \in Nat \ {0}, NEW f,
           NEW callee, Called(t, callee, f), callee.at \notin RefLabels
    PROVE  /\ Last(t).at \notin RefLabels /\ f.at \notin RefLabels =>
                  CallRef(t)' = CallRef(t)
           /\ Last(t).at \in RefLabels /\ f.at \notin RefLabels =>
                  CallRef(t)' = NULL
           /\ /\ depth[t] = 2 /\ calls[t][1].at = "connClosed"
              /\ Last(t).at = "takeRef" /\ f.at = "dropRef"
              => CallRef(t) = NULL /\ CallRef(t)' = f.s
  <1>1. /\ depth'[t] = depth[t] + 1 /\ calls'[t][depth[t]] = f
        /\ calls'[t][depth[t] + 1] = callee
        /\ \A k \in 1 .. depth[t] - 1 : calls'[t][k] = calls[t][k]
        /\ Last(t) = calls[t][depth[t]] /\ depth[t] \in 1 .. depth[t]
    BY DEF Called, Below, Last
  <1>2. CASE depth[t] = 1
    <2>1. calls'[t][1] = f /\ calls'[t][2] = callee /\ Last(t) = calls[t][1]
      BY <1>1, <1>2
    <2> QED BY <1>1, <1>2, <2>1 DEF CallRef, RefLabels, Refers, New
  <1>3. CASE depth[t] = 2
    <2>1. calls'[t][1] = calls[t][1] /\ calls'[t][2] = f /\ Last(t) = calls[t][2]
      BY <1>1, <1>3
    <2>2. Last(t).at \notin Refers BY <1>1, <1>3, RefersIsFirst
    <2>3. Last(t).at = "dropRef" => calls[t][1].at = "connClosed"
      BY <1>1, <1>3, DropRefIsSecond
    <2>4. "connClosed" \notin Refers BY DEF Refers, New
    <2> QED BY <1>1, <1>3, <2>1, <2>2, <2>3, <2>4 DEF CallRef, RefLabels,
        Refers
  <1>4. CASE depth[t] > 2
    <2>1. calls'[t][1] = calls[t][1] /\ calls'[t][2] = calls[t][2]
      BY <1>1, <1>4
    <2>2. Last(t).at \notin RefLabels
      BY <1>1, <1>4, RefersIsFirst, DropRefIsSecond DEF RefLabels
    <2> QED BY <1>1, <1>4, <2>1, <2>2 DEF CallRef, RefLabels, Refers
  <1> QED BY <1>2, <1>3, <1>4

LEMMA CallRefPopped ==
    ASSUME Stacks, Shape, NEW t \in Threads, depth[t] \in Nat \ {0},
           Ended(t) \/ \E status : Returned(t, status)
    PROVE  /\ Last(t).at \notin RefLabels => CallRef(t)' = CallRef(t)
           /\ Last(t).at \in Refers => CallRef(t)' = NULL /\ depth[t] = 1
  <1>1. /\ depth'[t] = depth[t] - 1
        /\ \A k \in 1 .. depth[t] - 1 : calls'[t][k].s = calls[t][k].s
                                        /\ calls'[t][k].at = calls[t][k].at
        /\ Last(t) = calls[t][depth[t]] /\ depth[t] \in 1 .. depth[t]
    BY PoppedIs DEF Last
  <1>2. CASE depth[t] = 1 BY <1>1, <1>2 DEF CallRef, RefLabels
  <1>3. CASE depth[t] = 2
    <2>1. calls'[t][1].s = calls[t][1].s /\ calls'[t][1].at = calls[t][1].at
      BY <1>1, <1>3
    <2>2. Last(t).at \notin Refers /\ Last(t) = calls[t][2]
      BY <1>1, <1>3, RefersIsFirst
    <2> QED BY <1>1, <1>3, <2>1, <2>2 DEF CallRef, RefLabels
  <1>4. CASE depth[t] > 2
    <2>1. /\ calls'[t][1].s = calls[t][1].s /\ calls'[t][1].at = calls[t][1].at
          /\ calls'[t][2].s = calls[t][2].s /\ calls'[t][2].at = calls[t][2].at
      BY <1>1, <1>4
    <2>2. Last(t).at \notin Refers BY <1>1, <1>4, RefersIsFirst
    <2> QED BY <1>1, <1>4, <2>1, <2>2 DEF CallRef
  <1> QED BY <1>2, <1>3, <1>4

LEMMA CallRefBegan ==
    ASSUME Stacks, NEW t \in Threads, NEW f, Began(t, f)
    PROVE  /\ CallRef(t) = NULL
           /\ f.at \in Refers => CallRef(t)' = f.s
           /\ f.at \notin Refers => CallRef(t)' = NULL
           /\ ~UnrefsConn(t) /\ (UnrefsConn(t)' <=> f.at = "unrefConn")
  BY DEF Began, CallRef, UnrefsConn

(* Whether a thread gives back its reference to the connection, after each. *)
LEMMA UnrefsWentOn ==
    ASSUME Stacks, Shape, NEW t \in Threads, depth[t] \in Nat \ {0}, NEW f,
           WentOn(t, f)
    PROVE  /\ Last(t).at # "unrefConn" /\ f.at # "unrefConn" =>
                  (UnrefsConn(t)' <=> UnrefsConn(t))
           /\ Last(t).at = "unrefConn" /\ f.at # "unrefConn" =>
                  UnrefsConn(t) /\ ~UnrefsConn(t)'
  <1>1. /\ depth'[t] = depth[t] /\ calls'[t][depth[t]] = f
        /\ \A k \in 1 .. depth[t] - 1 : calls'[t][k] = calls[t][k]
        /\ Last(t) = calls[t][depth[t]] /\ depth[t] \in 1 .. depth[t]
    BY DEF WentOn, Below, Last
  <1>2. Last(t).at = "unrefConn" => depth[t] = 1
    BY <1>1, PublicIsFirst DEF Public
  <1>3. CASE depth[t] = 1 BY <1>1, <1>3 DEF UnrefsConn
  <1>4. CASE depth[t] > 1
    <2>1. calls'[t][1] = calls[t][1] BY <1>1, <1>4
    <2> QED BY <1>1, <1>2, <1>4, <2>1 DEF UnrefsConn
  <1> QED BY <1>3, <1>4

LEMMA UnrefsCalled ==
    ASSUME Stacks, Shape, NEW t \in Threads, depth[t] \in Nat \ {0}, NEW f,
           NEW callee, Called(t, callee, f)
    PROVE  /\ Last(t).at # "unrefConn" /\ f.at # "unrefConn" =>
                  (UnrefsConn(t)' <=> UnrefsConn(t))
           /\ Last(t).at = "unrefConn" /\ f.at # "unrefConn" =>
                  UnrefsConn(t) /\ ~UnrefsConn(t)'
  <1>1. /\ depth'[t] = depth[t] + 1 /\ calls'[t][depth[t]] = f
        /\ \A k \in 1 .. depth[t] - 1 : calls'[t][k] = calls[t][k]
        /\ Last(t) = calls[t][depth[t]] /\ depth[t] \in 1 .. depth[t]
    BY DEF Called, Below, Last
  <1>2. Last(t).at = "unrefConn" => depth[t] = 1
    BY <1>1, PublicIsFirst DEF Public
  <1>3. CASE depth[t] = 1 BY <1>1, <1>3 DEF UnrefsConn
  <1>4. CASE depth[t] > 1
    <2>1. calls'[t][1] = calls[t][1] BY <1>1, <1>4
    <2> QED BY <1>1, <1>2, <1>4, <2>1 DEF UnrefsConn
  <1> QED BY <1>3, <1>4

LEMMA UnrefsPopped ==
    ASSUME Stacks, NEW t \in Threads, depth[t] \in Nat \ {0},
           Ended(t) \/ \E status : Returned(t, status),
           Last(t).at # "unrefConn"
    PROVE  UnrefsConn(t)' <=> UnrefsConn(t)
  <1>1. /\ depth'[t] = depth[t] - 1
        /\ \A k \in 1 .. depth[t] - 1 : calls'[t][k].s = calls[t][k].s
                                        /\ calls'[t][k].at = calls[t][k].at
        /\ Last(t) = calls[t][depth[t]]
    BY PoppedIs DEF Last
  <1>2. CASE depth[t] = 1 BY <1>1, <1>2 DEF UnrefsConn
  <1>3. CASE depth[t] > 1 BY <1>1, <1>3 DEF UnrefsConn
  <1> QED BY <1>2, <1>3

-----------------------------------------------------------------------------
(* The references to a statement.                                           *)
Tokens == (Threads \cup Stmts) \X {"user", "call", "result"}

(* There are finitely many references. *)
LEMMA TokensFinite == IsFiniteSet(Tokens)
  <1>1. IsFiniteSet({"user", "call", "result"})
    <2>1. /\ IsFiniteSet({"user"}) /\ IsFiniteSet({"call"})
          /\ IsFiniteSet({"result"})
      BY FS_Singleton
    <2>2. IsFiniteSet({"user"} \cup {"call"}) BY <2>1, FS_Union
    <2>3. IsFiniteSet(({"user"} \cup {"call"}) \cup {"result"})
      BY <2>1, <2>2, FS_Union
    <2>4. ({"user"} \cup {"call"}) \cup {"result"} = {"user", "call", "result"}
      OBVIOUS
    <2> QED BY <2>3, <2>4
  <1>2. IsFiniteSet(Threads \cup Stmts) BY StmtLifetimeAssumption, FS_Union
  <1> QED BY <1>1, <1>2, FS_Product DEF Tokens

LEMMA RefsFinite ==
    ASSUME NEW s
    PROVE  IsFiniteSet(Refs(s))
  <1>1. Refs(s) \subseteq Tokens BY DEF Refs, Tokens
  <1> QED BY <1>1, TokensFinite, FS_Subset

LEMMA RefsFiniteNext ==
    ASSUME NEW s
    PROVE  IsFiniteSet(Refs(s)')
  <1>1. Refs(s)' \subseteq Tokens BY DEF Refs, Tokens
  <1> QED BY <1>1, TokensFinite, FS_Subset

(* What is a reference to a statement. *)
LEMMA RefsOf ==
    ASSUME NEW s
    PROVE  /\ \A t \in Threads : s \in userStmts[t] => <<t, "user">> \in Refs(s)
           /\ \A t \in Threads : CallRef(t) = s => <<t, "call">> \in Refs(s)
           /\ \A c \in Stmts : parent[c] = s /\ ~In(c, Unparenting) =>
                  <<c, "result">> \in Refs(s)
  BY DEF Refs

(* A step that touches none of them keeps the references. *)
LEMMA RefsSame ==
    ASSUME NEW s, UNCHANGED <<userStmts, parent>>,
           \A u \in Threads : CallRef(u)' = CallRef(u), Same(Unparenting)
    PROVE  Refs(s)' = Refs(s)
  BY DEF Refs, Same

(* Some reference or none. *)
LEMMA Referenced ==
    ASSUME Counted, NEW s \in Stmts, NEW x \in Refs(s)
    PROVE  /\ mem[s] = "live" /\ ~In(s, Freeing)
           /\ refCount[s] = Cardinality(Refs(s))
           /\ refCount[s] \in Nat \ {0}
  <1>1. /\ mem[s] = "live" /\ ~In(s, Freeing)
        /\ refCount[s] = Cardinality(Refs(s))
    BY DEF Counted, CountedAt
  <1>2. Cardinality(Refs(s)) \in Nat /\ Cardinality(Refs(s)) # 0
    BY RefsFinite, FS_CardinalityType, FS_EmptySet
  <1> QED BY <1>1, <1>2

(* Counting stays right when a reference is given back, and when one is taken. *)
LEMMA RefGiven ==
    ASSUME Counted, NEW s \in Stmts, NEW x \in Refs(s),
           Refs(s)' = Refs(s) \ {x}, refCount'[s] = refCount[s] - 1,
           mem'[s] = mem[s], In(s, Freeing)' <=> refCount[s] = 1
    PROVE  CountedAt(s)' /\ (refCount[s] = 1 => Refs(s)' = {})
  <1>1. /\ mem[s] = "live" /\ refCount[s] = Cardinality(Refs(s))
        /\ refCount[s] \in Nat \ {0}
    BY Referenced
  <1>2. Cardinality(Refs(s)') = refCount[s] - 1 /\ IsFiniteSet(Refs(s)')
    BY <1>1, RefsFinite, RefsFiniteNext, FS_RemoveElement
  <1>3. refCount[s] = 1 => Refs(s)' = {} BY <1>2, FS_EmptySet
  <1> QED BY <1>1, <1>2, <1>3 DEF CountedAt

LEMMA RefTaken ==
    ASSUME NEW s, CountedAt(s), NEW x, x \notin Refs(s),
           mem[s] = "live", ~In(s, Freeing), mem'[s] = "live",
           ~In(s, Freeing)', Refs(s)' = Refs(s) \cup {x},
           refCount'[s] = refCount[s] + 1
    PROVE  CountedAt(s)'
  <1>1. Cardinality(Refs(s)') = Cardinality(Refs(s)) + 1
    BY RefsFinite, FS_AddElement
  <1> QED BY <1>1 DEF CountedAt

(* One reference for another. *)
LEMMA RefPassed ==
    ASSUME NEW s, CountedAt(s), NEW x \in Refs(s), NEW y, y \notin Refs(s),
           Refs(s)' = (Refs(s) \ {x}) \cup {y},
           mem'[s] = mem[s], refCount'[s] = refCount[s],
           In(s, Freeing)' <=> In(s, Freeing)
    PROVE  CountedAt(s)'
  <1>1. /\ mem[s] = "live" /\ ~In(s, Freeing)
        /\ refCount[s] = Cardinality(Refs(s))
    BY DEF CountedAt
  <1>2. IsFiniteSet(Refs(s) \ {x}) /\ Cardinality(Refs(s)) \in Nat
        /\ Cardinality(Refs(s) \ {x}) = Cardinality(Refs(s)) - 1
    BY RefsFinite, FS_RemoveElement, FS_CardinalityType
  <1>3. y \notin Refs(s) \ {x} OBVIOUS
  <1>4. Cardinality(Refs(s)') = Cardinality(Refs(s) \ {x}) + 1
    BY <1>2, <1>3, FS_AddElement
  <1> QED BY <1>1, <1>2, <1>4 DEF CountedAt

-----------------------------------------------------------------------------
(* The parts of the invariant that a step leaves as they were.              *)
LEMMA CountedKept ==
    ASSUME NEW s, CountedAt(s), Refs(s)' = Refs(s), mem'[s] = mem[s],
           refCount'[s] = refCount[s], In(s, Freeing)' <=> In(s, Freeing)
    PROVE  CountedAt(s)'
  BY DEF CountedAt

(* Steps that do not touch what a part of the invariant reads keep it. *)
LEMMA AllCountedKept ==
    ASSUME Counted, UNCHANGED <<mem, refCount, userStmts, parent>>,
           \A u \in Threads : CallRef(u)' = CallRef(u), Same(Unparenting),
           Same(Freeing)
    PROVE  Counted'
  <1> SUFFICES ASSUME NEW s \in Stmts PROVE CountedAt(s)' BY DEF Counted
  <1>1. Refs(s)' = Refs(s) BY RefsSame
  <1> QED BY <1>1, CountedKept DEF Counted, Same

LEMMA NewKept ==
    ASSUME NewIsAlone, UNCHANGED <<userStmts, parent>>,
           Same(New), Same(Unrefing)
    PROVE  NewIsAlone'
  BY DEF NewIsAlone, Same

LEMMA FoundKept ==
    ASSUME FoundIsKnown, UNCHANGED <<mem, refCount, numSlots, openStmts>>,
           Same(Sought), Same(Unlisted), Same(Freeing)
    PROVE  FoundIsKnown'
  BY DEF FoundIsKnown, Found, Same

CloseSame ==
    Same(InClose) /\ Same(Unheld) /\ Same(Let) /\ Same(Closed) /\ Same(Preparing)
LEMMA CloseKept ==
    ASSUME CloseState, UNCHANGED <<closing, handle, parent, oci, mem>>, CloseSame
    PROVE  CloseState'
  BY DEF CloseState, CloseStateAt, CloseSame, Same

LEMMA KeepersSame ==
    ASSUME UNCHANGED <<userConn, mem>>, Same(Letting),
           \A u \in Threads : UnrefsConn(u)' <=> UnrefsConn(u)
    PROVE  Keepers' = Keepers
  BY DEF Keepers, Same

LEMMA ConnCountedKept ==
    ASSUME ConnCounted, UNCHANGED <<connLive, connRefs>>, Keepers' = Keepers,
           Same(ConnFreeing)
    PROVE  ConnCounted'
  BY DEF ConnCounted, Same

LEMMA ConnStateKept ==
    ASSUME ConnState, UNCHANGED <<connClosing, connHandle>>, Keepers' = Keepers,
           Same({"connClosed"}), Any(ConnClosing)' => Any(ConnClosing)
    PROVE  ConnState'
  BY DEF ConnState, Same

-----------------------------------------------------------------------------
(* The frame that a thread goes on with.                                    *)
LEMMA LastOthers ==
    ASSUME NEW t \in Threads, Others(t), NEW u \in Threads, u # t
    PROVE  depth'[u] = depth[u] /\ Last(u)' = Last(u)
  BY DEF Others, Last

(* After a return the caller is the last call. *)
LEMMA LastPopped ==
    ASSUME Stacks, Shape, NEW t \in Threads, depth[t] \in Nat \ {0},
           Ended(t) \/ \E status : Returned(t, status), depth'[t] >= 1
    PROVE  /\ depth[t] - 1 \in 1 .. depth[t] /\ depth[t] >= 2
           /\ Last(t)'.at = calls[t][depth[t] - 1].at
           /\ Last(t)'.s = calls[t][depth[t] - 1].s
           /\ MayCall(calls[t][depth[t] - 1], Last(t))
  <1>1. /\ depth'[t] = depth[t] - 1
        /\ \A k \in 1 .. depth[t] - 1 : calls'[t][k].s = calls[t][k].s
                                        /\ calls'[t][k].at = calls[t][k].at
    BY PoppedIs
  <1>2. depth[t] - 1 \in 1 .. depth[t] - 1 /\ depth[t] >= 2 BY <1>1
  <1>3. Fits(t, Last(t)) BY LastFits
  <1> QED BY <1>1, <1>2, <1>3 DEF Last, Fits

(* A statement whose parent is being freed stays closed. *)
LEMMA FreedKept ==
    ASSUME FreedIsClosed, NEW t \in Threads, Others(t),
           \A s \in Stmts : handle'[s] => handle[s],
           depth'[t] >= 1 => Last(t)'.at # "freeParent"
    PROVE  FreedIsClosed'
  <1> SUFFICES ASSUME NEW u \in Threads, NEW s \in Stmts, depth'[u] >= 1,
                      Is(Last(u)', s, {"freeParent"})
               PROVE  ~handle'[s]
    BY DEF FreedIsClosed, Is
  <1>1. u # t BY DEF Is
  <1>2. depth'[u] = depth[u] /\ Last(u)' = Last(u) BY <1>1, LastOthers
  <1> QED BY <1>2 DEF FreedIsClosed

(* A close of the connection that has failed leaves its handle. *)
LEMMA FailedWentOn ==
    ASSUME Stacks, FailedIsOpen, connHandle' = connHandle, NEW t \in Threads,
           depth[t] \in Nat \ {0}, NEW f, WentOn(t, f), f.at # "connClosed"
    PROVE  FailedIsOpen'
  <1>1. \A u \in Threads : depth[u] \in Nat BY DepthOf
  <1> QED BY <1>1 DEF FailedIsOpen, WentOn, Below, Others

LEMMA FailedCalled ==
    ASSUME Stacks, FailedIsOpen, connHandle' = connHandle, NEW t \in Threads,
           depth[t] \in Nat \ {0}, NEW f, NEW callee, Called(t, callee, f),
           f.at = "connClosed" => f.ok, callee.at # "connClosed"
    PROVE  FailedIsOpen'
  <1>1. \A u \in Threads : depth[u] \in Nat BY DepthOf
  <1>2. \A k : k \in 1 .. depth[t] + 1 <=>
                  k \in 1 .. depth[t] - 1 \/ k = depth[t] \/ k = depth[t] + 1
    OBVIOUS
  <1> QED BY <1>1, <1>2 DEF FailedIsOpen, Called, Below, Others

LEMMA FailedEnded ==
    ASSUME Stacks, FailedIsOpen, connHandle => connHandle', NEW t \in Threads,
           depth[t] \in Nat \ {0}, Ended(t)
    PROVE  FailedIsOpen'
  <1>1. \A u \in Threads : depth[u] \in Nat BY DepthOf
  <1> QED BY <1>1 DEF FailedIsOpen, Ended, Below, Others

LEMMA FailedReturned ==
    ASSUME Stacks, FailedIsOpen, connHandle' = connHandle, NEW t \in Threads,
           depth[t] \in Nat \ {0}, NEW status \in BOOLEAN, Returned(t, status),
           status \/ connHandle
           \/ (depth[t] >= 2 => calls[t][depth[t] - 1].at # "connClosed")
    PROVE  FailedIsOpen'
  <1>1. \A u \in Threads : depth[u] \in Nat BY DepthOf
  <1> SUFFICES ASSUME NEW u \in Threads, NEW k \in 1 .. depth'[u],
                      calls'[u][k].at = "connClosed", ~calls'[u][k].ok
               PROVE  connHandle
    BY DEF FailedIsOpen
  <1>2. depth'[t] = depth[t] - 1 /\ Others(t) BY DEF Returned
  <1>3. CASE u # t BY <1>2, <1>3 DEF FailedIsOpen, Others
  <1>4. CASE u = t /\ k \in 1 .. depth[t] - 2
    <2>1. calls'[t][k] = calls[t][k] /\ k \in 1 .. depth[t]
      BY <1>1, <1>4 DEF Returned, Below
    <2> QED BY <1>4, <2>1 DEF FailedIsOpen
  <1>5. CASE u = t /\ k = depth[t] - 1 /\ depth[t] >= 2
    <2>1. /\ calls'[t][k] = [calls[t][k] EXCEPT !.ok = status]
          /\ k \in 1 .. depth[t]
      BY <1>1, <1>5 DEF Returned
    <2>2. calls[t][k] \in FrameType BY <2>1, DepthOf
    <2>3. calls'[t][k].at = calls[t][k].at /\ calls'[t][k].ok = status
      BY <2>1, <2>2 DEF FrameType
    <2> QED BY <1>5, <2>3
  <1>6. u = t => k \in 1 .. depth[t] - 2 \/ (k = depth[t] - 1 /\ depth[t] >= 2)
    BY <1>1, <1>2
  <1> QED BY <1>3, <1>4, <1>5, <1>6

LEMMA FailedBegan ==
    ASSUME Stacks, FailedIsOpen, connHandle' = connHandle, NEW t \in Threads,
           NEW f, Began(t, f), f.at # "connClosed"
    PROVE  FailedIsOpen'
  <1>1. \A k \in 1 .. 1 : k = 1 OBVIOUS
  <1> QED BY <1>1 DEF FailedIsOpen, Began, Others

LEMMA FailedStill ==
    ASSUME FailedIsOpen, connHandle' = connHandle, UNCHANGED stack
    PROVE  FailedIsOpen'
  BY SameStacks DEF FailedIsOpen

(* Whether a function is at one of the labels, with whatever statement.     *)
LEMMA LastAny ==
    ASSUME Stacks, NEW t \in Threads, depth[t] \in Nat \ {0}, NEW L,
           Last(t).at \in L
    PROVE  Any(L)
  <1>1. depth[t] \in 1 .. depth[t] OBVIOUS
  <1>2. Last(t).s \in Stmts \cup {NULL} BY <1>1, DepthOf DEF Last, FrameType
  <1>3. In(Last(t).s, L) BY <1>1 DEF In, Last
  <1> QED BY <1>2, <1>3 DEF Any

(* No call comes to be at some labels unless a step leads there. *)
LEMMA AnyWentOn ==
    ASSUME Stacks, NEW t \in Threads, depth[t] \in Nat \ {0}, NEW f,
           WentOn(t, f), NEW L, f.at \in L => Last(t).at \in L
    PROVE  Any(L)' => Any(L)
  <1> SUFFICES ASSUME NEW s \in Stmts \cup {NULL}, In(s, L)' PROVE Any(L)
    BY DEF Any
  <1>1. Is(f, s, L) \/ Elsewhere(t, s, L) BY InWentOn
  <1>2. ASSUME Elsewhere(t, s, L) PROVE Any(L) BY <1>2, InNow DEF Any
  <1> QED BY <1>1, <1>2, LastAny DEF Is

LEMMA AnyCalled ==
    ASSUME Stacks, NEW t \in Threads, depth[t] \in Nat \ {0}, NEW f,
           NEW callee, Called(t, callee, f), NEW L,
           f.at \in L => Last(t).at \in L, callee.at \notin L
    PROVE  Any(L)' => Any(L)
  <1> SUFFICES ASSUME NEW s \in Stmts \cup {NULL}, In(s, L)' PROVE Any(L)
    BY DEF Any
  <1>1. Is(f, s, L) \/ Elsewhere(t, s, L) BY InCalled DEF Is
  <1>2. ASSUME Elsewhere(t, s, L) PROVE Any(L) BY <1>2, InNow DEF Any
  <1> QED BY <1>1, <1>2, LastAny DEF Is

LEMMA AnyPopped ==
    ASSUME Stacks, NEW t \in Threads, depth[t] \in Nat \ {0},
           Ended(t) \/ \E status : Returned(t, status), NEW L
    PROVE  Any(L)' => Any(L)
  <1> SUFFICES ASSUME NEW s \in Stmts \cup {NULL}, In(s, L)' PROVE Any(L)
    BY DEF Any
  <1>1. Elsewhere(t, s, L) BY InEnded, InReturned
  <1> QED BY <1>1, InNow DEF Any

LEMMA AnyBegan ==
    ASSUME Stacks, NEW t \in Threads, NEW f, Began(t, f), NEW L, f.at \notin L
    PROVE  Any(L)' => Any(L)
  BY InBegan DEF Any, Is

LEMMA AnyStill ==
    ASSUME UNCHANGED stack, NEW L
    PROVE  Any(L)' => Any(L)
  BY SameStacks DEF Any, In

-----------------------------------------------------------------------------
(* Steps that neither take nor give a reference.                            *)
Quiet == {New, Freeing, {"connClosed"}, ConnFreeing, Unrefing, Unparenting,
          Letting}
(* A function that goes on from f at g stays at, or out of, the labels.     *)
Stays(f, g, L) ==
    f.at \in L \/ g.at \in L => f.at \in L /\ g.at \in L /\ f.s = g.s
SameCounts ==
    UNCHANGED <<mem, refCount, parent, connLive, connRefs, connClosing,
                connHandle, userStmts, userConn>>

(* Steps that neither take nor give a reference keep the invariant. *)
LEMMA QuietWentOn ==
    ASSUME LifeInv, NEW t \in Threads, depth[t] \in Nat \ {0}, NEW f,
           WentOn(t, f), Fits(t, f), SameCounts,
           \A L \in Quiet : Stays(Last(t), f, L),
           f.at \in InClose => \/ Last(t).at \in InClose /\ Last(t).s = f.s
                              \/ ~In(f.s, InClose),
           \/ Last(t).at \notin RefLabels /\ f.at \notin RefLabels
           \/ Last(t).at \in New /\ f.at \in New /\ f.s = Last(t).s,
           Last(t).at # "unrefConn", f.at # "unrefConn",
           f.at \in ConnClosing => Last(t).at \in ConnClosing,
           f.at # "connClosed",
           TypeOK', FoundIsKnown', CloseState', FreedIsClosed'
    PROVE  LifeInv'
  <1>1. /\ Stacks /\ Shape /\ Alone /\ Counted /\ NewIsAlone /\ ConnCounted
        /\ ConnState /\ FailedIsOpen
    BY DEF LifeInv, TypeOK
  <1>2. UsersKeep BY DEF UsersKeep, SameCounts
  <1>3. Shape' BY <1>1, <1>2, ShapeWentOn
  <1>4. \A L \in Quiet : Same(L) BY <1>1, SameWentOn DEF Stays
  <1>5. Alone'
    <2>1. \A L \in Quiet : f.at \in L => Last(t).at \in L /\ Last(t).s = f.s
      BY DEF Stays
    <2>2. Sole \subseteq Quiet \cup {InClose} BY DEF Sole, Quiet
    <2> QED BY <1>1, <2>1, <2>2, AloneWentOn
  <1>6. Others(t) BY DEF WentOn
  <1>7. \A u \in Threads : CallRef(u)' = CallRef(u)
    <2>1. CallRef(t)' = CallRef(t) BY <1>1, CallRefWentOn
    <2> QED BY <1>6, <2>1, CallRefOthers
  <1>8. \A u \in Threads : UnrefsConn(u)' <=> UnrefsConn(u)
    <2>1. UnrefsConn(t)' <=> UnrefsConn(t) BY <1>1, UnrefsWentOn
    <2> QED BY <1>6, <2>1, CallRefOthers
  <1>9. /\ Same(New) /\ Same(Freeing) /\ Same({"connClosed"})
        /\ Same(ConnFreeing) /\ Same(Unrefing) /\ Same(Unparenting)
        /\ Same(Letting)
    BY <1>4 DEF Quiet
  <1>10. Counted' BY <1>1, <1>7, <1>9, AllCountedKept DEF SameCounts
  <1>11. NewIsAlone' BY <1>1, <1>9, NewKept DEF SameCounts
  <1>12. Keepers' = Keepers BY <1>8, <1>9, KeepersSame DEF SameCounts
  <1>13. ConnCounted' BY <1>1, <1>9, <1>12, ConnCountedKept DEF SameCounts
  <1>14. Any(ConnClosing)' => Any(ConnClosing) BY <1>1, AnyWentOn
  <1>15. ConnState' BY <1>1, <1>9, <1>12, <1>14, ConnStateKept DEF SameCounts
  <1>16. FailedIsOpen' BY <1>1, FailedWentOn DEF SameCounts
  <1> QED BY <1>3, <1>5, <1>10, <1>11, <1>13, <1>15, <1>16 DEF LifeInv

LEMMA QuietCalled ==
    ASSUME LifeInv, NEW t \in Threads, depth[t] \in Nat \ {0}, NEW f,
           NEW callee, Called(t, callee, f), Fits(t, f), MayCall(f, callee),
           SameCounts,
           \A L \in Quiet : Stays(Last(t), f, L) /\ callee.at \notin L,
           f.at \notin InClose, callee.at \notin InClose,
           Last(t).at \notin RefLabels, f.at \notin RefLabels,
           callee.at \notin RefLabels,
           Last(t).at # "unrefConn", f.at # "unrefConn",
           f.at \in ConnClosing => Last(t).at \in ConnClosing,
           callee.at \notin ConnClosing, f.at # "connClosed",
           TypeOK', FoundIsKnown', CloseState', FreedIsClosed'
    PROVE  LifeInv'
  <1>1. /\ Stacks /\ Shape /\ Alone /\ Counted /\ NewIsAlone /\ ConnCounted
        /\ ConnState /\ FailedIsOpen
    BY DEF LifeInv, TypeOK
  <1>2. UsersKeep BY DEF UsersKeep, SameCounts
  <1>3. Shape' BY <1>1, <1>2, ShapeCalled
  <1>4. \A L \in Quiet : Same(L) BY <1>1, SameCalled DEF Stays
  <1>5. Alone'
    <2>1. \A L \in Quiet : f.at \in L => Last(t).at \in L /\ Last(t).s = f.s
      BY DEF Stays
    <2>2. Sole \subseteq Quiet \cup {InClose} BY DEF Sole, Quiet
    <2> QED BY <1>1, <2>1, <2>2, AloneCalled
  <1>6. Others(t) BY DEF Called
  <1>7. \A u \in Threads : CallRef(u)' = CallRef(u)
    <2>1. CallRef(t)' = CallRef(t) BY <1>1, CallRefCalled
    <2> QED BY <1>6, <2>1, CallRefOthers
  <1>8. \A u \in Threads : UnrefsConn(u)' <=> UnrefsConn(u)
    <2>1. UnrefsConn(t)' <=> UnrefsConn(t) BY <1>1, UnrefsCalled
    <2> QED BY <1>6, <2>1, CallRefOthers
  <1>9. /\ Same(New) /\ Same(Freeing) /\ Same({"connClosed"})
        /\ Same(ConnFreeing) /\ Same(Unrefing) /\ Same(Unparenting)
        /\ Same(Letting)
    BY <1>4 DEF Quiet
  <1>10. Counted' BY <1>1, <1>7, <1>9, AllCountedKept DEF SameCounts
  <1>11. NewIsAlone' BY <1>1, <1>9, NewKept DEF SameCounts
  <1>12. Keepers' = Keepers BY <1>8, <1>9, KeepersSame DEF SameCounts
  <1>13. ConnCounted' BY <1>1, <1>9, <1>12, ConnCountedKept DEF SameCounts
  <1>14. Any(ConnClosing)' => Any(ConnClosing) BY <1>1, AnyCalled
  <1>15. ConnState' BY <1>1, <1>9, <1>12, <1>14, ConnStateKept DEF SameCounts
  <1>16. FailedIsOpen'
    <2>1. callee.at # "connClosed" BY DEF Quiet
    <2> QED BY <1>1, <2>1, FailedCalled DEF SameCounts
  <1> QED BY <1>3, <1>5, <1>10, <1>11, <1>13, <1>15, <1>16 DEF LifeInv

LEMMA QuietPopped ==
    ASSUME LifeInv, NEW t \in Threads, depth[t] \in Nat \ {0},
           Ended(t) \/ \E status \in BOOLEAN : Returned(t, status), SameCounts,
           \A L \in Quiet : Last(t).at \notin L,
           Last(t).at \notin RefLabels, Last(t).at # "unrefConn",
           TypeOK', FoundIsKnown', CloseState', FreedIsClosed', FailedIsOpen'
    PROVE  LifeInv'
  <1>1. /\ Stacks /\ Shape /\ Alone /\ Counted /\ NewIsAlone /\ ConnCounted
        /\ ConnState /\ FailedIsOpen
    BY DEF LifeInv, TypeOK
  <1>2. UsersKeep BY DEF UsersKeep, SameCounts
  <1>3. Shape' BY <1>1, <1>2, ShapePopped
  <1>9. /\ Same(New) /\ Same(Freeing) /\ Same({"connClosed"})
        /\ Same(ConnFreeing) /\ Same(Unrefing) /\ Same(Unparenting)
        /\ Same(Letting)
    <2>2. \A L \in Quiet : Same(L) BY <1>1, SameEnded, SameReturned
    <2> QED BY <2>2 DEF Quiet
  <1>5. Alone' BY <1>1, AlonePopped
  <1>6. Others(t) BY <1>1, PoppedIs
  <1>7. \A u \in Threads : CallRef(u)' = CallRef(u)
    <2>1. CallRef(t)' = CallRef(t) BY <1>1, CallRefPopped
    <2> QED BY <1>6, <2>1, CallRefOthers
  <1>8. \A u \in Threads : UnrefsConn(u)' <=> UnrefsConn(u)
    <2>1. UnrefsConn(t)' <=> UnrefsConn(t) BY <1>1, UnrefsPopped
    <2> QED BY <1>6, <2>1, CallRefOthers
  <1>10. Counted' BY <1>1, <1>7, <1>9, AllCountedKept DEF SameCounts
  <1>11. NewIsAlone' BY <1>1, <1>9, NewKept DEF SameCounts
  <1>12. Keepers' = Keepers BY <1>8, <1>9, KeepersSame DEF SameCounts
  <1>13. ConnCounted' BY <1>1, <1>9, <1>12, ConnCountedKept DEF SameCounts
  <1>14. Any(ConnClosing)' => Any(ConnClosing) BY <1>1, AnyPopped
  <1>15. ConnState' BY <1>1, <1>9, <1>12, <1>14, ConnStateKept DEF SameCounts
  <1> QED BY <1>3, <1>5, <1>10, <1>11, <1>13, <1>15 DEF LifeInv

LEMMA QuietBegan ==
    ASSUME LifeInv, NEW t \in Threads, NEW f, Began(t, f),
           MayBegin(t, f)', SameCounts, \A L \in Quiet : f.at \notin L,
           f.at \notin RefLabels, f.at # "unrefConn",
           f.at \notin ConnClosing, f.at \notin InClose,
           TypeOK', FoundIsKnown', CloseState', FreedIsClosed'
    PROVE  LifeInv'
  <1>1. /\ Stacks /\ Shape /\ Alone /\ Counted /\ NewIsAlone /\ ConnCounted
        /\ ConnState /\ FailedIsOpen
    BY DEF LifeInv, TypeOK
  <1>2. UsersKeep BY DEF UsersKeep, SameCounts
  <1>3. Shape' BY <1>1, <1>2, ShapeBegan
  <1>4. \A L \in Quiet : Same(L) BY <1>1, SameBegan
  <1>5. Alone'
    <2>1. Sole \subseteq Quiet \cup {InClose} BY DEF Sole, Quiet
    <2> QED BY <1>1, <2>1, AloneBegan
  <1>6. Others(t) BY DEF Began
  <1>7. \A u \in Threads : CallRef(u)' = CallRef(u)
    <2>1. CallRef(t)' = CallRef(t) BY <1>1, CallRefBegan DEF RefLabels
    <2> QED BY <1>6, <2>1, CallRefOthers
  <1>8. \A u \in Threads : UnrefsConn(u)' <=> UnrefsConn(u)
    <2>1. UnrefsConn(t)' <=> UnrefsConn(t) BY <1>1, CallRefBegan
    <2> QED BY <1>6, <2>1, CallRefOthers
  <1>9. /\ Same(New) /\ Same(Freeing) /\ Same({"connClosed"})
        /\ Same(ConnFreeing) /\ Same(Unrefing) /\ Same(Unparenting)
        /\ Same(Letting)
    BY <1>4 DEF Quiet
  <1>10. Counted' BY <1>1, <1>7, <1>9, AllCountedKept DEF SameCounts
  <1>11. NewIsAlone' BY <1>1, <1>9, NewKept DEF SameCounts
  <1>12. Keepers' = Keepers BY <1>8, <1>9, KeepersSame DEF SameCounts
  <1>13. ConnCounted' BY <1>1, <1>9, <1>12, ConnCountedKept DEF SameCounts
  <1>14. Any(ConnClosing)' => Any(ConnClosing) BY <1>1, AnyBegan
  <1>15. ConnState' BY <1>1, <1>9, <1>12, <1>14, ConnStateKept DEF SameCounts
  <1>16. FailedIsOpen'
    <2>1. f.at # "connClosed" BY DEF Quiet
    <2> QED BY <1>1, <2>1, FailedBegan DEF SameCounts
  <1> QED BY <1>3, <1>5, <1>10, <1>11, <1>13, <1>15, <1>16 DEF LifeInv

-----------------------------------------------------------------------------
(* Frames that functions go on with.                                        *)
FitsLabel(s, l) ==
    /\ l \in InStmt \cup {"takeRef"} => s # NULL
    /\ l \in {"connClosed"} \cup ConnFreeing => s = NULL

(* The frames that the actions make, and those that go to another label. *)
LEMMA FrameIs ==
    ASSUME NEW l \in Labels, NEW s \in Stmts \cup {NULL}, FitsLabel(s, l),
           NEW p \in BOOLEAN
    PROVE  /\ Frame(l, s, p) \in FrameType
           /\ Frame(l, s, p).at = l /\ Frame(l, s, p).s = s
           /\ Frame(l, s, p).ok
  BY DEF Frame, FrameType, FitsLabel

LEMMA FrameAt ==
    ASSUME NEW g \in FrameType, NEW l \in Labels, FitsLabel(g.s, l)
    PROVE  /\ [g EXCEPT !.at = l] \in FrameType
           /\ [g EXCEPT !.at = l].at = l
           /\ [g EXCEPT !.at = l].s = g.s
           /\ [g EXCEPT !.at = l].ok = g.ok
  BY DEF FrameType, FitsLabel

LEMMA GoToIs ==
    ASSUME Stacks, NEW t \in Threads, NEW at, At(t, at), NEW l \in Labels,
           FitsLabel(Last(t).s, l), GoTo(t, l)
    PROVE  \E f \in FrameType :
              /\ Stacks' /\ WentOn(t, f) /\ f.at = l /\ f.s = Last(t).s
              /\ f.ok = Last(t).ok
  <1>1. stack[t] # <<>> /\ Top(t) = Last(t) /\ Last(t) \in FrameType BY LastIs
  <1> DEFINE f == [Last(t) EXCEPT !.at = l]
  <1>2. f \in FrameType /\ f.at = l /\ f.s = Last(t).s /\ f.ok = Last(t).ok
    BY <1>1, FrameAt
  <1>3. GoOn(t, f) BY <1>1 DEF GoTo
  <1> HIDE DEF f
  <1>4. Stacks' /\ WentOn(t, f) BY <1>1, <1>2, <1>3, GoOnIs
  <1> QED BY <1>2, <1>4

(* The statement that the last call works on. *)
LEMMA LastStmt ==
    ASSUME Stacks, NEW t \in Threads, depth[t] \in Nat \ {0}
    PROVE  /\ Last(t) \in FrameType
           /\ Last(t).at \in InStmt \cup {"takeRef"} => Last(t).s \in Stmts
           /\ Last(t).at \in {"connClosed"} \cup ConnFreeing => Last(t).s = NULL
  <1>1. depth[t] \in 1 .. depth[t] OBVIOUS
  <1>2. Last(t) \in FrameType BY <1>1, DepthOf DEF Last
  <1> QED BY <1>2 DEF FrameType

(* A function that goes on with what it did before. *)
LEMMA FitsOn ==
    ASSUME NEW t \in Threads, NEW g, NEW f, Fits(t, g),
           f.s = g.s, f.at \in Public => g.at \in Public,
           f.at \in Closing <=> g.at \in Closing,
           f.at \in ConnClosing => g.at \in ConnClosing,
           f.at \in {"markClosing", "connClosed"} => f.at = g.at,
           f.at # "dropRef"
    PROVE  Fits(t, f)
  BY DEF Fits, MayBegin, MayCall

LEMMA InSub ==
    ASSUME NEW L, NEW M, L \subseteq M, NEW s, In(s, L)
    PROVE  In(s, M)
  BY DEF In

LEMMA LastIn ==
    ASSUME NEW t \in Threads, depth[t] \in Nat \ {0}, NEW L, Last(t).at \in L,
           NEW s, s = Last(t).s
    PROVE  In(s, L)
  <1>1. depth[t] \in 1 .. depth[t] OBVIOUS
  <1> QED BY <1>1 DEF In, Last

(* A step of a function that works on s does not touch the others. *)
LEMMA OtherWentOn ==
    ASSUME Stacks, NEW t \in Threads, depth[t] \in Nat \ {0}, NEW f,
           WentOn(t, f), NEW x, x # Last(t).s, x # f.s, NEW L
    PROVE  In(x, L)' <=> In(x, L)
  BY InWentOn, InNow DEF Is

(* A return leaves the other statements' marks, and what is known of their closing. *)
LEMMA OtherPopped ==
    ASSUME Stacks, NEW t \in Threads, depth[t] \in Nat \ {0},
           Ended(t) \/ \E status \in BOOLEAN : Returned(t, status),
           NEW x, x # Last(t).s, NEW L
    PROVE  In(x, L)' <=> In(x, L)
  BY InEnded, InReturned, InNow DEF Is

SameClose(x) ==
    /\ In(x, InClose)' <=> In(x, InClose)
    /\ In(x, Unheld)' <=> In(x, Unheld)
    /\ In(x, Let)' <=> In(x, Let)
    /\ In(x, Closed)' <=> In(x, Closed)
    /\ In(x, Preparing)' <=> In(x, Preparing)

LEMMA CloseAtKept ==
    ASSUME NEW x \in Stmts, CloseStateAt(x), SameClose(x),
           closing'[x] = closing[x], handle'[x] = handle[x],
           parent'[x] = parent[x], oci'[x] = oci[x], mem'[x] = mem[x],
           parent[x] # NULL => mem'[parent[x]] # "unused"
    PROVE  CloseStateAt(x)'
  BY DEF CloseStateAt, SameClose

-----------------------------------------------------------------------------
(* What keeps a statement that a function works on.                         *)
LEMMA HeldByCall ==
    ASSUME LifeInv, NEW t \in Threads, NEW k \in 1 .. depth[t], NEW s,
           calls[t][k].s = s, calls[t][k].at \in RefLabels
    PROVE  /\ s \in Stmts /\ CallRef(t) = s /\ <<t, "call">> \in Refs(s)
           /\ mem[s] = "live" /\ ~In(s, Freeing)
           /\ refCount[s] = Cardinality(Refs(s)) /\ refCount[s] \in Nat \ {0}
  <1>1. Stacks /\ Shape /\ Counted BY DEF LifeInv, TypeOK
  <1>2. CallRef(t) = s BY <1>1, RefersIsFirst, DropRefIsSecond DEF RefLabels
  <1>3. calls[t][k] \in FrameType BY <1>1, DepthOf
  <1>4. s \in Stmts BY <1>3 DEF FrameType, RefLabels, Refers, New, InStmt
  <1>5. <<t, "call">> \in Refs(s) BY <1>2, RefsOf
  <1> QED BY <1>1, <1>2, <1>4, <1>5, Referenced

(* What a reference of the program, or of an implicit result, keeps alive. *)
LEMMA HeldByUser ==
    ASSUME LifeInv, NEW t \in Threads, NEW s \in userStmts[t]
    PROVE  /\ s \in Stmts /\ <<t, "user">> \in Refs(s)
           /\ mem[s] = "live" /\ ~In(s, Freeing)
           /\ refCount[s] = Cardinality(Refs(s)) /\ refCount[s] \in Nat \ {0}
  <1>1. s \in Stmts /\ Counted BY DEF LifeInv, TypeOK
  <1>2. <<t, "user">> \in Refs(s) BY RefsOf
  <1> QED BY <1>1, <1>2, Referenced

LEMMA HeldByResult ==
    ASSUME LifeInv, NEW c \in Stmts, parent[c] # NULL, ~In(c, Unparenting),
           NEW s, s = parent[c]
    PROVE  /\ s \in Stmts /\ <<c, "result">> \in Refs(s)
           /\ mem[s] = "live" /\ ~In(s, Freeing)
           /\ refCount[s] = Cardinality(Refs(s)) /\ refCount[s] \in Nat \ {0}
  <1>1. s \in Stmts /\ Counted BY DEF LifeInv, TypeOK
  <1>2. <<c, "result">> \in Refs(s) BY RefsOf
  <1> QED BY <1>1, <1>2, Referenced

(* Whoever closes a statement holds it, or is freeing it. *)
LEMMA CloserHolds ==
    ASSUME LifeInv, NEW t \in Threads, NEW k \in 1 .. depth[t], NEW s,
           calls[t][k].s = s, calls[t][k].at \in Closing
    PROVE  /\ s \in Stmts /\ mem[s] = "live"
           /\ \/ Refs(s) # {} /\ ~In(s, Freeing) /\ ~In(s, Unlisted)
              \/ k >= 2 /\ Is(calls[t][k - 1], s, {"freeParent"})
           /\ ~In(s, Unlisted)
  <1>1. Stacks /\ Shape /\ Counted /\ NewIsAlone /\ FoundIsKnown
    BY DEF LifeInv, TypeOK
  <1>2. calls[t][k] \in FrameType /\ depth[t] \in Nat BY <1>1, DepthOf
  <1>3. s \in Stmts BY <1>2 DEF FrameType, Closing, InClose, InStmt
  <1>4. CASE k = 1
    <2>1. s \in userStmts[t] BY <1>1, <1>2, <1>4 DEF Shape, Ordered, MayBegin
    <2>2. Refs(s) # {} /\ ~In(s, Freeing) /\ mem[s] = "live"
      BY <2>1, HeldByUser
    <2>3. ~In(s, New) BY <1>1, <1>3, <2>1 DEF NewIsAlone
    <2>4. Unlisted \subseteq New BY DEF Unlisted, New
    <2> QED BY <1>3, <2>2, <2>3, <2>4, InSub
  <1>5. CASE k # 1
    <2>1. k \in 2 .. depth[t] /\ k - 1 \in 1 .. depth[t] BY <1>2, <1>5
    <2>2. MayCall(calls[t][k - 1], calls[t][k]) BY <1>1, <2>1, CallerOf
    <2>3. calls[t][k - 1].at \in {"dropRef", "freeParent"}
          /\ calls[t][k - 1].s = s
      BY <2>2 DEF MayCall
    <2>4. CASE calls[t][k - 1].at = "dropRef"
      <3>1. /\ mem[s] = "live" /\ ~In(s, Freeing)
            /\ <<t, "call">> \in Refs(s)
        BY <2>1, <2>3, <2>4, HeldByCall DEF RefLabels
      <3>2. In(s, Sought) BY <2>1, <2>3, <2>4 DEF In, Sought
      <3>3. ~In(s, Unlisted) BY <1>1, <1>3, <3>2 DEF FoundIsKnown, Found
      <3> QED BY <1>3, <3>1, <3>3
    <2>5. CASE calls[t][k - 1].at = "freeParent"
      <3>1. In(s, Freeing) BY <2>1, <2>3, <2>5 DEF In, Freeing
      <3>2. mem[s] = "live" BY <1>1, <1>3, <3>1 DEF Counted, CountedAt
      <3>3. ~In(s, Unlisted)
        <4> SUFFICES ASSUME In(s, Unlisted) PROVE FALSE OBVIOUS
        <4>1. PICK u \in Threads : \E j \in 1 .. depth[u] :
                 calls[u][j].s = s /\ calls[u][j].at \in Unlisted
          BY DEF In
        <4> PICK j \in 1 .. depth[u] :
                 calls[u][j].s = s /\ calls[u][j].at \in Unlisted
          BY <4>1
        <4>2. calls[u][j].at \in RefLabels
          BY <4>1 DEF Unlisted, RefLabels, Refers, New
        <4> QED BY <3>1, <4>1, <4>2, HeldByCall
      <3> QED BY <1>3, <2>1, <2>3, <2>5, <3>2, <3>3 DEF Is
    <2> QED BY <2>3, <2>4, <2>5
  <1> QED BY <1>4, <1>5

-----------------------------------------------------------------------------
(* Closing a statement: the steps that leave its parent and handle alone.   *)
LEMMA CloseGoesOn ==
    ASSUME LifeInv, NEW t \in Threads, depth[t] \in Nat \ {0},
           NEW f \in FrameType, WentOn(t, f), Stacks', SameCounts,
           UNCHANGED <<closing, handle, deadSession, numSlots>>,
           Last(t).at \in InClose \ {"unparent"}, f.at \in Unheld,
           f.s = Last(t).s, parent[f.s] = NULL,
           Last(t).at \in Let => f.at \in Let,
           \/ oci' = oci
           \/ oci' = [oci EXCEPT ![f.s] = "released"] /\ f.at \in Let,
           openStmts' \in [0 .. numSlots - 1 -> Stmts \cup {NULL}],
           \A i \in 0 .. numSlots - 1 : openStmts'[i] \in {openStmts[i], NULL}
    PROVE  LifeInv'
  <1>1. /\ Stacks /\ Shape /\ Alone /\ FoundIsKnown /\ CloseState
        /\ FreedIsClosed /\ TypeOK
    BY DEF LifeInv, TypeOK
  <1>2. TypeOK' BY <1>1 DEF TypeOK, SameCounts
  <1> PICK s : s = f.s OBVIOUS
  <1>3. s \in Stmts /\ Last(t).s = s /\ Last(t).at \in InStmt
    BY <1>1, LastStmt DEF InClose, InStmt
  <1>4. Fits(t, f)
    <2>1. f.at \in Closing /\ Last(t).at \in Closing /\ f.at \notin Public
          /\ f.at \notin ConnClosing /\ f.at # "dropRef"
      BY DEF Closing, InClose, Unheld, Public, New, ConnClosing
    <2>2. f.at \notin {"markClosing", "connClosed"} BY DEF Unheld
    <2> QED BY <1>1, <2>1, <2>2, LastFits, FitsOn
  <1>5. \A L \in Quiet : Stays(Last(t), f, L)
    <2>1. \A L \in Quiet : f.at \notin L /\ Last(t).at \notin L
      BY DEF InClose, Unheld, Quiet, New, Freeing, ConnFreeing, Unrefing,
         Unparenting, Letting
    <2> QED BY <2>1 DEF Stays
  <1>11. f.at \in InClose /\ Last(t).at \in InClose BY DEF InClose, Unheld
  <1>6. f.at \notin RefLabels /\ Last(t).at \notin RefLabels
    BY DEF InClose, Unheld, RefLabels, Refers, New
  <1>7. /\ f.at # "unrefConn" /\ Last(t).at # "unrefConn"
        /\ f.at \notin ConnClosing /\ f.at # "connClosed"
    BY DEF InClose, Unheld, ConnClosing
  <1>8. FoundIsKnown'
    <2>1. Same(Sought) /\ Same(Unlisted) /\ Same(Freeing)
      <3>1. /\ f.at \notin Sought /\ Last(t).at \notin Sought
            /\ f.at \notin Unlisted /\ Last(t).at \notin Unlisted
            /\ f.at \notin Freeing /\ Last(t).at \notin Freeing
        BY DEF InClose, Unheld, Sought, Unlisted, Freeing
      <3> QED BY <1>1, <3>1, SameWentOn
    <2>2. \A x \in Stmts : Found(x)' => Found(x)
      BY <2>1, StmtLifetimeAssumption DEF Found, Same
    <2> QED BY <1>1, <2>1, <2>2 DEF FoundIsKnown, Same, SameCounts
  <1>9. CloseState'
    <2> SUFFICES ASSUME NEW x \in Stmts PROVE CloseStateAt(x)'
      BY DEF CloseState
    <2>1. CASE x # s
      <3>1. SameClose(x) BY <1>1, <1>3, <2>1, OtherWentOn DEF SameClose
      <3>2. CloseStateAt(x) BY <1>1 DEF CloseState
      <3>3. oci'[x] = oci[x] BY <1>1, <2>1 DEF TypeOK
      <3>4. parent[x] # NULL => mem'[parent[x]] # "unused"
        BY <3>2 DEF CloseStateAt, SameCounts
      <3> QED BY <3>1, <3>2, <3>3, <3>4, CloseAtKept DEF SameCounts
    <2>2. CASE x = s
      <3>1. In(s, InClose) /\ In(s, InClose)'
        <4>1. Same(InClose) BY <1>1, <1>11, SameWentOn
        <4>2. In(s, InClose) BY <1>3, LastIn
        <4> QED BY <1>3, <4>1, <4>2 DEF Same
      <3>2. Same(Closed) /\ Same(Preparing)
        <4>1. /\ f.at \notin Closed /\ Last(t).at \notin Closed
              /\ f.at \notin Preparing /\ Last(t).at \notin Preparing
          BY DEF InClose, Unheld, Closed, Preparing
        <4> QED BY <1>1, <4>1, SameWentOn
      <3>3. In(s, Let) => In(s, Let)'
        <4>1. In(s, Let) => Is(Last(t), s, Let) \/ Elsewhere(t, s, Let)
          BY InNow
        <4> QED BY <1>1, <1>3, <4>1, InWentOn DEF Is
      <3>4. f.at \in Let => In(s, Let)' BY <1>1, InWentOn DEF Is
      <3>5. oci'[s] = oci[s] \/ f.at \in Let OBVIOUS
      <3>6. /\ parent'[s] = NULL /\ handle'[s] = handle[s]
            /\ closing'[s] = closing[s] /\ mem'[s] = mem[s]
        BY DEF SameCounts
      <3>7. CloseStateAt(s) BY <1>1, <1>3 DEF CloseState
      <3>8. CloseStateAt(s)'
        BY <1>3, <3>1, <3>2, <3>3, <3>4, <3>5, <3>6, <3>7 DEF CloseStateAt,
           Same
      <3> QED BY <2>2, <3>8
    <2> QED BY <2>1, <2>2
  <1>10. FreedIsClosed'
    <2>1. Last(t)' = f BY DEF Last, WentOn
    <2>2. f.at # "freeParent" /\ Others(t) BY DEF Unheld, WentOn
    <2> QED BY <1>1, <2>1, <2>2, FreedKept
  <1> QED BY <1>2, <1>4, <1>5, <1>6, <1>7, <1>8, <1>9, <1>10, <1>11, QuietWentOn

(* dpiStmt__close asks whether there is a session to release the statement on. *)
LEMMA StmtCheckSessionInv ==
    ASSUME LifeInv, NEW t \in Threads, StmtCheckSession(t)
    PROVE  LifeInv'
  <1>1. Stacks /\ TypeOK BY DEF LifeInv, TypeOK
  <1> PICK l : l = IF ~deadSession /\ connHandle THEN "ociRelease" ELSE "unlist"
    OBVIOUS
  <1>2. At(t, "stmtRelease") /\ parent[Top(t).s] = NULL /\ GoTo(t, l)
        /\ UNCHANGED <<stmtVars, connVars, listVars, userVars>>
    BY DEF StmtCheckSession
  <1>3. depth[t] \in Nat \ {0} /\ Top(t) = Last(t) /\ Last(t).at = "stmtRelease"
        /\ Last(t) \in FrameType
    BY <1>1, <1>2, LastIs
  <1>4. l \in {"ociRelease", "unlist"} /\ l \in Labels /\ FitsLabel(Last(t).s, l)
    BY <1>3 DEF Labels, Closing, InClose, FitsLabel, FrameType, InStmt, ConnFreeing
  <1>5. PICK f \in FrameType :
           Stacks' /\ WentOn(t, f) /\ f.at = l /\ f.s = Last(t).s
    BY <1>1, <1>2, <1>4, GoToIs
  <1>6. /\ Last(t).at \in InClose \ {"unparent"} /\ f.at \in Unheld
        /\ Last(t).at \notin Let
    BY <1>3, <1>4, <1>5 DEF InClose, Unheld, Let
  <1>7. SameCounts /\ UNCHANGED <<closing, handle, deadSession, numSlots, oci, openStmts>>
    BY <1>2 DEF SameCounts, stmtVars, connVars, listVars, userVars
  <1>8. openStmts' \in [0 .. numSlots - 1 -> Stmts \cup {NULL}]
    BY <1>1, <1>7 DEF TypeOK
  <1> QED BY <1>2, <1>3, <1>5, <1>6, <1>7, <1>8, CloseGoesOn

(* dpiOci__stmtRelease; the handle is given up even if it fails. *)
LEMMA OciStmtReleaseInv ==
    ASSUME LifeInv, NEW t \in Threads, OciStmtRelease(t)
    PROVE  LifeInv'
  <1>1. Stacks /\ TypeOK /\ CloseState BY DEF LifeInv, TypeOK
  <1>2. At(t, "ociRelease") /\ oci' = [oci EXCEPT ![Top(t).s] = "released"]
        /\ UNCHANGED <<mem, refCount, closing, handle, parent, connVars,
                       listVars, userVars>>
    BY DEF OciStmtRelease
  <1>3. depth[t] \in Nat \ {0} /\ Top(t) = Last(t) /\ Last(t).at = "ociRelease"
        /\ Last(t) \in FrameType /\ stack[t] # <<>>
    BY <1>1, <1>2, LastIs
  <1>4. PICK ok \in BOOLEAN : GoOn(t, [Last(t) EXCEPT !.at = "unlist", !.ok = ok])
    BY <1>3 DEF OciStmtRelease
  <1> DEFINE f == [Last(t) EXCEPT !.at = "unlist", !.ok = ok]
  <1>5. f \in FrameType /\ f.at = "unlist" /\ f.s = Last(t).s
    BY <1>3 DEF FrameType, Labels, Closing, InClose, InStmt, ConnFreeing
  <1> HIDE DEF f
  <1>9. Stacks' /\ WentOn(t, f) BY <1>1, <1>3, <1>4, <1>5, GoOnIs DEF f
  <1>6. /\ Last(t).at \in InClose \ {"unparent"} /\ f.at \in Unheld
        /\ f.at \in Let
    BY <1>3, <1>5 DEF InClose, Unheld, Let
  <1>7. SameCounts /\ UNCHANGED <<closing, handle, deadSession, numSlots, openStmts>>
    BY <1>2 DEF SameCounts, stmtVars, connVars, listVars, userVars
  <1>8. openStmts' \in [0 .. numSlots - 1 -> Stmts \cup {NULL}]
    BY <1>1, <1>7 DEF TypeOK
  <1>10. parent[f.s] = NULL
    <2>1. Last(t).s \in Stmts BY <1>1, <1>3, LastStmt DEF InStmt
    <2>2. In(Last(t).s, Unheld) BY <1>3, LastIn DEF Unheld
    <2> QED BY <1>1, <1>5, <2>1, <2>2 DEF CloseState, CloseStateAt
  <1> QED BY <1>2, <1>3, <1>5, <1>6, <1>7, <1>8, <1>9, <1>10, CloseGoesOn

(* A statement leaves the list if the connection is not closing. *)
LEMMA StmtCheckListedInv ==
    ASSUME LifeInv, NEW t \in Threads, StmtCheckListed(t)
    PROVE  LifeInv'
  <1>1. Stacks /\ TypeOK /\ CloseState BY DEF LifeInv, TypeOK
  <1> PICK l : l = IF ~connClosing /\ parent[Top(t).s] = NULL
                   THEN "removeHandle" ELSE "closed"
    OBVIOUS
  <1>2. At(t, "unlist") /\ GoTo(t, l)
        /\ UNCHANGED <<stmtVars, connVars, listVars, userVars>>
    BY DEF StmtCheckListed
  <1>3. depth[t] \in Nat \ {0} /\ Top(t) = Last(t) /\ Last(t).at = "unlist"
        /\ Last(t) \in FrameType
    BY <1>1, <1>2, LastIs
  <1>4. l \in {"removeHandle", "closed"} /\ l \in Labels /\ FitsLabel(Last(t).s, l)
    BY <1>3 DEF Labels, Closing, InClose, FitsLabel, FrameType, InStmt, ConnFreeing
  <1>5. PICK f \in FrameType :
           Stacks' /\ WentOn(t, f) /\ f.at = l /\ f.s = Last(t).s
    BY <1>1, <1>2, <1>4, GoToIs
  <1>6. /\ Last(t).at \in InClose \ {"unparent"} /\ f.at \in Unheld
        /\ f.at \in Let
    BY <1>3, <1>4, <1>5 DEF InClose, Unheld, Let
  <1>7. SameCounts /\ UNCHANGED <<closing, handle, deadSession, numSlots, oci, openStmts>>
    BY <1>2 DEF SameCounts, stmtVars, connVars, listVars, userVars
  <1>8. openStmts' \in [0 .. numSlots - 1 -> Stmts \cup {NULL}]
    BY <1>1, <1>7 DEF TypeOK
  <1>10. parent[f.s] = NULL
    <2>1. Last(t).s \in Stmts BY <1>1, <1>3, LastStmt DEF InStmt
    <2>2. In(Last(t).s, Unheld) BY <1>3, LastIn DEF Unheld
    <2> QED BY <1>1, <1>5, <2>1, <2>2 DEF CloseState, CloseStateAt
  <1> QED BY <1>2, <1>3, <1>5, <1>6, <1>7, <1>8, <1>10, CloseGoesOn

(* dpiHandleList__removeHandle empties the statement's slot. *)
LEMMA StmtRemoveHandleInv ==
    ASSUME LifeInv, NEW t \in Threads, StmtRemoveHandle(t)
    PROVE  LifeInv'
  <1>1. Stacks /\ TypeOK /\ CloseState BY DEF LifeInv, TypeOK
  <1>2. At(t, "removeHandle") /\ GoTo(t, "closed")
        /\ List!RemoveHandle(openSlotNum[Top(t).s])
        /\ UNCHANGED <<stmtVars, connVars, userVars>>
    BY DEF StmtRemoveHandle
  <1>3. depth[t] \in Nat \ {0} /\ Top(t) = Last(t) /\ Last(t).at = "removeHandle"
        /\ Last(t) \in FrameType
    BY <1>1, <1>2, LastIs
  <1>4. "closed" \in Labels /\ FitsLabel(Last(t).s, "closed")
    BY <1>3 DEF Labels, Closing, InClose, FitsLabel, FrameType, InStmt, ConnFreeing
  <1>5. PICK f \in FrameType :
           Stacks' /\ WentOn(t, f) /\ f.at = "closed" /\ f.s = Last(t).s
    BY <1>1, <1>2, <1>4, GoToIs
  <1>6. /\ Last(t).at \in InClose \ {"unparent"} /\ f.at \in Unheld
        /\ f.at \in Let
    BY <1>3, <1>5 DEF InClose, Unheld, Let
  <1>7. /\ SameCounts /\ UNCHANGED <<closing, handle, deadSession, oci, numSlots>>
        /\ openStmts' = [openStmts EXCEPT ![openSlotNum[Top(t).s]] = NULL]
    BY <1>2 DEF SameCounts, stmtVars, connVars, userVars, List!RemoveHandle
  <1>8. /\ openStmts' \in [0 .. numSlots - 1 -> Stmts \cup {NULL}]
        /\ \A i \in 0 .. numSlots - 1 : openStmts'[i] \in {openStmts[i], NULL}
    BY <1>1, <1>7 DEF TypeOK
  <1>10. parent[f.s] = NULL
    <2>1. Last(t).s \in Stmts BY <1>1, <1>3, LastStmt DEF InStmt
    <2>2. In(Last(t).s, Unheld) BY <1>3, LastIn DEF Unheld
    <2> QED BY <1>1, <1>5, <2>1, <2>2 DEF CloseState, CloseStateAt
  <1> QED BY <1>2, <1>3, <1>5, <1>6, <1>7, <1>8, <1>10, CloseGoesOn

-----------------------------------------------------------------------------
(* Closing the connection: the steps from one statement of its list to the  *)
(* next.                                                                    *)
LEMMA ConnGoesOn ==
    ASSUME LifeInv, NEW t \in Threads, depth[t] \in Nat \ {0},
           NEW f \in FrameType, WentOn(t, f), Stacks',
           UNCHANGED <<stmtVars, connLive, connRefs, connClosing, connHandle,
                       listVars, userVars>>,
           deadSession' \in BOOLEAN,
           Last(t).at \in {"connClose", "nextSlot", "slotDone", "takeRef"},
           f.at \in {"nextSlot", "takeRef", "sessionEnd"},
           f.at = "takeRef" => Found(f.s)
    PROVE  LifeInv'
  <1>1. /\ Stacks /\ Shape /\ Alone /\ FoundIsKnown /\ CloseState
        /\ FreedIsClosed /\ TypeOK
    BY DEF LifeInv, TypeOK
  <1>2. TypeOK' BY <1>1 DEF TypeOK, stmtVars, listVars, userVars
  <1>3. SameCounts BY DEF SameCounts, stmtVars, userVars
  <1>4. Fits(t, f)
    <2>1. Fits(t, Last(t)) BY <1>1, LastFits
    <2> QED BY <2>1 DEF Fits, MayBegin, MayCall, Closing, InClose, Public, New,
        ConnClosing
  <1>5. \A L \in Quiet : Stays(Last(t), f, L)
    <2>1. \A L \in Quiet : f.at \notin L /\ Last(t).at \notin L
      BY DEF Quiet, New, Freeing, ConnFreeing, Unrefing, Unparenting, Letting
    <2> QED BY <2>1 DEF Stays
  <1>6. f.at \notin RefLabels /\ Last(t).at \notin RefLabels
    BY DEF RefLabels, Refers, New
  <1>7. /\ f.at # "unrefConn" /\ Last(t).at # "unrefConn"
        /\ Last(t).at \in ConnClosing /\ f.at # "connClosed"
        /\ f.at \notin InClose
    BY DEF ConnClosing, InClose
  <1>8. FoundIsKnown'
    <2>1. Same(Unlisted) /\ Same(Freeing)
      <3>1. /\ f.at \notin Unlisted /\ Last(t).at \notin Unlisted
            /\ f.at \notin Freeing /\ Last(t).at \notin Freeing
        BY DEF Unlisted, Freeing
      <3> QED BY <1>1, <3>1, SameWentOn
    <2>2. ASSUME NEW x \in Stmts, Found(x)' PROVE Found(x)
      <3>1. CASE In(x, Sought)'
        <4>1. Is(f, x, Sought) \/ Elsewhere(t, x, Sought)
          BY <1>1, <3>1, InWentOn
        <4>2. Is(f, x, Sought) => Found(x) BY DEF Is, Sought
        <4>3. Elsewhere(t, x, Sought) => In(x, Sought) BY InNow
        <4> QED BY <4>1, <4>2, <4>3 DEF Found
      <3>2. CASE ~In(x, Sought)' BY <2>2, <3>2 DEF Found, listVars
      <3> QED BY <3>1, <3>2
    <2> QED BY <1>1, <1>3, <2>1, <2>2 DEF FoundIsKnown, Same, SameCounts
  <1>9. CloseState'
    <2>1. CloseSame
      <3>1. /\ f.at \notin InClose /\ Last(t).at \notin InClose
            /\ f.at \notin Unheld /\ Last(t).at \notin Unheld
            /\ f.at \notin Let /\ Last(t).at \notin Let
            /\ f.at \notin Closed /\ Last(t).at \notin Closed
            /\ f.at \notin Preparing /\ Last(t).at \notin Preparing
        BY DEF InClose, Unheld, Let, Closed, Preparing
      <3> QED BY <1>1, <3>1, SameWentOn DEF CloseSame
    <2> QED BY <1>1, <2>1, CloseKept DEF stmtVars
  <1>10. FreedIsClosed'
    <2>1. Last(t)' = f BY DEF Last, WentOn
    <2>2. f.at # "freeParent" /\ Others(t) BY DEF WentOn
    <2> QED BY <1>1, <2>1, <2>2, FreedKept DEF stmtVars
  <1> QED BY <1>2, <1>3, <1>4, <1>5, <1>6, <1>7, <1>8, <1>9, <1>10, QuietWentOn

(* dpiConn__close begins with a rollback, which may fail. *)
LEMMA ConnRollbackInv ==
    ASSUME LifeInv, NEW t \in Threads, ConnRollback(t)
    PROVE  LifeInv'
  <1>1. Stacks /\ TypeOK BY DEF LifeInv, TypeOK
  <1>2. /\ At(t, "connClose") /\ GoTo(t, "nextSlot")
        /\ deadSession' = deadSession \/ deadSession' = TRUE
        /\ UNCHANGED <<stmtVars, connLive, connRefs, connClosing, connHandle,
                       listVars, userVars>>
    BY DEF ConnRollback
  <1>3. depth[t] \in Nat \ {0} /\ Last(t).at = "connClose"
    BY <1>1, <1>2, LastIs
  <1>4. "nextSlot" \in Labels /\ FitsLabel(Last(t).s, "nextSlot")
    BY DEF Labels, ConnClosing, FitsLabel, InStmt, Freeing, ConnFreeing
  <1>5. PICK f \in FrameType : Stacks' /\ WentOn(t, f) /\ f.at = "nextSlot"
    BY <1>1, <1>2, <1>4, GoToIs
  <1>6. deadSession' \in BOOLEAN BY <1>1, <1>2 DEF TypeOK
  <1> QED BY <1>2, <1>3, <1>5, <1>6, ConnGoesOn

(* The closing loop reads the next slot of the list. *)
LEMMA ConnReadSlotInv ==
    ASSUME LifeInv, NEW t \in Threads, ConnReadSlot(t)
    PROVE  LifeInv'
  <1>1. Stacks /\ TypeOK BY DEF LifeInv, TypeOK
  <1>2. /\ At(t, "nextSlot")
        /\ UNCHANGED <<stmtVars, connVars, listVars, userVars>>
    BY DEF ConnReadSlot
  <1>3. /\ depth[t] \in Nat \ {0} /\ Last(t).at = "nextSlot"
        /\ Top(t) = Last(t) /\ Last(t) \in FrameType /\ stack[t] # <<>>
    BY <1>1, <1>2, LastIs
  <1> PICK g : g = Last(t) OBVIOUS
  <1>4. g.i \in Nat /\ g \in FrameType /\ g.at = "nextSlot"
    BY <1>3 DEF FrameType
  <1>5. \E f \in FrameType : /\ GoOn(t, f)
                             /\ f.at \in {"nextSlot", "takeRef", "sessionEnd"}
                             /\ f.at = "takeRef" => Found(f.s)
    <2>1. CASE g.i >= numSlots
      <3> DEFINE f == [g EXCEPT !.at = "sessionEnd", !.i = 0]
      <3>1. f \in FrameType /\ f.at = "sessionEnd"
        BY <1>4 DEF FrameType, Labels, ConnClosing, InStmt, Freeing, ConnFreeing
      <3>2. GoOn(t, f) BY <1>3, <2>1 DEF ConnReadSlot
      <3> HIDE DEF f
      <3> QED BY <3>1, <3>2
    <2>2. CASE ~(g.i >= numSlots) /\ openStmts[g.i] = NULL
      <3> DEFINE f == [g EXCEPT !.i = g.i + 1]
      <3>1. f \in FrameType /\ f.at = "nextSlot"
        BY <1>4 DEF FrameType, InStmt, Freeing, ConnFreeing
      <3>2. GoOn(t, f) BY <1>3, <2>2 DEF ConnReadSlot
      <3> HIDE DEF f
      <3> QED BY <3>1, <3>2
    <2>3. CASE ~(g.i >= numSlots) /\ openStmts[g.i] # NULL
      <3> DEFINE f == [g EXCEPT !.at = "takeRef", !.s = openStmts[g.i]]
      <3>1. g.i \in 0 .. numSlots - 1 BY <1>1, <1>4, <2>3 DEF TypeOK
      <3>2. openStmts[g.i] \in Stmts BY <1>1, <2>3, <3>1 DEF TypeOK
      <3>3. f \in FrameType /\ f.at = "takeRef" /\ f.s = openStmts[g.i]
        BY <1>4, <3>2, StmtLifetimeAssumption DEF FrameType, Labels,
           ConnClosing, InStmt, Freeing, ConnFreeing
      <3>4. GoOn(t, f) BY <1>3, <2>3 DEF ConnReadSlot
      <3>5. Found(f.s) BY <3>1, <3>3 DEF Found
      <3> HIDE DEF f
      <3> QED BY <3>3, <3>4, <3>5
    <2> QED BY <2>1, <2>2, <2>3
  <1>6. PICK f \in FrameType : /\ GoOn(t, f)
                               /\ f.at \in {"nextSlot", "takeRef", "sessionEnd"}
                               /\ f.at = "takeRef" => Found(f.s)
    BY <1>5
  <1>7. Stacks' /\ WentOn(t, f) BY <1>1, <1>3, <1>6, GoOnIs
  <1>8. deadSession' \in BOOLEAN
        /\ UNCHANGED <<connLive, connRefs, connClosing, connHandle>>
    BY <1>1, <1>2 DEF TypeOK, connVars
  <1> QED BY <1>2, <1>3, <1>6, <1>7, <1>8, ConnGoesOn

-----------------------------------------------------------------------------
(* Steps that end a function, and those that begin or call one, without     *)
(* changing anything else.                                                  *)
SameRest ==
    UNCHANGED <<stmtVars, connLive, connRefs, connClosing, connHandle,
                deadSession, listVars, userVars>>

(* A function that has done nothing more returns. *)
LEMMA NothingPopped ==
    ASSUME LifeInv, NEW t \in Threads, depth[t] \in Nat \ {0}, Stacks',
           Ended(t) \/ \E status \in BOOLEAN : Returned(t, status), SameRest,
           Last(t).at \in {"end", "markClosing", "slotDone", "sessionEnd"},
           FailedIsOpen'
    PROVE  LifeInv'
  <1>1. /\ Stacks /\ Shape /\ Alone /\ FoundIsKnown /\ CloseState
        /\ FreedIsClosed /\ TypeOK
    BY DEF LifeInv, TypeOK
  <1>2. TypeOK'
    BY <1>1 DEF TypeOK, SameRest, stmtVars, listVars, userVars, connVars
  <1>3. SameCounts BY DEF SameRest, SameCounts, stmtVars, userVars, connVars
  <1>4. \A L \in Quiet : Last(t).at \notin L
    BY DEF Quiet, New, Freeing, ConnFreeing, Unrefing, Unparenting, Letting
  <1>5. Last(t).at \notin RefLabels /\ Last(t).at # "unrefConn"
    BY DEF RefLabels, Refers, New
  <1>6. FoundIsKnown'
    <2>1. Same(Sought) /\ Same(Unlisted) /\ Same(Freeing)
      <3>1. /\ Last(t).at \notin Sought /\ Last(t).at \notin Unlisted
            /\ Last(t).at \notin Freeing
        BY DEF Sought, Unlisted, Freeing
      <3> QED BY <1>1, <3>1, SameEnded, SameReturned
    <2> QED BY <1>1, <2>1, FoundKept DEF SameRest, listVars, SameCounts, stmtVars
  <1>7. CloseState'
    <2>1. CloseSame
      <3>1. /\ Last(t).at \notin InClose /\ Last(t).at \notin Unheld
            /\ Last(t).at \notin Let /\ Last(t).at \notin Closed
            /\ Last(t).at \notin Preparing
        BY DEF InClose, Unheld, Let, Closed, Preparing
      <3> QED BY <1>1, <3>1, SameEnded, SameReturned DEF CloseSame
    <2> QED BY <1>1, <2>1, CloseKept DEF SameRest, stmtVars
  <1>8. FreedIsClosed'
    <2>1. ASSUME depth'[t] >= 1 PROVE Last(t)'.at # "freeParent"
      <3>1. /\ Last(t)'.at = calls[t][depth[t] - 1].at
            /\ MayCall(calls[t][depth[t] - 1], Last(t))
        BY <1>1, <2>1, LastPopped
      <3> QED BY <3>1 DEF MayCall, Closing, InClose
    <2>2. Others(t) BY <1>1, PoppedIs
    <2> QED BY <1>1, <2>1, <2>2, FreedKept DEF SameRest, stmtVars
  <1> QED BY <1>2, <1>3, <1>4, <1>5, <1>6, <1>7, <1>8, QuietPopped

(* dpiGen__endPublicFn. *)
LEMMA EndPublicFnInv ==
    ASSUME LifeInv, NEW t \in Threads, EndPublicFn(t)
    PROVE  LifeInv'
  <1>1. Stacks /\ FailedIsOpen BY DEF LifeInv, TypeOK
  <1>2. At(t, "end") /\ ReturnVoid(t) /\ SameRest 
    BY DEF EndPublicFn, SameRest, connVars
  <1>3. depth[t] \in Nat \ {0} /\ Last(t).at = "end" /\ stack[t] # <<>>
    BY <1>1, <1>2, LastIs
  <1>4. Stacks' /\ Ended(t) BY <1>1, <1>2, <1>3, ReturnVoidIs
  <1>5. FailedIsOpen'
    BY <1>1, <1>2, <1>3, <1>4, FailedEnded DEF SameRest, connVars
  <1> QED BY <1>2, <1>3, <1>4, <1>5, NothingPopped

(* The closing loop goes on to the next slot, or stops at a failure. *)
LEMMA NextSlotIs ==
    ASSUME NEW g \in FrameType
    PROVE  NextSlot(g) \in FrameType /\ NextSlot(g).at = "nextSlot"
           /\ NextSlot(g).s = NULL
  <1>1. g.i + 1 \in Nat BY DEF FrameType
  <1>2. "nextSlot" \in Labels BY DEF Labels, ConnClosing
  <1>3. "nextSlot" \notin InStmt \cup {"takeRef"}
        /\ "nextSlot" \notin {"connClosed"} \cup ConnFreeing
    BY DEF InStmt, Freeing, ConnFreeing
  <1> QED BY <1>1, <1>2, <1>3 DEF NextSlot, FrameType

LEMMA ConnSlotDoneInv ==
    ASSUME LifeInv, NEW t \in Threads, ConnSlotDone(t)
    PROVE  LifeInv'
  <1>1. Stacks /\ FailedIsOpen /\ ConnState /\ TypeOK BY DEF LifeInv, TypeOK
  <1>2. At(t, "slotDone") /\ SameRest
        /\ IF Top(t).ok THEN GoOn(t, NextSlot(Top(t))) ELSE Return(t, FALSE)
    BY DEF ConnSlotDone, SameRest, connVars
  <1>3. /\ depth[t] \in Nat \ {0} /\ Last(t).at = "slotDone" /\ stack[t] # <<>>
        /\ Top(t) = Last(t) /\ Last(t) \in FrameType
    BY <1>1, <1>2, LastIs
  <1>4. CASE Top(t).ok
    <2> PICK f : f = NextSlot(Last(t)) OBVIOUS
    <2>1. f \in FrameType /\ f.at = "nextSlot" BY <1>3, NextSlotIs
    <2>2. Stacks' /\ WentOn(t, f) BY <1>1, <1>2, <1>3, <1>4, <2>1, GoOnIs
    <2>3. deadSession' \in BOOLEAN
          /\ UNCHANGED <<stmtVars, connLive, connRefs, connClosing, connHandle,
                         listVars, userVars>>
      BY <1>1, <1>2 DEF TypeOK, SameRest, connVars
    <2> QED BY <1>3, <2>1, <2>2, <2>3, ConnGoesOn
  <1>5. CASE ~Top(t).ok
    <2>1. Stacks' /\ Returned(t, FALSE) BY <1>1, <1>2, <1>3, <1>5, ReturnIs
    <2>2. connHandle
      <3>1. Any(ConnClosing) BY <1>1, <1>3, LastAny DEF ConnClosing
      <3> QED BY <1>1, <3>1 DEF ConnState
    <2>3. FailedIsOpen'
      BY <1>1, <1>2, <1>3, <2>1, <2>2, FailedReturned DEF SameRest, connVars
    <2> QED BY <1>2, <1>3, <2>1, <2>3, NothingPopped
  <1> QED BY <1>4, <1>5

(* Ending the session or detaching fails: the handle stays. *)
LEMMA ConnSessionEndFails ==
    ASSUME LifeInv, NEW t \in Threads, At(t, "sessionEnd"), Return(t, FALSE),
           SameRest
    PROVE  LifeInv'
  <1>1. Stacks /\ FailedIsOpen /\ ConnState BY DEF LifeInv, TypeOK
  <1>3. depth[t] \in Nat \ {0} /\ Last(t).at = "sessionEnd" /\ stack[t] # <<>>
    BY <1>1, LastIs
  <1>4. Stacks' /\ Returned(t, FALSE) BY <1>1, <1>3, ReturnIs
  <1>5. connHandle
    <2>1. Any(ConnClosing) BY <1>1, <1>3, LastAny DEF ConnClosing
    <2> QED BY <1>1, <2>1 DEF ConnState
  <1>6. FailedIsOpen'
    BY <1>1, <1>3, <1>4, <1>5, FailedReturned DEF SameRest, connVars
  <1> QED BY <1>3, <1>4, <1>6, NothingPopped

(* A second close of the connection is refused. *)
LEMMA ConnMarkClosingAgain ==
    ASSUME LifeInv, NEW t \in Threads, connClosing, ConnMarkClosing(t)
    PROVE  LifeInv'
  <1>1. Stacks /\ FailedIsOpen BY DEF LifeInv, TypeOK
  <1>2. At(t, "markClosing") /\ ReturnVoid(t) /\ SameRest
    BY DEF ConnMarkClosing, SameRest, connVars
  <1>3. depth[t] \in Nat \ {0} /\ Last(t).at = "markClosing" /\ stack[t] # <<>>
    BY <1>1, <1>2, LastIs
  <1>4. Stacks' /\ Ended(t) BY <1>1, <1>2, <1>3, ReturnVoidIs
  <1>5. FailedIsOpen'
    BY <1>1, <1>2, <1>3, <1>4, FailedEnded DEF SameRest, connVars
  <1> QED BY <1>2, <1>3, <1>4, <1>5, NothingPopped

(* A public close begins, and has changed nothing yet. *)
LEMMA NothingBegan ==
    ASSUME LifeInv, NEW t \in Threads, NEW f, Began(t, f), Stacks', SameRest,
           MayBegin(t, f), f.at \in {"stmtClose", "markClosing"}
    PROVE  LifeInv'
  <1>1. /\ Stacks /\ Shape /\ Alone /\ FoundIsKnown /\ CloseState
        /\ FreedIsClosed /\ TypeOK
    BY DEF LifeInv, TypeOK
  <1>2. TypeOK'
    BY <1>1 DEF TypeOK, SameRest, stmtVars, listVars, userVars, connVars
  <1>3. SameCounts BY DEF SameRest, SameCounts, stmtVars, userVars, connVars
  <1>4. MayBegin(t, f)' BY DEF MayBegin, SameRest, userVars
  <1>5. \A L \in Quiet : f.at \notin L
    BY DEF Quiet, New, Freeing, ConnFreeing, Unrefing, Unparenting, Letting
  <1>6. f.at \notin RefLabels /\ f.at # "unrefConn" /\ f.at \notin ConnClosing
        /\ f.at \notin InClose
    BY DEF RefLabels, Refers, New, ConnClosing, InClose
  <1>7. FoundIsKnown'
    <2>1. Same(Sought) /\ Same(Unlisted) /\ Same(Freeing)
      <3>1. f.at \notin Sought /\ f.at \notin Unlisted /\ f.at \notin Freeing
        BY DEF Sought, Unlisted, Freeing
      <3> QED BY <1>1, <3>1, SameBegan
    <2> QED BY <1>1, <2>1, FoundKept DEF SameRest, listVars, stmtVars
  <1>8. CloseState'
    <2>1. CloseSame
      <3>1. /\ f.at \notin InClose /\ f.at \notin Unheld /\ f.at \notin Let
            /\ f.at \notin Closed /\ f.at \notin Preparing
        BY DEF InClose, Unheld, Let, Closed, Preparing
      <3> QED BY <1>1, <3>1, SameBegan DEF CloseSame
    <2> QED BY <1>1, <2>1, CloseKept DEF SameRest, stmtVars
  <1>9. FreedIsClosed'
    <2>1. Last(t)' = f /\ Others(t) /\ f.at # "freeParent" BY DEF Last, Began
    <2> QED BY <1>1, <2>1, FreedKept DEF SameRest, stmtVars
  <1> QED BY <1>2, <1>3, <1>4, <1>5, <1>6, <1>7, <1>8, <1>9, QuietBegan

LEMMA CloseStmtInv ==
    ASSUME LifeInv, NEW t \in Threads, NEW s \in Stmts, CloseStmt(t, s)
    PROVE  LifeInv'
  <1>1. Stacks BY DEF LifeInv, TypeOK
  <1>2. stack[t] = <<>> /\ s \in userStmts[t] /\ SameRest
        /\ Start(t, Frame("stmtClose", s, TRUE))
    BY DEF CloseStmt, SameRest, connVars, Idle
  <1> PICK f : f = Frame("stmtClose", s, TRUE) OBVIOUS
  <1>3. f \in FrameType /\ f.at = "stmtClose" /\ f.s = s
    <2>1. "stmtClose" \in Labels /\ FitsLabel(s, "stmtClose")
      BY StmtLifetimeAssumption DEF Labels, Closing, FitsLabel, ConnFreeing
    <2> QED BY <2>1, FrameIs
  <1>4. Stacks' /\ Began(t, f) BY <1>1, <1>2, <1>3, StartIs
  <1>5. MayBegin(t, f) BY <1>2, <1>3 DEF MayBegin, ConnClosing
  <1> QED BY <1>2, <1>3, <1>4, <1>5, NothingBegan

LEMMA CloseConnInv ==
    ASSUME LifeInv, NEW t \in Threads, CloseConn(t)
    PROVE  LifeInv'
  <1>1. Stacks BY DEF LifeInv, TypeOK
  <1>2. stack[t] = <<>> /\ t \in userConn /\ SameRest
        /\ Start(t, Frame("markClosing", NULL, TRUE))
    BY DEF CloseConn, SameRest, connVars, Idle
  <1> PICK f : f = Frame("markClosing", NULL, TRUE) OBVIOUS
  <1>3. f \in FrameType /\ f.at = "markClosing"
    <2>1. "markClosing" \in Labels /\ FitsLabel(NULL, "markClosing")
      BY DEF Labels, Public, FitsLabel, ConnFreeing, InStmt, Freeing
    <2> QED BY <2>1, FrameIs
  <1>4. Stacks' /\ Began(t, f) BY <1>1, <1>2, <1>3, StartIs
  <1>5. MayBegin(t, f)
    BY <1>2, <1>3 DEF MayBegin, ConnClosing, Closing, InClose
  <1> QED BY <1>2, <1>3, <1>4, <1>5, NothingBegan

(* dpiStmt__free closes the statement if it is open, ... *)
LEMMA StmtFreeInv ==
    ASSUME LifeInv, NEW t \in Threads, StmtFree(t)
    PROVE  LifeInv'
  <1>1. /\ Stacks /\ Shape /\ Alone /\ FoundIsKnown /\ CloseState
        /\ FreedIsClosed /\ TypeOK
    BY DEF LifeInv, TypeOK
  <1>2. At(t, "stmtFree") /\ SameRest
        /\ Call(t, Frame("stmtClose", Top(t).s, FALSE),
                Frame("freeParent", Top(t).s, FALSE))
    BY DEF StmtFree, SameRest, connVars
  <1>3. /\ depth[t] \in Nat \ {0} /\ Last(t).at = "stmtFree" /\ stack[t] # <<>>
        /\ Top(t) = Last(t)
    BY <1>1, <1>2, LastIs
  <1> PICK s : s = Last(t).s OBVIOUS
  <1> PICK f : f = Frame("freeParent", s, FALSE) OBVIOUS
  <1> PICK callee : callee = Frame("stmtClose", s, FALSE) OBVIOUS
  <1>4. s \in Stmts BY <1>1, <1>3, LastStmt DEF InStmt, Freeing
  <1>5. f \in FrameType /\ f.at = "freeParent" /\ f.s = s
    <2>1. "freeParent" \in Labels /\ FitsLabel(s, "freeParent")
          /\ s \in Stmts \cup {NULL} /\ FALSE \in BOOLEAN
      BY <1>4, StmtLifetimeAssumption DEF Labels, Freeing, FitsLabel, ConnFreeing
    <2> QED BY <2>1, FrameIs
  <1>6. callee \in FrameType /\ callee.at = "stmtClose" /\ callee.s = s
    <2>1. "stmtClose" \in Labels /\ FitsLabel(s, "stmtClose")
          /\ s \in Stmts \cup {NULL} /\ FALSE \in BOOLEAN
      BY <1>4, StmtLifetimeAssumption DEF Labels, Closing, FitsLabel, ConnFreeing
    <2> QED BY <2>1, FrameIs
  <1>7. Stacks' /\ Called(t, callee, f) BY <1>1, <1>2, <1>3, <1>5, <1>6, CallIs
  <1>8. TypeOK'
    BY <1>1, <1>2, <1>7 DEF TypeOK, SameRest, stmtVars, listVars, userVars, connVars
  <1>9. SameCounts
    BY <1>2 DEF SameRest, SameCounts, stmtVars, userVars, connVars
  <1>10. Fits(t, f) /\ MayCall(f, callee)
    <2>1. Fits(t, Last(t)) BY <1>1, <1>3, LastFits
    <2>2. Fits(t, f)
      <3>1. f.at \notin Public /\ f.at \notin Closing /\ Last(t).at \notin Closing
            /\ f.at \notin ConnClosing /\ f.at \notin {"markClosing", "connClosed"}
            /\ f.at # "dropRef"
        BY <1>3, <1>5 DEF Public, New, Closing, InClose, ConnClosing
      <3> QED BY <1>5, <2>1, <3>1, FitsOn
    <2>3. MayCall(f, callee)
      BY <1>5, <1>6 DEF MayCall, Closing, InClose, Public, New, ConnClosing
    <2> QED BY <2>2, <2>3
  <1>11. \A L \in Quiet : Stays(Last(t), f, L) /\ callee.at \notin L
    <2>1. \A L \in Quiet \ {Freeing} : f.at \notin L /\ Last(t).at \notin L
      BY <1>3, <1>5 DEF Quiet, New, Freeing, ConnFreeing, Unrefing,
         Unparenting, Letting
    <2>2. f.at \in Freeing /\ Last(t).at \in Freeing BY <1>3, <1>5 DEF Freeing
    <2>3. \A L \in Quiet : callee.at \notin L
      BY <1>6 DEF Quiet, New, Freeing, ConnFreeing, Unrefing, Unparenting,
         Letting
    <2> QED BY <1>5, <2>1, <2>2, <2>3 DEF Stays
  <1>12. /\ f.at \notin InClose /\ callee.at \notin InClose
         /\ Last(t).at \notin RefLabels /\ f.at \notin RefLabels
         /\ callee.at \notin RefLabels
         /\ Last(t).at # "unrefConn" /\ f.at # "unrefConn"
         /\ f.at \notin ConnClosing /\ callee.at \notin ConnClosing
         /\ f.at # "connClosed"
    BY <1>3, <1>5, <1>6 DEF InClose, RefLabels, Refers, New, ConnClosing
  <1>13. FoundIsKnown'
    <2>1. Same(Sought) /\ Same(Unlisted) /\ Same(Freeing)
      <3>1. /\ f.at \notin Sought /\ f.at \notin Unlisted
            /\ Last(t).at \notin Sought /\ Last(t).at \notin Unlisted
            /\ callee.at \notin Sought /\ callee.at \notin Unlisted
            /\ callee.at \notin Freeing
            /\ Last(t).at \in Freeing /\ f.at \in Freeing
        BY <1>3, <1>5, <1>6 DEF Sought, Unlisted, Freeing
      <3> QED BY <1>1, <1>3, <1>5, <1>7, <3>1, SameCalled
    <2> QED BY <1>1, <1>2, <2>1, FoundKept DEF SameRest, listVars, stmtVars
  <1>14. CloseState'
    <2>1. CloseSame
      <3>1. /\ f.at \notin InClose /\ f.at \notin Unheld /\ f.at \notin Let
            /\ f.at \notin Closed /\ f.at \notin Preparing
            /\ callee.at \notin InClose /\ callee.at \notin Unheld
            /\ callee.at \notin Let
            /\ callee.at \notin Closed /\ callee.at \notin Preparing
            /\ Last(t).at \notin InClose /\ Last(t).at \notin Unheld
            /\ Last(t).at \notin Let
            /\ Last(t).at \notin Closed /\ Last(t).at \notin Preparing
        BY <1>3, <1>5, <1>6 DEF InClose, Unheld, Let, Closed, Preparing
      <3> QED BY <1>1, <1>3, <1>7, <3>1, SameCalled DEF CloseSame
    <2> QED BY <1>1, <1>2, <2>1, CloseKept DEF SameRest, stmtVars
  <1>15. FreedIsClosed'
    <2>1. Last(t)' = callee /\ Others(t) /\ callee.at # "freeParent"
      BY <1>6, <1>7 DEF Last, Called
    <2> QED BY <1>1, <1>2, <2>1, FreedKept DEF SameRest, stmtVars
  <1> QED BY <1>3, <1>7, <1>8, <1>9, <1>10, <1>11, <1>12, <1>13, <1>14, <1>15,
      QuietCalled

(* A statement that is freed has been closed and has no parent left. *)
LEMMA StmtFreeParentInv ==
    ASSUME LifeInv, NEW t \in Threads, StmtFreeParent(t)
    PROVE  LifeInv'
  <1>1. /\ Stacks /\ Shape /\ Alone /\ FoundIsKnown /\ CloseState
        /\ FreedIsClosed /\ TypeOK
    BY DEF LifeInv, TypeOK
  <1>2. At(t, "freeParent")
        /\ UNCHANGED <<mem, closing, handle, parent, oci, connVars, listVars,
                       userVars>>
    BY DEF StmtFreeParent
  <1>3. /\ depth[t] \in Nat \ {0} /\ Last(t).at = "freeParent" /\ stack[t] # <<>>
        /\ Top(t) = Last(t)
    BY <1>1, <1>2, LastIs
  <1> PICK s : s = Last(t).s OBVIOUS
  <1> PICK f : f = Frame("freeConn", s, FALSE) OBVIOUS
  <1>4. s \in Stmts BY <1>1, <1>3, LastStmt DEF InStmt, Freeing
  <1>5. f \in FrameType /\ f.at = "freeConn" /\ f.s = s
    <2>1. "freeConn" \in Labels /\ FitsLabel(s, "freeConn")
          /\ s \in Stmts \cup {NULL} /\ FALSE \in BOOLEAN
      BY <1>4, StmtLifetimeAssumption DEF Labels, Freeing, FitsLabel, ConnFreeing
    <2> QED BY <2>1, FrameIs
  <1>6. ~handle[s] /\ parent[s] = NULL
    <2>1. ~handle[s] BY <1>1, <1>3, <1>4 DEF FreedIsClosed, Is
    <2> QED BY <1>1, <1>4, <2>1 DEF CloseState, CloseStateAt
  <1>7. GoOn(t, f) /\ UNCHANGED refCount BY <1>3, <1>6 DEF StmtFreeParent
  <1>8. Stacks' /\ WentOn(t, f) BY <1>1, <1>3, <1>5, <1>7, GoOnIs
  <1>9. TypeOK'
    BY <1>1, <1>2, <1>7, <1>8 DEF TypeOK, listVars, userVars, connVars
  <1>10. SameCounts BY <1>2, <1>7 DEF SameCounts, userVars, connVars
  <1>11. Fits(t, f)
    <2>1. Fits(t, Last(t)) BY <1>1, <1>3, LastFits
    <2>2. f.at \notin Public /\ f.at \notin Closing /\ Last(t).at \notin Closing
          /\ f.at \notin ConnClosing /\ f.at \notin {"markClosing", "connClosed"}
          /\ f.at # "dropRef"
      BY <1>3, <1>5 DEF Public, New, Closing, InClose, ConnClosing
    <2> QED BY <1>5, <2>1, <2>2, FitsOn
  <1>12. \A L \in Quiet : Stays(Last(t), f, L)
    <2>1. \A L \in Quiet \ {Freeing} : f.at \notin L /\ Last(t).at \notin L
      BY <1>3, <1>5 DEF Quiet, New, Freeing, ConnFreeing, Unrefing,
         Unparenting, Letting
    <2>2. f.at \in Freeing /\ Last(t).at \in Freeing BY <1>3, <1>5 DEF Freeing
    <2> QED BY <1>5, <2>1, <2>2 DEF Stays
  <1>13. /\ f.at \notin InClose
         /\ Last(t).at \notin RefLabels /\ f.at \notin RefLabels
         /\ Last(t).at # "unrefConn" /\ f.at # "unrefConn"
         /\ f.at \notin ConnClosing /\ f.at # "connClosed"
    BY <1>3, <1>5 DEF InClose, RefLabels, Refers, New, ConnClosing
  <1>14. FoundIsKnown'
    <2>1. Same(Sought) /\ Same(Unlisted) /\ Same(Freeing)
      <3>1. /\ f.at \notin Sought /\ f.at \notin Unlisted
            /\ Last(t).at \notin Sought /\ Last(t).at \notin Unlisted
            /\ Last(t).at \in Freeing /\ f.at \in Freeing
        BY <1>3, <1>5 DEF Sought, Unlisted, Freeing
      <3> QED BY <1>1, <1>3, <1>5, <1>8, <3>1, SameWentOn
    <2> QED BY <1>1, <1>2, <1>7, <2>1, FoundKept DEF listVars
  <1>15. CloseState'
    <2> SUFFICES ASSUME NEW x \in Stmts PROVE CloseStateAt(x)'
      BY DEF CloseState
    <2>1. /\ Same(InClose) /\ Same(Unheld) /\ Same(Let) /\ Same(Preparing)
      <3>1. /\ f.at \notin InClose /\ f.at \notin Unheld /\ f.at \notin Let
            /\ f.at \notin Preparing
            /\ Last(t).at \notin InClose /\ Last(t).at \notin Unheld
            /\ Last(t).at \notin Let /\ Last(t).at \notin Preparing
        BY <1>3, <1>5 DEF InClose, Unheld, Let, Preparing
      <3> QED BY <1>1, <1>3, <1>8, <3>1, SameWentOn
    <2>2. x # s => (In(x, Closed)' <=> In(x, Closed))
      BY <1>1, <1>3, <1>5, <1>8, OtherWentOn
    <2>3. CloseStateAt(x) BY <1>1 DEF CloseState
    <2> QED BY <1>2, <1>6, <2>1, <2>2, <2>3 DEF CloseStateAt, Same
  <1>16. FreedIsClosed'
    <2>1. Last(t)' = f /\ Others(t) /\ f.at # "freeParent"
      BY <1>5, <1>8 DEF Last, WentOn
    <2> QED BY <1>1, <1>2, <2>1, FreedKept
  <1> QED BY <1>3, <1>5, <1>8, <1>9, <1>10, <1>11, <1>12, <1>13, <1>14, <1>15,
             <1>16, QuietWentOn

(* dpiConn__free of a connection that is closed goes on to its memory. *)
LEMMA ConnFreeClosed ==
    ASSUME LifeInv, NEW t \in Threads, ConnFree(t), ~connHandle
    PROVE  LifeInv'
  <1>1. /\ Stacks /\ Shape /\ Alone /\ FoundIsKnown /\ CloseState
        /\ FreedIsClosed /\ TypeOK
    BY DEF LifeInv, TypeOK
  <1> PICK f : f = Frame("connFreeMemory", NULL, FALSE) OBVIOUS
  <1>2. At(t, "connFree") /\ GoOn(t, f) /\ SameRest
    BY DEF ConnFree, SameRest, connVars
  <1>3. /\ depth[t] \in Nat \ {0} /\ Last(t).at = "connFree" /\ stack[t] # <<>>
        /\ Top(t) = Last(t)
    BY <1>1, <1>2, LastIs
  <1>4. Last(t).s = NULL BY <1>1, <1>3, LastStmt DEF ConnFreeing
  <1>5. f \in FrameType /\ f.at = "connFreeMemory" /\ f.s = NULL
    <2>1. "connFreeMemory" \in Labels /\ FitsLabel(NULL, "connFreeMemory")
      BY DEF Labels, Freeing, FitsLabel, ConnFreeing, InStmt
    <2> QED BY <2>1, FrameIs
  <1>8. Stacks' /\ WentOn(t, f) BY <1>1, <1>2, <1>3, <1>5, GoOnIs
  <1>9. TypeOK'
    BY <1>1, <1>2, <1>8 DEF TypeOK, SameRest, stmtVars, listVars, userVars, connVars
  <1>10. SameCounts
    BY <1>2 DEF SameCounts, SameRest, stmtVars, userVars, connVars
  <1>11. Fits(t, f)
    <2>1. Fits(t, Last(t)) BY <1>1, <1>3, LastFits
    <2>2. f.at \notin Public /\ f.at \notin Closing /\ Last(t).at \notin Closing
          /\ f.at \notin ConnClosing /\ f.at \notin {"markClosing", "connClosed"}
          /\ f.at # "dropRef"
      BY <1>3, <1>5 DEF Public, New, Closing, InClose, ConnClosing
    <2> QED BY <1>4, <1>5, <2>1, <2>2, FitsOn
  <1>12. \A L \in Quiet : Stays(Last(t), f, L)
    <2>1. \A L \in Quiet \ {ConnFreeing} : f.at \notin L /\ Last(t).at \notin L
      BY <1>3, <1>5 DEF Quiet, New, Freeing, ConnFreeing, Unrefing,
         Unparenting, Letting
    <2>2. f.at \in ConnFreeing /\ Last(t).at \in ConnFreeing
      BY <1>3, <1>5 DEF ConnFreeing
    <2> QED BY <1>4, <1>5, <2>1, <2>2 DEF Stays
  <1>13. /\ f.at \notin InClose
         /\ Last(t).at \notin RefLabels /\ f.at \notin RefLabels
         /\ Last(t).at # "unrefConn" /\ f.at # "unrefConn"
         /\ f.at \notin ConnClosing /\ f.at # "connClosed"
    BY <1>3, <1>5 DEF InClose, RefLabels, Refers, New, ConnClosing
  <1>14. FoundIsKnown'
    <2>1. Same(Sought) /\ Same(Unlisted) /\ Same(Freeing)
      <3>1. /\ f.at \notin Sought /\ f.at \notin Unlisted /\ f.at \notin Freeing
            /\ Last(t).at \notin Sought /\ Last(t).at \notin Unlisted
            /\ Last(t).at \notin Freeing
        BY <1>3, <1>5 DEF Sought, Unlisted, Freeing
      <3> QED BY <1>1, <1>3, <1>8, <3>1, SameWentOn
    <2> QED BY <1>1, <1>2, <2>1, FoundKept DEF SameRest, stmtVars, listVars
  <1>15. CloseState'
    <2>1. CloseSame
      <3>1. /\ f.at \notin InClose /\ f.at \notin Unheld /\ f.at \notin Let
            /\ f.at \notin Preparing /\ f.at \notin Closed
            /\ Last(t).at \notin InClose /\ Last(t).at \notin Unheld
            /\ Last(t).at \notin Let /\ Last(t).at \notin Preparing
            /\ Last(t).at \notin Closed
        BY <1>3, <1>5 DEF InClose, Unheld, Let, Preparing, Closed
      <3> QED BY <1>1, <1>3, <1>8, <3>1, SameWentOn DEF CloseSame
    <2> QED BY <1>1, <1>2, <2>1, CloseKept DEF SameRest, stmtVars
  <1>16. FreedIsClosed'
    <2>1. Last(t)' = f /\ Others(t) /\ f.at # "freeParent"
      BY <1>5, <1>8 DEF Last, WentOn
    <2> QED BY <1>1, <1>2, <2>1, FreedKept DEF SameRest, stmtVars
  <1> QED BY <1>3, <1>5, <1>8, <1>9, <1>10, <1>11, <1>12, <1>13, <1>14, <1>15,
             <1>16, QuietWentOn

-----------------------------------------------------------------------------
(* A statement that a thread frees is closed by no other.                   *)
LEMMA OnlyCloser ==
    ASSUME LifeInv, NEW t \in Threads, NEW n \in Nat, n = depth[t], n >= 2,
           NEW s, Is(calls[t][n - 1], s, {"freeParent"}),
           calls[t][n].at \notin InClose
    PROVE  ~In(s, InClose)
  <1>1. Alone /\ Once(Freeing) BY DEF LifeInv, Alone, Sole
  <1> SUFFICES ASSUME NEW u \in Threads, NEW k \in 1 .. depth[u],
                      calls[u][k].s = s, calls[u][k].at \in InClose
               PROVE  FALSE
    BY DEF In
  <1>2. n - 1 \in 1 .. depth[t] /\ calls[t][n - 1].s = s
        /\ calls[t][n - 1].at \in Freeing
    BY DEF Is, Freeing
  <1>3. In(s, Freeing) BY <1>2 DEF In
  <1>4. calls[u][k].at \in Closing BY DEF Closing
  <1>5. k >= 2 /\ Is(calls[u][k - 1], s, {"freeParent"})
    BY <1>3, <1>4, CloserHolds
  <1>6. depth[u] \in Nat BY DepthOf DEF LifeInv, TypeOK
  <1>7. k - 1 \in 1 .. depth[u] /\ calls[u][k - 1].s = s
        /\ calls[u][k - 1].at \in Freeing
    BY <1>5, <1>6 DEF Is, Freeing
  <1>8. u = t /\ k - 1 = n - 1 BY <1>1, <1>2, <1>7 DEF Once
  <1>9. k = n BY <1>6, <1>8
  <1> QED BY <1>8, <1>9

(* One close marks the statement as closing; any other returns. *)
LEMMA StmtMarkClosingInv ==
    ASSUME LifeInv, NEW t \in Threads, StmtMarkClosing(t)
    PROVE  LifeInv'
  <1>1. /\ Stacks /\ Shape /\ Alone /\ FoundIsKnown /\ CloseState
        /\ FreedIsClosed /\ TypeOK /\ FailedIsOpen
    BY DEF LifeInv, TypeOK
  <1>2. At(t, "stmtClose") /\ closing' = [closing EXCEPT ![Top(t).s] = TRUE]
        /\ UNCHANGED <<mem, refCount, handle, parent, oci, connVars, listVars,
                       userVars>>
    BY DEF StmtMarkClosing
  <1>3. /\ depth[t] \in Nat \ {0} /\ Last(t).at = "stmtClose"
        /\ stack[t] # <<>> /\ Top(t) = Last(t) /\ Last(t) = calls[t][depth[t]]
        /\ depth[t] \in 1 .. depth[t]
    BY <1>1, <1>2, LastIs
  <1> PICK s : s = Last(t).s OBVIOUS
  <1>4. s \in Stmts /\ mem[s] = "live" /\ ~In(s, Unlisted)
    BY <1>3, CloserHolds DEF Closing
  <1>5. ~In(s, Preparing) BY <1>4, InSub DEF Preparing, Unlisted
  <1>6. /\ closing' \in [Stmts -> BOOLEAN] /\ closing'[s] = TRUE
        /\ \A x \in Stmts : x # s => closing'[x] = closing[x]
    BY <1>1, <1>2, <1>3, <1>4 DEF TypeOK
  <1>7. SameCounts BY <1>2 DEF SameCounts, userVars, connVars
  <1>8. CloseStateAt(s) BY <1>1, <1>4 DEF CloseState
  <1>9. \A x \in Stmts : parent[x] # NULL => mem'[parent[x]] # "unused"
    BY <1>1, <1>2 DEF CloseState, CloseStateAt
  <1>10. Last(t).at \notin RefLabels /\ Last(t).at # "unrefConn"
         /\ \A L \in Quiet \cup {InClose, Unheld, Let, Closed, Preparing, Sought,
                                 Unlisted} : Last(t).at \notin L
    BY <1>3 DEF RefLabels, Refers, New, Quiet, Freeing, ConnFreeing, Unrefing,
       Unparenting, Letting, InClose, Unheld, Let, Closed, Preparing, Sought,
       Unlisted
  <1>11. CASE ~closing[s] /\ handle[s]
    <2>1. GoTo(t, "stmtRelease") BY <1>3, <1>11 DEF StmtMarkClosing
    <2>2. "stmtRelease" \in Labels /\ FitsLabel(Last(t).s, "stmtRelease")
      BY <1>4, StmtLifetimeAssumption DEF Labels, Closing, InClose, FitsLabel,
         InStmt, ConnFreeing
    <2>3. PICK f \in FrameType :
             Stacks' /\ WentOn(t, f) /\ f.at = "stmtRelease" /\ f.s = Last(t).s
      BY <1>1, <1>2, <2>1, <2>2, GoToIs
    <2>4. TypeOK'
      BY <1>1, <1>2, <1>6, <2>3 DEF TypeOK, listVars, userVars, connVars
    <2>5. Fits(t, f)
      <3>1. Fits(t, Last(t)) BY <1>1, <1>3, LastFits
      <3>2. f.at \notin Public /\ f.at \in Closing /\ Last(t).at \in Closing
            /\ f.at \notin ConnClosing /\ f.at \notin {"markClosing", "connClosed"}
            /\ f.at # "dropRef"
        BY <1>3, <2>3 DEF Public, New, Closing, InClose, ConnClosing
      <3> QED BY <2>3, <3>1, <3>2, FitsOn
    <2>6. /\ \A L \in Quiet \cup {Unheld, Let, Closed, Preparing, Sought,
                                  Unlisted} : f.at \notin L
          /\ f.at \notin RefLabels /\ f.at # "unrefConn"
          /\ f.at \notin ConnClosing /\ f.at # "connClosed"
          /\ f.at # "freeParent"
      BY <2>3 DEF RefLabels, Refers, New, Quiet, Freeing, ConnFreeing,
         Unrefing, Unparenting, Letting, Unheld, Let, Closed, Preparing,
         Sought, Unlisted, ConnClosing
    <2>7. \A L \in Quiet : Stays(Last(t), f, L) BY <1>10, <2>6 DEF Stays
    <2>8. ~In(s, InClose) BY <1>8, <1>11 DEF CloseStateAt
    <2>9. \A L \in Quiet \cup {Unheld, Let, Closed, Preparing, Sought,
                               Unlisted} : Same(L)
      BY <1>1, <1>3, <1>10, <2>3, <2>6, SameWentOn
    <2>10. FoundIsKnown'
      <3>1. Same(Sought) /\ Same(Unlisted) /\ Same(Freeing) BY <2>9 DEF Quiet
      <3> QED BY <1>1, <1>2, <3>1, FoundKept DEF listVars
    <2>11. CloseState'
      <3> SUFFICES ASSUME NEW x \in Stmts PROVE CloseStateAt(x)'
        BY DEF CloseState
      <3>1. /\ Same(Unheld) /\ Same(Let) /\ Same(Closed) /\ Same(Preparing)
        BY <2>9
      <3>2. CloseStateAt(x) BY <1>1 DEF CloseState
      <3>3. CASE x # s
        <4>1. In(x, InClose)' <=> In(x, InClose)
          BY <1>1, <1>3, <2>3, <3>3, OtherWentOn
        <4> QED BY <1>2, <1>6, <1>9, <3>1, <3>2, <3>3, <4>1, CloseAtKept DEF
            SameClose, Same
      <3>4. CASE x = s
        <4>1. In(s, InClose)' BY <1>1, <1>3, <2>3, InWentOn DEF Is, InClose
        <4> QED BY <1>2, <1>4, <1>5, <1>6, <1>9, <1>11, <3>1, <3>2, <3>4, <4>1
            DEF CloseStateAt, Same
      <3> QED BY <3>3, <3>4
    <2>12. FreedIsClosed'
      <3>1. Last(t)' = f /\ Others(t) BY <2>3 DEF Last, WentOn
      <3> QED BY <1>1, <1>2, <2>6, <3>1, FreedKept
    <2> QED BY <1>3, <1>7, <1>10, <2>3, <2>4, <2>5, <2>6, <2>7, <2>8, <2>10,
               <2>11, <2>12, QuietWentOn
  <1>12. CASE closing[s] \/ ~handle[s]
    <2>1. Return(t, TRUE) BY <1>3, <1>12 DEF StmtMarkClosing
    <2>2. Stacks' /\ Returned(t, TRUE) BY <1>1, <1>3, <2>1, ReturnIs
    <2>3. TypeOK'
      BY <1>1, <1>2, <1>6, <2>2 DEF TypeOK, listVars, userVars, connVars
    <2>4. \A L \in Quiet \cup {InClose, Unheld, Let, Closed, Preparing, Sought,
                               Unlisted} : Same(L)
      BY <1>1, <1>3, <1>10, <2>2, SameReturned
    <2>5. FoundIsKnown'
      <3>1. Same(Sought) /\ Same(Unlisted) /\ Same(Freeing) BY <2>4 DEF Quiet
      <3> QED BY <1>1, <1>2, <3>1, FoundKept DEF listVars
    <2>6. CloseState'
      <3> SUFFICES ASSUME NEW x \in Stmts PROVE CloseStateAt(x)'
        BY DEF CloseState
      <3>1. /\ Same(Unheld) /\ Same(Let) /\ Same(Closed) /\ Same(Preparing)
            /\ Same(InClose)
        BY <2>4
      <3>2. CloseStateAt(x) BY <1>1 DEF CloseState
      <3>3. CASE x # s
        BY <1>2, <1>6, <1>9, <3>1, <3>2, <3>3, CloseAtKept DEF SameClose, Same
      <3>4. CASE x = s
        BY <1>2, <1>4, <1>5, <1>6, <1>9, <1>12, <3>1, <3>2, <3>4 DEF
           CloseStateAt, Same
      <3> QED BY <3>3, <3>4
    <2>7. FreedIsClosed'
      <3> SUFFICES ASSUME NEW u \in Threads, NEW x \in Stmts, depth'[u] >= 1,
                          Is(Last(u)', x, {"freeParent"})
                   PROVE  ~handle[x]
        BY <1>2 DEF FreedIsClosed, Is
      <3>1. CASE u # t
        <4>1. depth'[u] = depth[u] /\ Last(u)' = Last(u)
          BY <2>2, <3>1, LastOthers DEF Returned
        <4> QED BY <1>1, <4>1 DEF FreedIsClosed
      <3>2. CASE u = t
        <4>1. /\ depth[t] >= 2
              /\ Last(t)'.at = calls[t][depth[t] - 1].at
              /\ Last(t)'.s = calls[t][depth[t] - 1].s
              /\ MayCall(calls[t][depth[t] - 1], Last(t))
          BY <1>1, <1>3, <2>2, <3>2, LastPopped
        <4>2. calls[t][depth[t] - 1].s = s /\ x = s
          BY <1>3, <3>2, <4>1 DEF Is, MayCall, Closing
        <4>3. Is(calls[t][depth[t] - 1], s, {"freeParent"})
          BY <3>2, <4>1, <4>2 DEF Is
        <4>4. \E n \in Nat : n = depth[t] BY <1>3
        <4>5. ~In(s, InClose)
          <5> PICK n \in Nat : n = depth[t] BY <4>4
          <5>1. n >= 2 /\ Is(calls[t][n - 1], s, {"freeParent"})
                /\ calls[t][n].at \notin InClose
            BY <1>3, <1>10, <4>1, <4>3
          <5> QED BY <5>1, OnlyCloser
        <4> QED BY <1>8, <1>12, <4>2, <4>5 DEF CloseStateAt
      <3> QED BY <3>1, <3>2
    <2>8. FailedIsOpen' BY <1>1, <1>2, <1>3, <2>2, FailedReturned DEF connVars
    <2> QED BY <1>3, <1>7, <1>10, <2>2, <2>3, <2>5, <2>6, <2>7, <2>8, QuietPopped
  <1> QED BY <1>11, <1>12

(* dpiStmt__close ends; it can be tried again if it failed. *)
LEMMA StmtClosedInv ==
    ASSUME LifeInv, NEW t \in Threads, StmtClosed(t)
    PROVE  LifeInv'
  <1>1. /\ Stacks /\ Shape /\ Alone /\ FoundIsKnown /\ CloseState
        /\ FreedIsClosed /\ TypeOK /\ FailedIsOpen
    BY DEF LifeInv, TypeOK
  <1>2. /\ At(t, "closed") /\ handle' = [handle EXCEPT ![Top(t).s] = FALSE]
        /\ closing' = closing \/ closing' = [closing EXCEPT ![Top(t).s] = FALSE]
        /\ Return(t, Top(t).ok)
        /\ UNCHANGED <<mem, refCount, parent, oci, connVars, listVars, userVars>>
    BY DEF StmtClosed
  <1>3. /\ depth[t] \in Nat \ {0} /\ Last(t).at = "closed"
        /\ stack[t] # <<>> /\ Top(t) = Last(t) /\ Last(t) = calls[t][depth[t]]
        /\ Last(t) \in FrameType
    BY <1>1, <1>2, LastIs
  <1> PICK s : s = Last(t).s OBVIOUS
  <1> PICK ok : ok = Last(t).ok OBVIOUS
  <1>4. s \in Stmts /\ ok \in BOOLEAN
    BY <1>1, <1>3, LastStmt DEF InStmt, FrameType
  <1>5. /\ closing' \in [Stmts -> BOOLEAN] /\ handle' \in [Stmts -> BOOLEAN]
        /\ ~handle'[s]
        /\ \A x \in Stmts : x # s => closing'[x] = closing[x]
                                     /\ handle'[x] = handle[x]
        /\ \A x \in Stmts : handle'[x] => handle[x]
    BY <1>1, <1>2, <1>3, <1>4 DEF TypeOK
  <1>6. Stacks' /\ Returned(t, ok) BY <1>1, <1>2, <1>3, <1>4, ReturnIs
  <1>7. SameCounts BY <1>2 DEF SameCounts, userVars, connVars
  <1>8. TypeOK'
    BY <1>1, <1>2, <1>5, <1>6 DEF TypeOK, listVars, userVars, connVars
  <1>9. /\ Last(t).at \notin RefLabels /\ Last(t).at # "unrefConn"
        /\ \A L \in Quiet \cup {Closed, Preparing, Sought, Unlisted} :
              Last(t).at \notin L
    BY <1>3 DEF RefLabels, Refers, New, Quiet, Freeing, ConnFreeing, Unrefing,
       Unparenting, Letting, Closed, Preparing, Sought, Unlisted
  <1>10. \A L \in Quiet \cup {Closed, Preparing, Sought, Unlisted} : Same(L)
    BY <1>1, <1>3, <1>6, <1>9, SameReturned
  <1>11. FoundIsKnown'
    <2>1. Same(Sought) /\ Same(Unlisted) /\ Same(Freeing) BY <1>10 DEF Quiet
    <2> QED BY <1>1, <1>2, <2>1, FoundKept DEF listVars
  <1>12. CloseStateAt(s) BY <1>1, <1>4 DEF CloseState
  <1>13. In(s, InClose) /\ In(s, Unheld) BY <1>3, LastIn DEF InClose, Unheld
  <1>14. ~In(s, InClose)' /\ ~In(s, Unheld)' /\ ~In(s, Let)'
    <2>1. Once(InClose) BY <1>1 DEF Alone, Sole
    <2>2. ~Elsewhere(t, s, InClose) BY <1>3, <2>1, LastOnce DEF InClose
    <2>3. ~Elsewhere(t, s, Unheld) /\ ~Elsewhere(t, s, Let)
      BY <2>2 DEF Elsewhere, InClose, Unheld, Let
    <2> QED BY <1>1, <1>3, <1>6, <2>2, <2>3, InReturned
  <1>15. CloseState'
    <2> SUFFICES ASSUME NEW x \in Stmts PROVE CloseStateAt(x)'
      BY DEF CloseState
    <2>1. CloseStateAt(x) /\ Same(Closed) /\ Same(Preparing)
      BY <1>1, <1>10 DEF CloseState
    <2>2. parent[x] # NULL => mem'[parent[x]] # "unused"
      BY <1>2, <2>1 DEF CloseStateAt
    <2>3. CASE x # s
      <3>1. SameClose(x)
        BY <1>1, <1>3, <1>4, <1>6, <2>3, OtherPopped DEF SameClose
      <3> QED BY <1>2, <1>5, <2>1, <2>2, <2>3, <3>1, CloseAtKept
    <2>4. CASE x = s
      <3>1. /\ parent'[s] = NULL /\ ~handle'[s] /\ mem'[s] # "unused"
            /\ ~In(s, Preparing)'
        BY <1>2, <1>5, <1>12, <1>13, <1>4, <2>1 DEF CloseStateAt, Same
      <3> QED BY <1>14, <2>4, <3>1 DEF CloseStateAt
    <2> QED BY <2>3, <2>4
  <1>16. depth[t] >= 2 => calls[t][depth[t] - 1].at \in {"dropRef", "freeParent"}
                          /\ calls[t][depth[t] - 1].s = s
    <2>1. Fits(t, Last(t)) BY <1>1, <1>3, LastFits
    <2> QED BY <1>3, <2>1 DEF Fits, MayCall, Closing, InClose
  <1>17. FreedIsClosed'
    <2> SUFFICES ASSUME NEW u \in Threads, NEW x \in Stmts, depth'[u] >= 1,
                        Is(Last(u)', x, {"freeParent"})
                 PROVE  ~handle'[x]
      BY DEF FreedIsClosed, Is
    <2>1. CASE u # t
      <3>1. depth'[u] = depth[u] /\ Last(u)' = Last(u)
        BY <1>6, <2>1, LastOthers DEF Returned
      <3> QED BY <1>1, <1>5, <3>1 DEF FreedIsClosed
    <2>2. CASE u = t
      <3>1. depth[t] >= 2 /\ Last(t)'.s = calls[t][depth[t] - 1].s
        BY <1>1, <1>3, <1>6, <1>4, <2>2, LastPopped
      <3> QED BY <1>5, <1>16, <2>2, <3>1 DEF Is
    <2> QED BY <2>1, <2>2
  <1>18. FailedIsOpen'
    <2>1. depth[t] >= 2 => calls[t][depth[t] - 1].at # "connClosed" BY <1>16
    <2> QED BY <1>1, <1>2, <1>3, <1>4, <1>6, <2>1, FailedReturned DEF connVars
  <1> QED BY <1>3, <1>4, <1>6, <1>7, <1>8, <1>9, <1>11, <1>15, <1>17, <1>18,
      QuietPopped

-----------------------------------------------------------------------------
(* What a step on statements leaves of the connection.                      *)
SameConn ==
    UNCHANGED <<connLive, connRefs, connClosing, connHandle, userConn, mem>>
ConnMarks == {Letting, ConnFreeing, {"connClosed"}}
ConnInv == ConnCounted /\ ConnState /\ FailedIsOpen

(* Steps of statements keep what is known of the connection. *)
LEMMA ConnWentOn ==
    ASSUME LifeInv, NEW t \in Threads, depth[t] \in Nat \ {0}, NEW f,
           WentOn(t, f), SameConn,
           \A L \in ConnMarks : Last(t).at \notin L /\ f.at \notin L,
           Last(t).at # "unrefConn", f.at # "unrefConn",
           f.at \in ConnClosing => Last(t).at \in ConnClosing
    PROVE  ConnInv'
  <1>1. Stacks /\ Shape /\ ConnCounted /\ ConnState /\ FailedIsOpen
    BY DEF LifeInv, TypeOK
  <1>2. Same(Letting) /\ Same(ConnFreeing) /\ Same({"connClosed"})
    BY <1>1, SameWentOn DEF ConnMarks
  <1>3. \A u \in Threads : UnrefsConn(u)' <=> UnrefsConn(u)
    <2>1. UnrefsConn(t)' <=> UnrefsConn(t) BY <1>1, UnrefsWentOn
    <2> QED BY <2>1, CallRefOthers DEF WentOn
  <1>4. Keepers' = Keepers BY <1>2, <1>3, KeepersSame DEF SameConn
  <1>5. ConnCounted' BY <1>1, <1>2, <1>4, ConnCountedKept DEF SameConn
  <1>6. Any(ConnClosing)' => Any(ConnClosing) BY <1>1, AnyWentOn
  <1>7. ConnState' BY <1>1, <1>2, <1>4, <1>6, ConnStateKept DEF SameConn
  <1>8. FailedIsOpen' BY <1>1, FailedWentOn DEF SameConn, ConnMarks
  <1> QED BY <1>5, <1>7, <1>8 DEF ConnInv

LEMMA ConnCalled ==
    ASSUME LifeInv, NEW t \in Threads, depth[t] \in Nat \ {0}, NEW f,
           NEW callee, Called(t, callee, f), SameConn,
           \A L \in ConnMarks : Last(t).at \notin L /\ f.at \notin L
                                /\ callee.at \notin L,
           Last(t).at # "unrefConn", f.at # "unrefConn",
           f.at \in ConnClosing => Last(t).at \in ConnClosing,
           callee.at \notin ConnClosing
    PROVE  ConnInv'
  <1>1. Stacks /\ Shape /\ ConnCounted /\ ConnState /\ FailedIsOpen
    BY DEF LifeInv, TypeOK
  <1>2. Same(Letting) /\ Same(ConnFreeing) /\ Same({"connClosed"})
    BY <1>1, SameCalled DEF ConnMarks
  <1>3. \A u \in Threads : UnrefsConn(u)' <=> UnrefsConn(u)
    <2>1. UnrefsConn(t)' <=> UnrefsConn(t) BY <1>1, UnrefsCalled
    <2> QED BY <2>1, CallRefOthers DEF Called
  <1>4. Keepers' = Keepers BY <1>2, <1>3, KeepersSame DEF SameConn
  <1>5. ConnCounted' BY <1>1, <1>2, <1>4, ConnCountedKept DEF SameConn
  <1>6. Any(ConnClosing)' => Any(ConnClosing) BY <1>1, AnyCalled
  <1>7. ConnState' BY <1>1, <1>2, <1>4, <1>6, ConnStateKept DEF SameConn
  <1>8. FailedIsOpen' BY <1>1, FailedCalled DEF SameConn, ConnMarks
  <1> QED BY <1>5, <1>7, <1>8 DEF ConnInv

LEMMA ConnEnded ==
    ASSUME LifeInv, NEW t \in Threads, depth[t] \in Nat \ {0}, Ended(t),
           SameConn, \A L \in ConnMarks : Last(t).at \notin L,
           Last(t).at # "unrefConn"
    PROVE  ConnInv'
  <1>1. Stacks /\ Shape /\ ConnCounted /\ ConnState /\ FailedIsOpen
    BY DEF LifeInv, TypeOK
  <1>2. Same(Letting) /\ Same(ConnFreeing) /\ Same({"connClosed"})
    BY <1>1, SameEnded DEF ConnMarks
  <1>3. \A u \in Threads : UnrefsConn(u)' <=> UnrefsConn(u)
    <2>1. UnrefsConn(t)' <=> UnrefsConn(t) BY <1>1, UnrefsPopped
    <2> QED BY <2>1, CallRefOthers DEF Ended
  <1>4. Keepers' = Keepers BY <1>2, <1>3, KeepersSame DEF SameConn
  <1>5. ConnCounted' BY <1>1, <1>2, <1>4, ConnCountedKept DEF SameConn
  <1>6. Any(ConnClosing)' => Any(ConnClosing) BY <1>1, AnyPopped
  <1>7. ConnState' BY <1>1, <1>2, <1>4, <1>6, ConnStateKept DEF SameConn
  <1>8. FailedIsOpen' BY <1>1, FailedEnded DEF SameConn
  <1> QED BY <1>5, <1>7, <1>8 DEF ConnInv

LEMMA ConnBegan ==
    ASSUME LifeInv, NEW t \in Threads, NEW f, Began(t, f), SameConn,
           \A L \in ConnMarks : f.at \notin L, f.at # "unrefConn",
           f.at \notin ConnClosing
    PROVE  ConnInv'
  <1>1. Stacks /\ Shape /\ ConnCounted /\ ConnState /\ FailedIsOpen
    BY DEF LifeInv, TypeOK
  <1>2. Same(Letting) /\ Same(ConnFreeing) /\ Same({"connClosed"})
    BY <1>1, SameBegan DEF ConnMarks
  <1>3. \A u \in Threads : UnrefsConn(u)' <=> UnrefsConn(u)
    <2>1. UnrefsConn(t)' <=> UnrefsConn(t) BY <1>1, CallRefBegan
    <2> QED BY <2>1, CallRefOthers DEF Began
  <1>4. Keepers' = Keepers BY <1>2, <1>3, KeepersSame DEF SameConn
  <1>5. ConnCounted' BY <1>1, <1>2, <1>4, ConnCountedKept DEF SameConn
  <1>6. Any(ConnClosing)' => Any(ConnClosing) BY <1>1, AnyBegan
  <1>7. ConnState' BY <1>1, <1>2, <1>4, <1>6, ConnStateKept DEF SameConn
  <1>8. FailedIsOpen' BY <1>1, FailedBegan DEF SameConn, ConnMarks
  <1> QED BY <1>5, <1>7, <1>8 DEF ConnInv

LEMMA ConnStill ==
    ASSUME LifeInv, UNCHANGED stack, SameConn
    PROVE  ConnInv'
  <1>1. Stacks /\ Shape /\ ConnCounted /\ ConnState /\ FailedIsOpen
    BY DEF LifeInv, TypeOK
  <1>2. Same(Letting) /\ Same(ConnFreeing) /\ Same({"connClosed"}) BY SameStill
  <1>3. \A u \in Threads : UnrefsConn(u)' <=> UnrefsConn(u)
    BY SameStacks DEF UnrefsConn
  <1>4. Keepers' = Keepers BY <1>2, <1>3, KeepersSame DEF SameConn
  <1>5. ConnCounted' BY <1>1, <1>2, <1>4, ConnCountedKept DEF SameConn
  <1>6. Any(ConnClosing)' => Any(ConnClosing) BY AnyStill
  <1>7. ConnState' BY <1>1, <1>2, <1>4, <1>6, ConnStateKept DEF SameConn
  <1>8. FailedIsOpen' BY <1>1, FailedStill DEF SameConn
  <1> QED BY <1>5, <1>7, <1>8 DEF ConnInv

-----------------------------------------------------------------------------
(* A statement that is being prepared.                                      *)
LEMMA Preparer ==
    ASSUME LifeInv, NEW t \in Threads, depth[t] \in Nat \ {0},
           Last(t).at \in New, NEW s, s = Last(t).s
    PROVE  /\ s \in Stmts /\ CallRef(t) = s /\ <<t, "call">> \in Refs(s)
           /\ mem[s] = "live" /\ ~In(s, Freeing) /\ depth[t] = 1
           /\ In(s, New) /\ ~Elsewhere(t, s, New)
           /\ parent[s] = NULL /\ ~In(s, Unrefing)
           /\ \A u \in Threads : s \notin userStmts[u]
           /\ \A c \in Stmts : parent[c] # s
  <1>1. Stacks /\ Shape /\ Alone /\ NewIsAlone BY DEF LifeInv, TypeOK
  <1>2. depth[t] \in 1 .. depth[t] /\ calls[t][depth[t]] = Last(t) BY DEF Last
  <1>3. Last(t).at \in RefLabels /\ Last(t).at \in Public
    BY DEF RefLabels, Refers, Public
  <1>4. /\ s \in Stmts /\ CallRef(t) = s /\ <<t, "call">> \in Refs(s)
        /\ mem[s] = "live" /\ ~In(s, Freeing)
    BY <1>2, <1>3, HeldByCall
  <1>5. depth[t] = 1 BY <1>1, <1>2, <1>3, PublicIsFirst
  <1>6. In(s, New) BY LastIn
  <1>7. ~Elsewhere(t, s, New) BY <1>1, LastOnce DEF Alone, Sole
  <1> QED BY <1>1, <1>4, <1>5, <1>6, <1>7 DEF NewIsAlone

(* A statement that is not yet listed is not being closed. *)
LEMMA UnlistedIsOpen ==
    ASSUME LifeInv, NEW s, In(s, Unlisted)
    PROVE  ~In(s, Closing) /\ ~In(s, InClose) /\ ~In(s, Unheld) /\ ~In(s, Let)
  <1>1. ~In(s, Closing) BY CloserHolds DEF In
  <1>2. InClose \subseteq Closing /\ Unheld \subseteq Closing /\ Let \subseteq Closing
    BY DEF InClose, Unheld, Let, Closing
  <1> QED BY <1>1, <1>2, InSub

(* Nobody else knows it before it is listed. *)
LEMMA UnlistedIsMine ==
    ASSUME LifeInv, NEW t \in Threads, depth[t] \in Nat \ {0},
           Last(t).at \in Unlisted, NEW s, s = Last(t).s
    PROVE  \A u \in Threads : u # t => CallRef(u) # s
  <1> SUFFICES ASSUME NEW u \in Threads, u # t, CallRef(u) = s PROVE FALSE
    OBVIOUS
  <1>1. Stacks /\ Shape /\ FoundIsKnown BY DEF LifeInv, TypeOK
  <1>2. Last(t).at \in New /\ In(s, Unlisted) BY LastIn DEF New, Unlisted
  <1>3. s \in Stmts /\ ~Elsewhere(t, s, New) /\ ~In(s, Unrefing) /\ s # NULL
    BY <1>2, Preparer, StmtLifetimeAssumption
  <1>4. PICK k \in 1 .. depth[u] : Is(calls[u][k], s, RefLabels)
    BY <1>1, <1>3, CallRefIs
  <1>5. calls[u][k].at \notin New BY <1>3, <1>4 DEF Elsewhere, Is
  <1>6. calls[u][k].at # "unref" BY <1>3, <1>4 DEF In, Is, Unrefing
  <1>7. calls[u][k].at # "dropRef"
    <2>1. calls[u][k].at = "dropRef" => In(s, Sought)
      BY <1>4 DEF In, Is, Sought
    <2> QED BY <1>1, <1>2, <1>3, <2>1 DEF FoundIsKnown, Found
  <1> QED BY <1>4, <1>5, <1>6, <1>7 DEF Is, RefLabels, Refers

-----------------------------------------------------------------------------
(* Preparing a statement.                                                   *)
LEMMA NewGoesOn ==
    ASSUME LifeInv, NEW t \in Threads, depth[t] \in Nat \ {0},
           NEW f \in FrameType, WentOn(t, f), SameCounts,
           Last(t).at \in Unlisted, f.at \in {"addHandle", "init"},
           f.s = Last(t).s,
           \A x \in Stmts : x # f.s => handle'[x] = handle[x],
           TypeOK', FoundIsKnown', CloseState'
    PROVE  LifeInv'
  <1>1. /\ Stacks /\ Shape /\ FreedIsClosed BY DEF LifeInv, TypeOK
  <1>2. Last(t).at \in New /\ f.at \in New /\ Last(t).at \in Public
        /\ f.at \in Public
    BY DEF Unlisted, New, Public
  <1>3. Fits(t, f)
    <2>1. Fits(t, Last(t)) BY <1>1, LastFits
    <2>2. f.at \notin Closing /\ Last(t).at \notin Closing
          /\ f.at \notin ConnClosing /\ f.at \notin {"markClosing", "connClosed"}
          /\ f.at # "dropRef"
      BY DEF Unlisted, Closing, InClose, ConnClosing
    <2> QED BY <1>2, <2>1, <2>2, FitsOn
  <1>4. \A L \in Quiet : Stays(Last(t), f, L)
    <2>1. \A L \in Quiet \ {New} : f.at \notin L /\ Last(t).at \notin L
      BY DEF Unlisted, Quiet, Freeing, ConnFreeing, Unrefing, Unparenting, Letting
    <2> QED BY <1>2, <2>1 DEF Stays
  <1>5. f.at \notin InClose /\ f.at \notin ConnClosing /\ f.at # "connClosed"
        /\ Last(t).at # "unrefConn" /\ f.at # "unrefConn" /\ f.at # "freeParent"
    BY DEF InClose, ConnClosing, Unlisted
  <1>6. ~In(f.s, Freeing) /\ f.s \in Stmts BY <1>2, Preparer
  <1>7. FreedIsClosed'
    <2> SUFFICES ASSUME NEW u \in Threads, NEW x \in Stmts, depth'[u] >= 1,
                        Is(Last(u)', x, {"freeParent"})
                 PROVE  ~handle'[x]
      BY DEF FreedIsClosed, Is
    <2>1. Last(t)' = f BY DEF Last, WentOn
    <2>2. u # t BY <1>5, <2>1 DEF Is
    <2>3. depth'[u] = depth[u] /\ Last(u)' = Last(u)
      BY <2>2, LastOthers DEF WentOn
    <2>4. depth[u] \in Nat \ {0} BY <1>1, <2>3, DepthOf
    <2>5. In(x, Freeing) BY <2>3, <2>4, LastIn DEF Is, Freeing
    <2> QED BY <1>1, <1>6, <2>3, <2>5 DEF FreedIsClosed
  <1> QED BY <1>2, <1>3, <1>4, <1>5, <1>7, QuietWentOn

(* The OCI statement is prepared; then the statement is listed. *)
LEMMA StmtPreparedInv ==
    ASSUME LifeInv, NEW t \in Threads, At(t, "prepare"), GoTo(t, "addHandle"),
           handle' = [handle EXCEPT ![Top(t).s] = TRUE],
           oci' = [oci EXCEPT ![Top(t).s] = "open"],
           UNCHANGED <<mem, refCount, closing, parent, connVars, listVars,
                       userVars>>
    PROVE  LifeInv'
  <1>1. /\ Stacks /\ Shape /\ FoundIsKnown /\ CloseState /\ TypeOK
    BY DEF LifeInv, TypeOK
  <1>3. /\ depth[t] \in Nat \ {0} /\ Last(t).at = "prepare"
        /\ Top(t) = Last(t)
    BY <1>1, LastIs
  <1> PICK s : s = Last(t).s OBVIOUS
  <1>4. Last(t).at \in New /\ Last(t).at \in Unlisted /\ Last(t).at \in Preparing
    BY <1>3 DEF New, Unlisted, Preparing
  <1>5. /\ s \in Stmts /\ mem[s] = "live" /\ ~In(s, Freeing)
        /\ ~Elsewhere(t, s, New) /\ parent[s] = NULL
    BY <1>3, <1>4, Preparer
  <1>6. "addHandle" \in Labels /\ FitsLabel(s, "addHandle")
    BY <1>5, StmtLifetimeAssumption DEF Labels, Public, New, FitsLabel,
       ConnFreeing
  <1>7. PICK f \in FrameType :
           Stacks' /\ WentOn(t, f) /\ f.at = "addHandle" /\ f.s = s
    BY <1>1, <1>6, GoToIs
  <1>8. TypeOK'
    BY <1>1, <1>3, <1>5, <1>7 DEF TypeOK, listVars, userVars, connVars
  <1>9. SameCounts BY DEF SameCounts, userVars, connVars
  <1>10. /\ handle'[s] = TRUE /\ oci'[s] = "open"
         /\ \A x \in Stmts : x # s => handle'[x] = handle[x] /\ oci'[x] = oci[x]
    BY <1>1, <1>3, <1>5 DEF TypeOK
  <1>11. FoundIsKnown'
    <2>1. Same(Sought) /\ Same(Unlisted) /\ Same(Freeing)
      <3>1. /\ f.at \notin Sought /\ f.at \notin Freeing /\ f.at \in Unlisted
            /\ Last(t).at \notin Sought /\ Last(t).at \notin Freeing
        BY <1>3, <1>7 DEF Sought, Unlisted, Freeing
      <3> QED BY <1>1, <1>3, <1>4, <1>7, <3>1, SameWentOn
    <2> QED BY <1>1, <2>1, FoundKept DEF listVars
  <1>12. CloseState'
    <2> SUFFICES ASSUME NEW x \in Stmts PROVE CloseStateAt(x)'
      BY DEF CloseState
    <2>1. CloseStateAt(x) BY <1>1 DEF CloseState
    <2>2. parent[x] # NULL => mem'[parent[x]] # "unused"
      BY <2>1 DEF CloseStateAt
    <2>3. CASE x # s
      <3>1. SameClose(x) BY <1>1, <1>3, <1>7, <2>3, OtherWentOn DEF SameClose
      <3> QED BY <1>10, <2>1, <2>2, <2>3, <3>1, CloseAtKept
    <2>4. CASE x = s
      <3>1. In(s, Unlisted) /\ In(s, Preparing) BY <1>3, <1>4, LastIn
      <3>2. ~In(s, InClose) /\ ~In(s, Unheld) /\ ~In(s, Let)
        BY <3>1, UnlistedIsOpen
      <3>3. ~In(s, Closed) BY <1>5, InSub DEF Closed, Freeing
      <3>4. ~In(s, InClose)' /\ ~In(s, Unheld)' /\ ~In(s, Let)' /\ ~In(s, Closed)'
        <4>1. /\ f.at \notin InClose /\ Last(t).at \notin InClose
              /\ f.at \notin Unheld /\ Last(t).at \notin Unheld
              /\ f.at \notin Let /\ Last(t).at \notin Let
              /\ f.at \notin Closed /\ Last(t).at \notin Closed
          BY <1>3, <1>7 DEF InClose, Unheld, Let, Closed
        <4>2. Same(InClose) /\ Same(Unheld) /\ Same(Let) /\ Same(Closed)
          BY <1>1, <1>3, <1>7, <4>1, SameWentOn
        <4> QED BY <1>5, <3>2, <3>3, <4>2 DEF Same
      <3>5. ~In(s, Preparing)'
        <4>1. ~Elsewhere(t, s, Preparing) BY <1>5 DEF Elsewhere, Preparing, New
        <4> QED BY <1>1, <1>3, <1>7, <4>1, InWentOn DEF Is, Preparing
      <3>6. ~closing[s] /\ mem'[s] = "live" /\ parent'[s] = NULL
        BY <1>5, <2>1, <2>4, <3>1 DEF CloseStateAt
      <3> QED BY <1>10, <2>4, <3>4, <3>5, <3>6 DEF CloseStateAt
    <2> QED BY <2>3, <2>4
  <1> QED BY <1>3, <1>4, <1>7, <1>8, <1>9, <1>10, <1>11, <1>12, NewGoesOn

(* The list after a handle has been added. *)
LEMMA Added ==
    ASSUME TypeOK, NEW s \in Stmts, List!AddHandle(s)
    PROVE  /\ numSlots' \in Nat
           /\ openStmts' \in [0 .. numSlots' - 1 -> Stmts \cup {NULL}]
           /\ \A x \in Stmts :
                 (\E i \in 0 .. numSlots' - 1 : openStmts'[i] = x)
                 => x = s \/ \E i \in 0 .. numSlots - 1 : openStmts[i] = x
  <1>1. CASE List!AddHandleGrow(s)
    <2>1. /\ numSlots' = numSlots + Growth
          /\ openStmts' = [i \in 0 .. numSlots' - 1 |->
                               IF i = numUsedSlots THEN s
                               ELSE IF i \in 0 .. numSlots - 1 THEN openStmts[i]
                               ELSE NULL]
      BY <1>1 DEF List!AddHandleGrow, List!Slots
    <2>2. numSlots' \in Nat BY <2>1, StmtLifetimeAssumption DEF TypeOK
    <2> QED BY <2>1, <2>2, StmtLifetimeAssumption DEF TypeOK
  <1>2. CASE List!AddHandleScan(s)
    <2>1. PICK p : openStmts' = [openStmts EXCEPT ![p] = s]
      BY <1>2 DEF List!AddHandleScan
    <2>2. numSlots' = numSlots BY <1>2 DEF List!AddHandleScan
    <2> QED BY <2>1, <2>2 DEF TypeOK
  <1> QED BY <1>1, <1>2 DEF List!AddHandle

LEMMA StmtAddedInv ==
    ASSUME LifeInv, NEW t \in Threads, At(t, "addHandle"), GoTo(t, "init"),
           List!AddHandle(Top(t).s),
           UNCHANGED <<stmtVars, connVars, userVars>>
    PROVE  LifeInv'
  <1>1. /\ Stacks /\ Shape /\ FoundIsKnown /\ CloseState /\ TypeOK
    BY DEF LifeInv, TypeOK
  <1>3. /\ depth[t] \in Nat \ {0} /\ Last(t).at = "addHandle"
        /\ Top(t) = Last(t)
    BY <1>1, LastIs
  <1> PICK s : s = Last(t).s OBVIOUS
  <1>4. Last(t).at \in New /\ Last(t).at \in Unlisted BY <1>3 DEF New, Unlisted
  <1>5. /\ s \in Stmts /\ mem[s] = "live" /\ ~In(s, Freeing)
        /\ ~Elsewhere(t, s, New)
    BY <1>3, <1>4, Preparer
  <1>6. "init" \in Labels /\ FitsLabel(s, "init")
    BY <1>5, StmtLifetimeAssumption DEF Labels, Public, New, FitsLabel,
       ConnFreeing
  <1>7. PICK f \in FrameType :
           Stacks' /\ WentOn(t, f) /\ f.at = "init" /\ f.s = s
    BY <1>1, <1>6, GoToIs
  <1>13. /\ numSlots' \in Nat
         /\ openStmts' \in [0 .. numSlots' - 1 -> Stmts \cup {NULL}]
         /\ \A x \in Stmts :
               (\E i \in 0 .. numSlots' - 1 : openStmts'[i] = x)
               => x = s \/ \E i \in 0 .. numSlots - 1 : openStmts[i] = x
    BY <1>1, <1>3, <1>5, Added
  <1>8. TypeOK' BY <1>1, <1>7, <1>13 DEF TypeOK, stmtVars, userVars, connVars
  <1>9. SameCounts BY DEF SameCounts, stmtVars, userVars, connVars
  <1>11. FoundIsKnown'
    <2>1. Same(Sought) /\ Same(Freeing)
      <3>1. /\ f.at \notin Sought /\ f.at \notin Freeing
            /\ Last(t).at \notin Sought /\ Last(t).at \notin Freeing
        BY <1>3, <1>7 DEF Sought, Freeing
      <3> QED BY <1>1, <1>3, <1>7, <3>1, SameWentOn
    <2>2. ~In(s, Unlisted)'
      <3>1. ~Elsewhere(t, s, Unlisted) BY <1>5 DEF Elsewhere, Unlisted, New
      <3> QED BY <1>1, <1>3, <1>7, <3>1, InWentOn DEF Is, Unlisted
    <2> SUFFICES ASSUME NEW x \in Stmts, Found(x)'
                 PROVE  /\ mem[x] # "unused" /\ ~In(x, Unlisted)'
                        /\ In(x, Freeing)' => refCount[x] = 0
      BY DEF FoundIsKnown, stmtVars
    <2>3. CASE x = s BY <1>5, <2>1, <2>2, <2>3 DEF Same
    <2>4. CASE x # s
      <3>1. In(x, Unlisted)' <=> In(x, Unlisted)
        BY <1>1, <1>3, <1>7, <2>4, OtherWentOn
      <3>2. Found(x) BY <1>13, <2>1, <2>4 DEF Found, Same
      <3> QED BY <1>1, <2>1, <3>1, <3>2 DEF FoundIsKnown, Same
    <2> QED BY <2>3, <2>4
  <1>12. CloseState'
    <2>1. CloseSame
      <3>1. /\ f.at \notin InClose /\ f.at \notin Unheld /\ f.at \notin Let
            /\ f.at \notin Preparing /\ f.at \notin Closed
            /\ Last(t).at \notin InClose /\ Last(t).at \notin Unheld
            /\ Last(t).at \notin Let /\ Last(t).at \notin Preparing
            /\ Last(t).at \notin Closed
        BY <1>3, <1>7 DEF InClose, Unheld, Let, Preparing, Closed
      <3> QED BY <1>1, <1>3, <1>7, <3>1, SameWentOn DEF CloseSame
    <2> QED BY <1>1, <2>1, CloseKept DEF stmtVars
  <1> QED BY <1>3, <1>4, <1>7, <1>8, <1>9, <1>11, <1>12, NewGoesOn DEF stmtVars

(* If a step fails, the statement is freed: it is its call's only.          *)
LEMMA NewFreed ==
    ASSUME LifeInv, NEW t \in Threads, NEW l \in Unlisted, At(t, l),
           GoTo(t, "stmtFree"), NEW s, s = Top(t).s, ~handle'[s],
           UNCHANGED <<mem, refCount, closing, parent, connVars, listVars,
                       userVars>>,
           \A x \in Stmts : x # s => handle'[x] = handle[x] /\ oci'[x] = oci[x],
           handle' \in [Stmts -> BOOLEAN],
           oci' \in [Stmts -> {"none", "open", "released"}]
    PROVE  LifeInv'
  <1>1. /\ Stacks /\ Shape /\ FoundIsKnown /\ CloseState /\ TypeOK /\ Alone
        /\ FreedIsClosed /\ Counted /\ NewIsAlone
    BY DEF LifeInv, TypeOK
  <1>2. /\ depth[t] \in Nat \ {0} /\ Last(t).at = l /\ Top(t) = Last(t)
        /\ s = Last(t).s
    BY <1>1, LastIs
  <1>3. Last(t).at \in New /\ Last(t).at \in Unlisted /\ Last(t).at \in Public
        /\ Last(t).at \in RefLabels
    BY <1>2 DEF New, Unlisted, Public, RefLabels, Refers
  <1>4. /\ s \in Stmts /\ mem[s] = "live" /\ ~In(s, Freeing)
        /\ ~Elsewhere(t, s, New) /\ parent[s] = NULL /\ CallRef(t) = s
        /\ <<t, "call">> \in Refs(s)
        /\ \A u \in Threads : s \notin userStmts[u]
        /\ \A c \in Stmts : parent[c] # s
    BY <1>2, <1>3, Preparer
  <1>5. \A u \in Threads : u # t => CallRef(u) # s
    BY <1>2, <1>3, UnlistedIsMine
  <1>6. In(s, Unlisted) BY <1>2, <1>3, LastIn
  <1>7. "stmtFree" \in Labels /\ FitsLabel(s, "stmtFree")
    BY <1>4, StmtLifetimeAssumption DEF Labels, Freeing, FitsLabel, ConnFreeing
  <1>8. PICK f \in FrameType :
           Stacks' /\ WentOn(t, f) /\ f.at = "stmtFree" /\ f.s = s
    BY <1>1, <1>2, <1>7, GoToIs
  <1>9. TypeOK' BY <1>1, <1>8 DEF TypeOK, listVars, userVars, connVars
  <1>10. Shape'
    <2>1. UsersKeep BY DEF UsersKeep, userVars
    <2>2. Fits(t, Last(t)) BY <1>1, <1>2, LastFits
    <2>3. Fits(t, f)
      <3>1. f.at \notin Closing /\ Last(t).at \notin Closing
            /\ f.at \notin Public
            /\ f.at \notin ConnClosing /\ f.at \notin {"markClosing", "connClosed"}
            /\ f.at # "dropRef"
        BY <1>2, <1>8 DEF Unlisted, Closing, InClose, ConnClosing, Public, New
      <3> QED BY <1>2, <1>8, <2>2, <3>1, FitsOn
    <2> QED BY <1>1, <1>2, <1>8, <2>1, <2>3, ShapeWentOn
  <1>11. Alone'
    <2>1. \A L \in Sole : f.at \in L => L = Freeing
      BY <1>8 DEF Sole, New, InClose, ConnFreeing
    <2> QED BY <1>1, <1>2, <1>4, <1>8, <2>1, AloneWentOn
  <1>12. CallRef(t)' = NULL /\ \A u \in Threads \ {t} : CallRef(u)' = CallRef(u)
    <2>1. f.at \notin RefLabels BY <1>8 DEF RefLabels, Refers, New
    <2> QED BY <1>1, <1>2, <1>3, <1>8, <2>1, CallRefWentOn, CallRefOthers DEF
        WentOn
  <1>13. Same(Unparenting) /\ Same(Sought) /\ Same(Unrefing)
    <2>1. /\ f.at \notin Unparenting /\ Last(t).at \notin Unparenting
          /\ f.at \notin Sought /\ Last(t).at \notin Sought
          /\ f.at \notin Unrefing /\ Last(t).at \notin Unrefing
      BY <1>2, <1>8 DEF Unparenting, Sought, Unlisted, Unrefing
    <2> QED BY <1>1, <1>2, <1>8, <2>1, SameWentOn
  <1>14. Counted'
    <2> SUFFICES ASSUME NEW x \in Stmts PROVE CountedAt(x)' BY DEF Counted
    <2>1. CASE x = s
      <3>1. Refs(s)' = {}
        BY <1>4, <1>5, <1>12, StmtLifetimeAssumption DEF Refs, userVars
      <3>2. In(s, Freeing)' BY <1>1, <1>2, <1>8, InWentOn DEF Is, Freeing
      <3> QED BY <1>4, <2>1, <3>1, <3>2 DEF CountedAt
    <2>2. CASE x # s
      <3>1. \A u \in Threads : CallRef(u)' = x <=> CallRef(u) = x
        BY <1>4, <1>12, <2>2, StmtLifetimeAssumption
      <3>2. Refs(x)' = Refs(x) BY <1>13, <3>1 DEF Refs, userVars, Same
      <3>3. In(x, Freeing)' <=> In(x, Freeing)
        BY <1>1, <1>2, <1>8, <2>2, OtherWentOn
      <3> QED BY <1>1, <3>2, <3>3, CountedKept DEF Counted
    <2> QED BY <2>1, <2>2
  <1>15. ~In(s, New)' /\ ~In(s, Unlisted)' /\ ~In(s, Preparing)'
    <2>1. ~Elsewhere(t, s, Unlisted) /\ ~Elsewhere(t, s, Preparing)
      BY <1>4 DEF Elsewhere, Unlisted, Preparing, New
    <2>2. f.at \notin New /\ f.at \notin Unlisted /\ f.at \notin Preparing
      BY <1>8 DEF New, Unlisted, Preparing
    <2> QED BY <1>1, <1>2, <1>4, <1>8, <2>1, <2>2, InWentOn DEF Is
  <1>16. NewIsAlone'
    <2> SUFFICES ASSUME NEW x \in Stmts, In(x, New)'
                 PROVE  /\ parent[x] = NULL /\ ~In(x, Unrefing)'
                        /\ \A u \in Threads : x \notin userStmts[u]
                        /\ \A c \in Stmts : parent[c] # x
      BY DEF NewIsAlone, userVars
    <2>1. x # s BY <1>15
    <2>2. In(x, New) BY <1>1, <1>2, <1>8, <2>1, OtherWentOn
    <2> QED BY <1>1, <1>13, <2>2 DEF NewIsAlone, Same
  <1>17. FoundIsKnown'
    <2> SUFFICES ASSUME NEW x \in Stmts, Found(x)'
                 PROVE  /\ mem[x] # "unused" /\ ~In(x, Unlisted)'
                        /\ In(x, Freeing)' => refCount[x] = 0
      BY DEF FoundIsKnown
    <2>1. Found(x) BY <1>13 DEF Found, Same, listVars
    <2>2. x # s BY <1>1, <1>6, <2>1 DEF FoundIsKnown
    <2>3. /\ In(x, Unlisted)' <=> In(x, Unlisted)
          /\ In(x, Freeing)' <=> In(x, Freeing)
      BY <1>1, <1>2, <1>8, <2>2, OtherWentOn
    <2> QED BY <1>1, <2>1, <2>3 DEF FoundIsKnown
  <1>18. CloseState'
    <2> SUFFICES ASSUME NEW x \in Stmts PROVE CloseStateAt(x)'
      BY DEF CloseState
    <2>1. CloseStateAt(x) BY <1>1 DEF CloseState
    <2>2. parent[x] # NULL => mem'[parent[x]] # "unused"
      BY <2>1 DEF CloseStateAt
    <2>3. CASE x # s
      <3>1. SameClose(x) BY <1>1, <1>2, <1>8, <2>3, OtherWentOn DEF SameClose
      <3> QED BY <2>1, <2>2, <2>3, <3>1, CloseAtKept
    <2>4. CASE x = s
      <3>1. ~In(s, InClose) /\ ~In(s, Unheld) /\ ~In(s, Let)
        BY <1>6, UnlistedIsOpen
      <3>2. ~In(s, InClose)' /\ ~In(s, Unheld)'
        <4>1. /\ f.at \notin InClose /\ Last(t).at \notin InClose
              /\ f.at \notin Unheld /\ Last(t).at \notin Unheld
          BY <1>2, <1>8 DEF InClose, Unheld, Unlisted
        <4>2. Same(InClose) /\ Same(Unheld)
          BY <1>1, <1>2, <1>8, <4>1, SameWentOn
        <4> QED BY <1>4, <3>1, <4>2 DEF Same
      <3> QED BY <1>4, <1>15, <2>4, <3>2 DEF CloseStateAt
    <2> QED BY <2>3, <2>4
  <1>19. FreedIsClosed'
    <2>1. \A x \in Stmts : handle'[x] => handle[x] BY <1>4
    <2>2. Last(t)' = f /\ Others(t) /\ f.at # "freeParent"
      BY <1>8 DEF Last, WentOn
    <2> QED BY <1>1, <2>1, <2>2, FreedKept
  <1>20. ConnInv'
    <2>1. /\ \A L \in ConnMarks : Last(t).at \notin L /\ f.at \notin L
          /\ Last(t).at # "unrefConn" /\ f.at # "unrefConn"
          /\ f.at \notin ConnClosing
      BY <1>2, <1>8 DEF ConnMarks, Letting, ConnFreeing, Unlisted, ConnClosing
    <2> QED BY <1>2, <1>8, <2>1, ConnWentOn DEF SameConn, connVars, userVars
  <1> QED BY <1>9, <1>10, <1>11, <1>14, <1>16, <1>17, <1>18, <1>19, <1>20 DEF
      LifeInv, ConnInv

(* dpiStmt__prepare and the handle list's addHandle, failing or not. *)
LEMMA StmtPrepare2Inv ==
    ASSUME LifeInv, NEW t \in Threads, StmtPrepare2(t)
    PROVE  LifeInv'
  <1>1. /\ Stacks /\ CloseState /\ TypeOK BY DEF LifeInv, TypeOK
  <1>2. /\ At(t, "prepare")
        /\ UNCHANGED <<mem, refCount, closing, parent, connVars, listVars,
                       userVars>>
    BY DEF StmtPrepare2
  <1>3. depth[t] \in Nat \ {0} /\ Last(t).at = "prepare" /\ Top(t) = Last(t)
    BY <1>1, <1>2, LastIs
  <1>4. CASE /\ handle' = [handle EXCEPT ![Top(t).s] = TRUE]
             /\ oci' = [oci EXCEPT ![Top(t).s] = "open"]
             /\ GoTo(t, "addHandle")
    BY <1>2, <1>4, StmtPreparedInv
  <1>5. CASE GoTo(t, "stmtFree") /\ UNCHANGED <<handle, oci>>
    <2> PICK s : s = Top(t).s OBVIOUS
    <2>1. s \in Stmts BY <1>1, <1>3, LastStmt DEF InStmt
    <2>2. In(s, Preparing) BY <1>3, LastIn DEF Preparing
    <2>3. ~handle[s] BY <1>1, <2>1, <2>2 DEF CloseState, CloseStateAt
    <2>4. "prepare" \in Unlisted BY DEF Unlisted
    <2>5. handle' \in [Stmts -> BOOLEAN]
          /\ oci' \in [Stmts -> {"none", "open", "released"}]
      BY <1>1, <1>5 DEF TypeOK
    <2> QED BY <1>2, <1>5, <2>3, <2>4, <2>5, NewFreed
  <1> QED BY <1>4, <1>5 DEF StmtPrepare2

LEMMA StmtAddHandleInv ==
    ASSUME LifeInv, NEW t \in Threads, StmtAddHandle(t)
    PROVE  LifeInv'
  <1>1. /\ Stacks /\ CloseState /\ TypeOK BY DEF LifeInv, TypeOK
  <1>2. /\ At(t, "addHandle")
        /\ UNCHANGED <<mem, refCount, closing, parent, connVars, userVars>>
    BY DEF StmtAddHandle
  <1>3. depth[t] \in Nat \ {0} /\ Last(t).at = "addHandle" /\ Top(t) = Last(t)
    BY <1>1, <1>2, LastIs
  <1>4. CASE /\ List!AddHandle(Top(t).s)
             /\ GoTo(t, "init")
             /\ UNCHANGED <<handle, oci>>
    <2>1. UNCHANGED <<stmtVars, connVars, userVars>> BY <1>2, <1>4 DEF stmtVars
    <2> QED BY <1>2, <1>4, <2>1, StmtAddedInv
  <1>5. CASE /\ oci' = [oci EXCEPT ![Top(t).s] = "released"]
             /\ handle' = [handle EXCEPT ![Top(t).s] = FALSE]
             /\ GoTo(t, "stmtFree")
             /\ UNCHANGED listVars
    <2> PICK s : s = Top(t).s OBVIOUS
    <2>1. s \in Stmts BY <1>1, <1>3, LastStmt DEF InStmt
    <2>2. /\ ~handle'[s]
          /\ \A x \in Stmts : x # s => handle'[x] = handle[x] /\ oci'[x] = oci[x]
          /\ handle' \in [Stmts -> BOOLEAN]
          /\ oci' \in [Stmts -> {"none", "open", "released"}]
      BY <1>1, <1>5, <2>1 DEF TypeOK
    <2>4. "addHandle" \in Unlisted BY DEF Unlisted
    <2>5. /\ GoTo(t, "stmtFree")
          /\ UNCHANGED <<mem, refCount, closing, parent, connVars, listVars,
                         userVars>>
      BY <1>2, <1>5
    <2>6. /\ \A x \in Stmts : x # s => handle'[x] = handle[x] /\ oci'[x] = oci[x]
          /\ oci' \in [Stmts -> {"none", "open", "released"}]
      BY <2>2
    <2>7. handle' \in [Stmts -> BOOLEAN] /\ ~handle'[s]
      BY <2>2
    <2>8. "addHandle" \in Unlisted => LifeInv'
      <3> HIDE <1>5
      <3> QED BY <1>2, <2>5, <2>6, <2>7, NewFreed
    <2> QED BY <2>4, <2>8
  <1> QED BY <1>4, <1>5 DEF StmtAddHandle

(* The statement is given to the program. *)
LEMMA StmtInitInv ==
    ASSUME LifeInv, "init" \notin Failures, NEW t \in Threads, StmtInit(t)
    PROVE  LifeInv'
  <1>1. /\ Stacks /\ Shape /\ FoundIsKnown /\ CloseState /\ TypeOK /\ Alone
        /\ FreedIsClosed /\ Counted /\ NewIsAlone
    BY DEF LifeInv, TypeOK
  <1> PICK s : s = Top(t).s OBVIOUS
  <1>2. /\ At(t, "init") /\ ReturnVoid(t)
        /\ userStmts' = [userStmts EXCEPT ![t] = @ \cup {s}]
        /\ UNCHANGED <<stmtVars, connVars, listVars, userConn>>
    BY DEF StmtInit
  <1>3. /\ depth[t] \in Nat \ {0} /\ Last(t).at = "init" /\ Top(t) = Last(t)
        /\ s = Last(t).s /\ stack[t] # <<>>
    BY <1>1, <1>2, LastIs
  <1>4. Last(t).at \in New /\ Last(t).at \in Refers BY <1>3 DEF New, Refers
  <1>5. /\ s \in Stmts /\ mem[s] = "live" /\ ~In(s, Freeing)
        /\ ~Elsewhere(t, s, New) /\ CallRef(t) = s
        /\ <<t, "call">> \in Refs(s)
        /\ \A u \in Threads : s \notin userStmts[u]
    BY <1>3, <1>4, Preparer
  <1>6. Stacks' /\ Ended(t) BY <1>1, <1>2, <1>3, ReturnVoidIs
  <1>7. /\ userStmts' \in [Threads -> SUBSET Stmts]
        /\ \A u \in Threads : userStmts[u] \subseteq userStmts'[u]
        /\ userStmts'[t] = userStmts[t] \cup {s}
        /\ \A u \in Threads : u # t => userStmts'[u] = userStmts[u]
    BY <1>1, <1>2, <1>5 DEF TypeOK
  <1>8. TypeOK'
    BY <1>1, <1>2, <1>6, <1>7 DEF TypeOK, stmtVars, listVars, connVars
  <1>9. Shape'
    <2>1. UsersKeep BY <1>2, <1>7 DEF UsersKeep
    <2> QED BY <1>1, <1>3, <1>6, <2>1, ShapePopped
  <1>10. Alone' BY <1>1, <1>3, <1>6, AlonePopped
  <1>11. /\ \A L \in {Unrefing, Unparenting, Freeing, Sought, Unlisted} : Same(L)
         /\ CloseSame
    <2>1. \A L \in {Unrefing, Unparenting, Freeing, Sought, Unlisted, InClose,
                    Unheld, Let, Closed, Preparing} : Last(t).at \notin L
      BY <1>3 DEF Unrefing, Unparenting, Freeing, Sought, Unlisted, InClose,
         Unheld, Let, Closed, Preparing
    <2>2. \A L \in {Unrefing, Unparenting, Freeing, Sought, Unlisted, InClose,
                    Unheld, Let, Closed, Preparing} : Same(L)
      BY <1>1, <1>3, <1>6, <2>1, SameEnded
    <2> QED BY <2>2 DEF CloseSame
  <1>12. /\ CallRef(t)' = NULL /\ depth[t] = 1
         /\ \A u \in Threads \ {t} : CallRef(u)' = CallRef(u)
    BY <1>1, <1>3, <1>4, <1>6, CallRefPopped, CallRefOthers DEF Ended
  <1>13. Counted'
    <2> SUFFICES ASSUME NEW x \in Stmts PROVE CountedAt(x)' BY DEF Counted
    <2>1. /\ In(x, Freeing)' <=> In(x, Freeing)
          /\ \A c \in Stmts : In(c, Unparenting)' <=> In(c, Unparenting)
          /\ mem' = mem /\ parent' = parent /\ refCount' = refCount
      BY <1>2, <1>11 DEF Same, stmtVars
    <2>2. CASE x = s
      <3>1. <<t, "user">> \notin Refs(s) BY <1>5 DEF Refs
      <3>2. Refs(s)' = (Refs(s) \ {<<t, "call">>}) \cup {<<t, "user">>}
        BY <1>5, <1>7, <1>12, <2>1, StmtLifetimeAssumption DEF Refs
      <3> QED BY <1>1, <1>5, <2>1, <2>2, <3>1, <3>2, RefPassed DEF Counted
    <2>3. CASE x # s
      <3>1. \A u \in Threads : CallRef(u)' = x <=> CallRef(u) = x
        BY <1>5, <1>12, <2>3, StmtLifetimeAssumption
      <3>2. \A u \in Threads : x \in userStmts'[u] <=> x \in userStmts[u]
        BY <1>7, <2>3
      <3>3. Refs(x)' = Refs(x) BY <2>1, <3>1, <3>2 DEF Refs
      <3> QED BY <1>1, <2>1, <3>3, CountedKept DEF Counted
    <2> QED BY <2>2, <2>3
  <1>14. NewIsAlone'
    <2> SUFFICES ASSUME NEW x \in Stmts, In(x, New)'
                 PROVE  /\ parent'[x] = NULL /\ ~In(x, Unrefing)'
                        /\ \A u \in Threads : x \notin userStmts'[u]
                        /\ \A c \in Stmts : parent'[c] # x
      BY DEF NewIsAlone
    <2>1. Elsewhere(t, x, New) BY <1>1, <1>3, <1>6, InEnded
    <2>2. x # s BY <1>5, <2>1
    <2>3. In(x, New) BY <1>3, <2>1, InNow
    <2> QED BY <1>1, <1>2, <1>7, <1>11, <2>2, <2>3 DEF NewIsAlone, Same,
        stmtVars
  <1>15. FoundIsKnown' BY <1>1, <1>2, <1>11, FoundKept DEF stmtVars, listVars
  <1>16. CloseState' BY <1>1, <1>2, <1>11, CloseKept DEF stmtVars
  <1>17. FreedIsClosed'
    <2>1. depth'[t] = 0 /\ Others(t) BY <1>6, <1>12 DEF Ended
    <2> QED BY <1>1, <1>2, <2>1, FreedKept DEF stmtVars
  <1>18. ConnInv'
    <2>1. /\ \A L \in ConnMarks : Last(t).at \notin L
          /\ Last(t).at # "unrefConn"
      BY <1>3 DEF ConnMarks, Letting, ConnFreeing
    <2> QED BY <1>2, <1>3, <1>6, <2>1, ConnEnded DEF SameConn, connVars, stmtVars
  <1> QED BY <1>8, <1>9, <1>10, <1>13, <1>14, <1>15, <1>16, <1>17, <1>18 DEF
      LifeInv, ConnInv

-----------------------------------------------------------------------------
(* What keeps the connection.                                               *)
KeeperTokens == (Threads \cup Stmts) \X {"user", "call", "stmt"}

(* There are finitely many references to the connection, and it counts them. *)
LEMMA KeepersFinite ==
    ASSUME NEW K, K \subseteq KeeperTokens
    PROVE  IsFiniteSet(K) /\ Cardinality(K) \in Nat
  <1>1. IsFiniteSet({"user", "call", "stmt"})
    <2>1. /\ IsFiniteSet({"user"}) /\ IsFiniteSet({"call"})
          /\ IsFiniteSet({"stmt"})
      BY FS_Singleton
    <2>2. IsFiniteSet({"user"} \cup {"call"}) BY <2>1, FS_Union
    <2>3. IsFiniteSet(({"user"} \cup {"call"}) \cup {"stmt"})
      BY <2>1, <2>2, FS_Union
    <2>4. ({"user"} \cup {"call"}) \cup {"stmt"} = {"user", "call", "stmt"}
      OBVIOUS
    <2> QED BY <2>3, <2>4
  <1>2. IsFiniteSet(Threads \cup Stmts) BY StmtLifetimeAssumption, FS_Union
  <1> QED BY <1>1, <1>2, FS_Product, FS_Subset, FS_CardinalityType DEF KeeperTokens

LEMMA KeepersAre ==
    ASSUME TypeOK
    PROVE  Keepers \subseteq KeeperTokens
  BY DEF Keepers, KeeperTokens, TypeOK

LEMMA Kept ==
    ASSUME LifeInv, NEW x \in Keepers
    PROVE  /\ connLive /\ ~In(NULL, ConnFreeing)
           /\ connRefs = Cardinality(Keepers) /\ connRefs \in Nat \ {0}
           /\ IsFiniteSet(Keepers)
  <1>1. TypeOK /\ ConnCounted BY DEF LifeInv
  <1>2. IsFiniteSet(Keepers) /\ Cardinality(Keepers) \in Nat
    BY <1>1, KeepersAre, KeepersFinite
  <1>3. Cardinality(Keepers) # 0 BY <1>2, FS_EmptySet
  <1> QED BY <1>1, <1>2, <1>3 DEF ConnCounted

(* Counting stays right when a reference to the connection is taken, passed or given. *)
LEMMA KeeperAdded ==
    ASSUME LifeInv, NEW x \in Keepers, NEW y, y \notin Keepers,
           Keepers' = Keepers \cup {y}, connRefs' = connRefs + 1,
           connLive' = connLive,
           In(NULL, ConnFreeing)' <=> In(NULL, ConnFreeing)
    PROVE  ConnCounted'
  <1>1. /\ connLive /\ ~In(NULL, ConnFreeing)
        /\ connRefs = Cardinality(Keepers) /\ IsFiniteSet(Keepers)
    BY Kept
  <1>2. Cardinality(Keepers') = Cardinality(Keepers) + 1 BY <1>1, FS_AddElement
  <1> QED BY <1>1, <1>2 DEF ConnCounted

LEMMA KeeperPassed ==
    ASSUME LifeInv, NEW x \in Keepers, NEW y, y \notin Keepers,
           Keepers' = (Keepers \ {x}) \cup {y}, connRefs' = connRefs,
           connLive' = connLive,
           In(NULL, ConnFreeing)' <=> In(NULL, ConnFreeing)
    PROVE  ConnCounted'
  <1>1. /\ connLive /\ ~In(NULL, ConnFreeing)
        /\ connRefs = Cardinality(Keepers) /\ IsFiniteSet(Keepers)
        /\ connRefs \in Nat \ {0}
    BY Kept
  <1>2. IsFiniteSet(Keepers \ {x})
        /\ Cardinality(Keepers \ {x}) = Cardinality(Keepers) - 1
    BY <1>1, FS_RemoveElement
  <1>3. Cardinality(Keepers') = Cardinality(Keepers \ {x}) + 1
    BY <1>2, FS_AddElement
  <1> QED BY <1>1, <1>2, <1>3 DEF ConnCounted

LEMMA KeeperGiven ==
    ASSUME LifeInv, NEW x \in Keepers,
           Keepers' = Keepers \ {x}, connRefs' = connRefs - 1,
           connLive' = connLive, In(NULL, ConnFreeing)' <=> connRefs = 1
    PROVE  ConnCounted' /\ (connRefs = 1 => Keepers' = {})
  <1>1. /\ connLive /\ ~In(NULL, ConnFreeing)
        /\ connRefs = Cardinality(Keepers) /\ IsFiniteSet(Keepers)
        /\ connRefs \in Nat \ {0}
    BY Kept
  <1>2. IsFiniteSet(Keepers') /\ Cardinality(Keepers') = connRefs - 1
    BY <1>1, FS_RemoveElement
  <1>3. connRefs = 1 => Keepers' = {} BY <1>2, FS_EmptySet
  <1> QED BY <1>1, <1>2, <1>3 DEF ConnCounted

-----------------------------------------------------------------------------
(* Memory that has not been used yet is known to nobody.                    *)
LEMMA Unused ==
    ASSUME LifeInv, NEW s \in Stmts, mem[s] = "unused"
    PROVE  /\ Refs(s) = {} /\ ~Found(s)
           /\ \A u \in Threads : s \notin userStmts[u] /\ CallRef(u) # s
           /\ \A c \in Stmts : parent[c] # s
           /\ ~In(s, Freeing) /\ ~In(s, New) /\ ~In(s, Unrefing)
           /\ ~In(s, Closing) /\ ~In(s, Letting) /\ ~In(s, Closed)
           /\ ~In(s, InClose) /\ ~In(s, Unheld) /\ ~In(s, Let)
           /\ ~In(s, Preparing) /\ ~In(s, Unparenting) /\ ~In(s, Unlisted)
           /\ ~closing[s] /\ ~handle[s] /\ parent[s] = NULL
           /\ <<s, "stmt">> \notin Keepers
  <1>1. Counted /\ CloseState /\ FoundIsKnown BY DEF LifeInv
  <1>2. Refs(s) = {} /\ ~In(s, Freeing) BY <1>1 DEF Counted, CountedAt
  <1>3. \A u \in Threads : s \notin userStmts[u] /\ CallRef(u) # s
    BY <1>2, RefsOf
  <1>4. ~Found(s) BY <1>1 DEF FoundIsKnown
  <1>5. ~closing[s] /\ ~handle[s] /\ parent[s] = NULL
    BY <1>1 DEF CloseState, CloseStateAt
  <1>6. \A c \in Stmts : parent[c] # s
    BY <1>1, StmtLifetimeAssumption DEF CloseState, CloseStateAt
  <1>7. ~In(s, New) /\ ~In(s, Unrefing)
    BY HeldByCall DEF In, RefLabels, Refers, Unrefing
  <1>8. ~In(s, Closing) BY CloserHolds DEF In
  <1>9. /\ Letting \subseteq Freeing /\ Closed \subseteq Freeing
        /\ InClose \subseteq Closing /\ Unheld \subseteq Closing
        /\ Let \subseteq Closing /\ Preparing \subseteq New
        /\ Unlisted \subseteq New /\ Unparenting \subseteq Closing
    BY DEF Letting, Freeing, Closed, InClose, Unheld, Let, Closing, Preparing,
       New, Unlisted, Unparenting
  <1>10. /\ ~In(s, Letting) /\ ~In(s, Closed) /\ ~In(s, InClose)
         /\ ~In(s, Unheld) /\ ~In(s, Let) /\ ~In(s, Preparing)
         /\ ~In(s, Unparenting) /\ ~In(s, Unlisted)
    BY <1>2, <1>7, <1>8, <1>9, InSub
  <1>11. <<s, "stmt">> \notin Keepers BY DEF Keepers
  <1> QED BY <1>2, <1>3, <1>4, <1>5, <1>6, <1>7, <1>8, <1>10, <1>11

(* A call that begins with a statement does not touch the others. *)
LEMMA OtherBegan ==
    ASSUME Stacks, NEW t \in Threads, NEW f, Began(t, f), NEW x, x # f.s, NEW L
    PROVE  In(x, L)' <=> In(x, L)
  BY InBegan DEF Is

(* dpiConn_prepareStmt allocates a statement, which keeps the connection. *)
LEMMA PrepareStmtInv ==
    ASSUME LifeInv, NEW t \in Threads, PrepareStmt(t)
    PROVE  LifeInv'
  <1>1. /\ Stacks /\ Shape /\ FoundIsKnown /\ CloseState /\ TypeOK /\ Alone
        /\ FreedIsClosed /\ Counted /\ NewIsAlone /\ ConnState /\ FailedIsOpen
    BY DEF LifeInv, TypeOK
  <1>2. stack[t] = <<>> /\ t \in userConn
        /\ UNCHANGED <<closing, handle, parent, oci, connLive, connClosing,
                       connHandle, deadSession, listVars, userVars>>
    BY DEF PrepareStmt, Idle
  <1>3. PICK s \in Stmts :
          /\ mem[s] = "unused"
          /\ mem' = [mem EXCEPT ![s] = "live"]
          /\ refCount' = [refCount EXCEPT ![s] = 1]
          /\ connRefs' = connRefs + 1
          /\ Start(t, Frame("prepare", s, TRUE))
    BY DEF PrepareStmt, Allocate
  <1> PICK f : f = Frame("prepare", s, TRUE) OBVIOUS
  <1>4. f \in FrameType /\ f.at = "prepare" /\ f.s = s
    <2>1. "prepare" \in Labels /\ FitsLabel(s, "prepare")
          /\ s \in Stmts \cup {NULL} /\ TRUE \in BOOLEAN
      BY StmtLifetimeAssumption DEF Labels, Public, New, FitsLabel, ConnFreeing
    <2> QED BY <2>1, FrameIs
  <1>5. Stacks' /\ Began(t, f) BY <1>1, <1>2, <1>3, <1>4, StartIs
  <1>6. /\ Refs(s) = {} /\ ~Found(s)
        /\ \A u \in Threads : s \notin userStmts[u] /\ CallRef(u) # s
        /\ \A c \in Stmts : parent[c] # s
        /\ ~In(s, Freeing) /\ ~In(s, New) /\ ~In(s, Unrefing)
        /\ ~closing[s] /\ ~handle[s] /\ parent[s] = NULL
        /\ <<s, "stmt">> \notin Keepers
    BY <1>3, Unused
  <1>7. /\ mem' \in [Stmts -> {"unused", "live", "freed"}] /\ mem'[s] = "live"
        /\ \A x \in Stmts : x # s => mem'[x] = mem[x]
                                     /\ refCount'[x] = refCount[x]
        /\ refCount' \in [Stmts -> Int] /\ refCount'[s] = 1
        /\ connRefs' \in Int
    BY <1>1, <1>3 DEF TypeOK
  <1>8. TypeOK' BY <1>1, <1>2, <1>5, <1>7 DEF TypeOK, listVars, userVars
  <1>9. Shape'
    <2>1. UsersKeep BY <1>2 DEF UsersKeep, userVars
    <2>2. MayBegin(t, f)' BY <1>4 DEF MayBegin, Closing, InClose, ConnClosing
    <2> QED BY <1>1, <1>5, <2>1, <2>2, ShapeBegan
  <1>10. Alone'
    <2>1. \A L \in Sole : f.at \in L => L = New
      BY <1>4 DEF Sole, Freeing, InClose, ConnFreeing
    <2> QED BY <1>1, <1>4, <1>5, <1>6, <2>1, AloneBegan
  <1>11. /\ \A L \in {Unrefing, Unparenting, Freeing, Sought, Letting,
                      ConnFreeing, {"connClosed"}, InClose, Unheld, Let,
                      Closed} : Same(L)
    <2>1. \A L \in {Unrefing, Unparenting, Freeing, Sought, Letting,
                    ConnFreeing, {"connClosed"}, InClose, Unheld, Let,
                    Closed} : f.at \notin L
      BY <1>4 DEF Unrefing, Unparenting, Freeing, Sought, Letting, ConnFreeing,
         InClose, Unheld, Let, Closed
    <2> QED BY <1>1, <1>5, <2>1, SameBegan
  <1>12. /\ CallRef(t) = NULL /\ CallRef(t)' = s
         /\ \A u \in Threads \ {t} : CallRef(u)' = CallRef(u)
         /\ \A u \in Threads : UnrefsConn(u)' <=> UnrefsConn(u)
    <2>1. f.at \in Refers /\ f.at # "unrefConn" BY <1>4 DEF Refers, New
    <2> QED BY <1>1, <1>4, <1>5, <2>1, CallRefBegan, CallRefOthers DEF Began
  <1>13. Counted'
    <2> SUFFICES ASSUME NEW x \in Stmts PROVE CountedAt(x)' BY DEF Counted
    <2>1. /\ In(x, Freeing)' <=> In(x, Freeing)
          /\ \A c \in Stmts : In(c, Unparenting)' <=> In(c, Unparenting)
          /\ parent' = parent /\ userStmts' = userStmts
      BY <1>2, <1>11 DEF Same, userVars
    <2>2. CASE x = s
      <3>1. Refs(s)' = {<<t, "call">>} BY <1>6, <1>12, <2>1 DEF Refs
      <3>2. Cardinality(Refs(s)') = 1 BY <3>1, FS_Singleton
      <3> QED BY <1>6, <1>7, <2>1, <2>2, <3>2 DEF CountedAt
    <2>3. CASE x # s
      <3>1. \A u \in Threads : CallRef(u)' = x <=> CallRef(u) = x
        BY <1>12, <2>3, StmtLifetimeAssumption
      <3>2. Refs(x)' = Refs(x) BY <2>1, <3>1 DEF Refs
      <3> QED BY <1>1, <1>7, <2>1, <2>3, <3>2, CountedKept DEF Counted
    <2> QED BY <2>2, <2>3
  <1>14. NewIsAlone'
    <2> SUFFICES ASSUME NEW x \in Stmts, In(x, New)'
                 PROVE  /\ parent'[x] = NULL /\ ~In(x, Unrefing)'
                        /\ \A u \in Threads : x \notin userStmts'[u]
                        /\ \A c \in Stmts : parent'[c] # x
      BY DEF NewIsAlone
    <2>1. In(x, Unrefing)' <=> In(x, Unrefing) BY <1>11 DEF Same
    <2>2. CASE x = s BY <1>2, <1>6, <2>1, <2>2 DEF userVars
    <2>3. CASE x # s
      <3>1. In(x, New) BY <1>1, <1>4, <1>5, <2>3, OtherBegan
      <3> QED BY <1>1, <1>2, <2>1, <3>1 DEF NewIsAlone, userVars
    <2> QED BY <2>2, <2>3
  <1>15. FoundIsKnown'
    <2> SUFFICES ASSUME NEW x \in Stmts, Found(x)'
                 PROVE  /\ mem'[x] # "unused" /\ ~In(x, Unlisted)'
                        /\ In(x, Freeing)' => refCount'[x] = 0
      BY DEF FoundIsKnown
    <2>1. Found(x) BY <1>2, <1>11 DEF Found, Same, listVars
    <2>2. x # s BY <1>6, <2>1
    <2>3. In(x, Unlisted)' <=> In(x, Unlisted)
      BY <1>1, <1>4, <1>5, <2>2, OtherBegan
    <2>4. In(x, Freeing)' <=> In(x, Freeing) BY <1>11 DEF Same
    <2> QED BY <1>1, <1>7, <2>1, <2>2, <2>3, <2>4 DEF FoundIsKnown
  <1>16. CloseState'
    <2> SUFFICES ASSUME NEW x \in Stmts PROVE CloseStateAt(x)'
      BY DEF CloseState
    <2>1. CloseStateAt(x) /\ parent[x] \in Stmts \cup {NULL}
      BY <1>1 DEF CloseState, TypeOK
    <2>2. parent[x] # NULL => mem'[parent[x]] # "unused"
      <3>1. \A y \in Stmts : mem[y] # "unused" => mem'[y] # "unused" BY <1>7
      <3> QED BY <2>1, <3>1 DEF CloseStateAt
    <2>3. /\ In(x, InClose)' <=> In(x, InClose)
          /\ In(x, Unheld)' <=> In(x, Unheld)
          /\ In(x, Let)' <=> In(x, Let)
          /\ In(x, Closed)' <=> In(x, Closed)
      BY <1>11 DEF Same
    <2>4. CASE x # s
      <3>1. In(x, Preparing)' <=> In(x, Preparing)
        BY <1>1, <1>4, <1>5, <2>4, OtherBegan
      <3> QED BY <1>2, <1>7, <2>1, <2>2, <2>3, <2>4, <3>1, CloseAtKept DEF
          SameClose
    <2>5. CASE x = s BY <1>2, <1>6, <2>1, <2>2, <2>3, <2>5 DEF CloseStateAt
    <2> QED BY <2>4, <2>5
  <1>17. FreedIsClosed'
    <2>1. Last(t)' = f /\ Others(t) /\ f.at # "freeParent"
      BY <1>4, <1>5 DEF Last, Began
    <2> QED BY <1>1, <1>2, <2>1, FreedKept
  <1>18. Keepers' = Keepers \cup {<<s, "stmt">>}
    <2>1. \A r \in Stmts : In(r, Letting)' <=> In(r, Letting) BY <1>11 DEF Same
    <2>2. ~In(s, Letting) BY <1>6, InSub DEF Letting, Freeing
    <2> QED BY <1>2, <1>7, <1>12, <2>1, <2>2 DEF Keepers, userVars
  <1>19. <<t, "user">> \in Keepers BY <1>2 DEF Keepers
  <1>20. ConnCounted'
    <2>1. In(NULL, ConnFreeing)' <=> In(NULL, ConnFreeing) BY <1>11 DEF Same
    <2> QED BY <1>2, <1>3, <1>6, <1>18, <1>19, <2>1, KeeperAdded
  <1>21. ConnState'
    <2>1. In(NULL, {"connClosed"})' <=> In(NULL, {"connClosed"})
      BY <1>11 DEF Same
    <2>2. Any(ConnClosing)' => Any(ConnClosing)
      <3>1. f.at \notin ConnClosing BY <1>4 DEF ConnClosing
      <3> QED BY <1>1, <1>5, <3>1, AnyBegan
    <2>3. ~connClosing => connHandle BY <1>1, <1>19 DEF ConnState
    <2> QED BY <1>1, <1>2, <2>1, <2>2, <2>3 DEF ConnState
  <1>22. FailedIsOpen' BY <1>1, <1>2, <1>4, <1>5, FailedBegan
  <1> QED BY <1>8, <1>9, <1>10, <1>13, <1>14, <1>15, <1>16, <1>17, <1>20, <1>21,
             <1>22 DEF LifeInv

-----------------------------------------------------------------------------
(* Giving a reference back: whoever gives the last one frees the statement. *)
Released(t, u, f) ==
    IF refCount[u] = 1
    THEN \E g \in FrameType : /\ Called(t, g, f)
                              /\ g.at = "stmtFree" /\ g.s = u
    ELSE WentOn(t, f)

(* Giving back a reference to a statement; the last one frees it. *)
LEMMA ReleasedIs ==
    ASSUME Stacks, NEW t \in Threads, stack[t] # <<>>, NEW u \in Stmts,
           NEW f \in FrameType, ReleaseStmtRef(t, u, f)
    PROVE  Stacks' /\ Released(t, u, f)
  <1>1. CASE refCount[u] = 1
    <2> PICK g : g = Frame("stmtFree", u, FALSE) OBVIOUS
    <2>1. g \in FrameType /\ g.at = "stmtFree" /\ g.s = u
      <3>1. "stmtFree" \in Labels /\ FitsLabel(u, "stmtFree")
            /\ u \in Stmts \cup {NULL} /\ FALSE \in BOOLEAN
        BY StmtLifetimeAssumption DEF Labels, Freeing, FitsLabel, ConnFreeing
      <3> QED BY <3>1, FrameIs
    <2>2. Call(t, g, f) BY <1>1 DEF ReleaseStmtRef
    <2> QED BY <1>1, <2>1, <2>2, CallIs DEF Released
  <1>2. CASE refCount[u] # 1 BY <1>2, GoOnIs DEF ReleaseStmtRef, Released
  <1> QED BY <1>1, <1>2

(* The marks after it. *)
LEMMA InReleased ==
    ASSUME Stacks, NEW t \in Threads, depth[t] \in Nat \ {0}, NEW u, NEW f,
           Released(t, u, f), NEW s, NEW L
    PROVE  /\ "stmtFree" \notin L =>
                 (In(s, L)' <=> Is(f, s, L) \/ Elsewhere(t, s, L))
           /\ "stmtFree" \in L =>
                 (In(s, L)' <=> \/ Is(f, s, L) \/ Elsewhere(t, s, L)
                                \/ (refCount[u] = 1 /\ s = u))
  <1>1. CASE refCount[u] = 1
    <2>1. PICK g \in FrameType :
             Called(t, g, f) /\ g.at = "stmtFree" /\ g.s = u
      BY <1>1 DEF Released
    <2>2. In(s, L)' <=> Is(f, s, L) \/ Is(g, s, L) \/ Elsewhere(t, s, L)
      BY <2>1, InCalled
    <2>3. Is(g, s, L) <=> "stmtFree" \in L /\ s = u BY <2>1 DEF Is
    <2> QED BY <1>1, <2>2, <2>3
  <1>2. CASE refCount[u] # 1
    <2>1. WentOn(t, f) BY <1>2 DEF Released
    <2>2. In(s, L)' <=> Is(f, s, L) \/ Elsewhere(t, s, L) BY <2>1, InWentOn
    <2> QED BY <1>2, <2>2
  <1> QED BY <1>1, <1>2

LEMMA SameReleased ==
    ASSUME Stacks, NEW t \in Threads, depth[t] \in Nat \ {0}, NEW u, NEW f,
           Released(t, u, f), NEW L, "stmtFree" \notin L, Stays(Last(t), f, L)
    PROVE  Same(L)
  <1> SUFFICES ASSUME NEW s \in Stmts \cup {NULL}
               PROVE  In(s, L)' <=> In(s, L)
    BY DEF Same
  <1>1. In(s, L)' <=> Is(f, s, L) \/ Elsewhere(t, s, L) BY InReleased
  <1>2. In(s, L) <=> Is(Last(t), s, L) \/ Elsewhere(t, s, L) BY InNow
  <1>3. Is(f, s, L) <=> Is(Last(t), s, L) BY DEF Is, Stays
  <1> QED BY <1>1, <1>2, <1>3

(* Where it is given back: by dpiStmt_release, by a statement that had the  *)
(* other as its parent, and by the closing loop of the connection.          *)
GivesAt(g, f) ==
    \/ g.at = "unref" /\ f.at = "end" /\ f.s = NULL
    \/ g.at = "stmtRelease" /\ f.at = "unparent" /\ f.s = g.s
    \/ g.at = "dropRef" /\ f.at = "slotDone" /\ f.s = g.s

LEMMA ReleasedInv ==
    ASSUME LifeInv, NEW t \in Threads, depth[t] \in Nat \ {0}, Stacks',
           NEW u \in Stmts, NEW x \in Refs(u), NEW f \in FrameType,
           Released(t, u, f), Fits(t, f), GivesAt(Last(t), f),
           refCount' = [refCount EXCEPT ![u] = @ - 1],
           UNCHANGED <<mem, closing, handle, parent, oci, connVars, listVars,
                       userVars>>,
           \A y \in Stmts : y # u => Refs(y)' = Refs(y),
           Refs(u)' = Refs(u) \ {x}
    PROVE  LifeInv'
  <1>1. /\ Stacks /\ Shape /\ FoundIsKnown /\ CloseState /\ TypeOK /\ Alone
        /\ FreedIsClosed /\ Counted /\ NewIsAlone
    BY DEF LifeInv, TypeOK
  <1>2. /\ mem[u] = "live" /\ ~In(u, Freeing) /\ refCount[u] \in Nat \ {0}
    BY <1>1, Referenced
  <1>3. /\ refCount' \in [Stmts -> Int] /\ refCount'[u] = refCount[u] - 1
        /\ \A y \in Stmts : y # u => refCount'[y] = refCount[y]
    BY <1>1 DEF TypeOK
  <1>4. TypeOK' BY <1>1, <1>3 DEF TypeOK, connVars, listVars, userVars
  <1>5. UsersKeep BY DEF UsersKeep, userVars
  <1>6. f.at \in {"end", "unparent", "slotDone"} BY DEF GivesAt
  <1>7. Shape' /\ Alone' /\ FreedIsClosed' /\ ConnInv'
    <2>1. \A L \in Sole : f.at \in L =>
             (Last(t).at \in L /\ Last(t).s = f.s) \/ ~In(f.s, L)
      <3> SUFFICES ASSUME NEW L \in Sole, f.at \in L
                   PROVE  Last(t).at \in L /\ Last(t).s = f.s
        OBVIOUS
      <3>1. L = InClose BY <1>6 DEF Sole, New, Freeing, InClose, ConnFreeing
      <3> QED BY <1>6, <3>1 DEF GivesAt, InClose
    <2>2. /\ \A L \in ConnMarks : Last(t).at \notin L /\ f.at \notin L
          /\ Last(t).at # "unrefConn" /\ f.at # "unrefConn"
          /\ f.at \in ConnClosing => Last(t).at \in ConnClosing
          /\ f.at # "connClosed" /\ f.at # "freeParent"
      BY DEF GivesAt, ConnMarks, Letting, ConnFreeing, ConnClosing
    <2>3. SameConn /\ handle' = handle BY DEF SameConn, connVars, userVars
    <2>4. CASE refCount[u] = 1
      <3>1. PICK g \in FrameType :
               Called(t, g, f) /\ g.at = "stmtFree" /\ g.s = u
        BY <2>4 DEF Released
      <3>2. MayCall(f, g)
        BY <1>6, <3>1 DEF MayCall, Public, New, Closing, InClose, ConnClosing
      <3>3. Shape' BY <1>1, <1>5, <3>1, <3>2, ShapeCalled
      <3>4. \A L \in Sole : g.at \in L => ~In(g.s, L) /\ ~Is(f, g.s, L)
        <4> SUFFICES ASSUME NEW L \in Sole, g.at \in L
                     PROVE  ~In(g.s, L) /\ ~Is(f, g.s, L)
          OBVIOUS
        <4>1. L = Freeing BY <3>1 DEF Sole, New, Freeing, InClose, ConnFreeing
        <4> QED BY <1>2, <1>6, <3>1, <4>1 DEF Is, Freeing
      <3>5. Alone' BY <1>1, <2>1, <3>1, <3>4, AloneCalled
      <3>6. Last(t)' = g /\ Others(t) BY <1>1, <3>1 DEF Called, Last
      <3>7. FreedIsClosed' BY <1>1, <2>3, <3>1, <3>6, FreedKept
      <3>8. (\A L \in ConnMarks : g.at \notin L) /\ g.at \notin ConnClosing
        BY <3>1 DEF ConnMarks, Letting, ConnFreeing, ConnClosing
      <3>9. ConnInv' BY <2>2, <2>3, <3>1, <3>8, ConnCalled
      <3> QED BY <3>3, <3>5, <3>7, <3>9
    <2>5. CASE refCount[u] # 1
      <3>1. WentOn(t, f) BY <2>5 DEF Released
      <3>2. Shape' BY <1>1, <1>5, <3>1, ShapeWentOn
      <3>3. Alone' BY <1>1, <2>1, <3>1, AloneWentOn
      <3>4. Last(t)' = f /\ Others(t) BY <3>1 DEF WentOn, Last
      <3>5. FreedIsClosed' BY <1>1, <2>2, <2>3, <3>4, FreedKept
      <3>6. ConnInv' BY <2>2, <2>3, <3>1, ConnWentOn
      <3> QED BY <3>2, <3>3, <3>5, <3>6
    <2> QED BY <2>4, <2>5
  <1>8. /\ \A L \in {New, Unlisted} : Same(L)
        /\ CloseSame
    <2>1. \A L \in {New, Unlisted, InClose, Unheld, Let, Closed, Preparing} :
             "stmtFree" \notin L /\ Stays(Last(t), f, L)
      BY DEF GivesAt, Stays, New, Unlisted, InClose, Unheld, Let, Closed,
         Preparing
    <2>2. \A L \in {New, Unlisted, InClose, Unheld, Let, Closed, Preparing} :
             Same(L)
      BY <1>1, <2>1, SameReleased
    <2> QED BY <2>2 DEF CloseSame
  <1>9. \A y \in Stmts : /\ In(y, Unrefing)' => In(y, Unrefing)
                         /\ In(y, Sought)' => In(y, Sought)
    <2> SUFFICES ASSUME NEW y \in Stmts, NEW L \in {Unrefing, Sought}, In(y, L)'
                 PROVE  In(y, L)
      OBVIOUS
    <2>1. "stmtFree" \notin L /\ f.at \notin L BY <1>6 DEF Unrefing, Sought
    <2>2. Elsewhere(t, y, L) BY <1>1, <2>1, InReleased DEF Is
    <2> QED BY <2>2, InNow
  <1>10. \A y \in Stmts :
            In(y, Freeing)' <=> In(y, Freeing) \/ (refCount[u] = 1 /\ y = u)
    <2> SUFFICES ASSUME NEW y \in Stmts
                 PROVE  In(y, Freeing)' <=>
                            In(y, Freeing) \/ (refCount[u] = 1 /\ y = u)
      OBVIOUS
    <2>1. "stmtFree" \in Freeing /\ f.at \notin Freeing
          /\ Last(t).at \notin Freeing
      BY DEF Freeing, GivesAt
    <2>2. In(y, Freeing) <=> Elsewhere(t, y, Freeing) BY <2>1, InNow DEF Is
    <2> QED BY <1>1, <2>1, <2>2, InReleased DEF Is
  <1>11. Counted'
    <2> SUFFICES ASSUME NEW y \in Stmts PROVE CountedAt(y)' BY DEF Counted
    <2>1. CASE y = u
      <3>1. In(u, Freeing)' <=> refCount[u] = 1 BY <1>2, <1>10
      <3> QED BY <1>1, <1>3, <2>1, <3>1, RefGiven
    <2>2. CASE y # u BY <1>1, <1>3, <1>10, <2>2, CountedKept DEF Counted
    <2> QED BY <2>1, <2>2
  <1>12. NewIsAlone' BY <1>1, <1>8, <1>9 DEF NewIsAlone, Same, userVars
  <1>13. FoundIsKnown'
    <2> SUFFICES ASSUME NEW y \in Stmts, Found(y)'
                 PROVE  /\ mem'[y] # "unused" /\ ~In(y, Unlisted)'
                        /\ In(y, Freeing)' => refCount'[y] = 0
      BY DEF FoundIsKnown
    <2>1. Found(y) BY <1>9 DEF Found, listVars
    <2>2. mem'[y] # "unused" /\ ~In(y, Unlisted)'
      BY <1>1, <1>8, <2>1 DEF FoundIsKnown, Same
    <2>3. In(y, Freeing)' => refCount'[y] = 0
      <3>1. CASE y = u BY <1>2, <1>3, <1>10, <3>1
      <3>2. CASE y # u BY <1>1, <1>3, <1>10, <2>1, <3>2 DEF FoundIsKnown
      <3> QED BY <3>1, <3>2
    <2> QED BY <2>2, <2>3
  <1>14. CloseState' BY <1>1, <1>8, CloseKept
  <1> QED BY <1>4, <1>7, <1>11, <1>12, <1>13, <1>14 DEF LifeInv, ConnInv

(* The references that calls have of their own, after it. *)
LEMMA CallRefReleased ==
    ASSUME Stacks, Shape, NEW t \in Threads, depth[t] \in Nat \ {0}, NEW u,
           NEW f, Released(t, u, f), f.at \notin RefLabels
    PROVE  /\ Last(t).at \notin RefLabels => CallRef(t)' = CallRef(t)
           /\ Last(t).at \in RefLabels => CallRef(t)' = NULL
           /\ \A v \in Threads \ {t} : CallRef(v)' = CallRef(v)
  <1>1. CASE refCount[u] = 1
    <2>1. PICK g \in FrameType :
             Called(t, g, f) /\ g.at = "stmtFree" /\ g.s = u
      BY <1>1 DEF Released
    <2>2. g.at \notin RefLabels BY <2>1 DEF RefLabels, Refers, New
    <2>3. Others(t) BY <2>1 DEF Called
    <2> QED BY <2>1, <2>2, <2>3, CallRefCalled, CallRefOthers
  <1>2. CASE refCount[u] # 1
    <2>1. WentOn(t, f) /\ Others(t) BY <1>2 DEF Released, WentOn
    <2> QED BY <2>1, CallRefWentOn, CallRefOthers
  <1> QED BY <1>1, <1>2

(* A call that gives the reference back that it had of its own. *)
LEMMA CallGives ==
    ASSUME LifeInv, NEW t \in Threads, depth[t] \in Nat \ {0}, Stacks',
           NEW u, u = Last(t).s, Last(t).at \in {"unref", "dropRef"},
           NEW f \in FrameType, Released(t, u, f), Fits(t, f),
           GivesAt(Last(t), f),
           refCount' = [refCount EXCEPT ![u] = @ - 1],
           UNCHANGED <<mem, closing, handle, parent, oci, connVars, listVars,
                       userVars>>
    PROVE  LifeInv'
  <1>1. Stacks /\ Shape /\ TypeOK BY DEF LifeInv, TypeOK
  <1>2. Last(t).at \in RefLabels /\ f.at \notin RefLabels
    BY DEF RefLabels, Refers, New, GivesAt
  <1>3. /\ u \in Stmts /\ CallRef(t) = u /\ <<t, "call">> \in Refs(u)
    BY <1>2, HeldByCall DEF Last
  <1>4. CallRef(t)' = NULL /\ \A v \in Threads \ {t} : CallRef(v)' = CallRef(v)
    BY <1>1, <1>2, CallRefReleased
  <1>5. Same(Unparenting)
    <2>1. "stmtFree" \notin Unparenting /\ Stays(Last(t), f, Unparenting)
      BY DEF Unparenting, GivesAt, Stays
    <2> QED BY <1>1, <2>1, SameReleased
  <1>6. /\ userStmts' = userStmts /\ parent' = parent
        /\ \A c \in Stmts : In(c, Unparenting)' <=> In(c, Unparenting)
    BY <1>5 DEF userVars, Same
  <1>7. Refs(u)' = Refs(u) \ {<<t, "call">>}
    BY <1>3, <1>4, <1>6, StmtLifetimeAssumption DEF Refs
  <1>8. ASSUME NEW y \in Stmts, y # u
        PROVE  Refs(y)' = Refs(y)
    <2>1. \A v \in Threads : CallRef(v)' = y <=> CallRef(v) = y
      BY <1>3, <1>4, <1>8, StmtLifetimeAssumption
    <2> QED BY <1>6, <2>1 DEF Refs
  <1> QED BY <1>3, <1>7, <1>8, ReleasedInv

(* A call that failed, or dpiStmt_release, gives back its reference. *)
LEMMA UnrefInv ==
    ASSUME LifeInv, NEW t \in Threads, Unref(t)
    PROVE  LifeInv'
  <1>1. Stacks /\ Shape BY DEF LifeInv, TypeOK
  <1> PICK u : u = Top(t).s OBVIOUS
  <1> PICK f : f = Frame("end", NULL, FALSE) OBVIOUS
  <1>2. /\ At(t, "unref") /\ ReleaseStmtRef(t, u, f)
        /\ UNCHANGED <<mem, closing, handle, parent, oci, connVars, listVars,
                       userVars>>
    BY DEF Unref
  <1>3. /\ depth[t] \in Nat \ {0} /\ Last(t).at = "unref" /\ Top(t) = Last(t)
        /\ u = Last(t).s /\ stack[t] # <<>>
    BY <1>1, <1>2, LastIs
  <1>4. u \in Stmts BY <1>1, <1>3, LastStmt DEF InStmt
  <1>5. f \in FrameType /\ f.at = "end" /\ f.s = NULL
    <2>1. "end" \in Labels /\ FitsLabel(NULL, "end")
          /\ NULL \in Stmts \cup {NULL} /\ FALSE \in BOOLEAN
      BY DEF Labels, Public, FitsLabel, InStmt, Freeing, ConnFreeing
    <2> QED BY <2>1, FrameIs
  <1>6. Stacks' /\ Released(t, u, f)
    BY <1>1, <1>2, <1>3, <1>4, <1>5, ReleasedIs
  <1>7. Fits(t, f)
    <2>2. depth[t] = 1
      <3>1. /\ calls[t][depth[t]].at \in Public
            /\ depth[t] \in 1 .. depth[t]
        BY <1>3 DEF Last, Public
      <3> QED BY <1>1, <3>1, PublicIsFirst
    <2>3. MayBegin(t, f) BY <1>5 DEF MayBegin, Closing, InClose, ConnClosing
    <2>4. ~(depth[t] >= 2) BY <2>2
    <2> QED BY <2>3, <2>4 DEF Fits
  <1>8. GivesAt(Last(t), f) BY <1>3, <1>5 DEF GivesAt
  <1>9. refCount' = [refCount EXCEPT ![u] = @ - 1] BY <1>2 DEF ReleaseStmtRef
  <1> QED BY <1>2, <1>3, <1>5, <1>6, <1>7, <1>8, <1>9, CallGives

(* The closing loop gives back the reference that it took. *)
LEMMA ConnDropRefInv ==
    ASSUME LifeInv, Threaded, NEW t \in Threads, ConnDropRef(t)
    PROVE  LifeInv'
  <1>1. Stacks /\ Shape BY DEF LifeInv, TypeOK
  <1> PICK u : u = Top(t).s OBVIOUS
  <1> PICK f : f = [Top(t) EXCEPT !.at = "slotDone"] OBVIOUS
  <1>2. /\ At(t, "dropRef") /\ ReleaseStmtRef(t, u, f)
        /\ UNCHANGED <<mem, closing, handle, parent, oci, connVars, listVars,
                       userVars>>
    BY DEF ConnDropRef
  <1>3. /\ depth[t] \in Nat \ {0} /\ Last(t).at = "dropRef" /\ Top(t) = Last(t)
        /\ u = Last(t).s /\ stack[t] # <<>> /\ Last(t) \in FrameType
    BY <1>1, <1>2, LastIs
  <1>4. u \in Stmts BY <1>1, <1>3, LastStmt DEF InStmt
  <1>5. f \in FrameType /\ f.at = "slotDone" /\ f.s = u
    <2>1. "slotDone" \in Labels /\ FitsLabel(Last(t).s, "slotDone")
      BY DEF Labels, ConnClosing, FitsLabel, InStmt, Freeing, ConnFreeing
    <2> QED BY <1>3, <2>1, FrameAt
  <1>6. Stacks' /\ Released(t, u, f)
    BY <1>1, <1>2, <1>3, <1>4, <1>5, ReleasedIs
  <1>7. Fits(t, f)
    <2>1. Fits(t, Last(t)) BY <1>1, <1>3, LastFits
    <2>2. /\ f.s = Last(t).s /\ f.at \notin Public /\ f.at \notin Closing
          /\ Last(t).at \notin Closing /\ Last(t).at \in ConnClosing
          /\ f.at \notin {"markClosing", "connClosed"} /\ f.at # "dropRef"
      BY <1>3, <1>5 DEF Public, New, Closing, InClose, ConnClosing
    <2> QED BY <1>3, <2>1, <2>2, FitsOn
  <1>8. GivesAt(Last(t), f) BY <1>3, <1>5 DEF GivesAt
  <1>9. refCount' = [refCount EXCEPT ![u] = @ - 1] BY <1>2 DEF ReleaseStmtRef
  <1> QED BY <1>2, <1>3, <1>5, <1>6, <1>7, <1>8, <1>9, CallGives

(* An implicit result gives back the reference to its parent. *)
LEMMA StmtReleaseParentInv ==
    ASSUME LifeInv, NEW t \in Threads, StmtReleaseParent(t)
    PROVE  LifeInv'
  <1>1. Stacks /\ Shape /\ TypeOK /\ Alone BY DEF LifeInv, TypeOK
  <1> PICK s : s = Top(t).s OBVIOUS
  <1> PICK u : u = parent[s] OBVIOUS
  <1> PICK f : f = [Top(t) EXCEPT !.at = "unparent"] OBVIOUS
  <1>2. /\ At(t, "stmtRelease") /\ u # NULL /\ ReleaseStmtRef(t, u, f)
        /\ UNCHANGED <<mem, closing, handle, parent, oci, connVars, listVars,
                       userVars>>
    BY DEF StmtReleaseParent
  <1>3. /\ depth[t] \in Nat \ {0} /\ Last(t).at = "stmtRelease"
        /\ Top(t) = Last(t) /\ s = Last(t).s /\ stack[t] # <<>>
        /\ Last(t) \in FrameType
    BY <1>1, <1>2, LastIs
  <1>4. s \in Stmts /\ u \in Stmts
    BY <1>1, <1>2, <1>3, LastStmt DEF InStmt, TypeOK
  <1>5. f \in FrameType /\ f.at = "unparent" /\ f.s = s
    <2>1. "unparent" \in Labels /\ FitsLabel(Last(t).s, "unparent")
      BY <1>3, <1>4, StmtLifetimeAssumption DEF Labels, Closing, InClose,
         FitsLabel, ConnFreeing
    <2> QED BY <1>3, <2>1, FrameAt
  <1>6. Stacks' /\ Released(t, u, f)
    BY <1>1, <1>2, <1>3, <1>4, <1>5, ReleasedIs
  <1>7. Fits(t, f)
    <2>1. Fits(t, Last(t)) BY <1>1, <1>3, LastFits
    <2>2. /\ f.s = Last(t).s /\ f.at \notin Public /\ f.at \in Closing
          /\ Last(t).at \in Closing /\ f.at \notin ConnClosing
          /\ f.at \notin {"markClosing", "connClosed"} /\ f.at # "dropRef"
      BY <1>3, <1>5 DEF Public, New, Closing, InClose, ConnClosing
    <2> QED BY <1>3, <2>1, <2>2, FitsOn
  <1>8. GivesAt(Last(t), f) BY <1>3, <1>5 DEF GivesAt
  <1>9. refCount' = [refCount EXCEPT ![u] = @ - 1] BY <1>2 DEF ReleaseStmtRef
  (* Only this call is closing s, so its reference is still counted. *)
  <1>10. ~Elsewhere(t, s, Unparenting) /\ ~In(s, Unparenting)
    <2>1. Once(InClose) /\ Last(t).at \in InClose
      BY <1>1, <1>3 DEF Alone, Sole, InClose
    <2>2. ~Elsewhere(t, s, InClose) BY <1>3, <2>1, LastOnce
    <2>3. ~Elsewhere(t, s, Unparenting)
      BY <2>2 DEF Elsewhere, Unparenting, InClose
    <2> QED BY <1>3, <2>3, InNow DEF Is, Unparenting
  <1>11. <<s, "result">> \in Refs(u) BY <1>2, <1>4, <1>10, HeldByResult
  <1>12. \A v \in Threads : CallRef(v)' = CallRef(v)
    <2>1. Last(t).at \notin RefLabels /\ f.at \notin RefLabels
      BY <1>3, <1>5 DEF RefLabels, Refers, New
    <2> QED BY <1>1, <1>3, <1>6, <2>1, CallRefReleased
  <1>13. \A c \in Stmts : In(c, Unparenting)' <=> In(c, Unparenting) \/ c = s
    <2> SUFFICES ASSUME NEW c \in Stmts
                 PROVE  In(c, Unparenting)' <=> In(c, Unparenting) \/ c = s
      OBVIOUS
    <2>1. In(c, Unparenting)' <=>
             Is(f, c, Unparenting) \/ Elsewhere(t, c, Unparenting)
      BY <1>1, <1>3, <1>6, InReleased DEF Unparenting
    <2>2. In(c, Unparenting) <=> Elsewhere(t, c, Unparenting)
      BY <1>3, InNow DEF Is, Unparenting
    <2>3. Is(f, c, Unparenting) <=> c = s BY <1>5 DEF Is, Unparenting
    <2> QED BY <2>1, <2>2, <2>3
  <1>14. userStmts' = userStmts /\ parent' = parent BY <1>2 DEF userVars
  <1>15. Refs(u)' = Refs(u) \ {<<s, "result">>}
    BY <1>10, <1>12, <1>13, <1>14 DEF Refs
  <1>16. \A y \in Stmts : y # u => Refs(y)' = Refs(y)
    BY <1>12, <1>13, <1>14 DEF Refs
  <1> QED BY <1>2, <1>3, <1>4, <1>5, <1>6, <1>7, <1>8, <1>9, <1>11, <1>15,
             <1>16, ReleasedInv

(* ... and has none from then on. *)
LEMMA StmtClearParentInv ==
    ASSUME LifeInv, NEW t \in Threads, StmtClearParent(t)
    PROVE  LifeInv'
  <1>1. /\ Stacks /\ Shape /\ FoundIsKnown /\ CloseState /\ TypeOK /\ Alone
        /\ FreedIsClosed /\ Counted /\ NewIsAlone
    BY DEF LifeInv, TypeOK
  <1> PICK s : s = Top(t).s OBVIOUS
  <1>2. /\ At(t, "unparent") /\ parent' = [parent EXCEPT ![s] = NULL]
        /\ GoTo(t, "unlist")
        /\ UNCHANGED <<mem, refCount, closing, handle, oci, connVars, listVars,
                       userVars>>
    BY DEF StmtClearParent
  <1>3. /\ depth[t] \in Nat \ {0} /\ Last(t).at = "unparent"
        /\ Top(t) = Last(t) /\ s = Last(t).s /\ stack[t] # <<>>
    BY <1>1, <1>2, LastIs
  <1>4. s \in Stmts BY <1>1, <1>3, LastStmt DEF InStmt
  <1>5. PICK f \in FrameType : Stacks' /\ WentOn(t, f) /\ f.at = "unlist"
                               /\ f.s = s
    <2>1. "unlist" \in Labels /\ FitsLabel(Last(t).s, "unlist")
      BY <1>3, <1>4, StmtLifetimeAssumption DEF Labels, Closing, InClose,
         FitsLabel, ConnFreeing
    <2> QED BY <1>1, <1>2, <1>3, <2>1, GoToIs
  <1>6. /\ parent' \in [Stmts -> Stmts \cup {NULL}] /\ parent'[s] = NULL
        /\ \A x \in Stmts : x # s => parent'[x] = parent[x]
    BY <1>1, <1>2, <1>4 DEF TypeOK
  <1>7. TypeOK'
    BY <1>1, <1>2, <1>5, <1>6 DEF TypeOK, connVars, listVars, userVars
  <1>8. Shape' /\ Alone' /\ FreedIsClosed' /\ ConnInv'
    <2>1. UsersKeep /\ SameConn /\ handle' = handle
      BY <1>2 DEF UsersKeep, SameConn, userVars, connVars
    <2>2. Fits(t, f)
      <3>1. Fits(t, Last(t)) BY <1>1, <1>3, LastFits
      <3>2. /\ f.s = Last(t).s /\ f.at \notin Public /\ f.at \in Closing
            /\ Last(t).at \in Closing /\ f.at \notin ConnClosing
            /\ f.at \notin {"markClosing", "connClosed"} /\ f.at # "dropRef"
        BY <1>3, <1>5 DEF Public, New, Closing, InClose, ConnClosing
      <3> QED BY <1>3, <3>1, <3>2, FitsOn
    <2>3. Shape' BY <1>1, <1>3, <1>5, <2>1, <2>2, ShapeWentOn
    <2>4. \A L \in Sole : f.at \in L =>
             (Last(t).at \in L /\ Last(t).s = f.s) \/ ~In(f.s, L)
      BY <1>3, <1>5 DEF Sole, New, Freeing, InClose, ConnFreeing
    <2>5. Alone' BY <1>1, <1>3, <1>5, <2>4, AloneWentOn
    <2>6. Last(t)' = f /\ Others(t) /\ f.at # "freeParent"
      BY <1>5 DEF WentOn, Last
    <2>7. FreedIsClosed' BY <1>1, <2>1, <2>6, FreedKept
    <2>8. /\ \A L \in ConnMarks : Last(t).at \notin L /\ f.at \notin L
          /\ Last(t).at # "unrefConn" /\ f.at # "unrefConn"
          /\ f.at \notin ConnClosing
      BY <1>3, <1>5 DEF ConnMarks, Letting, ConnFreeing, ConnClosing
    <2>9. ConnInv' BY <1>3, <1>5, <2>1, <2>8, ConnWentOn
    <2> QED BY <2>3, <2>5, <2>7, <2>9
  <1>9. \A L \in {New, Unrefing, Freeing, Sought, Unlisted} : Same(L)
    <2>1. \A L \in {New, Unrefing, Freeing, Sought, Unlisted} :
             Last(t).at \notin L /\ f.at \notin L
      BY <1>3, <1>5 DEF New, Unrefing, Freeing, Sought, Unlisted
    <2> QED BY <1>1, <1>3, <1>5, <2>1, SameWentOn
  <1>10. \A v \in Threads : CallRef(v)' = CallRef(v)
    <2>1. Last(t).at \notin RefLabels /\ f.at \notin RefLabels /\ Others(t)
      BY <1>3, <1>5 DEF RefLabels, Refers, New, WentOn
    <2> QED BY <1>1, <1>3, <1>5, <2>1, CallRefWentOn, CallRefOthers
  <1>11. /\ In(s, Unparenting)
         /\ \A c \in Stmts : c # s => (In(c, Unparenting)' <=> In(c, Unparenting))
    <2>1. In(s, Unparenting) BY <1>3, LastIn DEF Unparenting
    <2> QED BY <1>1, <1>3, <1>5, <2>1, OtherWentOn
  <1>12. ASSUME NEW y \in Stmts
         PROVE  Refs(y)' = Refs(y)
    <2>1. \A c \in Stmts : parent'[c] = y /\ ~In(c, Unparenting)'
                           <=> parent[c] = y /\ ~In(c, Unparenting)
      BY <1>6, <1>11, StmtLifetimeAssumption
    <2> QED BY <1>2, <1>10, <2>1 DEF Refs, userVars
  <1>13. Counted' BY <1>1, <1>2, <1>9, <1>12, CountedKept DEF Counted, Same
  <1>14. NewIsAlone'
    <2> SUFFICES ASSUME NEW x \in Stmts, In(x, New)'
                 PROVE  /\ parent'[x] = NULL /\ ~In(x, Unrefing)'
                        /\ \A u \in Threads : x \notin userStmts'[u]
                        /\ \A c \in Stmts : parent'[c] # x
      BY DEF NewIsAlone
    <2>1. In(x, New) BY <1>9 DEF Same
    <2> QED BY <1>1, <1>2, <1>6, <1>9, <2>1, StmtLifetimeAssumption DEF
        NewIsAlone, Same, userVars
  <1>15. FoundIsKnown' BY <1>1, <1>2, <1>9, FoundKept DEF listVars
  <1>16. CloseState'
    <2> SUFFICES ASSUME NEW x \in Stmts PROVE CloseStateAt(x)'
      BY DEF CloseState
    <2>1. CloseStateAt(x) BY <1>1 DEF CloseState
    <2>2. CASE x # s
      <3>1. SameClose(x) BY <1>1, <1>3, <1>5, <2>2, OtherWentOn DEF SameClose
      <3> QED BY <1>2, <1>6, <2>1, <2>2, <3>1, CloseAtKept DEF CloseStateAt
    <2>3. CASE x = s
      <3>1. In(s, InClose) /\ ~In(s, Closed) /\ ~In(s, Preparing)
            /\ mem[s] # "unused"
        <4>1. In(s, InClose) BY <1>3, LastIn DEF InClose
        <4>2. closing[s] /\ handle[s]
          BY <1>1, <1>4, <4>1 DEF CloseState, CloseStateAt
        <4> QED BY <1>4, <2>1, <2>3, <4>1, <4>2 DEF CloseStateAt
      <3>2. In(s, Let)' /\ In(s, InClose)'
        <4>1. Is(f, s, Let) /\ Is(f, s, InClose) BY <1>5 DEF Is, Let, InClose
        <4> QED BY <1>1, <1>3, <1>5, <4>1, InWentOn
      <3>3. ~In(s, Closed)' /\ ~In(s, Preparing)'
        <4>1. \A L \in {Closed, Preparing} : Last(t).at \notin L /\ f.at \notin L
          BY <1>3, <1>5 DEF Closed, Preparing
        <4>2. Same(Closed) /\ Same(Preparing)
          BY <1>1, <1>3, <1>5, <4>1, SameWentOn
        <4> QED BY <1>4, <3>1, <4>2 DEF Same
      <3> QED BY <1>2, <1>6, <2>1, <2>3, <3>1, <3>2, <3>3 DEF CloseStateAt
    <2> QED BY <2>2, <2>3
  <1> QED BY <1>7, <1>8, <1>13, <1>14, <1>15, <1>16 DEF LifeInv, ConnInv
-----------------------------------------------------------------------------
(* References that the program takes and gives.                             *)
LEMMA StillMarks ==
    ASSUME UNCHANGED stack
    PROVE  /\ \A L : Same(L)
           /\ \A u \in Threads : CallRef(u)' = CallRef(u)
           /\ \A u \in Threads : UnrefsConn(u)' <=> UnrefsConn(u)
           /\ \A u \in Threads : depth'[u] = depth[u] /\ Last(u)' = Last(u)
  <1>1. UNCHANGED <<depth, calls>> BY SameStacks
  <1>2. \A L : Same(L) BY SameStill
  <1>3. \A u \in Threads : CallRef(u)' = CallRef(u) BY <1>1 DEF CallRef
  <1>4. \A u \in Threads : UnrefsConn(u)' <=> UnrefsConn(u)
    BY <1>1 DEF UnrefsConn
  <1>5. \A u \in Threads : depth'[u] = depth[u] /\ Last(u)' = Last(u)
    BY <1>1 DEF Last
  <1> QED BY <1>2, <1>3, <1>4, <1>5

(* dpiStmt_addRef: the program gives a thread a reference of its own. *)
LEMMA AddRefForInv ==
    ASSUME LifeInv, NEW t \in Threads, NEW s \in Stmts, NEW v \in Threads,
           AddRefFor(t, s, v)
    PROVE  LifeInv'
  <1>1. /\ Stacks /\ Shape /\ FoundIsKnown /\ CloseState /\ TypeOK /\ Alone
        /\ FreedIsClosed /\ Counted /\ NewIsAlone
    BY DEF LifeInv, TypeOK
  <1>2. /\ s \in userStmts[t] /\ s \notin userStmts[v]
        /\ refCount' = [refCount EXCEPT ![s] = @ + 1]
        /\ userStmts' = [userStmts EXCEPT ![v] = @ \cup {s}]
        /\ UNCHANGED <<mem, closing, handle, parent, oci, connVars, listVars,
                       userConn, stack>>
    BY DEF AddRefFor
  <1>3. /\ mem[s] = "live" /\ ~In(s, Freeing) /\ refCount[s] \in Nat \ {0}
    BY <1>2, HeldByUser
  <1>4. /\ refCount' \in [Stmts -> Int] /\ refCount'[s] = refCount[s] + 1
        /\ \A x \in Stmts : x # s => refCount'[x] = refCount[x]
        /\ userStmts' \in [Threads -> SUBSET Stmts]
        /\ userStmts'[v] = userStmts[v] \cup {s}
        /\ \A u \in Threads : u # v => userStmts'[u] = userStmts[u]
    BY <1>1, <1>2 DEF TypeOK
  <1>5. Stacks' BY <1>1, <1>2 DEF Stacks
  <1>6. TypeOK' BY <1>1, <1>2, <1>4, <1>5 DEF TypeOK, connVars, listVars
  <1>7. /\ \A L : Same(L)
        /\ \A u \in Threads : CallRef(u)' = CallRef(u)
        /\ \A u \in Threads : depth'[u] = depth[u] /\ Last(u)' = Last(u)
    BY <1>2, StillMarks
  <1>8. Shape'
    <2>1. UsersKeep BY <1>2, <1>4 DEF UsersKeep
    <2> QED BY <1>1, <1>2, <2>1, ShapeStill
  <1>9. Alone' BY <1>1, <1>2, AloneStill
  <1>10. Counted'
    <2> SUFFICES ASSUME NEW x \in Stmts PROVE CountedAt(x)' BY DEF Counted
    <2>1. /\ In(x, Freeing)' <=> In(x, Freeing)
          /\ \A c \in Stmts : In(c, Unparenting)' <=> In(c, Unparenting)
      BY <1>7 DEF Same
    <2>2. CASE x = s
      <3>1. <<v, "user">> \notin Refs(s) BY <1>2 DEF Refs
      <3>2. Refs(s)' = Refs(s) \cup {<<v, "user">>}
        BY <1>2, <1>4, <1>7, <2>1 DEF Refs
      <3> QED BY <1>1, <1>2, <1>3, <1>4, <2>1, <2>2, <3>1, <3>2, RefTaken DEF
          Counted
    <2>3. CASE x # s
      <3>1. \A u \in Threads : x \in userStmts'[u] <=> x \in userStmts[u]
        BY <1>4, <2>3
      <3>2. Refs(x)' = Refs(x) BY <1>2, <1>7, <2>1, <3>1 DEF Refs
      <3> QED BY <1>1, <1>2, <1>4, <2>1, <2>3, <3>2, CountedKept DEF Counted
    <2> QED BY <2>2, <2>3
  <1>11. NewIsAlone'
    <2> SUFFICES ASSUME NEW x \in Stmts, In(x, New)'
                 PROVE  /\ parent'[x] = NULL /\ ~In(x, Unrefing)'
                        /\ \A u \in Threads : x \notin userStmts'[u]
                        /\ \A c \in Stmts : parent'[c] # x
      BY DEF NewIsAlone
    <2>1. In(x, New) /\ (In(x, Unrefing)' <=> In(x, Unrefing)) BY <1>7 DEF Same
    <2>2. x # s BY <1>1, <1>2, <2>1 DEF NewIsAlone
    <2> QED BY <1>1, <1>2, <1>4, <2>1, <2>2 DEF NewIsAlone
  <1>12. FoundIsKnown'
    <2> SUFFICES ASSUME NEW x \in Stmts, Found(x)'
                 PROVE  /\ mem'[x] # "unused" /\ ~In(x, Unlisted)'
                        /\ In(x, Freeing)' => refCount'[x] = 0
      BY DEF FoundIsKnown
    <2>1. /\ Found(x) /\ (In(x, Unlisted)' <=> In(x, Unlisted))
          /\ (In(x, Freeing)' <=> In(x, Freeing))
      BY <1>2, <1>7 DEF Found, Same, listVars
    <2> QED BY <1>1, <1>2, <1>3, <1>4, <2>1 DEF FoundIsKnown
  <1>13. CloseState' BY <1>1, <1>2, <1>7, CloseKept DEF CloseSame
  <1>14. FreedIsClosed' BY <1>1, <1>2, <1>7 DEF FreedIsClosed
  <1>15. ConnInv' BY <1>2, ConnStill DEF SameConn, connVars
  <1> QED BY <1>6, <1>8, <1>9, <1>10, <1>11, <1>12, <1>13, <1>14, <1>15 DEF
      LifeInv, ConnInv

(* dpiStmt_release begins: the program's reference becomes the call's. *)
LEMMA ReleaseStmtInv ==
    ASSUME LifeInv, NEW t \in Threads, NEW s \in Stmts, ReleaseStmt(t, s)
    PROVE  LifeInv'
  <1>1. /\ Stacks /\ Shape /\ FoundIsKnown /\ CloseState /\ TypeOK /\ Alone
        /\ FreedIsClosed /\ Counted /\ NewIsAlone
    BY DEF LifeInv, TypeOK
  <1> PICK f : f = Frame("unref", s, FALSE) OBVIOUS
  <1>2. /\ stack[t] = <<>> /\ s \in userStmts[t]
        /\ userStmts' = [userStmts EXCEPT ![t] = @ \ {s}]
        /\ Start(t, f)
        /\ UNCHANGED <<stmtVars, connVars, listVars, userConn>>
    BY DEF ReleaseStmt, Idle
  <1>3. f \in FrameType /\ f.at = "unref" /\ f.s = s
    <2>1. "unref" \in Labels /\ FitsLabel(s, "unref")
          /\ s \in Stmts \cup {NULL} /\ FALSE \in BOOLEAN
      BY StmtLifetimeAssumption DEF Labels, Public, FitsLabel, ConnFreeing
    <2> QED BY <2>1, FrameIs
  <1>4. Stacks' /\ Began(t, f) BY <1>1, <1>2, <1>3, StartIs
  <1>5. <<t, "user">> \in Refs(s) BY <1>2, HeldByUser
  <1>6. /\ userStmts' \in [Threads -> SUBSET Stmts]
        /\ userStmts'[t] = userStmts[t] \ {s}
        /\ \A u \in Threads : u # t => userStmts'[u] = userStmts[u]
    BY <1>1, <1>2 DEF TypeOK
  <1>7. TypeOK'
    BY <1>1, <1>2, <1>4, <1>6 DEF TypeOK, stmtVars, connVars, listVars
  <1>8. Shape'
    <2>1. UsersKeep BY <1>2, <1>4, <1>6 DEF UsersKeep, Began
    <2>2. MayBegin(t, f)' BY <1>3 DEF MayBegin, Closing, InClose, ConnClosing
    <2> QED BY <1>1, <1>4, <2>1, <2>2, ShapeBegan
  <1>9. Alone'
    <2>1. \A L \in Sole : f.at \notin L
      BY <1>3 DEF Sole, New, Freeing, InClose, ConnFreeing
    <2> QED BY <1>1, <1>4, <2>1, AloneBegan
  <1>10. /\ \A L \in {New, Unparenting, Freeing, Sought, Unlisted} : Same(L)
         /\ CloseSame
    <2>1. \A L \in {New, Unparenting, Freeing, Sought, Unlisted, InClose,
                    Unheld, Let, Closed, Preparing} : f.at \notin L
      BY <1>3 DEF New, Unparenting, Freeing, Sought, Unlisted, InClose, Unheld,
         Let, Closed, Preparing
    <2>2. \A L \in {New, Unparenting, Freeing, Sought, Unlisted, InClose,
                    Unheld, Let, Closed, Preparing} : Same(L)
      BY <1>1, <1>4, <2>1, SameBegan
    <2> QED BY <2>2 DEF CloseSame
  <1>11. /\ CallRef(t) = NULL /\ CallRef(t)' = s
         /\ \A u \in Threads \ {t} : CallRef(u)' = CallRef(u)
    <2>1. f.at \in Refers BY <1>3 DEF Refers
    <2> QED BY <1>1, <1>3, <1>4, <2>1, CallRefBegan, CallRefOthers DEF Began
  <1>12. Counted'
    <2> SUFFICES ASSUME NEW x \in Stmts PROVE CountedAt(x)' BY DEF Counted
    <2>1. /\ In(x, Freeing)' <=> In(x, Freeing)
          /\ \A c \in Stmts : In(c, Unparenting)' <=> In(c, Unparenting)
          /\ mem' = mem /\ parent' = parent /\ refCount' = refCount
      BY <1>2, <1>10 DEF Same, stmtVars
    <2>2. CASE x = s
      <3>1. <<t, "call">> \notin Refs(s)
        BY <1>11, StmtLifetimeAssumption DEF Refs
      <3>2. Refs(s)' = (Refs(s) \ {<<t, "user">>}) \cup {<<t, "call">>}
        BY <1>2, <1>6, <1>11, <2>1, StmtLifetimeAssumption DEF Refs
      <3> QED BY <1>1, <1>5, <2>1, <2>2, <3>1, <3>2, RefPassed DEF Counted
    <2>3. CASE x # s
      <3>1. \A u \in Threads : CallRef(u)' = x <=> CallRef(u) = x
        BY <1>11, <2>3, StmtLifetimeAssumption
      <3>2. \A u \in Threads : x \in userStmts'[u] <=> x \in userStmts[u]
        BY <1>6, <2>3
      <3>3. Refs(x)' = Refs(x) BY <2>1, <3>1, <3>2 DEF Refs
      <3> QED BY <1>1, <2>1, <3>3, CountedKept DEF Counted
    <2> QED BY <2>2, <2>3
  <1>13. NewIsAlone'
    <2> SUFFICES ASSUME NEW x \in Stmts, In(x, New)'
                 PROVE  /\ parent'[x] = NULL /\ ~In(x, Unrefing)'
                        /\ \A u \in Threads : x \notin userStmts'[u]
                        /\ \A c \in Stmts : parent'[c] # x
      BY DEF NewIsAlone
    <2>1. In(x, New) BY <1>10 DEF Same
    <2>2. x # s BY <1>1, <1>2, <2>1 DEF NewIsAlone
    <2>3. ~In(x, Unrefing)'
      <3>1. In(x, Unrefing)' <=> In(x, Unrefing)
        BY <1>1, <1>3, <1>4, <2>2, OtherBegan
      <3> QED BY <1>1, <2>1, <3>1 DEF NewIsAlone
    <2> QED BY <1>1, <1>2, <1>6, <2>1, <2>3 DEF NewIsAlone, stmtVars
  <1>14. FoundIsKnown' BY <1>1, <1>2, <1>10, FoundKept DEF stmtVars, listVars
  <1>15. CloseState' BY <1>1, <1>2, <1>10, CloseKept DEF stmtVars
  <1>16. FreedIsClosed'
    <2>1. Last(t)' = f /\ Others(t) /\ f.at # "freeParent"
      BY <1>3, <1>4 DEF Last, Began
    <2> QED BY <1>1, <1>2, <2>1, FreedKept DEF stmtVars
  <1>17. ConnInv'
    <2>1. /\ \A L \in ConnMarks : f.at \notin L
          /\ f.at # "unrefConn" /\ f.at \notin ConnClosing
      BY <1>3 DEF ConnMarks, Letting, ConnFreeing, ConnClosing
    <2> QED BY <1>2, <1>4, <2>1, ConnBegan DEF SameConn, connVars, stmtVars
  <1> QED BY <1>7, <1>8, <1>9, <1>12, <1>13, <1>14, <1>15, <1>16, <1>17 DEF
      LifeInv, ConnInv

(***************************************************************************)
(* A statement for an implicit result: unused memory until now.            *)
(***************************************************************************)
LEMMA ResultKnown ==
    ASSUME LifeInv, NEW t \in Threads, NEW s \in Stmts, NEW p \in Stmts,
           p \in userStmts[t], mem[s] = "unused", connHandle,
           mem' = [mem EXCEPT ![s] = "live"],
           refCount' = [refCount EXCEPT ![s] = 1, ![p] = @ + 1],
           connRefs' = connRefs + 1,
           handle' = [handle EXCEPT ![s] = TRUE],
           parent' = [parent EXCEPT ![s] = p],
           UNCHANGED <<closing, oci, connLive, connClosing, connHandle,
                       deadSession, listVars, userConn>>,
           Stacks', Shape', Alone', FailedIsOpen',
           \A L \in {New, Unrefing, Unparenting, Sought, Unlisted, Letting,
                     ConnFreeing, {"connClosed"}, InClose, Unheld, Let, Closed,
                     Preparing} : Same(L),
           \A x \in Stmts : x # s => (In(x, Freeing)' <=> In(x, Freeing)),
           \A u \in Threads : CallRef(u)' = CallRef(u),
           \A u \in Threads : UnrefsConn(u)' <=> UnrefsConn(u),
           Any(ConnClosing)' => Any(ConnClosing),
           \A u \in Threads : depth'[u] >= 1 /\ Last(u)'.at = "freeParent" =>
               depth[u] >= 1 /\ Last(u)' = Last(u),
           userStmts' \in [Threads -> SUBSET Stmts],
           \A u \in Threads : \A x \in Stmts :
               x # s => (x \in userStmts'[u] <=> x \in userStmts[u]),
           CountedAt(s)'
    PROVE  LifeInv'
  <1>1. /\ Stacks /\ Shape /\ FoundIsKnown /\ CloseState /\ TypeOK /\ Alone
        /\ FreedIsClosed /\ Counted /\ NewIsAlone /\ ConnState
    BY DEF LifeInv, TypeOK
  <1>2. /\ ~Found(s)
        /\ \A c \in Stmts : parent[c] # s
        /\ ~In(s, Freeing) /\ ~In(s, New) /\ ~In(s, InClose) /\ ~In(s, Unheld)
        /\ ~In(s, Let) /\ ~In(s, Closed) /\ ~In(s, Preparing)
        /\ ~In(s, Letting) /\ ~In(s, Unparenting)
        /\ ~closing[s] /\ parent[s] = NULL /\ <<s, "stmt">> \notin Keepers
    BY Unused
  <1>3. /\ mem[p] = "live" /\ ~In(p, Freeing) /\ refCount[p] \in Nat \ {0}
    BY HeldByUser
  <1>4. p # s BY <1>3
  <1>5. /\ mem' \in [Stmts -> {"unused", "live", "freed"}] /\ mem'[s] = "live"
        /\ refCount' \in [Stmts -> Int] /\ refCount'[p] = refCount[p] + 1
        /\ handle' \in [Stmts -> BOOLEAN] /\ handle'[s]
        /\ parent' \in [Stmts -> Stmts \cup {NULL}] /\ parent'[s] = p
        /\ \A x \in Stmts : x # s => /\ mem'[x] = mem[x]
                                     /\ handle'[x] = handle[x]
                                     /\ parent'[x] = parent[x]
                                     /\ x # p => refCount'[x] = refCount[x]
        /\ connRefs' \in Int
    BY <1>1, <1>4 DEF TypeOK
  <1>6. TypeOK' BY <1>1, <1>5 DEF TypeOK, listVars
  <1>7. \A x \in Stmts :
           /\ In(x, New)' <=> In(x, New)
           /\ In(x, Unrefing)' <=> In(x, Unrefing)
           /\ In(x, Unparenting)' <=> In(x, Unparenting)
           /\ In(x, Sought)' <=> In(x, Sought)
           /\ In(x, Unlisted)' <=> In(x, Unlisted)
           /\ In(x, Letting)' <=> In(x, Letting)
           /\ SameClose(x)
    BY DEF Same, SameClose
  <1>8. Counted'
    <2> SUFFICES ASSUME NEW x \in Stmts, x # s PROVE CountedAt(x)'
      BY DEF Counted
    <2>1. CASE x = p
      <3>1. <<s, "result">> \notin Refs(p)
        BY <1>2, StmtLifetimeAssumption DEF Refs
      <3>2. \A c \in Stmts : parent'[c] = p /\ ~In(c, Unparenting)'
                             <=> (parent[c] = p /\ ~In(c, Unparenting)) \/ c = s
        BY <1>2, <1>5, <1>7
      <3>3. \A u \in Threads : p \in userStmts'[u] <=> p \in userStmts[u]
        BY <1>4
      <3>4. Refs(p)' = Refs(p) \cup {<<s, "result">>} BY <3>2, <3>3 DEF Refs
      <3>5. ~In(p, Freeing)' /\ mem'[p] = "live" BY <1>3, <1>4, <1>5
      <3> QED BY <1>1, <1>3, <1>5, <2>1, <3>1, <3>4, <3>5, RefTaken DEF Counted
    <2>2. CASE x # p
      <3>1. \A c \in Stmts : parent'[c] = x /\ ~In(c, Unparenting)'
                             <=> parent[c] = x /\ ~In(c, Unparenting)
        BY <1>2, <1>5, <1>7, <2>2, StmtLifetimeAssumption
      <3>2. Refs(x)' = Refs(x) BY <3>1 DEF Refs
      <3> QED BY <1>1, <1>5, <2>2, <3>2, CountedKept DEF Counted
    <2> QED BY <2>1, <2>2
  <1>9. NewIsAlone'
    <2> SUFFICES ASSUME NEW x \in Stmts, In(x, New)'
                 PROVE  /\ parent'[x] = NULL /\ ~In(x, Unrefing)'
                        /\ \A u \in Threads : x \notin userStmts'[u]
                        /\ \A c \in Stmts : parent'[c] # x
      BY DEF NewIsAlone
    <2>1. In(x, New) /\ x # s BY <1>2, <1>7
    <2>2. x # p BY <1>1, <2>1 DEF NewIsAlone
    <2> QED BY <1>1, <1>5, <1>7, <2>1, <2>2 DEF NewIsAlone
  <1>10. FoundIsKnown'
    <2> SUFFICES ASSUME NEW x \in Stmts, Found(x)'
                 PROVE  /\ mem'[x] # "unused" /\ ~In(x, Unlisted)'
                        /\ In(x, Freeing)' => refCount'[x] = 0
      BY DEF FoundIsKnown
    <2>1. Found(x) /\ x # s BY <1>2, <1>7 DEF Found, listVars
    <2> QED BY <1>1, <1>3, <1>5, <1>7, <2>1 DEF FoundIsKnown
  <1>11. CloseState'
    <2> SUFFICES ASSUME NEW x \in Stmts PROVE CloseStateAt(x)'
      BY DEF CloseState
    <2>1. CloseStateAt(x) /\ parent[x] \in Stmts \cup {NULL} /\ SameClose(x)
      BY <1>1, <1>7 DEF CloseState, TypeOK
    <2>2. CASE x # s
      <3>1. parent[x] # NULL => mem'[parent[x]] # "unused"
        BY <1>5, <2>1 DEF CloseStateAt
      <3> QED BY <1>5, <2>1, <2>2, <3>1, CloseAtKept
    <2>3. CASE x = s
      <3>1. mem'[p] # "unused" /\ p # NULL
        BY <1>3, <1>4, <1>5, StmtLifetimeAssumption
      <3> QED BY <1>2, <1>5, <2>1, <2>3, <3>1 DEF CloseStateAt, SameClose
    <2> QED BY <2>2, <2>3
  <1>12. FreedIsClosed'
    <2> SUFFICES ASSUME NEW u \in Threads, NEW x \in Stmts, depth'[u] >= 1,
                        Last(u)'.s = x, Last(u)'.at = "freeParent"
                 PROVE  ~handle'[x]
      BY DEF FreedIsClosed, Is
    <2>1. depth[u] >= 1 /\ Last(u).s = x /\ Last(u).at = "freeParent" OBVIOUS
    <2>2. ~handle[x] BY <1>1, <2>1 DEF FreedIsClosed, Is
    <2>3. x # s
      <3>1. depth[u] \in Nat \ {0} BY <1>1, <2>1, DepthOf
      <3>2. In(x, Freeing) BY <2>1, <3>1, LastIn DEF Freeing
      <3> QED BY <1>2, <3>2
    <2> QED BY <1>5, <2>2, <2>3
  <1>13. Keepers' = Keepers \cup {<<s, "stmt">>}
    BY <1>2, <1>5, <1>7 DEF Keepers
  <1>14. <<p, "stmt">> \in Keepers
    <2>1. ~In(p, Letting) BY <1>3, InSub DEF Letting, Freeing
    <2> QED BY <1>3, <2>1 DEF Keepers
  <1>15. ConnCounted'
    <2>1. In(NULL, ConnFreeing)' <=> In(NULL, ConnFreeing) BY DEF Same
    <2> QED BY <1>2, <1>13, <1>14, <2>1, KeeperAdded
  <1>16. ConnState'
    <2>1. In(NULL, {"connClosed"})' <=> In(NULL, {"connClosed"}) BY DEF Same
    <2> QED BY <1>1, <2>1 DEF ConnState
  <1> QED BY <1>6, <1>8, <1>9, <1>10, <1>11, <1>12, <1>15, <1>16 DEF LifeInv

(* dpiStmt_getImplicitResult allocates a statement that keeps its parent. *)
LEMMA GetImplicitResultInv ==
    ASSUME LifeInv, NEW t \in Threads, NEW p \in Stmts, GetImplicitResult(t, p)
    PROVE  LifeInv'
  <1>1. /\ Stacks /\ Shape /\ TypeOK /\ Alone /\ FailedIsOpen
    BY DEF LifeInv, TypeOK
  <1>2. PICK s \in Stmts :
          /\ mem[s] = "unused"
          /\ mem' = [mem EXCEPT ![s] = "live"]
          /\ refCount' = [refCount EXCEPT ![s] = 1, ![p] = @ + 1]
          /\ connRefs' = connRefs + 1
          /\ handle' = [handle EXCEPT ![s] = TRUE]
          /\ parent' = [parent EXCEPT ![s] = p]
          /\ \/ /\ userStmts' = [userStmts EXCEPT ![t] = @ \cup {s}]
                /\ UNCHANGED stack
             \/ /\ Start(t, Frame("stmtFree", s, FALSE))
                /\ UNCHANGED userStmts
    BY DEF GetImplicitResult
  <1>3. /\ p \in userStmts[t] /\ connHandle /\ stack[t] = <<>>
        /\ UNCHANGED <<closing, oci, connLive, connClosing, connHandle,
                       deadSession, listVars, userConn>>
    BY DEF GetImplicitResult, Usable, Connected, Idle
  <1>4. /\ Refs(s) = {} /\ ~In(s, Freeing) /\ ~In(s, Unparenting)
        /\ \A u \in Threads : s \notin userStmts[u] /\ CallRef(u) # s
        /\ \A c \in Stmts : parent[c] # s
    BY <1>2, Unused
  <1>5. mem[p] = "live" /\ p # s BY <1>2, <1>3, HeldByUser
  <1>6. /\ mem'[s] = "live" /\ refCount'[s] = 1
        /\ \A c \in Stmts : parent'[c] # s
    BY <1>1, <1>2, <1>4, <1>5 DEF TypeOK
  <1>7. CASE /\ userStmts' = [userStmts EXCEPT ![t] = @ \cup {s}]
             /\ UNCHANGED stack
    <2>1. /\ userStmts' \in [Threads -> SUBSET Stmts]
          /\ userStmts'[t] = userStmts[t] \cup {s}
          /\ \A u \in Threads : u # t => userStmts'[u] = userStmts[u]
      BY <1>1, <1>7 DEF TypeOK
    <2>2. /\ \A L : Same(L)
          /\ \A u \in Threads : CallRef(u)' = CallRef(u)
          /\ \A u \in Threads : UnrefsConn(u)' <=> UnrefsConn(u)
          /\ \A u \in Threads : depth'[u] = depth[u] /\ Last(u)' = Last(u)
      BY <1>7, StillMarks
    <2>3. Shape'
      <3>1. UsersKeep BY <1>3, <2>1 DEF UsersKeep
      <3> QED BY <1>1, <1>7, <3>1, ShapeStill
    <2>4. Alone' /\ FailedIsOpen' /\ Stacks'
      BY <1>1, <1>3, <1>7, AloneStill, FailedStill DEF Stacks
    <2>5. Any(ConnClosing)' => Any(ConnClosing) BY <1>7, AnyStill
    <2>6. CountedAt(s)'
      <3>1. Refs(s)' = {<<t, "user">>} BY <1>4, <1>6, <2>1, <2>2 DEF Refs
      <3>2. Cardinality(Refs(s)') = 1 BY <3>1, FS_Singleton
      <3>3. ~In(s, Freeing)' BY <1>4, <2>2 DEF Same
      <3> QED BY <1>6, <3>2, <3>3 DEF CountedAt
    <2>7. \A x \in Stmts : In(x, Freeing)' <=> In(x, Freeing) BY <2>2 DEF Same
    <2>8. \A u \in Threads : \A x \in Stmts :
             x # s => (x \in userStmts'[u] <=> x \in userStmts[u])
      BY <2>1
    <2> QED BY <1>2, <1>3, <2>1, <2>2, <2>3, <2>4, <2>5, <2>6, <2>7, <2>8,
        ResultKnown
  <1>8. CASE /\ Start(t, Frame("stmtFree", s, FALSE))
             /\ UNCHANGED userStmts
    <2> PICK f : f = Frame("stmtFree", s, FALSE) OBVIOUS
    <2>1. f \in FrameType /\ f.at = "stmtFree" /\ f.s = s
      <3>1. "stmtFree" \in Labels /\ FitsLabel(s, "stmtFree")
            /\ s \in Stmts \cup {NULL} /\ FALSE \in BOOLEAN
        BY StmtLifetimeAssumption DEF Labels, Freeing, FitsLabel, ConnFreeing
      <3> QED BY <3>1, FrameIs
    <2>2. Stacks' /\ Began(t, f) BY <1>1, <1>3, <1>8, <2>1, StartIs
    <2>3. \A L \in {New, Unrefing, Unparenting, Sought, Unlisted, Letting,
                    ConnFreeing, {"connClosed"}, InClose, Unheld, Let, Closed,
                    Preparing} : Same(L)
      <3>1. \A L \in {New, Unrefing, Unparenting, Sought, Unlisted, Letting,
                      ConnFreeing, {"connClosed"}, InClose, Unheld, Let,
                      Closed, Preparing} : f.at \notin L
        BY <2>1 DEF New, Unrefing, Unparenting, Sought, Unlisted, Letting,
           ConnFreeing, InClose, Unheld, Let, Closed, Preparing
      <3> QED BY <1>1, <2>2, <3>1, SameBegan
    <2>4. \A x \in Stmts : x # s => (In(x, Freeing)' <=> In(x, Freeing))
      BY <1>1, <2>1, <2>2, OtherBegan
    <2>5. /\ \A u \in Threads : CallRef(u)' = CallRef(u)
          /\ \A u \in Threads : UnrefsConn(u)' <=> UnrefsConn(u)
      <3>1. f.at \notin Refers /\ f.at # "unrefConn" /\ Others(t)
        BY <2>1, <2>2 DEF Refers, New, Began
      <3> QED BY <1>1, <2>2, <3>1, CallRefBegan, CallRefOthers
    <2>6. Shape'
      <3>1. UsersKeep BY <1>3, <1>8 DEF UsersKeep
      <3>2. MayBegin(t, f)' BY <2>1 DEF MayBegin, Closing, InClose, ConnClosing
      <3> QED BY <1>1, <2>2, <3>1, <3>2, ShapeBegan
    <2>7. Alone'
      <3>1. \A L \in Sole : f.at \in L => L = Freeing
        BY <2>1 DEF Sole, New, InClose, ConnFreeing
      <3> QED BY <1>1, <1>4, <2>1, <2>2, <3>1, AloneBegan
    <2>8. FailedIsOpen' BY <1>1, <1>3, <2>1, <2>2, FailedBegan
    <2>9. Any(ConnClosing)' => Any(ConnClosing)
      <3>1. f.at \notin ConnClosing BY <2>1 DEF ConnClosing
      <3> QED BY <1>1, <2>2, <3>1, AnyBegan
    <2>10. \A u \in Threads : depth'[u] >= 1 /\ Last(u)'.at = "freeParent" =>
              depth[u] >= 1 /\ Last(u)' = Last(u)
      <3>1. Last(t)' = f /\ Others(t) BY <2>2 DEF Last, Began
      <3>2. \A u \in Threads : u # t => depth'[u] = depth[u]
                                        /\ Last(u)' = Last(u)
        BY <3>1, LastOthers
      <3> QED BY <2>1, <3>1, <3>2
    <2>11. CountedAt(s)'
      <3>1. Refs(s)' = {} BY <1>4, <1>6, <1>8, <2>5 DEF Refs
      <3>2. In(s, Freeing)' BY <1>1, <2>1, <2>2, InBegan DEF Is, Freeing
      <3> QED BY <1>6, <3>1, <3>2 DEF CountedAt
    <2>12. userStmts' \in [Threads -> SUBSET Stmts] BY <1>1, <1>8 DEF TypeOK
    <2>13. \A u \in Threads : \A x \in Stmts :
             x # s => (x \in userStmts'[u] <=> x \in userStmts[u])
      BY <1>8
    <2> QED BY <1>2, <1>3, <2>2, <2>3, <2>4, <2>5, <2>6, <2>7, <2>8, <2>9,
               <2>10, <2>11, <2>12, <2>13, ResultKnown
  <1> QED BY <1>2, <1>7, <1>8
-----------------------------------------------------------------------------
(* Giving back a reference to the connection: whoever gives the last one    *)
(* frees it.                                                                *)
ConnReleased(t, f) ==
    IF connRefs = 1
    THEN \E g \in FrameType : /\ Called(t, g, f)
                              /\ g.at = "connFree" /\ g.s = NULL
    ELSE WentOn(t, f)

(* Giving back a reference to the connection; the last one frees it. *)
LEMMA ConnReleasedIs ==
    ASSUME Stacks, NEW t \in Threads, stack[t] # <<>>, NEW f \in FrameType,
           ReleaseConnRef(t, f)
    PROVE  Stacks' /\ ConnReleased(t, f)
  <1>1. CASE connRefs = 1
    <2> PICK g : g = Frame("connFree", NULL, FALSE) OBVIOUS
    <2>1. g \in FrameType /\ g.at = "connFree" /\ g.s = NULL
      <3>1. "connFree" \in Labels /\ FitsLabel(NULL, "connFree")
            /\ NULL \in Stmts \cup {NULL} /\ FALSE \in BOOLEAN
        BY DEF Labels, ConnFreeing, FitsLabel, InStmt, Freeing
      <3> QED BY <3>1, FrameIs
    <2>2. Call(t, g, f) BY <1>1 DEF ReleaseConnRef
    <2> QED BY <1>1, <2>1, <2>2, CallIs DEF ConnReleased
  <1>2. CASE connRefs # 1 BY <1>2, GoOnIs DEF ReleaseConnRef, ConnReleased
  <1> QED BY <1>1, <1>2

LEMMA InConnReleased ==
    ASSUME Stacks, NEW t \in Threads, depth[t] \in Nat \ {0}, NEW f,
           ConnReleased(t, f), NEW s, NEW L
    PROVE  /\ "connFree" \notin L =>
                 (In(s, L)' <=> Is(f, s, L) \/ Elsewhere(t, s, L))
           /\ "connFree" \in L =>
                 (In(s, L)' <=> \/ Is(f, s, L) \/ Elsewhere(t, s, L)
                                \/ (connRefs = 1 /\ s = NULL))
  <1>1. CASE connRefs = 1
    <2>1. PICK g \in FrameType :
             Called(t, g, f) /\ g.at = "connFree" /\ g.s = NULL
      BY <1>1 DEF ConnReleased
    <2>2. In(s, L)' <=> Is(f, s, L) \/ Is(g, s, L) \/ Elsewhere(t, s, L)
      BY <2>1, InCalled
    <2>3. Is(g, s, L) <=> "connFree" \in L /\ s = NULL BY <2>1 DEF Is
    <2> QED BY <1>1, <2>2, <2>3
  <1>2. CASE connRefs # 1
    <2>1. WentOn(t, f) BY <1>2 DEF ConnReleased
    <2>2. In(s, L)' <=> Is(f, s, L) \/ Elsewhere(t, s, L) BY <2>1, InWentOn
    <2> QED BY <1>2, <2>2
  <1> QED BY <1>1, <1>2

LEMMA SameConnReleased ==
    ASSUME Stacks, NEW t \in Threads, depth[t] \in Nat \ {0}, NEW f,
           ConnReleased(t, f), NEW L, "connFree" \notin L,
           Stays(Last(t), f, L)
    PROVE  Same(L)
  <1> SUFFICES ASSUME NEW s \in Stmts \cup {NULL}
               PROVE  In(s, L)' <=> In(s, L)
    BY DEF Same
  <1>1. In(s, L)' <=> Is(f, s, L) \/ Elsewhere(t, s, L) BY InConnReleased
  <1>2. In(s, L) <=> Is(Last(t), s, L) \/ Elsewhere(t, s, L) BY InNow
  <1>3. Is(f, s, L) <=> Is(Last(t), s, L) BY DEF Is, Stays
  <1> QED BY <1>1, <1>2, <1>3

(* Where it is given back: by dpiConn_release and by a freed statement.     *)
GivesConnAt(g, f) ==
    \/ g.at = "unrefConn" /\ f.at = "end" /\ f.s = NULL
    \/ g.at = "freeConn" /\ f.at = "freeMemory" /\ f.s = g.s

LEMMA ConnReleasedMarks ==
    ASSUME Stacks, Shape, NEW t \in Threads, depth[t] \in Nat \ {0},
           NEW f \in FrameType, ConnReleased(t, f), GivesConnAt(Last(t), f)
    PROVE  /\ \A v \in Threads : CallRef(v)' = CallRef(v)
           /\ \A v \in Threads \ {t} : UnrefsConn(v)' <=> UnrefsConn(v)
           /\ UnrefsConn(t)' <=> UnrefsConn(t) /\ Last(t).at # "unrefConn"
           /\ Any(ConnClosing)' => Any(ConnClosing)
  <1>1. /\ Last(t).at \notin RefLabels /\ f.at \notin RefLabels
        /\ f.at # "unrefConn" /\ f.at \notin ConnClosing
    BY DEF GivesConnAt, RefLabels, Refers, New, ConnClosing
  <1>2. CASE connRefs = 1
    <2>1. PICK g \in FrameType :
             Called(t, g, f) /\ g.at = "connFree" /\ g.s = NULL
      BY <1>2 DEF ConnReleased
    <2>2. g.at \notin RefLabels /\ g.at \notin ConnClosing /\ Others(t)
      BY <2>1 DEF RefLabels, Refers, New, ConnClosing, Called
    <2>3. CallRef(t)' = CallRef(t) BY <1>1, <2>1, <2>2, CallRefCalled
    <2>4. UnrefsConn(t)' <=> UnrefsConn(t) /\ Last(t).at # "unrefConn"
      BY <1>1, <2>1, UnrefsCalled
    <2> QED BY <1>1, <2>1, <2>2, <2>3, <2>4, CallRefOthers, AnyCalled
  <1>3. CASE connRefs # 1
    <2>1. WentOn(t, f) /\ Others(t) BY <1>3 DEF ConnReleased, WentOn
    <2>2. CallRef(t)' = CallRef(t) BY <1>1, <2>1, CallRefWentOn
    <2>3. UnrefsConn(t)' <=> UnrefsConn(t) /\ Last(t).at # "unrefConn"
      BY <1>1, <2>1, UnrefsWentOn
    <2> QED BY <1>1, <2>1, <2>2, <2>3, CallRefOthers, AnyWentOn
  <1> QED BY <1>2, <1>3

LEMMA ConnReleasedInv ==
    ASSUME LifeInv, NEW t \in Threads, depth[t] \in Nat \ {0}, Stacks',
           NEW x \in Keepers, NEW f \in FrameType, ConnReleased(t, f),
           Fits(t, f), GivesConnAt(Last(t), f), connRefs' = connRefs - 1,
           UNCHANGED <<stmtVars, connLive, connClosing, connHandle,
                       deadSession, listVars, userVars>>,
           Keepers' = Keepers \ {x}
    PROVE  LifeInv'
  <1>1. /\ Stacks /\ Shape /\ FoundIsKnown /\ CloseState /\ TypeOK /\ Alone
        /\ FreedIsClosed /\ Counted /\ NewIsAlone /\ ConnState /\ FailedIsOpen
    BY DEF LifeInv, TypeOK
  <1>2. /\ ~In(NULL, ConnFreeing) /\ connRefs \in Nat \ {0} BY Kept
  <1>3. TypeOK' BY <1>1, <1>2 DEF TypeOK, stmtVars, listVars, userVars
  <1>4. UsersKeep BY DEF UsersKeep, userVars
  <1>5. f.at \in {"end", "freeMemory"} BY DEF GivesConnAt
  <1>6. Shape' /\ Alone' /\ FreedIsClosed' /\ FailedIsOpen'
    <2>1. \A L \in Sole : f.at \in L =>
             (Last(t).at \in L /\ Last(t).s = f.s) \/ ~In(f.s, L)
      <3> SUFFICES ASSUME NEW L \in Sole, f.at \in L
                   PROVE  Last(t).at \in L /\ Last(t).s = f.s
        OBVIOUS
      <3>1. L = Freeing BY <1>5 DEF Sole, New, Freeing, InClose, ConnFreeing
      <3> QED BY <1>5, <3>1 DEF GivesConnAt, Freeing
    <2>2. handle' = handle BY DEF stmtVars
    <2>3. CASE connRefs = 1
      <3>1. PICK g \in FrameType :
               Called(t, g, f) /\ g.at = "connFree" /\ g.s = NULL
        BY <2>3 DEF ConnReleased
      <3>2. MayCall(f, g)
        BY <1>5, <3>1 DEF MayCall, Public, New, Closing, InClose, ConnClosing
      <3>3. Shape' BY <1>1, <1>4, <3>1, <3>2, ShapeCalled
      <3>4. \A L \in Sole : g.at \in L => ~In(g.s, L) /\ ~Is(f, g.s, L)
        <4> SUFFICES ASSUME NEW L \in Sole, g.at \in L
                     PROVE  ~In(g.s, L) /\ ~Is(f, g.s, L)
          OBVIOUS
        <4>1. L = ConnFreeing
          BY <3>1 DEF Sole, New, Freeing, InClose, ConnFreeing
        <4> QED BY <1>2, <1>5, <3>1, <4>1 DEF Is, ConnFreeing
      <3>5. Alone' BY <1>1, <2>1, <3>1, <3>4, AloneCalled
      <3>6. Last(t)' = g /\ Others(t) BY <1>1, <3>1 DEF Called, Last
      <3>7. FreedIsClosed' BY <1>1, <2>2, <3>1, <3>6, FreedKept
      <3>8. FailedIsOpen' BY <1>1, <1>5, <3>1, FailedCalled
      <3> QED BY <3>3, <3>5, <3>7, <3>8
    <2>4. CASE connRefs # 1
      <3>1. WentOn(t, f) BY <2>4 DEF ConnReleased
      <3>2. Shape' BY <1>1, <1>4, <3>1, ShapeWentOn
      <3>3. Alone' BY <1>1, <2>1, <3>1, AloneWentOn
      <3>4. Last(t)' = f /\ Others(t) BY <3>1 DEF WentOn, Last
      <3>5. FreedIsClosed' BY <1>1, <1>5, <2>2, <3>4, FreedKept
      <3>6. FailedIsOpen' BY <1>1, <1>5, <3>1, FailedWentOn
      <3> QED BY <3>2, <3>3, <3>5, <3>6
    <2> QED BY <2>3, <2>4
  <1>7. /\ \A L \in {New, Unrefing, Unparenting, Freeing, Sought, Unlisted,
                     {"connClosed"}} : Same(L)
        /\ CloseSame
    <2>1. \A L \in {New, Unrefing, Unparenting, Freeing, Sought, Unlisted,
                    {"connClosed"}, InClose, Unheld, Let, Closed, Preparing} :
             "connFree" \notin L /\ Stays(Last(t), f, L)
      BY DEF GivesConnAt, Stays, New, Unrefing, Unparenting, Freeing, Sought,
         Unlisted, InClose, Unheld, Let, Closed, Preparing
    <2>2. \A L \in {New, Unrefing, Unparenting, Freeing, Sought, Unlisted,
                    {"connClosed"}, InClose, Unheld, Let, Closed, Preparing} :
             Same(L)
      BY <1>1, <2>1, SameConnReleased
    <2> QED BY <2>2 DEF CloseSame
  <1>8. /\ \A v \in Threads : CallRef(v)' = CallRef(v)
        /\ Any(ConnClosing)' => Any(ConnClosing)
    BY <1>1, ConnReleasedMarks
  <1>9. Counted' BY <1>1, <1>7, <1>8, AllCountedKept DEF stmtVars, userVars
  <1>10. NewIsAlone' BY <1>1, <1>7, NewKept DEF stmtVars, userVars
  <1>11. FoundIsKnown' BY <1>1, <1>7, FoundKept DEF stmtVars, listVars
  <1>12. CloseState' BY <1>1, <1>7, CloseKept DEF stmtVars
  <1>13. ConnCounted'
    <2>1. ~Elsewhere(t, NULL, ConnFreeing) BY <1>2, InNow
    <2>2. In(NULL, ConnFreeing)' <=> connRefs = 1
      <3>1. "connFree" \in ConnFreeing /\ ~Is(f, NULL, ConnFreeing)
        BY <1>5 DEF ConnFreeing, Is
      <3> QED BY <1>1, <2>1, <3>1, InConnReleased
    <2> QED BY <2>2, KeeperGiven
  <1>14. ConnState'
    <2>1. In(NULL, {"connClosed"})' <=> In(NULL, {"connClosed"})
      BY <1>7 DEF Same
    <2>2. ~connClosing => connHandle BY <1>1 DEF ConnState
    <2> QED BY <1>1, <1>8, <2>1, <2>2 DEF ConnState
  <1> QED BY <1>3, <1>6, <1>9, <1>10, <1>11, <1>12, <1>13, <1>14 DEF LifeInv

(* dpiConn_release gives back the program's reference. *)
LEMMA UnrefConnInv ==
    ASSUME LifeInv, NEW t \in Threads, UnrefConn(t)
    PROVE  LifeInv'
  <1>1. Stacks /\ Shape BY DEF LifeInv, TypeOK
  <1> PICK f : f = Frame("end", NULL, FALSE) OBVIOUS
  <1>2. /\ At(t, "unrefConn") /\ ReleaseConnRef(t, f)
        /\ UNCHANGED <<stmtVars, connLive, connClosing, connHandle,
                       deadSession, listVars, userVars>>
    BY DEF UnrefConn
  <1>3. /\ depth[t] \in Nat \ {0} /\ Last(t).at = "unrefConn"
        /\ stack[t] # <<>>
    BY <1>1, <1>2, LastIs
  <1>4. f \in FrameType /\ f.at = "end" /\ f.s = NULL
    <2>1. "end" \in Labels /\ FitsLabel(NULL, "end")
          /\ NULL \in Stmts \cup {NULL} /\ FALSE \in BOOLEAN
      BY DEF Labels, Public, FitsLabel, InStmt, Freeing, ConnFreeing
    <2> QED BY <2>1, FrameIs
  <1>5. Stacks' /\ ConnReleased(t, f) BY <1>1, <1>2, <1>3, <1>4, ConnReleasedIs
  <1>6. depth[t] = 1
    <2>1. calls[t][depth[t]].at \in Public /\ depth[t] \in 1 .. depth[t]
      BY <1>3 DEF Last, Public
    <2> QED BY <1>1, <2>1, PublicIsFirst
  <1>7. Fits(t, f)
    <2>1. MayBegin(t, f) BY <1>4 DEF MayBegin, Closing, InClose, ConnClosing
    <2>2. ~(depth[t] >= 2) BY <1>6
    <2> QED BY <2>1, <2>2 DEF Fits
  <1>8. GivesConnAt(Last(t), f) /\ connRefs' = connRefs - 1
    BY <1>2, <1>3, <1>4 DEF GivesConnAt, ReleaseConnRef
  <1>9. UnrefsConn(t) BY <1>3, <1>6 DEF UnrefsConn, Last
  <1>10. <<t, "call">> \in Keepers BY <1>9 DEF Keepers
  <1>11. Keepers' = Keepers \ {<<t, "call">>}
    <2>1. /\ ~UnrefsConn(t)'
          /\ \A v \in Threads \ {t} : UnrefsConn(v)' <=> UnrefsConn(v)
      BY <1>1, <1>3, <1>4, <1>5, <1>8, ConnReleasedMarks
    <2>2. \A r \in Stmts : In(r, Letting)' <=> In(r, Letting)
      <3>1. "connFree" \notin Letting /\ Stays(Last(t), f, Letting)
        BY <1>3, <1>4 DEF Letting, Stays
      <3> QED BY <1>1, <1>3, <1>5, <3>1, SameConnReleased DEF Same
    <2>3. userConn' = userConn /\ mem' = mem BY <1>2 DEF userVars, stmtVars
    <2> QED BY <2>1, <2>2, <2>3 DEF Keepers
  <1> QED BY <1>2, <1>3, <1>4, <1>5, <1>7, <1>8, <1>10, <1>11, ConnReleasedInv

(* A statement that is freed gives back its reference to the connection. *)
LEMMA StmtFreeConnInv ==
    ASSUME LifeInv, NEW t \in Threads, StmtFreeConn(t)
    PROVE  LifeInv'
  <1>1. Stacks /\ Shape /\ Alone /\ Counted BY DEF LifeInv, TypeOK
  <1> PICK s : s = Top(t).s OBVIOUS
  <1> PICK f : f = Frame("freeMemory", s, FALSE) OBVIOUS
  <1>2. /\ At(t, "freeConn") /\ ReleaseConnRef(t, f)
        /\ UNCHANGED <<stmtVars, connLive, connClosing, connHandle,
                       deadSession, listVars, userVars>>
    BY DEF StmtFreeConn
  <1>3. /\ depth[t] \in Nat \ {0} /\ Last(t).at = "freeConn"
        /\ Top(t) = Last(t) /\ s = Last(t).s /\ stack[t] # <<>>
    BY <1>1, <1>2, LastIs
  <1>4. s \in Stmts BY <1>1, <1>3, LastStmt DEF InStmt, Freeing
  <1>5. f \in FrameType /\ f.at = "freeMemory" /\ f.s = s
    <2>1. "freeMemory" \in Labels /\ FitsLabel(s, "freeMemory")
          /\ s \in Stmts \cup {NULL} /\ FALSE \in BOOLEAN
      BY <1>4, StmtLifetimeAssumption DEF Labels, Freeing, FitsLabel,
         ConnFreeing
    <2> QED BY <2>1, FrameIs
  <1>6. Stacks' /\ ConnReleased(t, f) BY <1>1, <1>2, <1>3, <1>5, ConnReleasedIs
  <1>7. Fits(t, f)
    <2>1. Fits(t, Last(t)) BY <1>1, <1>3, LastFits
    <2>2. /\ f.s = Last(t).s /\ f.at \notin Public /\ f.at \notin Closing
          /\ Last(t).at \notin Closing /\ f.at \notin ConnClosing
          /\ f.at \notin {"markClosing", "connClosed"} /\ f.at # "dropRef"
      BY <1>3, <1>5 DEF Public, New, Closing, InClose, ConnClosing
    <2> QED BY <1>3, <2>1, <2>2, FitsOn
  <1>8. GivesConnAt(Last(t), f) /\ connRefs' = connRefs - 1
    BY <1>2, <1>3, <1>5 DEF GivesConnAt, ReleaseConnRef
  (* Until now the statement has kept the connection. *)
  <1>9. mem[s] = "live" /\ ~Elsewhere(t, s, Letting) /\ ~In(s, Letting)
    <2>1. Once(Freeing) /\ Last(t).at \in Freeing
      BY <1>1, <1>3 DEF Alone, Sole, Freeing
    <2>2. In(s, Freeing) BY <1>3, <2>1, LastIn
    <2>3. ~Elsewhere(t, s, Freeing) BY <1>3, <2>1, LastOnce
    <2>4. ~Elsewhere(t, s, Letting) BY <2>3 DEF Elsewhere, Letting, Freeing
    <2>5. ~In(s, Letting) BY <1>3, <2>4, InNow DEF Is, Letting
    <2> QED BY <1>1, <1>4, <2>2, <2>4, <2>5 DEF Counted, CountedAt
  <1>10. <<s, "stmt">> \in Keepers BY <1>4, <1>9 DEF Keepers
  <1>11. Keepers' = Keepers \ {<<s, "stmt">>}
    <2>1. \A v \in Threads : UnrefsConn(v)' <=> UnrefsConn(v)
      BY <1>1, <1>3, <1>5, <1>6, <1>8, ConnReleasedMarks
    <2>2. \A r \in Stmts : In(r, Letting)' <=> In(r, Letting) \/ r = s
      <3> SUFFICES ASSUME NEW r \in Stmts
                   PROVE  In(r, Letting)' <=> In(r, Letting) \/ r = s
        OBVIOUS
      <3>1. In(r, Letting)' <=> Is(f, r, Letting) \/ Elsewhere(t, r, Letting)
        BY <1>1, <1>3, <1>6, InConnReleased DEF Letting
      <3>2. In(r, Letting) <=> Elsewhere(t, r, Letting)
        BY <1>3, InNow DEF Is, Letting
      <3>3. Is(f, r, Letting) <=> r = s BY <1>5 DEF Is, Letting
      <3> QED BY <3>1, <3>2, <3>3
    <2>3. userConn' = userConn /\ mem' = mem BY <1>2 DEF userVars, stmtVars
    <2> QED BY <2>1, <2>2, <2>3 DEF Keepers
  <1> QED BY <1>2, <1>3, <1>5, <1>6, <1>7, <1>8, <1>10, <1>11, ConnReleasedInv

(* dpiConn_release begins: the program's reference becomes the call's. *)
LEMMA ReleaseConnInv ==
    ASSUME LifeInv, NEW t \in Threads, ReleaseConn(t)
    PROVE  LifeInv'
  <1>1. /\ Stacks /\ Shape /\ FoundIsKnown /\ CloseState /\ TypeOK /\ Alone
        /\ FreedIsClosed /\ Counted /\ NewIsAlone /\ ConnState /\ FailedIsOpen
    BY DEF LifeInv, TypeOK
  <1> PICK f : f = Frame("unrefConn", NULL, FALSE) OBVIOUS
  <1>2. /\ stack[t] = <<>> /\ t \in userConn
        /\ userConn' = userConn \ {t}
        /\ Start(t, f)
        /\ UNCHANGED <<stmtVars, connVars, listVars, userStmts>>
    BY DEF ReleaseConn, Idle
  <1>3. f \in FrameType /\ f.at = "unrefConn" /\ f.s = NULL
    <2>1. "unrefConn" \in Labels /\ FitsLabel(NULL, "unrefConn")
          /\ NULL \in Stmts \cup {NULL} /\ FALSE \in BOOLEAN
      BY DEF Labels, Public, FitsLabel, InStmt, Freeing, ConnFreeing
    <2> QED BY <2>1, FrameIs
  <1>4. Stacks' /\ Began(t, f) BY <1>1, <1>2, <1>3, StartIs
  <1>5. TypeOK' BY <1>1, <1>2, <1>4 DEF TypeOK, stmtVars, connVars, listVars
  <1>6. Shape'
    <2>1. UsersKeep BY <1>2, <1>4 DEF UsersKeep, Began
    <2>2. MayBegin(t, f)' BY <1>3 DEF MayBegin, Closing, InClose, ConnClosing
    <2> QED BY <1>1, <1>4, <2>1, <2>2, ShapeBegan
  <1>7. Alone'
    <2>1. \A L \in Sole : f.at \notin L
      BY <1>3 DEF Sole, New, Freeing, InClose, ConnFreeing
    <2> QED BY <1>1, <1>4, <2>1, AloneBegan
  <1>8. /\ \A L \in {New, Unrefing, Unparenting, Freeing, Sought, Unlisted,
                     Letting, ConnFreeing, {"connClosed"}} : Same(L)
        /\ CloseSame
    <2>1. \A L \in {New, Unrefing, Unparenting, Freeing, Sought, Unlisted,
                    Letting, ConnFreeing, {"connClosed"}, InClose, Unheld, Let,
                    Closed, Preparing} : f.at \notin L
      BY <1>3 DEF New, Unrefing, Unparenting, Freeing, Sought, Unlisted,
         Letting, ConnFreeing, InClose, Unheld, Let, Closed, Preparing
    <2>2. \A L \in {New, Unrefing, Unparenting, Freeing, Sought, Unlisted,
                    Letting, ConnFreeing, {"connClosed"}, InClose, Unheld, Let,
                    Closed, Preparing} : Same(L)
      BY <1>1, <1>4, <2>1, SameBegan
    <2> QED BY <2>2 DEF CloseSame
  <1>9. /\ \A u \in Threads : CallRef(u)' = CallRef(u)
        /\ ~UnrefsConn(t) /\ UnrefsConn(t)'
        /\ \A u \in Threads \ {t} : UnrefsConn(u)' <=> UnrefsConn(u)
    <2>1. f.at \notin Refers /\ Others(t) BY <1>3, <1>4 DEF Refers, New, Began
    <2> QED BY <1>1, <1>3, <1>4, <2>1, CallRefBegan, CallRefOthers
  <1>10. Counted' BY <1>1, <1>2, <1>8, <1>9, AllCountedKept DEF stmtVars
  <1>11. NewIsAlone' BY <1>1, <1>2, <1>8, NewKept DEF stmtVars
  <1>12. FoundIsKnown' BY <1>1, <1>2, <1>8, FoundKept DEF stmtVars, listVars
  <1>13. CloseState' BY <1>1, <1>2, <1>8, CloseKept DEF stmtVars
  <1>14. FreedIsClosed'
    <2>1. Last(t)' = f /\ Others(t) /\ f.at # "freeParent"
      BY <1>3, <1>4 DEF Last, Began
    <2> QED BY <1>1, <1>2, <2>1, FreedKept DEF stmtVars
  <1>15. <<t, "user">> \in Keepers /\ <<t, "call">> \notin Keepers
    BY <1>2, <1>9 DEF Keepers
  <1>16. Keepers' = (Keepers \ {<<t, "user">>}) \cup {<<t, "call">>}
    <2>1. \A r \in Stmts : In(r, Letting)' <=> In(r, Letting) BY <1>8 DEF Same
    <2>2. mem' = mem BY <1>2 DEF stmtVars
    <2> QED BY <1>2, <1>9, <2>1, <2>2 DEF Keepers
  <1>17. ConnCounted'
    <2>1. In(NULL, ConnFreeing)' <=> In(NULL, ConnFreeing) BY <1>8 DEF Same
    <2> QED BY <1>2, <1>15, <1>16, <2>1, KeeperPassed DEF connVars
  <1>18. ConnState'
    <2>1. In(NULL, {"connClosed"})' <=> In(NULL, {"connClosed"})
      BY <1>8 DEF Same
    <2>2. Any(ConnClosing)' => Any(ConnClosing)
      <3>1. f.at \notin ConnClosing BY <1>3 DEF ConnClosing
      <3> QED BY <1>1, <1>4, <3>1, AnyBegan
    <2>3. ~connClosing => connHandle BY <1>1, <1>15 DEF ConnState
    <2> QED BY <1>1, <1>2, <2>1, <2>2, <2>3 DEF ConnState, connVars
  <1>19. FailedIsOpen' BY <1>1, <1>2, <1>3, <1>4, FailedBegan DEF connVars
  <1> QED BY <1>5, <1>6, <1>7, <1>10, <1>11, <1>12, <1>13, <1>14, <1>17, <1>18,
             <1>19 DEF LifeInv

-----------------------------------------------------------------------------
(* The memory of a statement and that of the connection.                    *)
LEMMA StmtFreeMemoryInv ==
    ASSUME LifeInv, NEW t \in Threads, StmtFreeMemory(t)
    PROVE  LifeInv'
  <1>1. /\ Stacks /\ Shape /\ FoundIsKnown /\ CloseState /\ TypeOK /\ Alone
        /\ FreedIsClosed /\ Counted /\ NewIsAlone /\ ConnCounted /\ ConnState
        /\ FailedIsOpen
    BY DEF LifeInv, TypeOK
  <1> PICK s : s = Top(t).s OBVIOUS
  <1>2. /\ At(t, "freeMemory") /\ ReturnVoid(t)
        /\ mem' = [mem EXCEPT ![s] = "freed"]
        /\ parent' = [parent EXCEPT ![s] = NULL]
        /\ UNCHANGED <<refCount, closing, handle, oci, connVars, listVars,
                       userVars>>
    BY DEF StmtFreeMemory
  <1>3. /\ depth[t] \in Nat \ {0} /\ Last(t).at = "freeMemory"
        /\ Top(t) = Last(t) /\ s = Last(t).s /\ stack[t] # <<>>
    BY <1>1, <1>2, LastIs
  <1>4. s \in Stmts BY <1>1, <1>3, LastStmt DEF InStmt, Freeing
  <1>5. Stacks' /\ Ended(t) BY <1>1, <1>2, <1>3, ReturnVoidIs
  <1>6. /\ In(s, Freeing) /\ ~Elsewhere(t, s, Freeing) /\ In(s, Letting)
    <2>1. Once(Freeing) /\ Last(t).at \in Freeing /\ Last(t).at \in Letting
      BY <1>1, <1>3 DEF Alone, Sole, Freeing, Letting
    <2> QED BY <1>3, <2>1, LastIn, LastOnce
  <1>7. ~handle[s] /\ parent[s] = NULL
    <2>1. In(s, Closed) BY <1>3, LastIn DEF Closed
    <2> QED BY <1>1, <1>4, <2>1 DEF CloseState, CloseStateAt
  <1>8. parent' = parent BY <1>1, <1>2, <1>7 DEF TypeOK
  <1>9. /\ mem' \in [Stmts -> {"unused", "live", "freed"}]
        /\ mem'[s] = "freed" /\ \A x \in Stmts : x # s => mem'[x] = mem[x]
    BY <1>1, <1>2, <1>4 DEF TypeOK
  <1>10. TypeOK'
    BY <1>1, <1>2, <1>5, <1>8, <1>9 DEF TypeOK, connVars, listVars, userVars
  <1>11. Shape'
    <2>1. UsersKeep BY <1>2 DEF UsersKeep, userVars
    <2> QED BY <1>1, <1>3, <1>5, <2>1, ShapePopped
  <1>12. Alone' BY <1>1, <1>3, <1>5, AlonePopped
  <1>13. \A L \in {New, Unrefing, Unparenting, Sought, Unlisted, ConnFreeing,
                   {"connClosed"}, InClose, Unheld, Let, Preparing} : Same(L)
    <2>1. \A L \in {New, Unrefing, Unparenting, Sought, Unlisted, ConnFreeing,
                    {"connClosed"}, InClose, Unheld, Let, Preparing} :
             Last(t).at \notin L
      BY <1>3 DEF New, Unrefing, Unparenting, Sought, Unlisted, ConnFreeing,
         InClose, Unheld, Let, Preparing
    <2> QED BY <1>1, <1>3, <1>5, <2>1, SameEnded
  <1>14. \A u \in Threads : /\ CallRef(u)' = CallRef(u)
                            /\ UnrefsConn(u)' <=> UnrefsConn(u)
    <2>1. Last(t).at \notin RefLabels /\ Last(t).at # "unrefConn" /\ Others(t)
      BY <1>3, <1>5 DEF RefLabels, Refers, New, Ended
    <2> QED BY <1>1, <1>3, <1>5, <2>1, CallRefPopped, UnrefsPopped,
        CallRefOthers
  <1>15. /\ ~In(s, Freeing)'
         /\ \A x \in Stmts : x # s =>
                /\ In(x, Freeing)' <=> In(x, Freeing)
                /\ In(x, Letting)' <=> In(x, Letting)
                /\ In(x, Closed)' <=> In(x, Closed)
    <2>1. ~In(s, Freeing)' BY <1>1, <1>3, <1>5, <1>6, InEnded
    <2> QED BY <1>1, <1>3, <1>5, <2>1, OtherPopped
  <1>16. \A x \in Stmts : Refs(x)' = Refs(x)
    BY <1>2, <1>8, <1>13, <1>14, RefsSame DEF userVars
  <1>17. Counted'
    <2> SUFFICES ASSUME NEW x \in Stmts PROVE CountedAt(x)' BY DEF Counted
    <2>1. CASE x = s
      <3>1. Refs(s) = {} BY <1>1, <1>4, <1>6 DEF Counted, CountedAt
      <3> QED BY <1>9, <1>15, <1>16, <2>1, <3>1 DEF CountedAt
    <2>2. CASE x # s
      BY <1>1, <1>2, <1>9, <1>15, <1>16, <2>2, CountedKept DEF Counted
    <2> QED BY <2>1, <2>2
  <1>18. NewIsAlone' BY <1>1, <1>2, <1>8, <1>13, NewKept DEF userVars
  <1>19. FoundIsKnown'
    <2> SUFFICES ASSUME NEW x \in Stmts, Found(x)'
                 PROVE  /\ mem'[x] # "unused" /\ ~In(x, Unlisted)'
                        /\ In(x, Freeing)' => refCount'[x] = 0
      BY DEF FoundIsKnown
    <2>1. /\ Found(x) /\ (In(x, Unlisted)' <=> In(x, Unlisted))
          /\ In(x, Freeing)' => In(x, Freeing)
      BY <1>2, <1>13, <1>15 DEF Found, Same, listVars
    <2> QED BY <1>1, <1>2, <1>9, <2>1 DEF FoundIsKnown
  <1>20. CloseState'
    <2> SUFFICES ASSUME NEW x \in Stmts PROVE CloseStateAt(x)'
      BY DEF CloseState
    <2>1. CloseStateAt(x) /\ parent[x] \in Stmts \cup {NULL}
      BY <1>1 DEF CloseState, TypeOK
    <2>2. /\ In(x, InClose)' <=> In(x, InClose)
          /\ In(x, Unheld)' <=> In(x, Unheld)
          /\ In(x, Let)' <=> In(x, Let)
          /\ In(x, Preparing)' <=> In(x, Preparing)
      BY <1>13 DEF Same
    <2>3. parent[x] # NULL => mem'[parent[x]] # "unused"
      <3>1. \A y \in Stmts : mem[y] # "unused" => mem'[y] # "unused" BY <1>9
      <3> QED BY <2>1, <3>1 DEF CloseStateAt
    <2>4. CASE x # s
      BY <1>2, <1>8, <1>9, <1>15, <2>1, <2>2, <2>3, <2>4, CloseAtKept DEF
         SameClose
    <2>5. CASE x = s
      BY <1>2, <1>7, <1>8, <1>9, <2>1, <2>2, <2>5 DEF CloseStateAt
    <2> QED BY <2>4, <2>5
  <1>21. FreedIsClosed'
    <2>1. depth'[t] >= 1 => Last(t)'.at # "freeParent"
      <3> SUFFICES ASSUME depth'[t] >= 1, Last(t)'.at = "freeParent"
                   PROVE  FALSE
        OBVIOUS
      <3>1. /\ Last(t)'.at = calls[t][depth[t] - 1].at
            /\ MayCall(calls[t][depth[t] - 1], Last(t))
        BY <1>1, <1>3, <1>5, LastPopped
      <3>2. Last(t).at \in Closing BY <3>1 DEF MayCall
      <3> QED BY <1>3, <3>2 DEF Closing, InClose
    <2> QED BY <1>1, <1>2, <1>5, <2>1, FreedKept DEF Ended
  <1>22. Keepers' = Keepers
    <2>1. \A r \in Stmts : mem'[r] = "live" /\ ~In(r, Letting)'
                           <=> mem[r] = "live" /\ ~In(r, Letting)
      BY <1>6, <1>9, <1>15
    <2> QED BY <1>2, <1>14, <2>1 DEF Keepers, userVars
  <1>23. ConnCounted' BY <1>1, <1>2, <1>13, <1>22, ConnCountedKept DEF connVars
  <1>24. ConnState'
    <2>1. Any(ConnClosing)' => Any(ConnClosing) BY <1>1, <1>3, <1>5, AnyPopped
    <2> QED BY <1>1, <1>2, <1>13, <1>22, <2>1, ConnStateKept DEF connVars
  <1>25. FailedIsOpen' BY <1>1, <1>2, <1>3, <1>5, FailedEnded DEF connVars
  <1> QED BY <1>10, <1>11, <1>12, <1>17, <1>18, <1>19, <1>20, <1>21, <1>23,
             <1>24, <1>25 DEF LifeInv

(* The memory of the connection is freed, when nothing keeps it. *)
LEMMA ConnFreeMemoryInv ==
    ASSUME LifeInv, NEW t \in Threads, ConnFreeMemory(t)
    PROVE  LifeInv'
  <1>1. /\ Stacks /\ Shape /\ FoundIsKnown /\ CloseState /\ TypeOK /\ Alone
        /\ FreedIsClosed /\ Counted /\ NewIsAlone /\ ConnCounted /\ ConnState
        /\ FailedIsOpen
    BY DEF LifeInv, TypeOK
  <1>2. /\ At(t, "connFreeMemory") /\ ReturnVoid(t) /\ connLive' = FALSE
        /\ UNCHANGED <<stmtVars, connRefs, connClosing, connHandle,
                       deadSession, listVars, userVars>>
    BY DEF ConnFreeMemory
  <1>3. /\ depth[t] \in Nat \ {0} /\ Last(t).at = "connFreeMemory"
        /\ stack[t] # <<>>
    BY <1>1, <1>2, LastIs
  <1>4. Stacks' /\ Ended(t) BY <1>1, <1>2, <1>3, ReturnVoidIs
  <1>5. TypeOK' BY <1>1, <1>2, <1>4 DEF TypeOK, stmtVars, listVars, userVars
  <1>6. Shape'
    <2>1. UsersKeep BY <1>2 DEF UsersKeep, userVars
    <2> QED BY <1>1, <1>3, <1>4, <2>1, ShapePopped
  <1>7. Alone' BY <1>1, <1>3, <1>4, AlonePopped
  <1>8. /\ \A L \in {New, Unrefing, Unparenting, Freeing, Sought, Unlisted,
                     Letting, {"connClosed"}} : Same(L)
        /\ CloseSame
    <2>1. \A L \in {New, Unrefing, Unparenting, Freeing, Sought, Unlisted,
                    Letting, {"connClosed"}, InClose, Unheld, Let, Closed,
                    Preparing} : Last(t).at \notin L
      BY <1>3 DEF New, Unrefing, Unparenting, Freeing, Sought, Unlisted,
         Letting, InClose, Unheld, Let, Closed, Preparing
    <2>2. \A L \in {New, Unrefing, Unparenting, Freeing, Sought, Unlisted,
                    Letting, {"connClosed"}, InClose, Unheld, Let, Closed,
                    Preparing} : Same(L)
      BY <1>1, <1>3, <1>4, <2>1, SameEnded
    <2> QED BY <2>2 DEF CloseSame
  <1>9. \A u \in Threads : /\ CallRef(u)' = CallRef(u)
                           /\ UnrefsConn(u)' <=> UnrefsConn(u)
    <2>1. Last(t).at \notin RefLabels /\ Last(t).at # "unrefConn" /\ Others(t)
      BY <1>3, <1>4 DEF RefLabels, Refers, New, Ended
    <2> QED BY <1>1, <1>3, <1>4, <2>1, CallRefPopped, UnrefsPopped,
        CallRefOthers
  <1>10. Counted'
    BY <1>1, <1>2, <1>8, <1>9, AllCountedKept DEF stmtVars, userVars
  <1>11. NewIsAlone' BY <1>1, <1>2, <1>8, NewKept DEF stmtVars, userVars
  <1>12. FoundIsKnown' BY <1>1, <1>2, <1>8, FoundKept DEF stmtVars, listVars
  <1>13. CloseState' BY <1>1, <1>2, <1>8, CloseKept DEF stmtVars
  <1>14. FreedIsClosed'
    <2>1. depth'[t] >= 1 => Last(t)'.at # "freeParent"
      <3> SUFFICES ASSUME depth'[t] >= 1, Last(t)'.at = "freeParent"
                   PROVE  FALSE
        OBVIOUS
      <3>1. /\ Last(t)'.at = calls[t][depth[t] - 1].at
            /\ MayCall(calls[t][depth[t] - 1], Last(t))
        BY <1>1, <1>3, <1>4, LastPopped
      <3>2. Last(t).at \in Closing BY <3>1 DEF MayCall
      <3> QED BY <1>3, <3>2 DEF Closing, InClose
    <2> QED BY <1>1, <1>2, <1>4, <2>1, FreedKept DEF Ended, stmtVars
  <1>15. Keepers = {} /\ Keepers' = {}
    <2>1. In(NULL, ConnFreeing)
      <3>1. Last(t).s = NULL BY <1>1, <1>3, LastStmt DEF ConnFreeing
      <3> QED BY <1>3, <3>1, LastIn DEF ConnFreeing
    <2>2. Keepers' = Keepers
      BY <1>2, <1>8, <1>9, KeepersSame DEF stmtVars, userVars
    <2> QED BY <1>1, <2>1, <2>2 DEF ConnCounted
  <1>16. ConnCounted' BY <1>2, <1>15 DEF ConnCounted
  <1>17. ConnState'
    <2>1. Any(ConnClosing)' => Any(ConnClosing) BY <1>1, <1>3, <1>4, AnyPopped
    <2> QED BY <1>1, <1>2, <1>8, <1>15, <2>1, ConnStateKept
  <1>18. FailedIsOpen' BY <1>1, <1>2, <1>3, <1>4, FailedEnded
  <1> QED BY <1>5, <1>6, <1>7, <1>10, <1>11, <1>12, <1>13, <1>14, <1>16, <1>17,
             <1>18 DEF LifeInv
-----------------------------------------------------------------------------
(* Only one call closes the connection at a time: it has set closing, or    *)
(* frees the connection when nothing keeps it any more.                     *)
LEMMA CloserOf ==
    ASSUME LifeInv, NEW t \in Threads, NEW k \in 1 .. depth[t],
           calls[t][k].at \in ConnClosing
    PROVE  /\ k \in 2 .. depth[t] /\ k - 1 \in 1 .. depth[t]
           /\ calls[t][k - 1].s = NULL
           /\ \/ calls[t][k - 1].at = "connClosed" /\ connClosing
                 /\ Keepers # {} /\ k = 2
              \/ calls[t][k - 1].at = "connFreeMemory" /\ Keepers = {}
  <1>1. Stacks /\ Shape /\ ConnState /\ ConnCounted BY DEF LifeInv, TypeOK
  <1>2. depth[t] \in Nat BY <1>1, DepthOf
  <1>3. k # 1
    <2>1. k = 1 => MayBegin(t, calls[t][k]) BY <1>1, <1>2 DEF Shape, Ordered
    <2> QED BY <2>1 DEF MayBegin
  <1>4. k \in 2 .. depth[t] /\ k - 1 \in 1 .. depth[t] BY <1>2, <1>3
  <1>5. calls[t][k - 1].at \in {"connClosed", "connFreeMemory"}
    BY <1>1, <1>4, CallerOf DEF MayCall
  <1>6. calls[t][k - 1].s = NULL
    <2>1. calls[t][k - 1] \in FrameType BY <1>1, <1>4, DepthOf
    <2> QED BY <1>5, <2>1 DEF FrameType, ConnFreeing
  <1>7. CASE calls[t][k - 1].at = "connClosed"
    <2>1. k - 1 = 1 BY <1>1, <1>4, <1>7, PublicIsFirst DEF Public
    <2>2. In(NULL, {"connClosed"}) BY <1>4, <1>6, <1>7 DEF In
    <2>3. MayBegin(t, calls[t][1]) BY <1>1, <1>2, <1>4 DEF Shape, Ordered
    <2>4. <<t, "user">> \in Keepers BY <1>7, <2>1, <2>3 DEF MayBegin, Keepers
    <2>5. k = 2 BY <1>4, <2>1
    <2> QED BY <1>1, <1>4, <1>6, <1>7, <2>2, <2>4, <2>5 DEF ConnState
  <1>8. CASE calls[t][k - 1].at = "connFreeMemory"
    <2>1. In(NULL, ConnFreeing) BY <1>4, <1>6, <1>8 DEF In, ConnFreeing
    <2>2. Keepers = {} BY <1>1, <2>1 DEF ConnCounted
    <2> QED BY <1>4, <1>6, <1>8, <2>2
  <1> QED BY <1>5, <1>7, <1>8

(* One call is closing the connection. *)
LEMMA OneCloser ==
    ASSUME LifeInv, NEW t \in Threads, NEW k \in 1 .. depth[t],
           NEW u \in Threads, NEW j \in 1 .. depth[u],
           calls[t][k].at \in ConnClosing, calls[u][j].at \in ConnClosing
    PROVE  t = u /\ k = j
  <1>1. Alone BY DEF LifeInv
  <1>2. /\ k - 1 \in 1 .. depth[t] /\ calls[t][k - 1].s = NULL
        /\ \/ calls[t][k - 1].at = "connClosed" /\ Keepers # {}
           \/ calls[t][k - 1].at = "connFreeMemory" /\ Keepers = {}
    BY CloserOf
  <1>3. /\ j - 1 \in 1 .. depth[u] /\ calls[u][j - 1].s = NULL
        /\ \/ calls[u][j - 1].at = "connClosed" /\ Keepers # {}
           \/ calls[u][j - 1].at = "connFreeMemory" /\ Keepers = {}
    BY CloserOf
  <1>4. Once({"connClosed"}) /\ Once(ConnFreeing) BY <1>1 DEF Alone, Sole
  <1>5. t = u /\ k - 1 = j - 1
    <2>1. CASE Keepers = {}
      <3>1. /\ calls[t][k - 1].at \in ConnFreeing
            /\ calls[u][j - 1].at \in ConnFreeing
            /\ calls[t][k - 1].s = calls[u][j - 1].s
        BY <1>2, <1>3, <2>1 DEF ConnFreeing
      <3> QED BY <1>2, <1>3, <1>4, <3>1 DEF Once
    <2>2. CASE Keepers # {}
      <3>1. /\ calls[t][k - 1].at \in {"connClosed"}
            /\ calls[u][j - 1].at \in {"connClosed"}
            /\ calls[t][k - 1].s = calls[u][j - 1].s
        BY <1>2, <1>3, <2>2
      <3> QED BY <1>2, <1>3, <1>4, <3>1 DEF Once
    <2> QED BY <2>1, <2>2
  <1> QED BY <1>2, <1>3, <1>5

(* The close of the connection is called. *)
LEMMA ConnCloseCalled ==
    ASSUME LifeInv, NEW t \in Threads, depth[t] \in Nat \ {0}, Stacks',
           NEW f \in FrameType, NEW g \in FrameType, Called(t, g, f),
           g.at = "connClose", connHandle, Fits(t, f), MayCall(f, g),
           \/ /\ Last(t).at = "markClosing" /\ f.at = "connClosed"
              /\ f.s = NULL /\ f.ok /\ ~In(NULL, {"connClosed"})
              /\ connClosing' = TRUE
           \/ /\ Last(t).at = "connFree" /\ f.at = "connFreeMemory"
              /\ f.s = Last(t).s /\ connClosing' = connClosing,
           UNCHANGED <<stmtVars, connLive, connRefs, connHandle, deadSession,
                       listVars, userVars>>
    PROVE  LifeInv'
  <1>1. /\ Stacks /\ Shape /\ FoundIsKnown /\ CloseState /\ TypeOK /\ Alone
        /\ FreedIsClosed /\ Counted /\ NewIsAlone /\ ConnCounted /\ ConnState
        /\ FailedIsOpen
    BY DEF LifeInv, TypeOK
  <1>2. TypeOK' BY <1>1 DEF TypeOK, stmtVars, listVars, userVars
  <1>3. Shape'
    <2>1. UsersKeep BY DEF UsersKeep, userVars
    <2> QED BY <1>1, <2>1, ShapeCalled
  <1>4. Alone'
    <2>1. \A L \in Sole : g.at \notin L
      BY DEF Sole, New, Freeing, InClose, ConnFreeing
    <2>2. \A L \in Sole : f.at \in L =>
             (Last(t).at \in L /\ Last(t).s = f.s) \/ ~In(f.s, L)
      <3> SUFFICES ASSUME NEW L \in Sole, f.at \in L
                   PROVE  (Last(t).at \in L /\ Last(t).s = f.s) \/ ~In(f.s, L)
        OBVIOUS
      <3>1. CASE f.at = "connClosed"
        <4>1. L = {"connClosed"}
          BY <3>1 DEF Sole, New, Freeing, InClose, ConnFreeing
        <4> QED BY <3>1, <4>1
      <3>2. CASE f.at = "connFreeMemory"
        <4>1. L = ConnFreeing
          BY <3>2 DEF Sole, New, Freeing, InClose, ConnFreeing
        <4> QED BY <3>2, <4>1 DEF ConnFreeing
      <3> QED BY <3>1, <3>2
    <2> QED BY <1>1, <2>1, <2>2, AloneCalled
  <1>5. /\ \A L \in {New, Unrefing, Unparenting, Freeing, Sought, Unlisted,
                     Letting, ConnFreeing} : Same(L)
        /\ CloseSame
    <2>1. \A L \in {New, Unrefing, Unparenting, Freeing, Sought, Unlisted,
                    Letting, InClose, Unheld, Let, Closed, Preparing} :
             g.at \notin L /\ f.at \notin L /\ Last(t).at \notin L
      BY DEF New, Unrefing, Unparenting, Freeing, Sought, Unlisted, Letting,
         InClose, Unheld, Let, Closed, Preparing
    <2>2. \A L \in {New, Unrefing, Unparenting, Freeing, Sought, Unlisted,
                    Letting, InClose, Unheld, Let, Closed, Preparing} : Same(L)
      BY <1>1, <2>1, SameCalled
    <2>3. Same(ConnFreeing)
      <3>1. g.at \notin ConnFreeing
            /\ (Last(t).at \in ConnFreeing \/ f.at \in ConnFreeing =>
                  Last(t).at \in ConnFreeing /\ f.at \in ConnFreeing
                  /\ Last(t).s = f.s)
        BY DEF ConnFreeing
      <3> QED BY <1>1, <3>1, SameCalled
    <2> QED BY <2>2, <2>3 DEF CloseSame
  <1>6. \A u \in Threads : /\ CallRef(u)' = CallRef(u)
                           /\ UnrefsConn(u)' <=> UnrefsConn(u)
    <2>1. /\ Last(t).at \notin RefLabels /\ f.at \notin RefLabels
          /\ g.at \notin RefLabels /\ Last(t).at # "unrefConn"
          /\ f.at # "unrefConn" /\ Others(t)
      BY DEF RefLabels, Refers, New, Called
    <2>2. CallRef(t)' = CallRef(t) /\ (UnrefsConn(t)' <=> UnrefsConn(t))
      BY <1>1, <2>1, CallRefCalled, UnrefsCalled
    <2> QED BY <2>1, <2>2, CallRefOthers
  <1>7. Counted' BY <1>1, <1>5, <1>6, AllCountedKept DEF stmtVars, userVars
  <1>8. NewIsAlone' BY <1>1, <1>5, NewKept DEF stmtVars, userVars
  <1>9. FoundIsKnown' BY <1>1, <1>5, FoundKept DEF stmtVars, listVars
  <1>10. CloseState' BY <1>1, <1>5, CloseKept DEF stmtVars
  <1>11. FreedIsClosed'
    <2>1. Last(t)' = g /\ Others(t) /\ g.at # "freeParent" BY DEF Last, Called
    <2> QED BY <1>1, <2>1, FreedKept DEF stmtVars
  <1>12. Keepers' = Keepers BY <1>5, <1>6, KeepersSame DEF stmtVars, userVars
  <1>13. ConnCounted' BY <1>1, <1>5, <1>12, ConnCountedKept
  <1>14. ConnState'
    <2>1. In(NULL, {"connClosed"})' => connClosing'
      <3>1. CASE connClosing' = TRUE BY <3>1
      <3>2. CASE Last(t).at = "connFree" /\ f.at = "connFreeMemory"
                 /\ connClosing' = connClosing
        <4>1. Same({"connClosed"}) BY <1>1, <3>2, SameCalled
        <4> QED BY <1>1, <3>2, <4>1 DEF Same, ConnState
      <3> QED BY <3>1, <3>2
    <2> QED BY <2>1 DEF ConnState
  <1>15. FailedIsOpen' BY <1>1, FailedCalled
  <1> QED BY <1>2, <1>3, <1>4, <1>7, <1>8, <1>9, <1>10, <1>11, <1>13, <1>14,
             <1>15 DEF LifeInv

(* The first close marks the connection as closing and goes on. *)
LEMMA ConnMarkClosingInv ==
    ASSUME LifeInv, NEW t \in Threads, ConnMarkClosing(t)
    PROVE  LifeInv'
  <1>1. /\ Stacks /\ Shape /\ ConnState BY DEF LifeInv, TypeOK
  <1>2. CASE connClosing BY <1>2, ConnMarkClosingAgain
  <1>3. CASE ~connClosing
    <2> PICK f : f = Frame("connClosed", NULL, TRUE) OBVIOUS
    <2> PICK g : g = Frame("connClose", NULL, TRUE) OBVIOUS
    <2>1. /\ At(t, "markClosing") /\ connClosing' = TRUE /\ Call(t, g, f)
          /\ UNCHANGED <<stmtVars, connLive, connRefs, connHandle, deadSession,
                         listVars, userVars>>
      BY <1>3 DEF ConnMarkClosing
    <2>2. /\ depth[t] \in Nat \ {0} /\ Last(t).at = "markClosing"
          /\ stack[t] # <<>>
      BY <1>1, <2>1, LastIs
    <2>3. f \in FrameType /\ f.at = "connClosed" /\ f.s = NULL /\ f.ok
      <3>1. "connClosed" \in Labels /\ FitsLabel(NULL, "connClosed")
            /\ NULL \in Stmts \cup {NULL} /\ TRUE \in BOOLEAN
        BY DEF Labels, Public, FitsLabel, InStmt, Freeing
      <3> QED BY <3>1, FrameIs
    <2>4. g \in FrameType /\ g.at = "connClose"
      <3>1. "connClose" \in Labels /\ FitsLabel(NULL, "connClose")
            /\ NULL \in Stmts \cup {NULL} /\ TRUE \in BOOLEAN
        BY DEF Labels, ConnClosing, FitsLabel, InStmt, Freeing
      <3> QED BY <3>1, FrameIs
    <2>5. Stacks' /\ Called(t, g, f) BY <1>1, <2>1, <2>2, <2>3, <2>4, CallIs
    <2>6. depth[t] = 1
      <3>1. calls[t][depth[t]].at \in Public /\ depth[t] \in 1 .. depth[t]
        BY <2>2 DEF Last, Public
      <3> QED BY <1>1, <3>1, PublicIsFirst
    (* The thread that closes the connection owns a reference to it. *)
    <2>7. t \in userConn
      <3>1. Fits(t, Last(t)) BY <1>1, <2>2, LastFits
      <3> QED BY <2>2, <2>6, <3>1 DEF Fits, MayBegin
    <2>8. connHandle
      <3>1. <<t, "user">> \in Keepers BY <2>7 DEF Keepers
      <3> QED BY <1>1, <1>3, <3>1 DEF ConnState
    <2>9. Fits(t, f)
      <3>1. MayBegin(t, f)
        BY <2>3, <2>7 DEF MayBegin, Closing, InClose, ConnClosing
      <3>2. ~(depth[t] >= 2) BY <2>6
      <3> QED BY <3>1, <3>2 DEF Fits
    <2>10. MayCall(f, g)
      BY <2>3, <2>4 DEF MayCall, Public, New, Closing, InClose
    <2>11. ~In(NULL, {"connClosed"}) BY <1>1, <1>3 DEF ConnState
    <2> QED BY <2>1, <2>2, <2>3, <2>4, <2>5, <2>8, <2>9, <2>10, <2>11,
        ConnCloseCalled
  <1> QED BY <1>2, <1>3

(* dpiConn__free closes a connection that is still open. *)
LEMMA ConnFreeInv ==
    ASSUME LifeInv, NEW t \in Threads, ConnFree(t)
    PROVE  LifeInv'
  <1>1. /\ Stacks /\ Shape BY DEF LifeInv, TypeOK
  <1>2. CASE ~connHandle BY <1>2, ConnFreeClosed
  <1>3. CASE connHandle
    <2> PICK f : f = Frame("connFreeMemory", NULL, FALSE) OBVIOUS
    <2> PICK g : g = Frame("connClose", NULL, FALSE) OBVIOUS
    <2>1. /\ At(t, "connFree") /\ Call(t, g, f)
          /\ UNCHANGED <<stmtVars, connVars, listVars, userVars>>
      BY <1>3 DEF ConnFree
    <2>2. /\ depth[t] \in Nat \ {0} /\ Last(t).at = "connFree"
          /\ stack[t] # <<>> /\ Last(t).s = NULL
      <3>1. depth[t] \in Nat \ {0} /\ Last(t).at = "connFree" /\ stack[t] # <<>>
        BY <1>1, <2>1, LastIs
      <3> QED BY <1>1, <3>1, LastStmt DEF ConnFreeing
    <2>3. f \in FrameType /\ f.at = "connFreeMemory" /\ f.s = NULL
      <3>1. "connFreeMemory" \in Labels /\ FitsLabel(NULL, "connFreeMemory")
            /\ NULL \in Stmts \cup {NULL} /\ FALSE \in BOOLEAN
        BY DEF Labels, ConnFreeing, FitsLabel, InStmt, Freeing
      <3> QED BY <3>1, FrameIs
    <2>4. g \in FrameType /\ g.at = "connClose"
      <3>1. "connClose" \in Labels /\ FitsLabel(NULL, "connClose")
            /\ NULL \in Stmts \cup {NULL} /\ FALSE \in BOOLEAN
        BY DEF Labels, ConnClosing, FitsLabel, InStmt, Freeing
      <3> QED BY <3>1, FrameIs
    <2>5. Stacks' /\ Called(t, g, f) BY <1>1, <2>1, <2>2, <2>3, <2>4, CallIs
    <2>6. Fits(t, f)
      <3>1. Fits(t, Last(t)) BY <1>1, <2>2, LastFits
      <3>2. /\ f.s = Last(t).s /\ f.at \notin Public /\ f.at \notin Closing
            /\ Last(t).at \notin Closing /\ f.at \notin ConnClosing
            /\ f.at \notin {"markClosing", "connClosed"} /\ f.at # "dropRef"
        BY <2>2, <2>3 DEF Public, New, Closing, InClose, ConnClosing
      <3> QED BY <2>2, <3>1, <3>2, FitsOn
    <2>7. MayCall(f, g)
      BY <2>3, <2>4 DEF MayCall, Public, New, Closing, InClose
    <2>8. UNCHANGED <<stmtVars, connLive, connRefs, connClosing, connHandle,
                      deadSession, listVars, userVars>>
      BY <2>1 DEF connVars
    <2> QED BY <1>3, <2>2, <2>3, <2>4, <2>5, <2>6, <2>7, <2>8, ConnCloseCalled
  <1> QED BY <1>2, <1>3

(* The parts that a step leaves that only ends a function of the            *)
(* connection's close.                                                      *)
LEMMA ClosePopped ==
    ASSUME LifeInv, NEW t \in Threads, depth[t] \in Nat \ {0}, Stacks',
           Ended(t) \/ \E status \in BOOLEAN : Returned(t, status),
           Last(t).at \in {"sessionEnd", "connClosed"},
           connClosing' \in BOOLEAN, connHandle' \in BOOLEAN,
           UNCHANGED <<stmtVars, connLive, connRefs, deadSession, listVars,
                       userVars>>,
           ConnState', FailedIsOpen'
    PROVE  LifeInv'
  <1>1. /\ Stacks /\ Shape /\ FoundIsKnown /\ CloseState /\ TypeOK /\ Alone
        /\ FreedIsClosed /\ Counted /\ NewIsAlone /\ ConnCounted
    BY DEF LifeInv, TypeOK
  <1>2. TypeOK' BY <1>1 DEF TypeOK, stmtVars, listVars, userVars
  <1>3. Ended(t) \/ \E status : Returned(t, status) OBVIOUS
  <1>4. Shape' /\ Alone'
    <2>1. UsersKeep BY DEF UsersKeep, userVars
    <2> QED BY <1>1, <1>3, <2>1, ShapePopped, AlonePopped
  <1>5. /\ \A L \in {New, Unrefing, Unparenting, Freeing, Sought, Unlisted,
                     Letting, ConnFreeing} : Same(L)
        /\ CloseSame
    <2>1. \A L \in {New, Unrefing, Unparenting, Freeing, Sought, Unlisted,
                    Letting, ConnFreeing, InClose, Unheld, Let, Closed,
                    Preparing} : Last(t).at \notin L
      BY DEF New, Unrefing, Unparenting, Freeing, Sought, Unlisted, Letting,
         ConnFreeing, InClose, Unheld, Let, Closed, Preparing
    <2>2. \A L \in {New, Unrefing, Unparenting, Freeing, Sought, Unlisted,
                    Letting, ConnFreeing, InClose, Unheld, Let, Closed,
                    Preparing} : Same(L)
      BY <1>1, <2>1, SameEnded, SameReturned
    <2> QED BY <2>2 DEF CloseSame
  <1>6. \A u \in Threads : /\ CallRef(u)' = CallRef(u)
                           /\ UnrefsConn(u)' <=> UnrefsConn(u)
    <2>1. Last(t).at \notin RefLabels /\ Last(t).at # "unrefConn" /\ Others(t)
      BY <1>1, <1>3, PoppedIs DEF RefLabels, Refers, New
    <2> QED BY <1>1, <1>3, <2>1, CallRefPopped, UnrefsPopped, CallRefOthers
  <1>7. Counted' BY <1>1, <1>5, <1>6, AllCountedKept DEF stmtVars, userVars
  <1>8. NewIsAlone' BY <1>1, <1>5, NewKept DEF stmtVars, userVars
  <1>9. FoundIsKnown' BY <1>1, <1>5, FoundKept DEF stmtVars, listVars
  <1>10. CloseState' BY <1>1, <1>5, CloseKept DEF stmtVars
  <1>11. FreedIsClosed'
    <2>1. ASSUME depth'[t] >= 1 PROVE Last(t)'.at # "freeParent"
      <3>1. /\ Last(t)'.at = calls[t][depth[t] - 1].at
            /\ MayCall(calls[t][depth[t] - 1], Last(t))
        BY <1>1, <1>3, <2>1, LastPopped
      <3> QED BY <3>1 DEF MayCall, Closing, InClose
    <2>2. Others(t) BY <1>1, <1>3, PoppedIs
    <2> QED BY <1>1, <2>1, <2>2, FreedKept DEF stmtVars
  <1>12. Keepers' = Keepers BY <1>5, <1>6, KeepersSame DEF stmtVars, userVars
  <1>13. ConnCounted' BY <1>1, <1>5, <1>12, ConnCountedKept
  <1> QED BY <1>2, <1>4, <1>7, <1>8, <1>9, <1>10, <1>11, <1>13 DEF LifeInv

(* A close of the connection that returns has no reference of its own. *)
LEMMA KeepersPopped ==
    ASSUME LifeInv, NEW t \in Threads, depth[t] \in Nat \ {0},
           Ended(t) \/ \E status \in BOOLEAN : Returned(t, status),
           Last(t).at \in {"sessionEnd", "connClosed"}, UNCHANGED <<mem, userConn>>
    PROVE  Keepers' = Keepers
  <1>1. Stacks BY DEF LifeInv, TypeOK
  <1>2. Last(t).at \notin Letting /\ Last(t).at # "unrefConn" /\ Others(t)
    BY <1>1, PoppedIs DEF Letting
  <1>3. Same(Letting) BY <1>1, <1>2, SameEnded, SameReturned
  <1>4. \A u \in Threads : UnrefsConn(u)' <=> UnrefsConn(u)
    BY <1>1, <1>2, UnrefsPopped, CallRefOthers
  <1> QED BY <1>3, <1>4, KeepersSame

(* dpiConn_close ends. *)
LEMMA ConnClosedInv ==
    ASSUME LifeInv, NEW t \in Threads, ConnClosed(t)
    PROVE  LifeInv'
  <1>1. /\ Stacks /\ Shape /\ Alone /\ ConnState /\ FailedIsOpen /\ TypeOK
    BY DEF LifeInv, TypeOK
  <1>2. /\ At(t, "connClosed") /\ connClosing' = Top(t).ok /\ ReturnVoid(t)
        /\ UNCHANGED <<stmtVars, connLive, connRefs, connHandle, deadSession,
                       listVars, userVars>>
    BY DEF ConnClosed
  <1>3. /\ depth[t] \in Nat \ {0} /\ Last(t).at = "connClosed"
        /\ Top(t) = Last(t) /\ stack[t] # <<>> /\ Last(t) \in FrameType
        /\ Last(t) = calls[t][depth[t]]
    BY <1>1, <1>2, LastIs
  <1>4. Stacks' /\ Ended(t) BY <1>1, <1>2, <1>3, ReturnVoidIs
  <1>5. Last(t).ok \in BOOLEAN /\ Last(t).s = NULL BY <1>3 DEF FrameType
  <1>6. ~Last(t).ok => connHandle
    <2>1. depth[t] \in 1 .. depth[t] BY <1>3
    <2> QED BY <1>1, <1>3, <2>1 DEF FailedIsOpen
  <1>7. ConnState'
    <2>1. ~In(NULL, {"connClosed"})'
      <3>1. Once({"connClosed"}) BY <1>1 DEF Alone, Sole
      <3>2. ~Elsewhere(t, NULL, {"connClosed"}) BY <1>3, <1>5, <3>1, LastOnce
      <3> QED BY <1>1, <1>3, <1>4, <3>2, InEnded
    <2>2. Any(ConnClosing)' => Any(ConnClosing) BY <1>1, <1>3, <1>4, AnyPopped
    <2>3. ~connClosing' => connHandle BY <1>2, <1>3, <1>6
    <2> QED BY <1>1, <1>2, <2>1, <2>2, <2>3 DEF ConnState
  <1>8. FailedIsOpen' BY <1>1, <1>2, <1>3, <1>4, FailedEnded
  <1>9. connClosing' \in BOOLEAN /\ connHandle' \in BOOLEAN
    BY <1>1, <1>2, <1>3, <1>5 DEF TypeOK
  <1> QED BY <1>2, <1>3, <1>4, <1>7, <1>8, <1>9, ClosePopped

(* The session is ended. *)
LEMMA ConnSessionEndInv ==
    ASSUME LifeInv, NEW t \in Threads, ConnSessionEnd(t)
    PROVE  LifeInv'
  <1>1. /\ Stacks /\ Shape /\ Alone /\ ConnState /\ FailedIsOpen /\ TypeOK
    BY DEF LifeInv, TypeOK
  <1>2. /\ At(t, "sessionEnd")
        /\ UNCHANGED <<stmtVars, connLive, connRefs, connClosing, deadSession,
                       listVars, userVars>>
    BY DEF ConnSessionEnd
  <1>3. CASE Return(t, FALSE) /\ UNCHANGED connHandle
    <2>1. SameRest BY <1>2, <1>3 DEF SameRest
    <2> QED BY <1>2, <1>3, <2>1, ConnSessionEndFails
  <1>4. CASE connHandle' = FALSE /\ Return(t, TRUE)
    <2>1. /\ depth[t] \in Nat \ {0} /\ Last(t).at = "sessionEnd"
          /\ stack[t] # <<>> /\ Last(t) = calls[t][depth[t]]
      BY <1>1, <1>2, LastIs
    <2>2. Stacks' /\ Returned(t, TRUE) BY <1>1, <1>4, <2>1, ReturnIs
    <2>3. depth[t] \in 1 .. depth[t] /\ calls[t][depth[t]].at \in ConnClosing
      BY <2>1 DEF ConnClosing
    <2> PICK n : n = depth[t] OBVIOUS
    <2>4. /\ n \in 2 .. depth[t] /\ n - 1 \in 1 .. depth[t]
          /\ calls[t][n - 1].s = NULL
          /\ \/ calls[t][n - 1].at = "connClosed" /\ connClosing
                /\ Keepers # {}
             \/ calls[t][n - 1].at = "connFreeMemory" /\ Keepers = {}
      BY <2>3, CloserOf
    (* No other call is closing the connection. *)
    <2>5. ~Any(ConnClosing)'
      <3> SUFFICES ASSUME NEW s \in Stmts \cup {NULL}, In(s, ConnClosing)'
                   PROVE  FALSE
        BY DEF Any
      <3>1. Elsewhere(t, s, ConnClosing) BY <1>1, <2>1, <2>2, InReturned
      <3>2. PICK u \in Threads : \E k \in 1 .. depth[u] :
               (u = t => k # depth[t]) /\ calls[u][k].at \in ConnClosing
        BY <3>1 DEF Elsewhere
      <3>3. PICK k \in 1 .. depth[u] :
               (u = t => k # depth[t]) /\ calls[u][k].at \in ConnClosing
        BY <3>2
      <3> QED BY <2>3, <3>3, OneCloser
    <2>6. Keepers' = Keepers
      <3>1. \E status \in BOOLEAN : Returned(t, status) BY <2>2
      <3>2. UNCHANGED <<mem, userConn>> BY <1>2 DEF stmtVars, userVars
      <3> QED BY <2>1, <3>1, <3>2, KeepersPopped
    <2>7. ConnState'
      <3>1. In(NULL, {"connClosed"})' <=> In(NULL, {"connClosed"})
        <4>1. Last(t).at \notin {"connClosed"} BY <2>1
        <4> QED BY <1>1, <2>1, <2>2, <4>1, SameReturned DEF Same
      <3>2. Keepers' # {} => connClosing' BY <1>2, <2>4, <2>6
      <3> QED BY <1>1, <1>2, <2>5, <3>1, <3>2 DEF ConnState
    (* The close that called this one, if one did, is told of its success. *)
    <2>8. FailedIsOpen'
      <3> SUFFICES ASSUME NEW u \in Threads, NEW k \in 1 .. depth'[u],
                          calls'[u][k].at = "connClosed"
                   PROVE  calls'[u][k].ok
        BY DEF FailedIsOpen
      <3>1. /\ depth'[t] = n - 1 /\ Others(t) /\ n \in Nat /\ n >= 2
            /\ calls'[t][n - 1] = [calls[t][n - 1] EXCEPT !.ok = TRUE]
            /\ \A j \in 1 .. n - 1 : calls'[t][j].at = calls[t][j].at
                                     /\ calls'[t][j].s = calls[t][j].s
        <4>1. n \in Nat /\ n >= 2 BY <2>1, <2>4
        <4>2. /\ depth'[t] = n - 1 /\ Others(t)
              /\ calls'[t][n - 1] = [calls[t][n - 1] EXCEPT !.ok = TRUE]
          BY <2>2, <4>1 DEF Returned
        <4>3. \A j \in 1 .. n - 1 : calls'[t][j].at = calls[t][j].at
                                    /\ calls'[t][j].s = calls[t][j].s
          BY <1>1, <2>1, <2>2, SameBelow
        <4> QED BY <4>1, <4>2, <4>3
      <3>2. k \in 1 .. depth[u] /\ calls[u][k].at = "connClosed"
            /\ (u = t => k \in 1 .. n - 1)
        <4>1. CASE u = t BY <3>1, <4>1
        <4>2. CASE u # t BY <3>1, <4>2 DEF Others
        <4> QED BY <4>1, <4>2
      <3>3. calls[u][k].s = NULL
        <4>1. calls[u][k] \in FrameType BY <1>1, <3>2, DepthOf
        <4> QED BY <3>2, <4>1 DEF FrameType
      <3>4. Keepers # {}
        <4>1. k = 1 BY <1>1, <3>2, PublicIsFirst DEF Public
        <4>2. MayBegin(u, calls[u][1]) BY <1>1, <3>2, <4>1 DEF Shape, Ordered
        <4>3. u \in userConn BY <3>2, <4>1, <4>2 DEF MayBegin
        <4> QED BY <4>3 DEF Keepers
      <3>5. calls[t][n - 1].at = "connClosed" /\ n - 1 \in 1 .. depth[t]
        BY <2>4, <3>4
      <3>6. u = t /\ k = n - 1
        <4>1. Once({"connClosed"}) BY <1>1 DEF Alone, Sole
        <4> QED BY <2>4, <3>2, <3>3, <3>5, <4>1 DEF Once
      <3>7. calls[t][n - 1] \in FrameType BY <1>1, <3>5, DepthOf
      <3> QED BY <3>1, <3>6, <3>7 DEF FrameType
    <2>9. connClosing' \in BOOLEAN /\ connHandle' \in BOOLEAN
      BY <1>1, <1>2, <1>4 DEF TypeOK
    <2> QED BY <1>2, <2>1, <2>2, <2>7, <2>8, <2>9, ClosePopped
  <1> QED BY <1>3, <1>4 DEF ConnSessionEnd

(* The closing loop takes a reference to the statement that it has found,   *)
(* if that is still alive.                                                  *)
LEMMA ConnTakenInv ==
    ASSUME LifeInv, NEW t \in Threads, At(t, "takeRef"),
           NEW s, s = Top(t).s, Valid(s),
           Call(t, Frame("stmtClose", s, Top(t).propagate),
                [Top(t) EXCEPT !.at = "dropRef"]),
           refCount' = [refCount EXCEPT ![s] = @ + 1],
           UNCHANGED <<mem, closing, handle, parent, oci, connVars, listVars,
                       userVars>>
    PROVE  LifeInv'
  <1>1. /\ Stacks /\ Shape /\ FoundIsKnown /\ CloseState /\ TypeOK /\ Alone
        /\ FreedIsClosed /\ Counted /\ NewIsAlone
    BY DEF LifeInv, TypeOK
  <1> PICK f : f = [Top(t) EXCEPT !.at = "dropRef"] OBVIOUS
  <1> PICK g : g = Frame("stmtClose", s, Top(t).propagate) OBVIOUS
  <1>2. /\ depth[t] \in Nat \ {0} /\ Last(t).at = "takeRef"
        /\ Top(t) = Last(t) /\ s = Last(t).s /\ stack[t] # <<>>
        /\ Last(t) \in FrameType /\ Last(t) = calls[t][depth[t]]
    BY <1>1, LastIs
  <1>3. s \in Stmts BY <1>1, <1>2, LastStmt
  <1>4. f \in FrameType /\ f.at = "dropRef" /\ f.s = s
    <2>1. "dropRef" \in Labels /\ FitsLabel(Last(t).s, "dropRef")
      BY <1>2, <1>3, StmtLifetimeAssumption DEF Labels, ConnClosing, FitsLabel,
         ConnFreeing
    <2> QED BY <1>2, <2>1, FrameAt
  <1>5. g \in FrameType /\ g.at = "stmtClose" /\ g.s = s
    <2>1. "stmtClose" \in Labels /\ FitsLabel(s, "stmtClose")
          /\ s \in Stmts \cup {NULL} /\ Top(t).propagate \in BOOLEAN
      BY <1>2, <1>3, StmtLifetimeAssumption DEF Labels, Closing, FitsLabel,
         ConnFreeing, FrameType
    <2> QED BY <2>1, FrameIs
  <1>6. Stacks' /\ Called(t, g, f) BY <1>1, <1>2, <1>4, <1>5, CallIs
  (* It is not being freed: its count would be zero. *)
  <1>7. mem[s] = "live" /\ ~In(s, Freeing) /\ In(s, Sought)
    <2>1. In(s, Sought) BY <1>2, LastIn DEF Sought
    <2>2. Found(s) BY <2>1 DEF Found
    <2>3. refCount[s] \in Int /\ refCount[s] > 0 /\ mem[s] = "live"
      BY <1>1, <1>3 DEF Valid, TypeOK
    <2> QED BY <1>1, <1>3, <2>1, <2>2, <2>3 DEF FoundIsKnown
  (* So the connection is not being freed either. *)
  <1>8. depth[t] = 2 /\ calls[t][1].at = "connClosed"
    <2>1. depth[t] \in 1 .. depth[t] /\ calls[t][depth[t]].at \in ConnClosing
      BY <1>2 DEF ConnClosing
    <2> PICK n : n = depth[t] OBVIOUS
    <2>2. \/ calls[t][n - 1].at = "connClosed" /\ n = 2
          \/ calls[t][n - 1].at = "connFreeMemory" /\ Keepers = {}
      BY <2>1, CloserOf
    <2>3. Keepers # {}
      <3>1. ~In(s, Letting) BY <1>7, InSub DEF Letting, Freeing
      <3> QED BY <1>3, <1>7, <3>1 DEF Keepers
    <2>4. n = 2 /\ calls[t][n - 1].at = "connClosed" BY <2>2, <2>3
    <2>5. n - 1 = 1 BY <2>4
    <2> QED BY <2>4, <2>5
  <1>9. /\ refCount' \in [Stmts -> Int] /\ refCount'[s] = refCount[s] + 1
        /\ \A x \in Stmts : x # s => refCount'[x] = refCount[x]
    BY <1>1, <1>3 DEF TypeOK
  <1>10. TypeOK' BY <1>1, <1>6, <1>9 DEF TypeOK, connVars, listVars, userVars
  <1>11. Shape'
    <2>1. UsersKeep BY DEF UsersKeep, userVars
    <2>2. MayCall(calls[t][1], f)
      BY <1>4, <1>8 DEF MayCall, Public, New, Closing, InClose
    <2>3. Fits(t, f)
      <3>1. depth[t] - 1 = 1 /\ depth[t] # 1 BY <1>8
      <3> QED BY <2>2, <3>1 DEF Fits
    <2>4. MayCall(f, g)
      BY <1>4, <1>5 DEF MayCall, Public, New, Closing, ConnClosing
    <2> QED BY <1>1, <1>2, <1>6, <2>1, <2>3, <2>4, ShapeCalled
  <1>12. Alone'
    <2>1. \A L \in Sole : f.at \notin L /\ g.at \notin L
      BY <1>4, <1>5 DEF Sole, New, Freeing, InClose, ConnFreeing
    <2> QED BY <1>1, <1>2, <1>6, <2>1, AloneCalled
  <1>13. /\ \A L \in {New, Unrefing, Unparenting, Freeing, Sought, Unlisted} :
               Same(L)
         /\ CloseSame
    <2>1. \A L \in {New, Unrefing, Unparenting, Freeing, Unlisted, InClose,
                    Unheld, Let, Closed, Preparing} :
             g.at \notin L /\ f.at \notin L /\ Last(t).at \notin L
      BY <1>2, <1>4, <1>5 DEF New, Unrefing, Unparenting, Freeing, Unlisted,
         InClose, Unheld, Let, Closed, Preparing
    <2>2. \A L \in {New, Unrefing, Unparenting, Freeing, Unlisted, InClose,
                    Unheld, Let, Closed, Preparing} : Same(L)
      BY <1>1, <1>2, <1>6, <2>1, SameCalled
    <2>3. Same(Sought)
      <3>1. g.at \notin Sought /\ f.at \in Sought /\ Last(t).at \in Sought
        BY <1>2, <1>4, <1>5 DEF Sought
      <3> QED BY <1>1, <1>2, <1>4, <1>6, <3>1, SameCalled
    <2> QED BY <2>2, <2>3 DEF CloseSame
  <1>14. /\ CallRef(t) = NULL /\ CallRef(t)' = s
         /\ \A u \in Threads \ {t} : CallRef(u)' = CallRef(u)
    <2>1. g.at \notin RefLabels /\ Others(t)
      BY <1>5, <1>6 DEF RefLabels, Refers, New, Called
    <2> QED BY <1>1, <1>2, <1>4, <1>6, <1>8, <2>1, CallRefCalled, CallRefOthers
  <1>15. Counted'
    <2> SUFFICES ASSUME NEW x \in Stmts PROVE CountedAt(x)' BY DEF Counted
    <2>1. /\ In(x, Freeing)' <=> In(x, Freeing)
          /\ \A c \in Stmts : In(c, Unparenting)' <=> In(c, Unparenting)
          /\ userStmts' = userStmts
      BY <1>13 DEF Same, userVars
    <2>2. CASE x = s
      <3>1. <<t, "call">> \notin Refs(s)
        BY <1>3, <1>14, StmtLifetimeAssumption DEF Refs
      <3>2. Refs(s)' = Refs(s) \cup {<<t, "call">>}
        BY <1>3, <1>14, <2>1, StmtLifetimeAssumption DEF Refs
      <3> QED BY <1>1, <1>7, <1>9, <2>1, <2>2, <3>1, <3>2, RefTaken DEF Counted
    <2>3. CASE x # s
      <3>1. \A u \in Threads : CallRef(u)' = x <=> CallRef(u) = x
        BY <1>14, <2>3, StmtLifetimeAssumption
      <3>2. Refs(x)' = Refs(x) BY <2>1, <3>1 DEF Refs
      <3> QED BY <1>1, <1>9, <2>1, <2>3, <3>2, CountedKept DEF Counted
    <2> QED BY <2>2, <2>3
  <1>16. NewIsAlone' BY <1>1, <1>13, NewKept DEF userVars
  <1>17. FoundIsKnown'
    <2> SUFFICES ASSUME NEW x \in Stmts, Found(x)'
                 PROVE  /\ mem'[x] # "unused" /\ ~In(x, Unlisted)'
                        /\ In(x, Freeing)' => refCount'[x] = 0
      BY DEF FoundIsKnown
    <2>1. /\ Found(x) /\ (In(x, Unlisted)' <=> In(x, Unlisted))
          /\ (In(x, Freeing)' <=> In(x, Freeing))
      BY <1>13 DEF Found, Same, listVars
    <2> QED BY <1>1, <1>7, <1>9, <2>1 DEF FoundIsKnown
  <1>18. CloseState' BY <1>1, <1>13, CloseKept
  <1>19. FreedIsClosed'
    <2>1. Last(t)' = g /\ Others(t) /\ g.at # "freeParent"
      BY <1>2, <1>5, <1>6 DEF Last, Called
    <2> QED BY <1>1, <2>1, FreedKept
  <1>20. ConnInv'
    <2>1. /\ \A L \in ConnMarks : Last(t).at \notin L /\ f.at \notin L
                                  /\ g.at \notin L
          /\ Last(t).at # "unrefConn" /\ f.at # "unrefConn"
          /\ Last(t).at \in ConnClosing /\ g.at \notin ConnClosing
      BY <1>2, <1>4, <1>5 DEF ConnMarks, Letting, ConnFreeing, ConnClosing
    <2>2. SameConn BY DEF SameConn, connVars, userVars
    <2> QED BY <1>2, <1>6, <2>1, <2>2, ConnCalled
  <1> QED BY <1>10, <1>11, <1>12, <1>15, <1>16, <1>17, <1>18, <1>19, <1>20 DEF
      LifeInv, ConnInv

(* The closing loop takes a reference to a statement that is alive. *)
LEMMA ConnTakeRefInv ==
    ASSUME LifeInv, Threaded, NEW t \in Threads, ConnTakeRef(t)
    PROVE  LifeInv'
  <1>1. Stacks /\ TypeOK BY DEF LifeInv, TypeOK
  <1> PICK s : s = Top(t).s OBVIOUS
  <1>2. /\ At(t, "takeRef")
        /\ UNCHANGED <<mem, closing, handle, parent, oci, connVars, listVars,
                       userVars>>
    BY DEF ConnTakeRef
  <1>3. CASE Valid(s)
    <2>1. /\ Call(t, Frame("stmtClose", s, Top(t).propagate),
                  [Top(t) EXCEPT !.at = "dropRef"])
          /\ refCount' = [refCount EXCEPT ![s] = @ + 1]
      BY <1>3 DEF ConnTakeRef
    <2> QED BY <1>2, <1>3, <2>1, ConnTakenInv
  <1>4. CASE ~Valid(s)
    <2> PICK f : f = NextSlot(Top(t)) OBVIOUS
    <2>1. GoOn(t, f) /\ UNCHANGED refCount BY <1>4 DEF ConnTakeRef
    <2>2. /\ depth[t] \in Nat \ {0} /\ Last(t).at = "takeRef"
          /\ Top(t) = Last(t) /\ stack[t] # <<>> /\ Last(t) \in FrameType
      BY <1>1, <1>2, LastIs
    <2>3. f \in FrameType /\ f.at = "nextSlot" BY <2>2, NextSlotIs
    <2>4. Stacks' /\ WentOn(t, f) BY <1>1, <2>1, <2>2, <2>3, GoOnIs
    <2>5. /\ UNCHANGED <<stmtVars, connLive, connRefs, connClosing, connHandle,
                         listVars, userVars>>
          /\ deadSession' \in BOOLEAN
      BY <1>1, <1>2, <2>1 DEF stmtVars, connVars, TypeOK
    <2> QED BY <2>2, <2>3, <2>4, <2>5, ConnGoesOn
  <1> QED BY <1>3, <1>4

-----------------------------------------------------------------------------
(***************************************************************************)
(* The inductive invariant.  A statement whose initialisation fails is     *)
(* freed although the list still holds it (dpiConn.c:2324), so that call   *)
(* does not fail here; and outside of threaded mode the closing loop takes *)
(* no references (dpiConn.c:189), so that the mode is threaded.            *)
(***************************************************************************)
Assumed == Threaded /\ "init" \notin Failures

(* Every step keeps the invariant: a public function that begins, ... *)
LEMMA BeginInv ==
    ASSUME LifeInv, NEW t \in Threads, Begin(t)
    PROVE  LifeInv'
  <1>1. CASE PrepareStmt(t) \/ CloseConn(t) \/ ReleaseConn(t)
    BY <1>1, PrepareStmtInv, CloseConnInv, ReleaseConnInv
  <1>2. CASE \E s \in Stmts : \/ GetImplicitResult(t, s)
                              \/ CloseStmt(t, s)
                              \/ ReleaseStmt(t, s)
                              \/ \E u \in Threads : AddRefFor(t, s, u)
    BY <1>2, GetImplicitResultInv, CloseStmtInv, ReleaseStmtInv, AddRefForInv
  <1> QED BY <1>1, <1>2 DEF Begin

(* ... one that goes on, ... *)
LEMMA ContinueInv ==
    ASSUME LifeInv, Assumed, NEW t \in Threads, Continue(t)
    PROVE  LifeInv'
  <1>1. Threaded /\ "init" \notin Failures BY DEF Assumed
  <1>2. CASE StmtPrepare2(t) \/ StmtAddHandle(t) \/ StmtInit(t) \/ Unref(t)
             \/ EndPublicFn(t)
    BY <1>1, <1>2, StmtPrepare2Inv, StmtAddHandleInv, StmtInitInv, UnrefInv,
       EndPublicFnInv
  <1>3. CASE StmtMarkClosing(t) \/ StmtReleaseParent(t) \/ StmtClearParent(t)
             \/ StmtCheckSession(t) \/ OciStmtRelease(t) \/ StmtCheckListed(t)
             \/ StmtRemoveHandle(t) \/ StmtClosed(t)
    BY <1>3, StmtMarkClosingInv, StmtReleaseParentInv, StmtClearParentInv,
       StmtCheckSessionInv, OciStmtReleaseInv, StmtCheckListedInv,
       StmtRemoveHandleInv, StmtClosedInv
  <1>4. CASE StmtFree(t) \/ StmtFreeParent(t) \/ StmtFreeConn(t)
             \/ StmtFreeMemory(t)
    BY <1>4, StmtFreeInv, StmtFreeParentInv, StmtFreeConnInv, StmtFreeMemoryInv
  <1>5. CASE ConnMarkClosing(t) \/ ConnRollback(t) \/ ConnReadSlot(t)
             \/ ConnTakeRef(t) \/ ConnDropRef(t) \/ ConnSlotDone(t)
             \/ ConnSessionEnd(t) \/ ConnClosed(t)
    BY <1>1, <1>5, ConnMarkClosingInv, ConnRollbackInv, ConnReadSlotInv,
       ConnTakeRefInv, ConnDropRefInv, ConnSlotDoneInv, ConnSessionEndInv,
       ConnClosedInv
  <1>6. CASE UnrefConn(t) \/ ConnFree(t) \/ ConnFreeMemory(t)
    BY <1>6, UnrefConnInv, ConnFreeInv, ConnFreeMemoryInv
  <1> QED BY <1>2, <1>3, <1>4, <1>5, <1>6 DEF Continue

(* ... and a step that changes nothing. *)
LEMMA StutterInv ==
    ASSUME LifeInv, UNCHANGED vars
    PROVE  LifeInv'
  <1>1. /\ Stacks /\ Shape /\ FoundIsKnown /\ CloseState /\ TypeOK /\ Alone
        /\ FreedIsClosed /\ Counted /\ NewIsAlone
    BY DEF LifeInv, TypeOK
  <1>2. UNCHANGED <<stmtVars, connVars, listVars, userVars, stack>> BY DEF vars
  <1>3. Stacks' BY <1>1, <1>2 DEF Stacks
  <1>4. TypeOK'
    BY <1>1, <1>2, <1>3 DEF TypeOK, stmtVars, connVars, listVars, userVars
  <1>5. /\ \A L : Same(L)
        /\ \A u \in Threads : CallRef(u)' = CallRef(u)
        /\ \A u \in Threads : depth'[u] = depth[u] /\ Last(u)' = Last(u)
    BY <1>2, StillMarks
  <1>6. Shape'
    <2>1. UsersKeep BY <1>2 DEF UsersKeep, userVars
    <2> QED BY <1>1, <1>2, <2>1, ShapeStill
  <1>7. Alone' BY <1>1, <1>2, AloneStill
  <1>8. Counted' BY <1>1, <1>2, <1>5, AllCountedKept DEF stmtVars, userVars
  <1>9. NewIsAlone' BY <1>1, <1>2, <1>5, NewKept DEF stmtVars, userVars
  <1>10. FoundIsKnown' BY <1>1, <1>2, <1>5, FoundKept DEF stmtVars, listVars
  <1>11. CloseState' BY <1>1, <1>2, <1>5, CloseKept DEF stmtVars, CloseSame
  <1>12. FreedIsClosed' BY <1>1, <1>2, <1>5 DEF FreedIsClosed, stmtVars
  <1>13. ConnInv' BY <1>2, ConnStill DEF SameConn, connVars, userVars, stmtVars
  <1> QED BY <1>4, <1>6, <1>7, <1>8, <1>9, <1>10, <1>11, <1>12, <1>13 DEF
      LifeInv, ConnInv

(* Two sets that correspond to each other have as many elements. *)
LEMMA SameSize ==
    ASSUME NEW S, NEW T, IsFiniteSet(S), NEW F \in [S -> T],
           \A x \in S, y \in S : F[x] = F[y] => x = y,
           \A z \in T : \E x \in S : F[x] = z
    PROVE  Cardinality(T) = Cardinality(S)
  <1>1. F \in Injection(S, T) BY DEF Injection, IsInjective
  <1>2. F \in Surjection(S, T) BY DEF Surjection
  <1>3. ExistsBijection(S, T) BY <1>1, <1>2 DEF ExistsBijection, Bijection
  <1> QED BY <1>3, FS_Bijection

(* At the start nothing is called and nothing is kept but the connection. *)
LEMMA InitInv ==
    ASSUME Init
    PROVE  LifeInv
  <1>1. /\ mem = [s \in Stmts |-> "unused"]
        /\ refCount = [s \in Stmts |-> 0]
        /\ closing = [s \in Stmts |-> FALSE]
        /\ handle = [s \in Stmts |-> FALSE]
        /\ parent = [s \in Stmts |-> NULL]
        /\ oci = [s \in Stmts |-> "none"]
        /\ connLive = TRUE /\ connRefs = Cardinality(Threads)
        /\ connClosing = FALSE /\ connHandle = TRUE /\ deadSession = FALSE
        /\ numSlots = InitialSlots
        /\ openStmts = [i \in 0 .. InitialSlots - 1 |-> NULL]
        /\ userStmts = [t \in Threads |-> {}] /\ userConn = Threads
        /\ stack = [t \in Threads |-> <<>>]
    BY DEF Init, List!InitList
  <1>2. Stacks BY <1>1 DEF Stacks
  <1>3. TypeOK
    <2>1. Cardinality(Threads) \in Int
      BY StmtLifetimeAssumption, FS_CardinalityType
    <2>2. numSlots \in Nat /\ openStmts \in [0 .. numSlots - 1 -> Stmts \cup {NULL}]
      BY <1>1, StmtLifetimeAssumption
    <2>3. /\ mem \in [Stmts -> {"unused", "live", "freed"}]
          /\ refCount \in [Stmts -> Int]
          /\ oci \in [Stmts -> {"none", "open", "released"}]
      BY <1>1
    <2>4. /\ closing \in [Stmts -> BOOLEAN] /\ handle \in [Stmts -> BOOLEAN]
      BY <1>1
    <2>5. /\ parent \in [Stmts -> Stmts \cup {NULL}]
          /\ userStmts \in [Threads -> SUBSET Stmts]
      BY <1>1
    <2>6. /\ connLive \in BOOLEAN /\ connClosing \in BOOLEAN
          /\ connHandle \in BOOLEAN /\ deadSession \in BOOLEAN
          /\ userConn \in SUBSET Threads
      BY <1>1
    <2>7. connRefs \in Int BY <1>1, <2>1
    <2> QED BY <1>2, <2>2, <2>3, <2>4, <2>5, <2>6, <2>7 DEF TypeOK
  <1>4. \A t \in Threads : depth[t] = 0 BY <1>1, <1>2, DepthOf
  <1>5. \A s, L : ~In(s, L) BY <1>4 DEF In
  <1>6. \A t \in Threads : CallRef(t) = NULL /\ ~UnrefsConn(t)
    BY <1>4 DEF CallRef, UnrefsConn
  <1>7. Shape /\ Alone /\ FreedIsClosed /\ FailedIsOpen
    <2>1. Shape BY <1>4 DEF Shape, Ordered
    <2>2. Alone BY <1>4 DEF Alone, Once
    <2>3. FreedIsClosed BY <1>4 DEF FreedIsClosed
    <2>4. FailedIsOpen BY <1>4 DEF FailedIsOpen
    <2> QED BY <2>1, <2>2, <2>3, <2>4
  <1>8. Counted
    <2> SUFFICES ASSUME NEW s \in Stmts PROVE CountedAt(s) BY DEF Counted
    <2>1. Refs(s) = {} BY <1>1, <1>6, StmtLifetimeAssumption DEF Refs
    <2> QED BY <1>1, <1>5, <2>1 DEF CountedAt
  <1>9. NewIsAlone BY <1>5 DEF NewIsAlone
  <1>10. FoundIsKnown
    <2> SUFFICES ASSUME NEW s \in Stmts PROVE ~Found(s) BY DEF FoundIsKnown
    <2> QED BY <1>1, <1>5, StmtLifetimeAssumption DEF Found
  <1>11. CloseState BY <1>1, <1>5 DEF CloseState, CloseStateAt
  <1>12. ConnCounted
    <2>1. Keepers = {<<t, "user">> : t \in Threads} BY <1>1, <1>6 DEF Keepers
    <2> PICK F : F = [t \in Threads |-> <<t, "user">>] OBVIOUS
    <2>2. /\ F \in [Threads -> Keepers]
          /\ \A x \in Threads, y \in Threads : F[x] = F[y] => x = y
          /\ \A z \in Keepers : \E x \in Threads : F[x] = z
      BY <2>1
    <2>3. Cardinality(Keepers) = Cardinality(Threads)
      BY <2>2, SameSize, StmtLifetimeAssumption
    <2> QED BY <1>1, <1>5, <2>3 DEF ConnCounted
  <1>13. ConnState BY <1>1, <1>5 DEF ConnState, Any
  <1> QED BY <1>3, <1>7, <1>8, <1>9, <1>10, <1>11, <1>12, <1>13 DEF LifeInv

(* Statements are closed and freed, and the connection is, as LifeInv says, *)
(* whatever the threads do (dpiStmt.c, dpiConn.c).                          *)
THEOREM LifeInvariant ==
    ASSUME Assumed
    PROVE  Spec => []LifeInv
  <1>1. LifeInv /\ [Next]_vars => LifeInv'
    BY BeginInv, ContinueInv, StutterInv DEF Next
  <1> QED BY <1>1, InitInv, PTL DEF Spec

-----------------------------------------------------------------------------
(* What the runs check.                                                     *)
LEMMA FromTop ==
    ASSUME NEW n \in Nat, NEW k \in 1 .. n, NEW j, j = n + 1 - k
    PROVE  j \in 1 .. n /\ j \in Int /\ k \in Int /\ k = n + 1 - j
  OBVIOUS

(* The frames of a thread are its calls. *)
LEMMA FramesAre ==
    ASSUME Stacks, NEW t \in Threads
    PROVE  Frames(t) = {calls[t][k] : k \in 1 .. depth[t]}
  <1> PICK n \in Nat : n = Len(stack[t]) /\ n = depth[t] BY DepthOf
  <1>0. n = Len(stack[t]) /\ n \in Nat OBVIOUS
  <1>1. ASSUME NEW k \in 1 .. n
        PROVE  /\ n + 1 - k \in 1 .. n
               /\ calls[t][k] = stack[t][n + 1 - k]
               /\ stack[t][k] = calls[t][n + 1 - k]
    <2> PICK j : j = n + 1 - k OBVIOUS
    <2>1. j \in 1 .. n /\ j \in Int /\ k \in Int /\ j = n + 1 - k
          /\ k = n + 1 - j
      BY FromTop
    <2>2. calls[t][k] = stack[t][j] BY <1>0, <2>1, CallAt
    <2>3. calls[t][j] = stack[t][k] BY <1>0, <2>1, CallAt
    <2> QED BY <2>1, <2>2, <2>3
  <1> QED BY <1>1 DEF Frames

(* To be in a frame is to be at a call. *)
LEMMA InFrameIs ==
    ASSUME Stacks, NEW s, NEW L
    PROVE  InFrame(s, L) <=> In(s, L)
  <1>1. \A t \in Threads :
           (\E f \in Frames(t) : f.s = s /\ f.at \in L)
           <=> (\E k \in 1 .. depth[t] : calls[t][k].s = s
                                         /\ calls[t][k].at \in L)
    BY FramesAre
  <1> QED BY <1>1 DEF InFrame, In

(* The holders of a statement are the references that are counted. *)
LEMMA HoldersAreRefs ==
    ASSUME LifeInv, Threaded, NEW s \in Stmts
    PROVE  Cardinality(Holders(s)) = Cardinality(Refs(s))
  <1>1. Stacks /\ Shape /\ CloseState BY DEF LifeInv, TypeOK
  <1>2. s # NULL BY StmtLifetimeAssumption
  <1>3. HoldingLabels = RefLabels BY DEF HoldingLabels, RefLabels, Refers, New
  <1> DEFINE Callers == {h \in Threads \X RefLabels :
                            \E k \in 1 .. depth[h[1]] :
                                calls[h[1]][k].s = s /\ calls[h[1]][k].at = h[2]}
             Users == {<<t, "user">> : t \in {u \in Threads : s \in userStmts[u]}}
             Results == {<<c, "result">> :
                            c \in {d \in Stmts : parent[d] = s
                                                 /\ ~In(d, Unparenting)}}
             Owning == {<<t, "call">> : t \in {u \in Threads : CallRef(u) = s}}
  <1>4. Holders(s) = Users \cup Callers \cup Results
    <2>1. {h \in Threads \X HoldingLabels :
              \E f \in Frames(h[1]) : f.s = s /\ f.at = h[2]} = Callers
      <3>1. \A t \in Threads : Frames(t) = {calls[t][k] : k \in 1 .. depth[t]}
        BY <1>1, FramesAre
      <3> QED BY <1>3, <3>1
    <2>2. \A d \in Stmts :
             parent[d] = s /\ ~InFrame(d, {"unparent", "freeConn", "freeMemory"})
             <=> parent[d] = s /\ ~In(d, Unparenting)
      <3> SUFFICES ASSUME NEW d \in Stmts, parent[d] = s
                   PROVE  InFrame(d, {"unparent", "freeConn", "freeMemory"})
                          <=> In(d, Unparenting)
        OBVIOUS
      <3>1. ~In(d, Closed) BY <1>1, <1>2 DEF CloseState, CloseStateAt
      <3>2. In(d, {"unparent", "freeConn", "freeMemory"})
            <=> In(d, Unparenting) \/ In(d, Closed)
        BY DEF In, Unparenting, Closed
      <3> QED BY <1>1, <3>1, <3>2, InFrameIs
    <2> QED BY <2>1, <2>2 DEF Holders
  <1>5. Refs(s) = Users \cup Owning \cup Results BY DEF Refs
  <1>6. \A h \in Callers : h[1] \in Threads /\ h[2] \in RefLabels
                           /\ h = <<h[1], h[2]>>
    OBVIOUS
  <1>7. ASSUME NEW h \in Callers
        PROVE  /\ CallRef(h[1]) = s /\ depth[h[1]] >= 1
               /\ \/ h[2] \in Refers /\ calls[h[1]][1].at = h[2]
                  \/ h[2] = "dropRef" /\ calls[h[1]][1].at = "connClosed"
    <2>1. PICK k \in 1 .. depth[h[1]] :
             calls[h[1]][k].s = s /\ calls[h[1]][k].at = h[2]
      OBVIOUS
    <2>2. CASE h[2] = "dropRef"
      BY <1>1, <1>6, <2>1, <2>2, DropRefIsSecond, DepthOf
    <2>3. CASE h[2] \in Refers
      BY <1>1, <1>6, <2>1, <2>3, RefersIsFirst, DepthOf
    <2> QED BY <1>6, <2>2, <2>3 DEF RefLabels
  <1> HIDE DEF Callers
  <1> PICK F : F = [h \in Holders(s) |->
                      IF h \in Callers THEN <<h[1], "call">> ELSE h]
    OBVIOUS
  <1>8. F \in [Holders(s) -> Refs(s)] BY <1>4, <1>5, <1>6, <1>7
  <1>9. ASSUME NEW x \in Holders(s), NEW y \in Holders(s), F[x] = F[y]
        PROVE  x = y
    <2>1. \A h \in Users \cup Results : h[2] # "call" OBVIOUS
    <2>2. CASE x \in Callers /\ y \in Callers
      <3>1. x[1] = y[1] BY <1>9, <2>2
      <3>2. x[2] = y[2] BY <1>7, <2>2, <3>1 DEF Refers, New
      <3> QED BY <1>6, <2>2, <3>1, <3>2
    <2>3. CASE x \notin Callers /\ y \notin Callers BY <1>9, <2>3
    <2>4. CASE x \in Callers /\ y \notin Callers BY <1>4, <1>9, <2>1, <2>4
    <2>5. CASE x \notin Callers /\ y \in Callers BY <1>4, <1>9, <2>1, <2>5
    <2> QED BY <2>2, <2>3, <2>4, <2>5
  <1>10. ASSUME NEW z \in Refs(s)
         PROVE  \E x \in Holders(s) : F[x] = z
    <2>1. CASE z \in Users \cup Results
      <3>1. z \notin Callers
        <4>1. z[2] \in {"user", "result"} BY <2>1
        <4> QED BY <1>6, <4>1 DEF RefLabels, Refers, New
      <3> QED BY <1>4, <2>1, <3>1
    <2>2. CASE z \in Owning
      <3>1. PICK t \in Threads : z = <<t, "call">> /\ CallRef(t) = s BY <2>2
      <3>2. PICK k \in 1 .. depth[t] : Is(calls[t][k], s, RefLabels)
        BY <1>1, <1>2, <3>1, CallRefIs
      <3>3. <<t, calls[t][k].at>> \in Callers BY <3>2 DEF Callers, Is
      <3> QED BY <1>4, <3>1, <3>3
    <2> QED BY <1>5, <2>1, <2>2
  <1>11. IsFiniteSet(Holders(s))
    <2>1. IsFiniteSet((Threads \cup Stmts) \X ({"user", "result"} \cup RefLabels))
      <3>1. IsFiniteSet(Threads \cup Stmts) BY StmtLifetimeAssumption, FS_Union
      <3>2. IsFiniteSet({"user", "result"} \cup RefLabels)
        <4>1. {"user", "result"} \cup RefLabels =
                {"user", "result"} \cup {"prepare", "addHandle"}
                \cup {"init", "unref"} \cup {"dropRef"}
          BY DEF RefLabels, Refers, New
        <4>2. \A a, b : IsFiniteSet({a, b})
          <5> TAKE a, b
          <5>1. IsFiniteSet({a}) /\ {a, b} = {a} \cup {b} BY FS_Singleton
          <5> QED BY <5>1, FS_AddElement
        <4> QED BY <4>1, <4>2, FS_Union, FS_Singleton
      <3> QED BY <3>1, <3>2, FS_Product
    <2>2. Holders(s) \subseteq
             (Threads \cup Stmts) \X ({"user", "result"} \cup RefLabels)
      BY <1>4, <1>6
    <2> QED BY <2>1, <2>2, FS_Subset
  <1> QED BY <1>8, <1>9, <1>10, <1>11, SameSize

(* A statement counts exactly the references that exist to it              *)
(* (dpiGen__setRefCount), so nobody's is freed and none is kept for ever.  *)
THEOREM ReferencesAreCounted ==
    ASSUME Assumed
    PROVE  Spec => []CountsReferences
  <1>1. LifeInv => CountsReferences
    <2> SUFFICES ASSUME LifeInv, NEW s \in Stmts, mem[s] = "live",
                        ~InFrame(s, Freeing)
                 PROVE  refCount[s] = Cardinality(Holders(s))
      BY DEF CountsReferences
    <2>1. Stacks /\ Counted BY DEF LifeInv, TypeOK
    <2>2. ~In(s, Freeing) BY <2>1, InFrameIs
    <2> QED BY <2>1, <2>2, HoldersAreRefs DEF Counted, CountedAt, Assumed
  <1> QED BY <1>1, LifeInvariant, PTL

(* What a thread owns or works on is memory that has not been freed, the    *)
(* parent of an implicit result and the connection included.                *)
THEOREM WhatIsHeldIsLive ==
    ASSUME Assumed
    PROVE  Spec => []HeldIsLive
  <1>1. LifeInv => HeldIsLive
    <2> SUFFICES ASSUME LifeInv PROVE HeldIsLive OBVIOUS
    <2>1. Stacks /\ Counted /\ TypeOK BY DEF LifeInv, TypeOK
    <2>2. ASSUME NEW t \in Threads
          PROVE  /\ \A s \in userStmts[t] : mem[s] = "live"
                 /\ \A f \in Frames(t) : f.at \in InStmt => mem[f.s] = "live"
      <3>1. \A s \in userStmts[t] : mem[s] = "live" BY HeldByUser
      <3>2. ASSUME NEW k \in 1 .. depth[t], calls[t][k].at \in InStmt
            PROVE  mem[calls[t][k].s] = "live"
        <4> PICK s : s = calls[t][k].s OBVIOUS
        <4>1. CASE calls[t][k].at \in RefLabels BY <4>1, HeldByCall
        <4>2. CASE calls[t][k].at \in Closing BY <4>2, CloserHolds
        <4>3. CASE calls[t][k].at \in Freeing
          <5>1. In(s, Freeing) BY <4>3 DEF In
          <5>2. s \in Stmts
            <6>1. calls[t][k] \in FrameType BY <2>1, DepthOf
            <6> QED BY <3>2, <6>1 DEF FrameType
          <5> QED BY <2>1, <5>1, <5>2 DEF Counted, CountedAt
        <4> QED BY <3>2, <4>1, <4>2, <4>3 DEF InStmt, RefLabels, Refers, New,
            Closing, InClose
      <3> QED BY <2>1, <3>1, <3>2, FramesAre
    <2>3. ASSUME NEW s \in Stmts, mem[s] = "live"
          PROVE  /\ connLive \/ InFrame(s, {"freeMemory"})
                 /\ parent[s] # NULL => mem[parent[s]] = "live"
                                        \/ InFrame(s, {"unparent", "freeConn"})
      <3>1. connLive \/ InFrame(s, {"freeMemory"})
        <4>1. CASE In(s, Letting) BY <2>1, <4>1, InFrameIs DEF Letting
        <4>2. CASE ~In(s, Letting)
          <5>1. <<s, "stmt">> \in Keepers BY <2>3, <4>2 DEF Keepers
          <5> QED BY <5>1, Kept
        <4> QED BY <4>1, <4>2
      <3>2. CASE In(s, Unparenting)
        <4>1. In(s, {"unparent", "freeConn"}) BY <3>2, InSub DEF Unparenting
        <4> QED BY <2>1, <3>1, <4>1, InFrameIs
      <3>3. CASE ~In(s, Unparenting) BY <3>1, <3>3, HeldByResult
      <3> QED BY <3>2, <3>3
    <2>4. userConn # {} => connLive
      <3> SUFFICES ASSUME NEW t \in userConn PROVE connLive OBVIOUS
      <3>1. <<t, "user">> \in Keepers BY DEF Keepers
      <3> QED BY <3>1, Kept
    <2> QED BY <2>2, <2>3, <2>4 DEF HeldIsLive
  <1> QED BY <1>1, LifeInvariant, PTL

(* The handles of the connection and its session go away at one step. *)
LEMMA SessionStays ==
    ASSUME NEW t \in Threads, Begin(t) \/ Continue(t), ~ConnSessionEnd(t)
    PROVE  connHandle' = connHandle /\ sessionHandle' = sessionHandle
  <1>1. Begin(t) => UNCHANGED <<connHandle, sessionHandle>>
    BY DEF Begin, PrepareStmt, CloseConn, ReleaseConn, GetImplicitResult,
       CloseStmt, ReleaseStmt, AddRefFor, connVars
  <1>2. Continue(t) => UNCHANGED <<connHandle, sessionHandle>>
    BY DEF Continue, StmtPrepare2, StmtAddHandle, StmtInit, Unref, EndPublicFn,
       StmtMarkClosing, StmtReleaseParent, StmtClearParent, StmtCheckSession,
       OciStmtRelease, StmtCheckListed, StmtRemoveHandle, StmtClosed, StmtFree,
       StmtFreeParent, StmtFreeConn, StmtFreeMemory, ConnMarkClosing,
       ConnRollback, ConnReadSlot, ConnTakeRef, ConnDropRef, ConnSlotDone,
       ConnClosed, UnrefConn, ConnFree, ConnFreeMemory, connVars
  <1> QED BY <1>1, <1>2

(* A service context has a session, unless detaching may fail.              *)
SessionKept == connHandle => sessionHandle \/ "serverDetach" \in Failures

LEMMA SessionStep == SessionKept /\ [Next]_vars => SessionKept'
  <1> SUFFICES ASSUME SessionKept, [Next]_vars PROVE SessionKept' OBVIOUS
  <1>1. CASE UNCHANGED vars BY <1>1 DEF vars, connVars, SessionKept
  <1>2. ASSUME NEW t \in Threads, ConnSessionEnd(t) PROVE SessionKept'
    <2>1. \/ connHandle' = FALSE
          \/ UNCHANGED <<connHandle, sessionHandle>>
          \/ "serverDetach" \in Failures
      BY <1>2 DEF ConnSessionEnd
    <2> QED BY <2>1 DEF SessionKept
  <1>3. ASSUME NEW t \in Threads, Begin(t) \/ Continue(t), ~ConnSessionEnd(t)
        PROVE  SessionKept'
    BY <1>3, SessionStays DEF SessionKept
  <1> QED BY <1>1, <1>2, <1>3 DEF Next

(* Each OCI statement handle is released by one thread, while it is open    *)
(* (dpiStmt__close); the session is ended by one thread at a time, with its *)
(* service context, and again only after detaching failed (dpiConn__close). *)
THEOREM HandlesAreReleasedOnce ==
    ASSUME Assumed
    PROVE  Spec => []ReleasedOnce
  <1>1. LifeInv /\ SessionKept => ReleasedOnce
    <2> SUFFICES ASSUME LifeInv, SessionKept, NEW t \in Threads
                 PROVE  /\ At(t, "ociRelease") => oci[Top(t).s] = "open"
                        /\ At(t, "sessionEnd") => connHandle /\
                              (sessionHandle \/ "serverDetach" \in Failures)
                        /\ \A u \in Threads \ {t} :
                              /\ ~(At(t, "sessionEnd") /\ At(u, "sessionEnd"))
                              /\ At(t, "ociRelease") /\ At(u, "ociRelease")
                                    => Top(t).s # Top(u).s
      BY DEF ReleasedOnce
    <2>1. Stacks /\ Alone /\ CloseState /\ ConnState BY DEF LifeInv, TypeOK
    <2>2. Once(InClose) BY <2>1 DEF Alone, Sole
    <2>3. ASSUME NEW v \in Threads, NEW l, At(v, l)
          PROVE  /\ depth[v] \in Nat \ {0} /\ depth[v] \in 1 .. depth[v]
                 /\ Last(v).at = l /\ Top(v) = Last(v)
                 /\ Last(v) = calls[v][depth[v]]
      BY <2>1, <2>3, LastIs
    <2>4. ASSUME At(t, "ociRelease")
          PROVE  oci[Top(t).s] = "open"
      <3> PICK s : s = Last(t).s OBVIOUS
      <3>1. depth[t] \in Nat \ {0} /\ Last(t).at = "ociRelease"
            /\ Top(t) = Last(t)
        BY <2>3, <2>4
      <3>2. s \in Stmts BY <2>1, <3>1, LastStmt DEF InStmt
      <3>3. Last(t).at \in InClose /\ Last(t).at \in Unheld
        BY <3>1 DEF InClose, Unheld
      <3>4. In(s, InClose) /\ In(s, Unheld) BY <3>1, <3>3, LastIn
      <3>5. ~In(s, Let)
        <4>1. ~Elsewhere(t, s, InClose) BY <2>2, <3>1, <3>3, LastOnce
        <4>2. ~Elsewhere(t, s, Let) BY <4>1 DEF Elsewhere, Let, InClose
        <4> QED BY <3>1, <4>2, InNow DEF Is, Let
      <3> QED BY <2>1, <3>1, <3>2, <3>4, <3>5 DEF CloseState, CloseStateAt
    <2>5. ASSUME At(t, "sessionEnd")
          PROVE  connHandle /\
                    (sessionHandle \/ "serverDetach" \in Failures)
      <3>1. depth[t] \in Nat \ {0} /\ Last(t).at \in ConnClosing
        BY <2>3, <2>5 DEF ConnClosing
      <3> QED BY <2>1, <3>1, LastAny DEF ConnState, SessionKept
    <2>6. ASSUME NEW u \in Threads \ {t}, At(t, "sessionEnd"),
                 At(u, "sessionEnd")
          PROVE  FALSE
      <3>1. /\ depth[t] \in 1 .. depth[t] /\ depth[u] \in 1 .. depth[u]
            /\ calls[t][depth[t]].at \in ConnClosing
            /\ calls[u][depth[u]].at \in ConnClosing
        BY <2>3, <2>6 DEF ConnClosing
      <3> QED BY <2>6, <3>1, OneCloser
    <2>7. ASSUME NEW u \in Threads \ {t}, At(t, "ociRelease"),
                 At(u, "ociRelease")
          PROVE  Top(t).s # Top(u).s
      <3>1. /\ depth[t] \in 1 .. depth[t] /\ depth[u] \in 1 .. depth[u]
            /\ calls[t][depth[t]].at \in InClose
            /\ calls[u][depth[u]].at \in InClose
            /\ Top(t) = calls[t][depth[t]] /\ Top(u) = calls[u][depth[u]]
        BY <2>3, <2>7 DEF InClose
      <3> QED BY <2>2, <2>7, <3>1 DEF Once
    <2> QED BY <2>4, <2>5, <2>6, <2>7
  <1>2. Init => SessionKept BY DEF Init, SessionKept
  <1> QED BY <1>1, <1>2, SessionStep, LifeInvariant, PTL DEF Spec

-----------------------------------------------------------------------------
(***************************************************************************)
(* The list of open statements, and closing them with their connection.    *)
(* Implicit results are left out: closing one empties a slot that is not   *)
(* its own (the README, section 6).                                        *)
(***************************************************************************)
(* The statements that are on the list, open or not; the list is the one of *)
(* HandleList with these.                                                   *)
Listed == {s \in Stmts : \E i \in 0 .. numSlots - 1 : openStmts[i] = s}

ListOf == INSTANCE HandleListProofs WITH
    Items <- Stmts, handles <- openStmts, open <- Listed

(* Where an open statement is not listed: it is about to be, or was removed. *)
Entering == {"addHandle"}
Leaving == {"closed"}
Unlisting == Entering \cup Leaving

ListedInv ==
    /\ ListOf!ListInv
    /\ \A s \in Stmts : parent[s] = NULL
    /\ \A s \in Stmts : handle[s] /\ ~In(s, Unlisting) => s \in Listed

-----------------------------------------------------------------------------
(* The frames of a stack are all frames. *)
LEMMA GoneOnFits ==
    ASSUME Stacks, Stacks', NEW t \in Threads, stack[t] # <<>>, NEW f,
           GoOn(t, f)
    PROVE  f \in FrameType
  <1>1. stack' = [stack EXCEPT ![t] = <<f>> \o Tail(stack[t])]
    BY DEF GoOn, Stacks
  <1>2. stack'[t] = <<f>> \o Tail(stack[t]) BY <1>1, OthersSame, Zenon
  <1>3. stack[t] \in Seq(FrameType) /\ stack'[t] \in Seq(FrameType)
    BY DEF Stacks
  <1>4. 1 \in 1 .. Len(stack'[t]) /\ stack'[t][1] = f BY <1>2, <1>3
  <1> QED BY <1>3, <1>4, ElementIn

(* The same of a call. *)
LEMMA CalledFits ==
    ASSUME Stacks, Stacks', NEW t \in Threads, stack[t] # <<>>, NEW f, NEW g,
           Call(t, g, f)
    PROVE  f \in FrameType /\ g \in FrameType
  <1>1. stack' = [stack EXCEPT ![t] = <<g, f>> \o Tail(stack[t])]
    BY DEF Call, Stacks
  <1>2. stack'[t] = <<g, f>> \o Tail(stack[t]) BY <1>1, OthersSame, Zenon
  <1>3. stack[t] \in Seq(FrameType) /\ stack'[t] \in Seq(FrameType)
    BY DEF Stacks
  <1>4. /\ 1 \in 1 .. Len(stack'[t]) /\ stack'[t][1] = g
        /\ 2 \in 1 .. Len(stack'[t]) /\ stack'[t][2] = f
    BY <1>2, <1>3
  <1> QED BY <1>3, <1>4, ElementIn

(* The marks that an operation on a stack leaves where they are.            *)
LEMMA GoOnMarks ==
    ASSUME Stacks, Stacks', NEW t \in Threads, NEW l, At(t, l), NEW f,
           GoOn(t, f), NEW L, l \notin L, f.at \notin L
    PROVE  Same(L)
  <1>1. /\ depth[t] \in Nat \ {0} /\ Last(t).at = l /\ stack[t] # <<>>
    BY LastIs
  <1>2. f \in FrameType BY <1>1, GoneOnFits
  <1>3. WentOn(t, f) BY <1>1, <1>2, GoOnIs
  <1> QED BY <1>1, <1>3, SameWentOn

LEMMA GoToMarks ==
    ASSUME Stacks, Stacks', NEW t \in Threads, NEW l, At(t, l), NEW m,
           GoTo(t, m), NEW L, l \notin L, m \notin L
    PROVE  Same(L)
  <1>1. Top(t) \in FrameType BY LastIs
  <1>2. [Top(t) EXCEPT !.at = m].at = m BY <1>1 DEF FrameType
  <1> QED BY <1>2, GoOnMarks DEF GoTo

LEMMA CallMarks ==
    ASSUME Stacks, Stacks', NEW t \in Threads, NEW l, At(t, l), NEW f,
           NEW g, Call(t, g, f), NEW L, l \notin L, f.at \notin L,
           g.at \notin L
    PROVE  Same(L)
  <1>1. /\ depth[t] \in Nat \ {0} /\ Last(t).at = l /\ stack[t] # <<>>
    BY LastIs
  <1>2. f \in FrameType /\ g \in FrameType BY <1>1, CalledFits
  <1>3. Called(t, g, f) BY <1>1, <1>2, CallIs
  <1> QED BY <1>1, <1>3, SameCalled

LEMMA ReturnMarks ==
    ASSUME Stacks, NEW t \in Threads, NEW l, At(t, l),
           ReturnVoid(t) \/ \E status \in BOOLEAN : Return(t, status),
           NEW L, l \notin L
    PROVE  Same(L)
  <1>1. /\ depth[t] \in Nat \ {0} /\ Last(t).at = l /\ stack[t] # <<>>
    BY LastIs
  <1>2. CASE ReturnVoid(t) BY <1>1, <1>2, ReturnVoidIs, SameEnded
  <1>3. ASSUME NEW status \in BOOLEAN, Return(t, status) PROVE Same(L)
    BY <1>1, <1>3, ReturnIs, SameReturned
  <1> QED BY <1>2, <1>3

(* A thread that calls a public function has one frame, that of the function. *)
LEMMA Starts ==
    ASSUME Stacks, Stacks', NEW t \in Threads, Idle(t), NEW f, Start(t, f)
    PROVE  Began(t, f)
  <1>1. f \in FrameType
    <2>1. stack' = [stack EXCEPT ![t] = <<f>>] BY DEF Start
    <2>2. stack'[t] = <<f>> BY <2>1, OthersSame, Zenon
    <2>3. stack'[t] \in Seq(FrameType) BY DEF Stacks
    <2>4. 1 \in 1 .. Len(stack'[t]) /\ stack'[t][1] = f BY <2>2
    <2> QED BY <2>3, <2>4, ElementIn
  <1> QED BY <1>1, StartIs DEF Idle

LEMMA StartMarks ==
    ASSUME Stacks, Stacks', NEW t \in Threads, Idle(t), NEW f, Start(t, f),
           NEW L, f.at \notin L
    PROVE  Same(L)
  BY Starts, SameBegan

LEMMA ReleaseMarks ==
    ASSUME Stacks, Stacks', NEW t \in Threads, NEW l, At(t, l), NEW f,
           (\E u \in Stmts : ReleaseStmtRef(t, u, f)) \/ ReleaseConnRef(t, f),
           NEW L, l \notin L, f.at \notin L, "stmtFree" \notin L,
           "connFree" \notin L
    PROVE  Same(L)
  <1>1. \A x, b : Frame("stmtFree", x, b).at \notin L
                  /\ Frame("connFree", x, b).at \notin L
    BY DEF Frame
  <1>2. ASSUME NEW u \in Stmts, ReleaseStmtRef(t, u, f) PROVE Same(L)
    BY <1>1, <1>2, GoOnMarks, CallMarks DEF ReleaseStmtRef
  <1>3. CASE ReleaseConnRef(t, f)
    BY <1>1, <1>3, GoOnMarks, CallMarks DEF ReleaseConnRef
  <1> QED BY <1>2, <1>3

-----------------------------------------------------------------------------
(* What the list of HandleList and that of the statements have in common.   *)
LEMMA SameList ==
    /\ ListOf!HandleListAssumption
    /\ \A h : List!AddHandle(h) <=> ListOf!AddHandle(h)
    /\ \A n : List!RemoveHandle(n) <=> ListOf!RemoveHandle(n)
  <1>1. ListOf!HandleListAssumption
    BY StmtLifetimeAssumption DEF ListOf!HandleListAssumption
  <1>2. \A h : List!AddHandle(h) <=> ListOf!AddHandle(h)
    BY DEF List!AddHandle, List!AddHandleGrow, List!AddHandleScan,
       List!ScanPos, List!Slots, ListOf!AddHandle, ListOf!AddHandleGrow,
       ListOf!AddHandleScan, ListOf!ScanPos, ListOf!Slots
  <1>3. \A n : List!RemoveHandle(n) <=> ListOf!RemoveHandle(n)
    BY DEF List!RemoveHandle, ListOf!RemoveHandle
  <1> QED BY <1>1, <1>2, <1>3

(* A step that leaves the list. *)
LEMMA ListKept ==
    ASSUME ListedInv, UNCHANGED listVars,
           \A s \in Stmts : parent'[s] \in {parent[s], NULL},
           \A s \in Stmts : handle'[s] /\ ~In(s, Unlisting)' =>
                                handle[s] /\ ~In(s, Unlisting)
    PROVE  ListedInv'
  <1>1. Listed' = Listed BY DEF Listed, listVars
  <1>2. ListOf!ListInv'
    <2>1. UNCHANGED ListOf!vars
      BY <1>1 DEF ListOf!vars, ListOf!listVars, listVars
    <2> QED BY <2>1, SameList, ListOf!StutterInv DEF ListedInv
  <1> QED BY <1>1, <1>2 DEF ListedInv

(* A statement is put on the list. *)
LEMMA ListAdded ==
    ASSUME ListedInv, NEW s \in Stmts, s \notin Listed, List!AddHandle(s)
    PROVE  ListOf!Open(s) /\ ListOf!ListInv' /\ Listed' = Listed \cup {s}
  <1>1. ListOf!AddHandle(s) /\ ListOf!ListInv /\ ListOf!HandleListAssumption
    BY SameList DEF ListedInv
  <1>2. PICK pos \in ListOf!Slots' :
             /\ pos \in ListOf!Slots => openStmts[pos] = NULL
             /\ openStmts'[pos] = s
             /\ \A i \in ListOf!Slots' \ {pos} :
                   openStmts'[i] = IF i \in ListOf!Slots THEN openStmts[i]
                                   ELSE NULL
    BY <1>1, ListOf!AddHandleEffect
  <1>3. ListOf!Slots \subseteq ListOf!Slots' BY <1>1, ListOf!AddHandleEffect
  <1>4. Listed' = Listed \cup {s}
    <2>1. /\ Listed = {r \in Stmts : \E i \in ListOf!Slots : openStmts[i] = r}
          /\ Listed' = {r \in Stmts : \E i \in ListOf!Slots' :
                                          openStmts'[i] = r}
      BY DEF Listed, ListOf!Slots
    <2>2. NULL \notin Stmts BY StmtLifetimeAssumption
    <2>3. \A r \in Stmts : r \in Listed' => r \in Listed \cup {s}
      BY <1>2, <2>1, <2>2
    <2>4. \A r \in Stmts : r \in Listed \cup {s} => r \in Listed'
      BY <1>2, <1>3, <2>1, <2>2
    <2> QED BY <2>1, <2>3, <2>4
  <1>5. ListOf!Open(s) BY <1>1, <1>4 DEF ListOf!Open
  <1> QED BY <1>1, <1>4, <1>5, ListOf!OpenInv

(* A statement is taken off the list. *)
LEMMA ListRemoved ==
    ASSUME ListedInv, NEW s \in Stmts, s \in Listed,
           List!RemoveHandle(openSlotNum[s])
    PROVE  ListOf!Close(s) /\ ListOf!ListInv' /\ Listed' = Listed \ {s}
  <1>1. /\ ListOf!RemoveHandle(openSlotNum[s]) /\ ListOf!ListInv
        /\ ListOf!HandleListAssumption
    BY SameList DEF ListedInv
  <1>2. /\ openSlotNum[s] \in ListOf!Slots /\ openStmts[openSlotNum[s]] = s
        /\ \A i \in ListOf!Slots : openStmts[i] = s => i = openSlotNum[s]
        /\ openStmts \in [ListOf!Slots -> Stmts \cup {NULL}]
    BY <1>1, StmtLifetimeAssumption DEF ListOf!ListInv,
       ListOf!ListsOpenHandles, ListOf!TypeOK, ListOf!Used
  <1>3. /\ openStmts' = [openStmts EXCEPT ![openSlotNum[s]] = NULL]
        /\ numSlots' = numSlots
    BY <1>1 DEF ListOf!RemoveHandle
  <1>4. Listed' = Listed \ {s}
    <2>1. /\ Listed = {r \in Stmts : \E i \in ListOf!Slots : openStmts[i] = r}
          /\ Listed' = {r \in Stmts : \E i \in ListOf!Slots :
                                          openStmts'[i] = r}
      BY <1>3 DEF Listed, ListOf!Slots
    <2>2. NULL \notin Stmts BY StmtLifetimeAssumption
    <2>3. \A i \in ListOf!Slots :
             openStmts'[i] = IF i = openSlotNum[s] THEN NULL ELSE openStmts[i]
      BY <1>2, <1>3
    <2> QED BY <1>2, <2>1, <2>2, <2>3
  <1>5. ListOf!Close(s) BY <1>1, <1>4 DEF ListOf!Close
  <1> QED BY <1>1, <1>4, <1>5, ListOf!CloseInv

-----------------------------------------------------------------------------
(* Most steps touch neither the list nor a handle, and are somewhere else.  *)
LEMMA ListStays ==
    ASSUME ListedInv, UNCHANGED <<listVars, handle, parent>>, Same(Unlisting)
    PROVE  ListedInv'
  BY ListKept DEF Same

(* Calling a public function keeps the list as it is. *)
LEMMA BeginList ==
    ASSUME LifeInv, LifeInv', ListedInv, ~ImplicitResults,
           NEW t \in Threads, Begin(t)
    PROVE  ListedInv'
  <1>1. Stacks /\ Stacks' BY DEF LifeInv, TypeOK
  <1>2. \A l, s, p : Frame(l, s, p).at = l BY DEF Frame
  <1>3. CASE PrepareStmt(t)
    <2>1. PICK s \in Stmts : Idle(t) /\ Start(t, Frame("prepare", s, TRUE))
      BY <1>3 DEF PrepareStmt
    <2>2. Same(Unlisting)
      BY <1>1, <1>2, <2>1, StartMarks DEF Unlisting, Entering, Leaving
    <2> QED BY <1>3, <2>2, ListStays DEF PrepareStmt
  <1>4. CASE CloseConn(t)
    <2>1. Same(Unlisting)
      BY <1>1, <1>2, <1>4, StartMarks DEF CloseConn, Unlisting, Entering,
         Leaving
    <2> QED BY <1>4, <2>1, ListStays DEF CloseConn, stmtVars
  <1>5. CASE ReleaseConn(t)
    <2>1. Same(Unlisting)
      BY <1>1, <1>2, <1>5, StartMarks DEF ReleaseConn, Unlisting, Entering,
         Leaving
    <2> QED BY <1>5, <2>1, ListStays DEF ReleaseConn, stmtVars
  <1>6. ASSUME NEW s \in Stmts, CloseStmt(t, s)
        PROVE  ListedInv'
    <2>1. Same(Unlisting)
      BY <1>1, <1>2, <1>6, StartMarks DEF CloseStmt, Unlisting, Entering,
         Leaving
    <2> QED BY <1>6, <2>1, ListStays DEF CloseStmt, stmtVars
  <1>7. ASSUME NEW s \in Stmts, ReleaseStmt(t, s)
        PROVE  ListedInv'
    <2>1. Same(Unlisting)
      BY <1>1, <1>2, <1>7, StartMarks DEF ReleaseStmt, Unlisting, Entering,
         Leaving
    <2> QED BY <1>7, <2>1, ListStays DEF ReleaseStmt, stmtVars
  <1>8. ASSUME NEW s \in Stmts, NEW u \in Threads, AddRefFor(t, s, u)
        PROVE  ListedInv'
    <2>1. Same(Unlisting) BY <1>8, SameStill DEF AddRefFor
    <2> QED BY <1>8, <2>1, ListStays DEF AddRefFor
  <1> QED BY <1>3, <1>4, <1>5, <1>6, <1>7, <1>8 DEF Begin, GetImplicitResult


(* The steps of a call that are nowhere near the list. *)
Unlists(t) ==
    \/ StmtPrepare2(t) \/ StmtAddHandle(t) \/ StmtCheckListed(t)
    \/ StmtRemoveHandle(t) \/ StmtClosed(t) \/ StmtFreeMemory(t)

(* So does every step of a call that is not in Unlists. *)
LEMMA CallsStay ==
    ASSUME LifeInv, LifeInv', ListedInv, NEW t \in Threads, Continue(t),
           ~Unlists(t)
    PROVE  ListedInv'
  <1>1. Stacks /\ Stacks' BY DEF LifeInv, TypeOK
  <1>2. \A l, s, p : Frame(l, s, p).at = l BY DEF Frame
  <1>3. \A l : At(t, l) => /\ Top(t) \in FrameType
                           /\ \A m : [Top(t) EXCEPT !.at = m].at = m
                           /\ NextSlot(Top(t)).at = "nextSlot"
    <2> SUFFICES ASSUME NEW l, At(t, l)
                 PROVE  /\ Top(t) \in FrameType
                        /\ \A m : [Top(t) EXCEPT !.at = m].at = m
                        /\ NextSlot(Top(t)).at = "nextSlot"
      OBVIOUS
    <2>1. Top(t) \in FrameType BY <1>1, LastIs
    <2> QED BY <2>1, NextSlotIs DEF FrameType
  <1>4. \A s \in Stmts : parent[s] = NULL BY DEF ListedInv
  <1>5. \A l \in InStmt \cup {"takeRef"} : At(t, l) => Top(t).s \in Stmts
    BY <1>1, LastIs, LastStmt
  <1>off. \A l : l \notin {"addHandle", "closed"} => l \notin Unlisting
    BY DEF Unlisting, Entering, Leaving
  <1>goOn. \A l, f : At(t, l) /\ GoOn(t, f) /\ l \notin Unlisting
                   /\ f.at \notin Unlisting => Same(Unlisting)
    BY <1>1, GoOnMarks
  <1>goTo. \A l, m : At(t, l) /\ GoTo(t, m) /\ l \notin Unlisting
                   /\ m \notin Unlisting => Same(Unlisting)
    BY <1>1, GoToMarks
  <1>call. \A l, f, g : At(t, l) /\ Call(t, g, f) /\ l \notin Unlisting
                      /\ f.at \notin Unlisting /\ g.at \notin Unlisting
                      => Same(Unlisting)
    BY <1>1, CallMarks
  <1>return. \A l : At(t, l) /\ l \notin Unlisting
               /\ (ReturnVoid(t) \/ \E status \in BOOLEAN : Return(t, status))
               => Same(Unlisting)
    BY <1>1, ReturnMarks
  <1>release. \A l, f : At(t, l) /\ l \notin Unlisting /\ f.at \notin Unlisting
                  /\ (ReleaseConnRef(t, f)
                      \/ \E u \in Stmts : ReleaseStmtRef(t, u, f))
                  => Same(Unlisting)
    BY <1>1, <1>off, ReleaseMarks
  <1>6. CASE StmtInit(t) \/ StmtMarkClosing(t) \/ StmtCheckSession(t)
             \/ EndPublicFn(t)
    <2>1. Same(Unlisting)
      <3>1. CASE StmtInit(t) BY <1>off, <1>goTo, <1>return, <3>1 DEF StmtInit
      <3>2. CASE StmtMarkClosing(t)
        BY <1>off, <1>goTo, <1>return, <3>2 DEF StmtMarkClosing
      <3>3. CASE StmtCheckSession(t)
        BY <1>off, <1>goTo, <3>3 DEF StmtCheckSession
      <3>4. CASE EndPublicFn(t) BY <1>off, <1>return, <3>4 DEF EndPublicFn
      <3> QED BY <1>6, <3>1, <3>2, <3>3, <3>4
    <2> QED BY <1>6, <2>1, ListStays DEF StmtInit, StmtMarkClosing,
        StmtCheckSession, EndPublicFn, stmtVars
  <1>7. CASE StmtReleaseParent(t) \/ StmtClearParent(t)
    <2>1. CASE StmtReleaseParent(t)
      BY <1>4, <1>5, <2>1 DEF StmtReleaseParent, InStmt
    <2>2. CASE StmtClearParent(t)
      <3>1. Same(Unlisting) BY <1>1, <1>off, <2>2, <1>goTo DEF StmtClearParent
      <3>2. parent' = parent
        <4>1. Top(t).s \in Stmts BY <1>5, <2>2 DEF StmtClearParent, InStmt
        <4>2. parent \in [Stmts -> Stmts \cup {NULL}] BY DEF LifeInv, TypeOK
        <4> QED BY <1>4, <2>2, <4>1, <4>2 DEF StmtClearParent
      <3> QED BY <2>2, <3>1, <3>2, ListStays DEF StmtClearParent
    <2> QED BY <1>7, <2>1, <2>2
  <1>8. CASE OciStmtRelease(t)
    <2>1. PICK ok \in BOOLEAN :
             GoOn(t, [Top(t) EXCEPT !.at = "unlist", !.ok = ok])
      BY <1>8 DEF OciStmtRelease
    <2>2. [Top(t) EXCEPT !.at = "unlist", !.ok = ok].at = "unlist"
      BY <1>3, <1>8 DEF OciStmtRelease, FrameType
    <2>3. Same(Unlisting)
      BY <1>1, <1>off, <1>8, <2>1, <2>2, <1>goOn DEF OciStmtRelease
    <2> QED BY <1>8, <2>3, ListStays DEF OciStmtRelease
  <1>9. CASE Unref(t) \/ StmtFree(t) \/ StmtFreeParent(t) \/ StmtFreeConn(t)
    <2>1. CASE Unref(t)
      <3>1. Same(Unlisting)
        BY <1>1, <1>off, <1>2, <1>5, <2>1, <1>release DEF Unref, InStmt
      <3> QED BY <2>1, <3>1, ListStays DEF Unref
    <2>2. CASE StmtFree(t)
      <3>1. Same(Unlisting)
        <4> PICK f, g : /\ f = Frame("freeParent", Top(t).s, FALSE)
                        /\ g = Frame("stmtClose", Top(t).s, FALSE)
          OBVIOUS
        <4>1. At(t, "stmtFree") /\ Call(t, g, f) BY <2>2 DEF StmtFree
        <4>2. f.at = "freeParent" /\ g.at = "stmtClose" BY <1>2
        <4> QED BY <1>off, <1>call, <4>1, <4>2
      <3> QED BY <2>2, <3>1, ListStays DEF StmtFree, stmtVars
    <2>3. CASE StmtFreeParent(t)
      <3>1. Same(Unlisting)
        BY <1>1, <1>off, <1>2, <1>4, <1>5, <2>3, <1>goOn DEF StmtFreeParent,
           InStmt, Freeing
      <3> QED BY <2>3, <3>1, ListStays DEF StmtFreeParent
    <2>4. CASE StmtFreeConn(t)
      <3>1. Same(Unlisting)
        BY <1>1, <1>off, <1>2, <2>4, <1>release DEF StmtFreeConn
      <3> QED BY <2>4, <3>1, ListStays DEF StmtFreeConn, stmtVars
    <2> QED BY <1>9, <2>1, <2>2, <2>3, <2>4
  <1>10. CASE ConnMarkClosing(t) \/ ConnRollback(t) \/ ConnSessionEnd(t)
              \/ ConnClosed(t) \/ ConnFreeMemory(t)
    <2>1. Same(Unlisting)
      <3>1. CASE ConnMarkClosing(t)
        <4> PICK f, g : /\ f = Frame("connClosed", NULL, TRUE)
                        /\ g = Frame("connClose", NULL, TRUE)
          OBVIOUS
        <4>1. At(t, "markClosing") /\ (ReturnVoid(t) \/ Call(t, g, f))
          BY <3>1 DEF ConnMarkClosing
        <4>2. f.at = "connClosed" /\ g.at = "connClose" BY <1>2
        <4> QED BY <1>off, <1>call, <1>return, <4>1, <4>2
      <3>2. CASE ConnRollback(t) BY <1>off, <1>goTo, <3>2 DEF ConnRollback
      <3>3. CASE ConnSessionEnd(t)
        BY <1>off, <1>return, <3>3 DEF ConnSessionEnd
      <3>4. CASE ConnClosed(t) BY <1>off, <1>return, <3>4 DEF ConnClosed
      <3>5. CASE ConnFreeMemory(t)
        BY <1>off, <1>return, <3>5 DEF ConnFreeMemory
      <3> QED BY <1>10, <3>1, <3>2, <3>3, <3>4, <3>5
    <2> QED BY <1>10, <2>1, ListStays DEF ConnMarkClosing, ConnRollback,
        ConnSessionEnd, ConnClosed, ConnFreeMemory, stmtVars
  <1>11. CASE ConnReadSlot(t)
    <2>1. /\ [Top(t) EXCEPT !.at = "sessionEnd", !.i = 0].at = "sessionEnd"
          /\ [Top(t) EXCEPT !.i = Top(t).i + 1].at = "nextSlot"
          /\ [Top(t) EXCEPT !.at = "takeRef", !.s = openStmts[Top(t).i]].at
                = "takeRef"
      BY <1>3, <1>11 DEF ConnReadSlot, FrameType, At, Top
    <2>2. Same(Unlisting)
      BY <1>1, <1>off, <1>11, <2>1, <1>goOn DEF ConnReadSlot
    <2> QED BY <1>11, <2>2, ListStays DEF ConnReadSlot, stmtVars
  <1>12. CASE ConnTakeRef(t)
    <2>1. Same(Unlisting)
      <3> PICK f, g, h : /\ f = [Top(t) EXCEPT !.at = "dropRef"]
                         /\ g = Frame("stmtClose", Top(t).s, Top(t).propagate)
                         /\ h = NextSlot(Top(t))
        OBVIOUS
      <3>1. At(t, "takeRef") /\ (GoOn(t, h) \/ Call(t, g, f))
        BY <1>12 DEF ConnTakeRef
      <3>2. f.at = "dropRef" /\ g.at = "stmtClose" /\ h.at = "nextSlot"
        BY <1>2, <1>3, <3>1
      <3> QED BY <1>off, <1>call, <1>goOn, <3>1, <3>2
    <2> QED BY <1>12, <2>1, ListStays DEF ConnTakeRef
  <1>13. CASE ConnDropRef(t)
    <2>1. Same(Unlisting)
      BY <1>1, <1>off, <1>2, <1>3, <1>5, <1>13, <1>goOn, <1>release DEF
         ConnDropRef, InStmt
    <2> QED BY <1>13, <2>1, ListStays DEF ConnDropRef
  <1>14. CASE ConnSlotDone(t)
    <2>1. Same(Unlisting)
      BY <1>1, <1>off, <1>3, <1>14, <1>goOn, <1>return DEF ConnSlotDone
    <2> QED BY <1>14, <2>1, ListStays DEF ConnSlotDone, stmtVars
  <1>15. CASE UnrefConn(t) \/ ConnFree(t)
    <2>1. CASE UnrefConn(t)
      <3>1. Same(Unlisting)
        BY <1>1, <1>off, <1>2, <2>1, <1>release DEF UnrefConn
      <3> QED BY <2>1, <3>1, ListStays DEF UnrefConn, stmtVars
    <2>2. CASE ConnFree(t)
      <3>1. Same(Unlisting)
        BY <1>1, <1>off, <1>2, <2>2, <1>goOn, <1>call DEF ConnFree
      <3> QED BY <2>2, <3>1, ListStays DEF ConnFree, stmtVars
    <2> QED BY <1>15, <2>1, <2>2
  <1> QED BY <1>6, <1>7, <1>8, <1>9, <1>10, <1>11, <1>12, <1>13, <1>14, <1>15
      DEF Continue, Unlists

(* The other statements, when one goes on to another label or returns. *)
LEMMA OthersMarks ==
    ASSUME Stacks, Stacks', NEW t \in Threads, NEW l, At(t, l),
           \/ \E m : GoTo(t, m)
           \/ ReturnVoid(t) \/ \E status \in BOOLEAN : Return(t, status),
           NEW x, x # Top(t).s, NEW L
    PROVE  In(x, L)' <=> In(x, L)
  <1>1. /\ depth[t] \in Nat \ {0} /\ Last(t).at = l /\ stack[t] # <<>>
        /\ Top(t) = Last(t) /\ Last(t) \in FrameType
    BY LastIs
  <1>2. In(x, L) <=> Elsewhere(t, x, L) BY <1>1, InNow DEF Is
  <1>3. ASSUME NEW m, GoTo(t, m) PROVE In(x, L)' <=> In(x, L)
    <2> PICK f : f = [Top(t) EXCEPT !.at = m] OBVIOUS
    <2>1. GoOn(t, f) /\ f.s = Top(t).s BY <1>1, <1>3 DEF GoTo, FrameType
    <2>2. f \in FrameType BY <1>1, <2>1, GoneOnFits
    <2>3. WentOn(t, f) BY <1>1, <2>1, <2>2, GoOnIs
    <2>4. In(x, L)' <=> Is(f, x, L) \/ Elsewhere(t, x, L)
      BY <1>1, <2>3, InWentOn
    <2> QED BY <1>2, <2>1, <2>4 DEF Is
  <1>4. CASE ReturnVoid(t)
    <2>1. Ended(t) BY <1>1, <1>4, ReturnVoidIs
    <2> QED BY <1>1, <1>2, <2>1, InEnded
  <1>5. ASSUME NEW status \in BOOLEAN, Return(t, status)
        PROVE  In(x, L)' <=> In(x, L)
    <2>1. Returned(t, status) BY <1>1, <1>5, ReturnIs
    <2> QED BY <1>1, <1>2, <2>1, InReturned
  <1> QED BY <1>3, <1>4, <1>5

(* The statement is at the label that its function went to. *)
LEMMA GoneTo ==
    ASSUME Stacks, Stacks', NEW t \in Threads, NEW l, At(t, l), NEW m,
           GoTo(t, m), NEW s, s = Top(t).s, NEW L, m \in L
    PROVE  In(s, L)'
  <1>1. /\ depth[t] \in Nat \ {0} /\ stack[t] # <<>>
        /\ Top(t) = Last(t) /\ Last(t) \in FrameType
    BY LastIs
  <1> PICK f : f = [Top(t) EXCEPT !.at = m] OBVIOUS
  <1>2. GoOn(t, f) /\ f.s = s /\ f.at = m BY <1>1 DEF GoTo, FrameType
  <1>3. f \in FrameType BY <1>1, <1>2, GoneOnFits
  <1>4. In(s, L)' <=> Is(f, s, L) \/ Elsewhere(t, s, L)
    BY <1>1, <1>2, <1>3, GoOnIs, InWentOn
  <1> QED BY <1>2, <1>4 DEF Is

(* A statement that is taken off the list is on it. *)
LEMMA RemovedIsListed ==
    ASSUME LifeInv, ListedInv, NEW t \in Threads, At(t, "removeHandle")
    PROVE  Top(t).s \in Listed
  <1> PICK s : s = Top(t).s OBVIOUS
  <1>1. Stacks /\ Alone /\ CloseState BY DEF LifeInv, TypeOK
  <1>2. /\ depth[t] \in Nat \ {0} /\ Last(t).at = "removeHandle"
        /\ Top(t) = Last(t)
    BY <1>1, LastIs
  <1>3. s \in Stmts BY <1>1, <1>2, LastStmt DEF InStmt
  <1>4. Last(t).at \in InClose BY <1>2 DEF InClose
  <1>5. In(s, InClose) /\ handle[s]
    BY <1>1, <1>2, <1>3, <1>4, LastIn DEF CloseState, CloseStateAt
  <1>6. ~In(s, Leaving)
    <2>1. Once(InClose) BY <1>1 DEF Alone, Sole
    <2>2. ~Elsewhere(t, s, InClose) BY <1>2, <1>4, <2>1, LastOnce
    <2>3. ~Elsewhere(t, s, Leaving) BY <2>2 DEF Elsewhere, Leaving, InClose
    <2> QED BY <1>2, <2>3, InNow DEF Is, Leaving
  <1>7. ~In(s, Entering)
    <2>1. Entering \subseteq Unlisted BY DEF Entering, Unlisted
    <2> QED BY <1>5, <2>1, UnlistedIsOpen, InSub
  <1>8. ~In(s, Unlisting) BY <1>6, <1>7 DEF In, Unlisting
  <1> QED BY <1>3, <1>5, <1>8 DEF ListedInv

(* ListedInv is inductive: a step in Unlists keeps it by what it does there. *)
LEMMA ListInvKept ==
    ASSUME LifeInv, LifeInv', ListedInv, NEW t \in Threads, Unlists(t)
    PROVE  ListedInv'
  <1>1. Stacks /\ Stacks' BY DEF LifeInv, TypeOK
  <1> PICK s : s = Top(t).s OBVIOUS
  <1>2. \A l \in InStmt : At(t, l) => s \in Stmts BY <1>1, LastIs, LastStmt
  <1>3. \A x \in Stmts : parent[x] = NULL BY DEF ListedInv
  <1>4. handle \in [Stmts -> BOOLEAN] /\ parent \in [Stmts -> Stmts \cup {NULL}]
    BY DEF LifeInv, TypeOK
  <1>5. \A l : l \notin {"addHandle", "closed"} => l \notin Unlisting
    BY DEF Unlisting, Entering, Leaving
  <1>6. "addHandle" \in Unlisting /\ "closed" \in Unlisting
    BY DEF Unlisting, Entering, Leaving
  <1>7. CASE StmtPrepare2(t)
    <2>1. At(t, "prepare") /\ s \in Stmts
      BY <1>2, <1>7 DEF StmtPrepare2, InStmt
    <2>2. CASE GoTo(t, "stmtFree") /\ UNCHANGED handle
      <3>1. Same(Unlisting) BY <1>1, <1>5, <2>1, <2>2, GoToMarks
      <3> QED BY <1>7, <2>2, <3>1, ListStays DEF StmtPrepare2
    <2>3. CASE GoTo(t, "addHandle") /\ handle' = [handle EXCEPT ![s] = TRUE]
      <3>1. In(s, Unlisting)' BY <1>1, <1>6, <2>1, <2>3, GoneTo
      <3>2. \A x \in Stmts \ {s} : In(x, Unlisting)' <=> In(x, Unlisting)
        BY <1>1, <2>1, <2>3, OthersMarks
      <3>3. \A x \in Stmts \ {s} : handle'[x] = handle[x] BY <1>4, <2>3
      <3> QED BY <1>7, <3>1, <3>2, <3>3, ListKept DEF StmtPrepare2
    <2> QED BY <1>7, <2>2, <2>3 DEF StmtPrepare2
  <1>8. CASE StmtAddHandle(t)
    <2>1. At(t, "addHandle") /\ s \in Stmts /\ parent' = parent
      BY <1>2, <1>8 DEF StmtAddHandle, InStmt
    <2>2. \A x \in Stmts \ {s} : In(x, Unlisting)' <=> In(x, Unlisting)
      BY <1>1, <1>8, <2>1, OthersMarks DEF StmtAddHandle
    <2>3. CASE List!AddHandle(s) /\ UNCHANGED handle
      <3>1. s \notin Listed
        <4>1. In(s, Unlisted) BY <1>1, <2>1, LastIs, LastIn DEF Unlisted
        <4> QED BY <2>1, <4>1 DEF LifeInv, FoundIsKnown, Found, Listed
      <3>2. ListOf!ListInv' /\ Listed' = Listed \cup {s}
        BY <2>1, <2>3, <3>1, ListAdded
      <3> QED BY <1>3, <2>1, <2>2, <2>3, <3>2 DEF ListedInv
    <2>4. CASE UNCHANGED listVars /\ handle' = [handle EXCEPT ![s] = FALSE]
      <3>1. ~handle'[s] /\ \A x \in Stmts \ {s} : handle'[x] = handle[x]
        BY <1>4, <2>1, <2>4
      <3> QED BY <2>1, <2>2, <2>4, <3>1, ListKept
    <2> QED BY <1>8, <2>3, <2>4 DEF StmtAddHandle
  <1>9. CASE StmtCheckListed(t)
    <2>1. /\ At(t, "unlist")
          /\ GoTo(t, "removeHandle") \/ GoTo(t, "closed")
          /\ UNCHANGED <<listVars, handle, parent>>
      BY <1>9 DEF StmtCheckListed, stmtVars
    <2>2. CASE GoTo(t, "removeHandle")
      <3>1. Same(Unlisting) BY <1>1, <1>5, <2>1, <2>2, GoToMarks
      <3> QED BY <2>1, <3>1, ListStays
    <2>3. CASE GoTo(t, "closed")
      <3>1. In(s, Unlisting)' BY <1>1, <1>6, <2>1, <2>3, GoneTo
      <3>2. \A x \in Stmts \ {s} : In(x, Unlisting)' <=> In(x, Unlisting)
        BY <1>1, <2>1, <2>3, OthersMarks
      <3> QED BY <2>1, <3>1, <3>2, ListKept
    <2> QED BY <2>1, <2>2, <2>3
  <1>10. CASE StmtRemoveHandle(t)
    <2>1. /\ At(t, "removeHandle") /\ s \in Stmts /\ GoTo(t, "closed")
          /\ List!RemoveHandle(openSlotNum[s])
          /\ UNCHANGED <<handle, parent>>
      BY <1>2, <1>10 DEF StmtRemoveHandle, InStmt, stmtVars
    <2>2. s \in Listed BY <2>1, RemovedIsListed
    <2>3. ListOf!ListInv' /\ Listed' = Listed \ {s} BY <2>1, <2>2, ListRemoved
    <2>4. In(s, Unlisting)' BY <1>1, <1>6, <2>1, GoneTo
    <2>5. \A x \in Stmts \ {s} : In(x, Unlisting)' <=> In(x, Unlisting)
      BY <1>1, <2>1, OthersMarks
    <2> QED BY <1>3, <2>1, <2>3, <2>4, <2>5 DEF ListedInv
  <1>11. CASE StmtClosed(t)
    <2>1. /\ At(t, "closed") /\ s \in Stmts /\ Return(t, Top(t).ok)
          /\ handle' = [handle EXCEPT ![s] = FALSE]
          /\ UNCHANGED <<listVars, parent>>
      BY <1>2, <1>11 DEF StmtClosed, InStmt
    <2>2. Top(t).ok \in BOOLEAN BY <1>1, <2>1, LastIs DEF FrameType
    <2>3. \A x \in Stmts \ {s} : In(x, Unlisting)' <=> In(x, Unlisting)
      BY <1>1, <2>1, <2>2, OthersMarks
    <2>4. ~handle'[s] /\ \A x \in Stmts \ {s} : handle'[x] = handle[x]
      BY <1>4, <2>1
    <2> QED BY <2>1, <2>3, <2>4, ListKept
  <1>12. CASE StmtFreeMemory(t)
    <2>1. /\ At(t, "freeMemory") /\ s \in Stmts /\ ReturnVoid(t)
          /\ parent' = [parent EXCEPT ![s] = NULL]
          /\ UNCHANGED <<listVars, handle>>
      BY <1>2, <1>12 DEF StmtFreeMemory, InStmt, Freeing
    <2>2. Same(Unlisting) BY <1>1, <1>5, <2>1, ReturnMarks
    <2>3. parent' = parent BY <1>3, <1>4, <2>1
    <2> QED BY <2>1, <2>2, <2>3, ListStays
  <1> QED BY <1>7, <1>8, <1>9, <1>10, <1>11, <1>12 DEF Unlists

-----------------------------------------------------------------------------
(* The first list has empty slots only. *)
LEMMA InitListed ==
    ASSUME Init
    PROVE  ListedInv /\ ListOf!Init
  <1>1. /\ numSlots = InitialSlots /\ numUsedSlots = 0 /\ currentPos = 0
        /\ openStmts = [i \in 0 .. InitialSlots - 1 |-> NULL]
        /\ openSlotNum = [s \in Stmts |-> 0]
        /\ parent = [s \in Stmts |-> NULL] /\ handle = [s \in Stmts |-> FALSE]
    BY DEF Init, List!InitList
  <1>2. Listed = {} BY <1>1, StmtLifetimeAssumption DEF Listed
  <1>3. ListOf!Init BY <1>1, <1>2 DEF ListOf!Init, ListOf!InitList
  <1>4. ListOf!ListInv BY <1>3, SameList, ListOf!InitInv
  <1> QED BY <1>1, <1>3, <1>4 DEF ListedInv

(* Every step of the statements is one of the list, or leaves it as it is.  *)
LEMMA ListStep ==
    ASSUME LifeInv, LifeInv', ListedInv, NEW t \in Threads,
           Begin(t) \/ Continue(t)
    PROVE  ListOf!Next \/ UNCHANGED ListOf!vars
  <1>1. CASE UNCHANGED listVars
    <2>1. Listed' = Listed BY <1>1 DEF Listed, listVars
    <2> QED BY <1>1, <2>1 DEF ListOf!vars, ListOf!listVars, listVars
  <1>2. CASE StmtAddHandle(t) /\ ~UNCHANGED listVars
    <2> PICK s : s = Top(t).s OBVIOUS
    <2>1. At(t, "addHandle") /\ List!AddHandle(s) BY <1>2 DEF StmtAddHandle
    <2>2. s \in Stmts /\ In(s, Unlisted)
      <3>1. /\ Stacks /\ Last(t).at = "addHandle" /\ s = Last(t).s
            /\ depth[t] \in Nat \ {0}
        BY <2>1, LastIs DEF LifeInv, TypeOK
      <3> QED BY <3>1, LastStmt, LastIn DEF InStmt, Unlisted
    <2>3. s \notin Listed BY <2>2 DEF LifeInv, FoundIsKnown, Found, Listed
    <2>4. ListOf!Open(s) BY <2>1, <2>2, <2>3, ListAdded
    <2> QED BY <2>2, <2>4 DEF ListOf!Next
  <1>3. CASE StmtRemoveHandle(t)
    <2> PICK s : s = Top(t).s OBVIOUS
    <2>1. At(t, "removeHandle") /\ List!RemoveHandle(openSlotNum[s])
      BY <1>3 DEF StmtRemoveHandle
    <2>2. s \in Listed /\ s \in Stmts BY <2>1, RemovedIsListed DEF Listed
    <2>3. ListOf!Close(s) BY <2>1, <2>2, ListRemoved
    <2> QED BY <2>2, <2>3 DEF ListOf!Next
  <1>4. Begin(t) => UNCHANGED listVars
    BY DEF Begin, PrepareStmt, CloseConn, ReleaseConn, GetImplicitResult,
       CloseStmt, ReleaseStmt, AddRefFor
  <1>5. Continue(t) => \/ StmtAddHandle(t) \/ StmtRemoveHandle(t)
                       \/ UNCHANGED listVars
    BY DEF Continue, StmtPrepare2, StmtInit, Unref, EndPublicFn,
       StmtMarkClosing, StmtReleaseParent, StmtClearParent, StmtCheckSession,
       OciStmtRelease, StmtCheckListed, StmtClosed, StmtFree, StmtFreeParent,
       StmtFreeConn, StmtFreeMemory, ConnMarkClosing, ConnRollback,
       ConnReadSlot, ConnTakeRef, ConnDropRef, ConnSlotDone, ConnSessionEnd,
       ConnClosed, UnrefConn, ConnFree, ConnFreeMemory
  <1> QED BY <1>1, <1>2, <1>3, <1>4, <1>5

(* A step that changes nothing. *)
LEMMA ListedStill ==
    ASSUME ListedInv, UNCHANGED vars
    PROVE  ListedInv' /\ UNCHANGED ListOf!vars
  <1>1. UNCHANGED <<listVars, handle, parent, stack>> BY DEF vars, stmtVars
  <1>2. Listed' = Listed BY <1>1 DEF Listed, listVars
  <1>3. UNCHANGED ListOf!vars
    BY <1>1, <1>2 DEF ListOf!vars, ListOf!listVars, listVars
  <1> QED BY <1>1, <1>3, SameStill, ListStays

(* The list is kept as ListedInv says, where there are no implicit results. *)
LEMMA ListInvariant ==
    ASSUME Assumed, ~ImplicitResults
    PROVE  Spec => []ListedInv
  <1>1. LifeInv /\ LifeInv' /\ ListedInv /\ [Next]_vars => ListedInv'
    BY BeginList, CallsStay, ListInvKept, ListedStill DEF Next
  <1> QED BY <1>1, InitListed, LifeInvariant, PTL DEF Spec

(* The list of a connection's statements implements HandleList: adding and  *)
(* removing are all that statements do to it (dpiHandleList.c), each of     *)
(* them is added once, and removed from the slot that it was put in.        *)
THEOREM StatementsUseTheList ==
    ASSUME Assumed, ~ImplicitResults
    PROVE  Spec => ListOf!Spec
  <1>1. LifeInv /\ LifeInv' /\ ListedInv /\ [Next]_vars
          => [ListOf!Next]_(ListOf!vars)
    BY ListStep, ListedStill DEF Next
  <1> QED BY <1>1, InitListed, LifeInvariant, ListInvariant, PTL DEF Spec,
      ListOf!Spec

(* Every statement that is open, and not about to be listed or freed, is in *)
(* its slot of the list, for as many threads as there are: closing the      *)
(* connection can find it (dpiConn__close).                                 *)
THEOREM OpenStatementsAreListed ==
    ASSUME Assumed, ~ImplicitResults
    PROVE  Spec => []OpenStmtsAreListed
  <1>1. LifeInv /\ ListedInv => OpenStmtsAreListed
    <2> SUFFICES ASSUME LifeInv, ListedInv, NEW s \in OpenStmts
                 PROVE  openStmts[openSlotNum[s]] = s
      BY DEF OpenStmtsAreListed
    <2>1. /\ s \in Stmts /\ handle[s] /\ ~closing[s]
          /\ ~InFrame(s, {"addHandle", "stmtFree", "unparent"})
      BY DEF OpenStmts
    <2>2. ~In(s, {"addHandle", "stmtFree", "unparent"})
      BY <2>1, InFrameIs DEF LifeInv, TypeOK
    <2>3. ~In(s, InClose) BY <2>1 DEF LifeInv, CloseState, CloseStateAt
    <2>4. ~In(s, Unlisting)
      BY <2>2, <2>3 DEF In, Unlisting, Entering, Leaving, InClose
    <2>5. s \in Listed BY <2>1, <2>4 DEF ListedInv
    <2> QED BY <2>5 DEF ListedInv, ListOf!ListInv, ListOf!ListsOpenHandles
  <1> QED BY <1>1, LifeInvariant, ListInvariant, PTL

-----------------------------------------------------------------------------
(***************************************************************************)
(* Where a step leads, for what follows: how the frame that goes on is to  *)
(* do with the one before it.                                              *)
(***************************************************************************)
Follows(e, f) ==
    /\ f.at # "prepare" /\ (f.at = "connClosed" => e.at = "markClosing")
    /\ e.at \in Closing => f.at \in Closing /\ f.s = e.s
    /\ e.at \in {"stmtFree", "freeParent", "freeConn"} =>
           f.at \in Freeing /\ f.s = e.s
GoesOn(t) ==
    \E f : /\ Follows(Last(t), f)
           /\ \/ WentOn(t, f)
              \/ \E g : /\ Called(t, g, f) /\ Last(t).at \notin Closing
                        /\ g.at \notin {"prepare", "connClosed"}
Pops(t) ==
    /\ Ended(t) \/ \E status \in BOOLEAN : Returned(t, status)
    /\ Last(t).at \notin {"stmtFree", "freeParent", "freeConn"}

(* An operation on a stack is such a step. *)
LEMMA GoOnGoes ==
    ASSUME Stacks, Stacks', NEW t \in Threads, NEW l, At(t, l), NEW f,
           GoOn(t, f), Follows(Top(t), f)
    PROVE  GoesOn(t)
  <1>1. stack[t] # <<>> /\ Top(t) = Last(t) BY LastIs
  <1>2. f \in FrameType BY <1>1, GoneOnFits
  <1>3. WentOn(t, f) BY <1>1, <1>2, GoOnIs
  <1> QED BY <1>1, <1>3 DEF GoesOn

LEMMA GoToGoes ==
    ASSUME Stacks, Stacks', NEW t \in Threads, NEW l, At(t, l), NEW m,
           GoTo(t, m), m # "prepare", m = "connClosed" => l = "markClosing",
           l \in Closing => m \in Closing,
           l \in {"stmtFree", "freeParent", "freeConn"} => m \in Freeing
    PROVE  GoesOn(t)
  <1>1. Top(t) \in FrameType /\ Top(t).at = l BY LastIs
  <1> PICK f : f = [Top(t) EXCEPT !.at = m] OBVIOUS
  <1>2. f.at = m /\ f.s = Top(t).s BY <1>1 DEF FrameType
  <1>3. GoOn(t, f) BY DEF GoTo
  <1> QED BY <1>1, <1>2, <1>3, GoOnGoes DEF Follows

LEMMA CallGoes ==
    ASSUME Stacks, Stacks', NEW t \in Threads, NEW l, At(t, l), NEW f, NEW g,
           Call(t, g, f), Follows(Top(t), f), l \notin Closing,
           g.at \notin {"prepare", "connClosed"}
    PROVE  GoesOn(t)
  <1>1. stack[t] # <<>> /\ Top(t) = Last(t) /\ Last(t).at = l BY LastIs
  <1>2. f \in FrameType /\ g \in FrameType BY <1>1, CalledFits
  <1>3. Called(t, g, f) BY <1>1, <1>2, CallIs
  <1> QED BY <1>1, <1>3 DEF GoesOn

LEMMA ReleaseGoes ==
    ASSUME Stacks, Stacks', NEW t \in Threads, NEW l, At(t, l), NEW f,
           (\E u \in Stmts : ReleaseStmtRef(t, u, f)) \/ ReleaseConnRef(t, f),
           Follows(Top(t), f), l \notin Closing
    PROVE  GoesOn(t)
  <1>1. \A x, b : /\ Frame("stmtFree", x, b).at = "stmtFree"
                  /\ Frame("connFree", x, b).at = "connFree"
    BY DEF Frame
  <1>2. CASE GoOn(t, f) BY <1>2, GoOnGoes
  <1>3. ASSUME NEW u \in Stmts, Call(t, Frame("stmtFree", u, FALSE), f)
        PROVE  GoesOn(t)
    <2> PICK g : g = Frame("stmtFree", u, FALSE) OBVIOUS
    <2>1. g.at \notin {"prepare", "connClosed"} /\ Call(t, g, f) BY <1>1, <1>3
    <2> QED BY <2>1, CallGoes
  <1>4. CASE Call(t, Frame("connFree", NULL, FALSE), f)
    <2> PICK g : g = Frame("connFree", NULL, FALSE) OBVIOUS
    <2>1. g.at \notin {"prepare", "connClosed"} /\ Call(t, g, f) BY <1>1, <1>4
    <2> QED BY <2>1, CallGoes
  <1>5. ASSUME NEW u \in Stmts, ReleaseStmtRef(t, u, f) PROVE GoesOn(t)
    <2>1. GoOn(t, f) \/ Call(t, Frame("stmtFree", u, FALSE), f)
      BY <1>5 DEF ReleaseStmtRef
    <2> QED BY <1>2, <1>3, <2>1
  <1>6. CASE ReleaseConnRef(t, f)
    <2>1. GoOn(t, f) \/ Call(t, Frame("connFree", NULL, FALSE), f)
      BY <1>6 DEF ReleaseConnRef
    <2> QED BY <1>2, <1>4, <2>1
  <1> QED BY <1>5, <1>6

LEMMA ReturnPops ==
    ASSUME Stacks, NEW t \in Threads, NEW l, At(t, l),
           ReturnVoid(t) \/ \E status \in BOOLEAN : Return(t, status),
           l \notin {"stmtFree", "freeParent", "freeConn"}
    PROVE  Pops(t)
  <1>1. Last(t).at = l /\ stack[t] # <<>> BY LastIs
  <1>2. CASE ReturnVoid(t) BY <1>1, <1>2, ReturnVoidIs DEF Pops
  <1>3. ASSUME NEW status \in BOOLEAN, Return(t, status) PROVE Pops(t)
    BY <1>1, <1>3, ReturnIs DEF Pops
  <1> QED BY <1>2, <1>3

(* Every step of a call goes on, calls or returns, where Follows says. *)
LEMMA StepGoes ==
    ASSUME LifeInv, LifeInv', ListedInv, NEW t \in Threads, Continue(t)
    PROVE  GoesOn(t) \/ Pops(t)
  <1>1. Stacks /\ Stacks' BY DEF LifeInv, TypeOK
  <1>2. \A l, s, p : Frame(l, s, p).at = l /\ Frame(l, s, p).s = s BY DEF Frame
  <1>3. \A l : At(t, l) => /\ Top(t) \in FrameType /\ Top(t).at = l
                           /\ \A m : [Top(t) EXCEPT !.at = m].at = m
                           /\ NextSlot(Top(t)).at = "nextSlot"
    <2> SUFFICES ASSUME NEW l, At(t, l)
                 PROVE  /\ Top(t) \in FrameType /\ Top(t).at = l
                        /\ \A m : [Top(t) EXCEPT !.at = m].at = m
                        /\ NextSlot(Top(t)).at = "nextSlot"
      OBVIOUS
    <2>1. Top(t) \in FrameType /\ Top(t).at = l BY <1>1, LastIs
    <2> QED BY <2>1, NextSlotIs DEF FrameType
  <1>4. \A s \in Stmts : parent[s] = NULL BY DEF ListedInv
  <1>5. \A l \in InStmt \cup {"takeRef"} : At(t, l) => Top(t).s \in Stmts
    BY <1>1, LastIs, LastStmt
  <1>6. \A l : At(t, l) /\ l \notin {"stmtFree", "freeParent", "freeConn"}
               /\ (ReturnVoid(t) \/ \E status \in BOOLEAN : Return(t, status))
               => Pops(t)
    BY <1>1, ReturnPops
  <1>7. \A l, m : At(t, l) /\ GoTo(t, m) /\ m \notin {"prepare", "connClosed"}
                  /\ (l \in Closing => m \in Closing)
                  /\ (l \in {"stmtFree", "freeParent", "freeConn"} =>
                         m \in Freeing)
                  => GoesOn(t)
    BY <1>1, GoToGoes
  (* From a label that closing and freeing a statement do not have. *)
  <1>8. \A l, f : At(t, l) /\ l \notin Closing \cup Freeing
                  /\ f.at \notin {"prepare", "connClosed"}
                  => Follows(Top(t), f)
    BY <1>3 DEF Follows, Freeing
  <1>9. \A l, f : At(t, l) /\ l \notin Closing \cup Freeing
                  /\ f.at \notin {"prepare", "connClosed"} /\ GoOn(t, f)
                  => GoesOn(t)
    BY <1>1, <1>8, GoOnGoes
  <1>10. \A l, f, g : At(t, l) /\ l \notin Closing \cup Freeing
                      /\ f.at \notin {"prepare", "connClosed"}
                      /\ g.at \notin {"prepare", "connClosed"}
                      /\ Call(t, g, f)
                      => GoesOn(t)
    BY <1>1, <1>8, CallGoes
  <1>11. \A l, f : At(t, l) /\ l \notin Closing \cup Freeing
                   /\ f.at \notin {"prepare", "connClosed"}
                   /\ ((\E u \in Stmts : ReleaseStmtRef(t, u, f))
                       \/ ReleaseConnRef(t, f))
                   => GoesOn(t)
    BY <1>1, <1>8, ReleaseGoes
  <1>12. \A l \in Closing \cup Freeing :
            l \in {"stmtClose", "stmtRelease", "unparent", "ociRelease",
                   "unlist", "removeHandle", "closed", "stmtFree",
                   "freeParent", "freeConn", "freeMemory"}
    BY DEF Closing, InClose, Freeing
  <1>13. CASE StmtPrepare2(t) \/ StmtAddHandle(t) \/ StmtInit(t)
    <2>1. CASE StmtPrepare2(t) BY <1>7, <1>12, <2>1 DEF StmtPrepare2
    <2>2. CASE StmtAddHandle(t) BY <1>7, <1>12, <2>2 DEF StmtAddHandle
    <2>3. CASE StmtInit(t) BY <1>6, <1>7, <1>12, <2>3 DEF StmtInit
    <2> QED BY <1>13, <2>1, <2>2, <2>3
  <1>14. CASE Unref(t) \/ EndPublicFn(t) \/ UnrefConn(t)
    <2>1. CASE Unref(t) BY <1>2, <1>5, <1>11, <1>12, <2>1 DEF Unref, InStmt
    <2>2. CASE EndPublicFn(t) BY <1>6, <2>2 DEF EndPublicFn
    <2>3. CASE UnrefConn(t) BY <1>2, <1>11, <1>12, <2>3 DEF UnrefConn
    <2> QED BY <1>14, <2>1, <2>2, <2>3
  <1>15. CASE StmtMarkClosing(t) \/ StmtReleaseParent(t) \/ StmtClearParent(t)
              \/ StmtCheckSession(t) \/ OciStmtRelease(t)
              \/ StmtCheckListed(t) \/ StmtRemoveHandle(t) \/ StmtClosed(t)
    <2>1. {"stmtRelease", "unparent", "ociRelease", "unlist", "removeHandle",
           "closed"} \subseteq Closing
      BY DEF Closing, InClose
    <2>2. CASE StmtMarkClosing(t) BY <1>6, <1>7, <2>1, <2>2 DEF StmtMarkClosing
    <2>3. CASE StmtReleaseParent(t)
      BY <1>4, <1>5, <2>3 DEF StmtReleaseParent, InStmt
    <2>4. CASE StmtClearParent(t) BY <1>7, <2>1, <2>4 DEF StmtClearParent
    <2>5. CASE StmtCheckSession(t) BY <1>7, <2>1, <2>5 DEF StmtCheckSession
    <2>6. CASE OciStmtRelease(t)
      <3>1. PICK ok \in BOOLEAN :
               GoOn(t, [Top(t) EXCEPT !.at = "unlist", !.ok = ok])
        BY <2>6 DEF OciStmtRelease
      <3> PICK f : f = [Top(t) EXCEPT !.at = "unlist", !.ok = ok] OBVIOUS
      <3>2. At(t, "ociRelease") /\ GoOn(t, f) BY <2>6, <3>1 DEF OciStmtRelease
      <3>3. f.at = "unlist" /\ f.s = Top(t).s /\ Top(t).at = "ociRelease"
        BY <1>3, <3>2 DEF FrameType
      <3>4. Follows(Top(t), f) BY <2>1, <3>3 DEF Follows
      <3> QED BY <1>1, <3>2, <3>4, GoOnGoes
    <2>7. CASE StmtCheckListed(t) BY <1>7, <2>1, <2>7 DEF StmtCheckListed
    <2>8. CASE StmtRemoveHandle(t) BY <1>7, <2>1, <2>8 DEF StmtRemoveHandle
    <2>9. CASE StmtClosed(t)
      <3>1. Top(t).ok \in BOOLEAN BY <1>3, <2>9 DEF StmtClosed, FrameType
      <3> QED BY <1>6, <2>9, <3>1 DEF StmtClosed
    <2> QED BY <1>15, <2>2, <2>3, <2>4, <2>5, <2>6, <2>7, <2>8, <2>9
  <1>16. CASE StmtFree(t) \/ StmtFreeParent(t) \/ StmtFreeConn(t)
              \/ StmtFreeMemory(t)
    <2>1. {"stmtFree", "freeParent", "freeConn"} \cap Closing = {}
      BY DEF Closing, InClose
    <2>2. CASE StmtFree(t)
      <3> PICK f, g : /\ f = Frame("freeParent", Top(t).s, FALSE)
                      /\ g = Frame("stmtClose", Top(t).s, FALSE)
        OBVIOUS
      <3>1. At(t, "stmtFree") /\ Call(t, g, f) BY <2>2 DEF StmtFree
      <3>2. f.at = "freeParent" /\ f.s = Top(t).s /\ g.at = "stmtClose"
            /\ Top(t).at = "stmtFree"
        <4>1. Top(t).at = "stmtFree" BY <1>3, <3>1
        <4>2. f.at = "freeParent" /\ f.s = Top(t).s /\ g.at = "stmtClose"
          BY DEF Frame
        <4> QED BY <4>1, <4>2
      <3>3. Follows(Top(t), f) BY <2>1, <3>2 DEF Follows, Freeing
      <3> QED BY <1>1, <2>1, <3>1, <3>2, <3>3, CallGoes
    <2>3. CASE StmtFreeParent(t)
      <3> PICK f : f = Frame("freeConn", Top(t).s, FALSE) OBVIOUS
      <3>1. At(t, "freeParent") /\ GoOn(t, f)
        BY <1>4, <1>5, <2>3 DEF StmtFreeParent, InStmt, Freeing
      <3>2. f.at = "freeConn" /\ f.s = Top(t).s /\ Top(t).at = "freeParent"
        <4>1. Top(t).at = "freeParent" BY <1>3, <3>1
        <4>2. f.at = "freeConn" /\ f.s = Top(t).s BY DEF Frame
        <4> QED BY <4>1, <4>2
      <3>3. Follows(Top(t), f) BY <2>1, <3>2 DEF Follows, Freeing
      <3> QED BY <1>1, <3>1, <3>3, GoOnGoes
    <2>4. CASE StmtFreeConn(t)
      <3> PICK f : f = Frame("freeMemory", Top(t).s, FALSE) OBVIOUS
      <3>1. At(t, "freeConn") /\ ReleaseConnRef(t, f) BY <2>4 DEF StmtFreeConn
      <3>2. f.at = "freeMemory" /\ f.s = Top(t).s /\ Top(t).at = "freeConn"
        <4>1. Top(t).at = "freeConn" BY <1>3, <3>1
        <4>2. f.at = "freeMemory" /\ f.s = Top(t).s BY DEF Frame
        <4> QED BY <4>1, <4>2
      <3>3. Follows(Top(t), f) BY <2>1, <3>2 DEF Follows, Freeing
      <3> QED BY <1>1, <2>1, <3>1, <3>3, ReleaseGoes
    <2>5. CASE StmtFreeMemory(t) BY <1>6, <2>5 DEF StmtFreeMemory
    <2> QED BY <1>16, <2>2, <2>3, <2>4, <2>5
  <1>17. CASE ConnMarkClosing(t)
    <2>1. CASE ReturnVoid(t) BY <1>6, <1>17, <2>1 DEF ConnMarkClosing
    <2>2. CASE ~ReturnVoid(t)
      <3> PICK f, g : /\ f = Frame("connClosed", NULL, TRUE)
                      /\ g = Frame("connClose", NULL, TRUE)
        OBVIOUS
      <3>1. At(t, "markClosing") /\ Call(t, g, f)
        BY <1>17, <2>2 DEF ConnMarkClosing
      <3>2. f.at = "connClosed" /\ g.at = "connClose"
            /\ Top(t).at = "markClosing"
        BY <1>2, <1>3, <3>1
      <3>3. Follows(Top(t), f) /\ "markClosing" \notin Closing
        BY <3>2 DEF Follows, Freeing, Closing, InClose
      <3> QED BY <1>1, <3>1, <3>2, <3>3, CallGoes
    <2> QED BY <2>1, <2>2
  <1>18. CASE ConnRollback(t) \/ ConnSlotDone(t) \/ ConnSessionEnd(t)
              \/ ConnClosed(t) \/ ConnFreeMemory(t)
    <2>1. CASE ConnRollback(t) BY <1>7, <1>12, <2>1 DEF ConnRollback
    <2>2. CASE ConnSlotDone(t)
      BY <1>3, <1>6, <1>9, <1>12, <2>2 DEF ConnSlotDone
    <2>3. CASE ConnSessionEnd(t) BY <1>6, <2>3 DEF ConnSessionEnd
    <2>4. CASE ConnClosed(t) BY <1>6, <2>4 DEF ConnClosed
    <2>5. CASE ConnFreeMemory(t) BY <1>6, <2>5 DEF ConnFreeMemory
    <2> QED BY <1>18, <2>1, <2>2, <2>3, <2>4, <2>5
  <1>19. CASE ConnReadSlot(t)
    <2>1. /\ [Top(t) EXCEPT !.at = "sessionEnd", !.i = 0].at = "sessionEnd"
          /\ [Top(t) EXCEPT !.i = Top(t).i + 1].at = "nextSlot"
          /\ [Top(t) EXCEPT !.at = "takeRef", !.s = openStmts[Top(t).i]].at
                = "takeRef"
      BY <1>3, <1>19 DEF ConnReadSlot, FrameType, At, Top
    <2> QED BY <1>9, <1>12, <1>19, <2>1 DEF ConnReadSlot
  <1>20. CASE ConnTakeRef(t)
    <2> PICK f, g, h : /\ f = [Top(t) EXCEPT !.at = "dropRef"]
                       /\ g = Frame("stmtClose", Top(t).s, Top(t).propagate)
                       /\ h = NextSlot(Top(t))
      OBVIOUS
    <2>1. At(t, "takeRef") /\ (GoOn(t, h) \/ Call(t, g, f))
      BY <1>20 DEF ConnTakeRef
    <2>2. f.at = "dropRef" /\ g.at = "stmtClose" /\ h.at = "nextSlot"
      BY <1>2, <1>3, <2>1
    <2> QED BY <1>9, <1>10, <1>12, <2>1, <2>2
  <1>21. CASE ConnDropRef(t)
    <2> PICK f : f = [Top(t) EXCEPT !.at = "slotDone"] OBVIOUS
    <2>1. /\ At(t, "dropRef") /\ Top(t).s \in Stmts
          /\ GoOn(t, f) \/ ReleaseStmtRef(t, Top(t).s, f)
      BY <1>5, <1>21 DEF ConnDropRef, InStmt
    <2>2. f.at = "slotDone" BY <1>3, <2>1
    <2> QED BY <1>9, <1>11, <1>12, <2>1, <2>2
  <1>22. CASE ConnFree(t)
    <2> PICK f, g : /\ f = Frame("connFreeMemory", NULL, FALSE)
                    /\ g = Frame("connClose", NULL, FALSE)
      OBVIOUS
    <2>1. At(t, "connFree") /\ (GoOn(t, f) \/ Call(t, g, f))
      BY <1>22 DEF ConnFree
    <2>2. f.at = "connFreeMemory" /\ g.at = "connClose" BY <1>2
    <2> QED BY <1>9, <1>10, <1>12, <2>1, <2>2
  <1> QED BY <1>13, <1>14, <1>15, <1>16, <1>17, <1>18, <1>19, <1>20, <1>21,
             <1>22 DEF Continue

(* The step of a thread that is at one of these labels.                     *)
LEMMA StepAt ==
    ASSUME NEW t \in Threads, Continue(t)
    PROVE  /\ At(t, "freeMemory") => StmtFreeMemory(t)
           /\ At(t, "stmtClose") => StmtMarkClosing(t)
           /\ At(t, "closed") => StmtClosed(t)
           /\ At(t, "connClose") => ConnRollback(t)
           /\ At(t, "nextSlot") => ConnReadSlot(t)
           /\ At(t, "takeRef") => ConnTakeRef(t)
           /\ At(t, "dropRef") => ConnDropRef(t)
           /\ At(t, "slotDone") => ConnSlotDone(t)
           /\ At(t, "sessionEnd") => ConnSessionEnd(t)
           /\ At(t, "markClosing") => ConnMarkClosing(t)
  BY DEF Continue, At, StmtPrepare2, StmtAddHandle, StmtInit, Unref,
     EndPublicFn, StmtMarkClosing, StmtReleaseParent, StmtClearParent,
     StmtCheckSession, OciStmtRelease, StmtCheckListed, StmtRemoveHandle,
     StmtClosed, StmtFree, StmtFreeParent, StmtFreeConn, StmtFreeMemory,
     ConnMarkClosing, ConnRollback, ConnReadSlot, ConnTakeRef, ConnDropRef,
     ConnSlotDone, ConnSessionEnd, ConnClosed, UnrefConn, ConnFree,
     ConnFreeMemory

(* The same inside of dpiStmt__close. *)
LEMMA StepInClose ==
    ASSUME NEW t \in Threads, Continue(t), NEW l, At(t, l),
           l \in {"stmtRelease", "unparent", "ociRelease", "unlist",
                  "removeHandle"}
    PROVE  \/ StmtReleaseParent(t) \/ StmtCheckSession(t)
           \/ StmtClearParent(t) \/ OciStmtRelease(t)
           \/ StmtCheckListed(t) \/ StmtRemoveHandle(t)
  BY DEF Continue, At, StmtPrepare2, StmtAddHandle, StmtInit, Unref,
     EndPublicFn, StmtMarkClosing, StmtClosed, StmtFree, StmtFreeParent,
     StmtFreeConn, StmtFreeMemory, ConnMarkClosing, ConnRollback, ConnReadSlot,
     ConnTakeRef, ConnDropRef, ConnSlotDone, ConnSessionEnd, ConnClosed,
     UnrefConn, ConnFree, ConnFreeMemory

(* A call that takes a step is at a label, and its frame is the last. *)
LEMMA Continues ==
    ASSUME Stacks, NEW t \in Threads, Continue(t)
    PROVE  /\ depth[t] \in Nat \ {0} /\ At(t, Last(t).at)
           /\ Top(t) = Last(t) /\ Last(t) \in FrameType
  <1>1. \E l : At(t, l)
    BY DEF Continue, StmtPrepare2, StmtAddHandle, StmtInit, Unref, EndPublicFn,
       StmtMarkClosing, StmtReleaseParent, StmtClearParent, StmtCheckSession,
       OciStmtRelease, StmtCheckListed, StmtRemoveHandle, StmtClosed, StmtFree,
       StmtFreeParent, StmtFreeConn, StmtFreeMemory, ConnMarkClosing,
       ConnRollback, ConnReadSlot, ConnTakeRef, ConnDropRef, ConnSlotDone,
       ConnSessionEnd, ConnClosed, UnrefConn, ConnFree, ConnFreeMemory
  <1> PICK l : At(t, l) BY <1>1
  <1>2. Last(t).at = l BY LastIs
  <1> QED BY <1>2, LastIs

(* Memory changes hands where a statement is freed. *)
LEMMA OnlyFreed ==
    ASSUME NEW t \in Threads, Continue(t), ~StmtFreeMemory(t)
    PROVE  mem' = mem
  BY DEF Continue, StmtPrepare2, StmtAddHandle, StmtInit, Unref, EndPublicFn,
     StmtMarkClosing, StmtReleaseParent, StmtClearParent, StmtCheckSession,
     OciStmtRelease, StmtCheckListed, StmtRemoveHandle, StmtClosed, StmtFree,
     StmtFreeParent, StmtFreeConn, ConnMarkClosing, ConnRollback, ConnReadSlot,
     ConnTakeRef, ConnDropRef, ConnSlotDone, ConnSessionEnd, ConnClosed,
     UnrefConn, ConnFree, ConnFreeMemory, stmtVars

-----------------------------------------------------------------------------
(* A statement that is allocated and is not being freed has a reference.    *)
LiveIsHeld ==
    \A s \in Stmts : mem[s] = "live" /\ ~In(s, Freeing) => refCount[s] > 0

(* Freeing a statement ends where its memory is given back. *)
LEMMA FreeingStays ==
    ASSUME Stacks, NEW t \in Threads, depth[t] \in Nat \ {0},
           GoesOn(t) \/ Pops(t), NEW s, In(s, Freeing)
    PROVE  In(s, Freeing)' \/ Is(Last(t), s, {"freeMemory"})
  <1>1. Is(Last(t), s, Freeing) \/ Elsewhere(t, s, Freeing) BY InNow
  <1>2. ASSUME NEW f, Follows(Last(t), f), WentOn(t, f)
        PROVE  In(s, Freeing)' \/ Is(Last(t), s, {"freeMemory"})
    <2>1. In(s, Freeing)' <=> Is(f, s, Freeing) \/ Elsewhere(t, s, Freeing)
      BY <1>2, InWentOn
    <2> QED BY <1>1, <1>2, <2>1 DEF Is, Freeing, Follows
  <1>3. ASSUME NEW f, NEW g, Follows(Last(t), f), Called(t, g, f)
        PROVE  In(s, Freeing)' \/ Is(Last(t), s, {"freeMemory"})
    <2>1. In(s, Freeing)' <=> \/ Is(f, s, Freeing) \/ Is(g, s, Freeing)
                              \/ Elsewhere(t, s, Freeing)
      BY <1>3, InCalled
    <2> QED BY <1>1, <1>3, <2>1 DEF Is, Freeing, Follows
  <1>4. CASE Pops(t)
    <2>1. In(s, Freeing)' <=> Elsewhere(t, s, Freeing)
      BY <1>4, InEnded, InReturned DEF Pops
    <2> QED BY <1>1, <1>4, <2>1 DEF Is, Freeing, Pops
  <1> QED BY <1>2, <1>3, <1>4 DEF GoesOn

(* A reference that is given back is not the last, or else the statement is *)
(* freed.                                                                   *)
LEMMA GivenOrFreed ==
    ASSUME LifeInv, Stacks', NEW t \in Threads, NEW l, At(t, l), NEW f,
           NEW u \in Stmts, ReleaseStmtRef(t, u, f), NEW s \in Stmts,
           refCount[s] > 0
    PROVE  refCount'[s] > 0 \/ In(s, Freeing)'
  <1>1. /\ Stacks /\ refCount \in [Stmts -> Int]
        /\ refCount' = [refCount EXCEPT ![u] = refCount[u] - 1]
    BY DEF LifeInv, TypeOK, ReleaseStmtRef
  <1>2. CASE u # s \/ refCount[s] # 1 BY <1>1, <1>2
  <1>3. CASE u = s /\ refCount[s] = 1
    <2> PICK g : g = Frame("stmtFree", u, FALSE) OBVIOUS
    <2>1. Call(t, g, f) /\ Is(g, s, Freeing)
      BY <1>3 DEF ReleaseStmtRef, Frame, Is, Freeing
    <2>2. depth[t] \in Nat \ {0} /\ stack[t] # <<>> BY <1>1, LastIs
    <2>3. f \in FrameType /\ g \in FrameType BY <1>1, <2>1, <2>2, CalledFits
    <2>4. Called(t, g, f) BY <1>1, <2>1, <2>2, <2>3, CallIs
    <2> QED BY <1>1, <2>1, <2>2, <2>4, InCalled
  <1> QED BY <1>2, <1>3

(* A call that begins leaves all marks but that of its own function.        *)
LEMMA BeginMarks ==
    ASSUME Stacks, Stacks', ~ImplicitResults, NEW t \in Threads, Begin(t),
           NEW L, {"prepare", "markClosing", "unrefConn", "stmtClose",
                   "unref"} \cap L = {}
    PROVE  Same(L)
  <1>1. \A l \in {"prepare", "markClosing", "unrefConn", "stmtClose", "unref"} :
           \A s, p : Frame(l, s, p).at \notin L
    BY DEF Frame
  <1>2. CASE PrepareStmt(t)
    <2>1. PICK s \in Stmts : Idle(t) /\ Start(t, Frame("prepare", s, TRUE))
      BY <1>2 DEF PrepareStmt
    <2> QED BY <1>1, <2>1, StartMarks
  <1>3. CASE CloseConn(t)
    <2>1. Idle(t) /\ Start(t, Frame("markClosing", NULL, TRUE))
      BY <1>3 DEF CloseConn
    <2> QED BY <1>1, <2>1, StartMarks
  <1>4. CASE ReleaseConn(t)
    <2>1. Idle(t) /\ Start(t, Frame("unrefConn", NULL, FALSE))
      BY <1>4 DEF ReleaseConn
    <2> QED BY <1>1, <2>1, StartMarks
  <1>5. ASSUME NEW s \in Stmts, CloseStmt(t, s) PROVE Same(L)
    <2>1. Idle(t) /\ Start(t, Frame("stmtClose", s, TRUE))
      BY <1>5 DEF CloseStmt
    <2> QED BY <1>1, <2>1, StartMarks
  <1>6. ASSUME NEW s \in Stmts, ReleaseStmt(t, s) PROVE Same(L)
    <2>1. Idle(t) /\ Start(t, Frame("unref", s, FALSE)) BY <1>6 DEF ReleaseStmt
    <2> QED BY <1>1, <2>1, StartMarks
  <1>7. ASSUME NEW s \in Stmts, NEW u \in Threads, AddRefFor(t, s, u)
        PROVE  Same(L)
    BY <1>7, SameStill DEF AddRefFor
  <1> QED BY <1>2, <1>3, <1>4, <1>5, <1>6, <1>7 DEF Begin, GetImplicitResult

(* A live statement that nobody frees keeps a reference. *)
LEMMA HeldKept ==
    ASSUME LifeInv, LifeInv', ListedInv, LiveIsHeld, ~ImplicitResults,
           NEW t \in Threads, Begin(t) \/ Continue(t)
    PROVE  LiveIsHeld'
  <1>1. /\ Stacks /\ Stacks'
        /\ refCount \in [Stmts -> Int] /\ refCount' \in [Stmts -> Int]
        /\ \A s \in Stmts : parent[s] = NULL
    BY DEF LifeInv, TypeOK, ListedInv
  <1> SUFFICES ASSUME NEW s \in Stmts, mem'[s] = "live", ~In(s, Freeing)'
               PROVE  refCount'[s] > 0
    BY DEF LiveIsHeld
  <1>2. CASE Continue(t)
    <2>1. depth[t] \in Nat \ {0} /\ At(t, Last(t).at) BY <1>1, <1>2, Continues
    <2>2. mem[s] = "live" /\ (StmtFreeMemory(t) => s # Top(t).s)
      <3>1. CASE StmtFreeMemory(t) BY <3>1 DEF StmtFreeMemory, LifeInv, TypeOK
      <3>2. CASE ~StmtFreeMemory(t)
        <4>1. mem' = mem BY <1>2, <3>2, OnlyFreed
        <4> QED BY <3>2, <4>1
      <3> QED BY <3>1, <3>2
    <2>3. ~In(s, Freeing)
      <3>1. Is(Last(t), s, {"freeMemory"}) => StmtFreeMemory(t) /\ s = Top(t).s
        BY <1>1, <1>2, <2>1, StepAt, Continues DEF Is
      <3> QED BY <1>1, <1>2, <2>1, <2>2, <3>1, StepGoes, FreeingStays
    <2>4. refCount[s] > 0 BY <2>2, <2>3 DEF LiveIsHeld
    <2>5. CASE \E u \in Stmts : \E f : ReleaseStmtRef(t, u, f)
      BY <1>1, <2>1, <2>4, <2>5, GivenOrFreed
    <2>6. CASE ConnTakeRef(t) BY <1>1, <2>4, <2>6 DEF ConnTakeRef
    <2>7. CASE refCount' = refCount BY <2>4, <2>7
    <2>8. \/ \E u \in Stmts : \E f : ReleaseStmtRef(t, u, f)
          \/ ConnTakeRef(t) \/ refCount' = refCount
      <3>1. \A l \in {"unref", "dropRef", "stmtRelease", "freeParent"} :
               At(t, l) => Top(t).s \in Stmts
        BY <1>1, LastIs, LastStmt DEF InStmt, Freeing
      <3>2. CASE Unref(t) BY <3>1, <3>2 DEF Unref
      <3>3. CASE ConnDropRef(t) BY <3>1, <3>3 DEF ConnDropRef
      <3>4. CASE StmtFreeParent(t) BY <1>1, <3>1, <3>4 DEF StmtFreeParent
      <3>5. CASE StmtReleaseParent(t) BY <1>1, <3>1, <3>5 DEF StmtReleaseParent
      <3>6. CASE ~(Unref(t) \/ ConnDropRef(t) \/ StmtFreeParent(t)
                   \/ StmtReleaseParent(t) \/ ConnTakeRef(t))
        BY <1>2, <3>6 DEF Continue, StmtPrepare2, StmtAddHandle, StmtInit,
           EndPublicFn, StmtMarkClosing, StmtClearParent, StmtCheckSession,
           OciStmtRelease, StmtCheckListed, StmtRemoveHandle, StmtClosed,
           StmtFree, StmtFreeConn, StmtFreeMemory, ConnMarkClosing,
           ConnRollback, ConnReadSlot, ConnSlotDone, ConnSessionEnd,
           ConnClosed, UnrefConn, ConnFree, ConnFreeMemory, stmtVars
      <3> QED BY <3>2, <3>3, <3>4, <3>5, <3>6
    <2> QED BY <2>5, <2>6, <2>7, <2>8
  <1>3. CASE Begin(t)
    <2>1. Same(Freeing) BY <1>1, <1>3, BeginMarks DEF Freeing
    <2>2. ~In(s, Freeing) BY <2>1 DEF Same
    <2>3. CASE PrepareStmt(t)
      <3>1. PICK x \in Stmts : Allocate(x) BY <2>3 DEF PrepareStmt
      <3>2. CASE x = s BY <1>1, <3>1, <3>2 DEF Allocate
      <3>3. CASE x # s
        BY <1>1, <2>2, <3>1, <3>3 DEF Allocate, LifeInv, TypeOK, LiveIsHeld
      <3> QED BY <3>2, <3>3
    <2>4. CASE mem' = mem /\ \A x \in Stmts : refCount'[x] >= refCount[x]
      BY <1>1, <2>2, <2>4 DEF LiveIsHeld
    <2>5. CASE UNCHANGED <<mem, refCount>> BY <1>1, <2>4, <2>5
    <2>6. CASE \E x \in Stmts, u \in Threads : AddRefFor(t, x, u)
      BY <1>1, <2>4, <2>6 DEF AddRefFor
    <2>7. PrepareStmt(t) \/ UNCHANGED <<mem, refCount>>
          \/ \E x \in Stmts, u \in Threads : AddRefFor(t, x, u)
      BY <1>3 DEF Begin, CloseConn, ReleaseConn, CloseStmt, ReleaseStmt,
         GetImplicitResult, stmtVars
    <2> QED BY <2>3, <2>4, <2>5, <2>6, <2>7
  <1> QED BY <1>2, <1>3

-----------------------------------------------------------------------------
(***************************************************************************)
(* Closing the connection on the one thread of a program.  Where its loop  *)
(* over the list is, no statement in a slot before it is open:             *)
(* g is the loop, n the number of functions that the thread is in and l    *)
(* the last of them.                                                       *)
(***************************************************************************)
OneThread == \A t, u \in Threads : t = u

IsOpen(s) == mem[s] = "live" /\ handle[s]
Scanned(g, n, l) ==
    /\ g.at \in ConnClosing
    /\ g.at \notin {"dropRef", "slotDone"} => n = 2
    /\ g.at = "connClose" => g.i = 0
    /\ g.at \in {"nextSlot", "takeRef", "dropRef"} =>
           \A s \in Stmts : IsOpen(s) => openSlotNum[s] >= g.i
    /\ g.at = "takeRef" => openStmts[g.i] = g.s
    /\ g.at = "dropRef" =>
           /\ n # 2 => n = 3 /\ l.at \in Closing /\ l.s = g.s
           /\ \A s \in Stmts :
                 IsOpen(s) /\ openSlotNum[s] = g.i => s = g.s /\ n = 3
    /\ g.at = "slotDone" => \A s \in Stmts : IsOpen(s) => openSlotNum[s] > g.i
    /\ g.at = "sessionEnd" => \A s \in Stmts : ~IsOpen(s)
Scanning(t) == depth[t] >= 2 /\ calls[t][1].at = "connClosed"
Scans ==
    \A t \in Threads : Scanning(t) => Scanned(calls[t][2], depth[t], Last(t))

(* A statement is opened by the function called last, while the session is  *)
(* there; when it has ended none is.                                        *)
PreparesLast ==
    \A t \in Threads : \A k \in 1 .. depth[t] :
        calls[t][k].at = "prepare" => k = depth[t] /\ connHandle
NoneOpen == ~connHandle => \A s \in Stmts : ~IsOpen(s)

ScanInv == LiveIsHeld /\ PreparesLast /\ NoneOpen /\ Scans

(* A statement is opened by dpiStmt__prepare only. *)
LEMMA Opened ==
    ASSUME LifeInv, ~ImplicitResults, NEW t \in Threads,
           Begin(t) \/ Continue(t), NEW s \in Stmts, IsOpen(s)'
    PROVE  IsOpen(s) \/ At(t, "prepare")
  <1>1. /\ mem \in [Stmts -> {"unused", "live", "freed"}]
        /\ handle \in [Stmts -> BOOLEAN]
        /\ mem[s] = "unused" => ~handle[s]
    BY DEF LifeInv, TypeOK, CloseState, CloseStateAt
  <1>2. CASE Begin(t)
    <2>1. handle' = handle
      BY <1>2 DEF Begin, PrepareStmt, CloseConn, ReleaseConn, CloseStmt,
         ReleaseStmt, AddRefFor, GetImplicitResult, stmtVars
    <2>2. mem' = mem \/ \E x \in Stmts : Allocate(x)
      BY <1>2 DEF Begin, PrepareStmt, CloseConn, ReleaseConn, CloseStmt,
         ReleaseStmt, AddRefFor, GetImplicitResult, stmtVars
    <2>3. ASSUME NEW x \in Stmts, Allocate(x) PROVE mem[s] = "live"
      BY <1>1, <2>1, <2>3 DEF Allocate, IsOpen
    <2> QED BY <2>1, <2>2, <2>3 DEF IsOpen
  <1>3. CASE Continue(t)
    <2>1. mem[s] = "live"
      <3>1. CASE StmtFreeMemory(t) BY <1>1, <3>1 DEF StmtFreeMemory, IsOpen
      <3>2. CASE ~StmtFreeMemory(t)
        <4>1. mem' = mem BY <1>3, <3>2, OnlyFreed
        <4> QED BY <4>1 DEF IsOpen
      <3> QED BY <3>1, <3>2
    <2>2. CASE StmtPrepare2(t) BY <2>2 DEF StmtPrepare2
    <2>3. CASE StmtAddHandle(t) BY <1>1, <2>1, <2>3 DEF StmtAddHandle, IsOpen
    <2>4. CASE StmtClosed(t) BY <1>1, <2>1, <2>4 DEF StmtClosed, IsOpen
    <2>5. CASE ~(StmtPrepare2(t) \/ StmtAddHandle(t) \/ StmtClosed(t))
      <3>1. handle' = handle
        BY <1>3, <2>5 DEF Continue, StmtInit, Unref, EndPublicFn,
           StmtMarkClosing, StmtReleaseParent, StmtClearParent,
           StmtCheckSession, OciStmtRelease, StmtCheckListed, StmtRemoveHandle,
           StmtFree, StmtFreeParent, StmtFreeConn, StmtFreeMemory,
           ConnMarkClosing, ConnRollback, ConnReadSlot, ConnTakeRef,
           ConnDropRef, ConnSlotDone, ConnSessionEnd, ConnClosed, UnrefConn,
           ConnFree, ConnFreeMemory, stmtVars
      <3> QED BY <2>1, <3>1 DEF IsOpen
    <2> QED BY <2>2, <2>3, <2>4, <2>5
  <1> QED BY <1>2, <1>3

(* The slots change only where a statement enters the list or leaves it. *)
LEMMA SlotsStay ==
    ASSUME NEW t \in Threads, Begin(t) \/ Continue(t), ~At(t, "addHandle")
    PROVE  openSlotNum' = openSlotNum
  <1>1. Begin(t) => UNCHANGED listVars
    BY DEF Begin, PrepareStmt, CloseConn, ReleaseConn, GetImplicitResult,
       CloseStmt, ReleaseStmt, AddRefFor
  <1>2. CASE StmtRemoveHandle(t)
    BY <1>2 DEF StmtRemoveHandle, List!RemoveHandle
  <1>3. Continue(t) => \/ StmtAddHandle(t) \/ StmtRemoveHandle(t)
                       \/ UNCHANGED listVars
    BY DEF Continue, StmtPrepare2, StmtInit, Unref, EndPublicFn,
       StmtMarkClosing, StmtReleaseParent, StmtClearParent, StmtCheckSession,
       OciStmtRelease, StmtCheckListed, StmtClosed, StmtFree, StmtFreeParent,
       StmtFreeConn, StmtFreeMemory, ConnMarkClosing, ConnRollback,
       ConnReadSlot, ConnTakeRef, ConnDropRef, ConnSlotDone, ConnSessionEnd,
       ConnClosed, UnrefConn, ConnFree, ConnFreeMemory
  <1> QED BY <1>1, <1>2, <1>3 DEF StmtAddHandle, listVars

(* The slot of an open statement is that which it remembers. *)
LEMMA OpenSlots ==
    ASSUME ListedInv, NEW s \in Stmts, IsOpen(s), ~In(s, Unlisting)
    PROVE  openSlotNum[s] \in 0 .. numSlots - 1 /\ openStmts[openSlotNum[s]] = s
  <1>1. s \in Listed BY DEF ListedInv, IsOpen
  <1> QED BY <1>1 DEF ListedInv, ListOf!ListInv, ListOf!ListsOpenHandles,
      ListOf!Slots

LEMMA SlotsAreNumbers ==
    ASSUME ListedInv, NEW s \in Stmts
    PROVE  openSlotNum[s] \in Nat
  BY DEF ListedInv, ListOf!ListInv, ListOf!TypeOK

(* What no function of the one thread is doing. *)
LEMMA NowhereIn ==
    ASSUME OneThread, NEW t \in Threads, NEW s, NEW L,
           \A k \in 1 .. depth[t] : calls[t][k].at \notin L
    PROVE  ~In(s, L)
  <1> SUFFICES ASSUME NEW u \in Threads, NEW k \in 1 .. depth[u],
                      calls[u][k].at \in L
               PROVE  FALSE
    BY DEF In
  <1>1. u = t BY DEF OneThread
  <1> QED BY <1>1

(* Going on leaves the depth of the stack. *)
LEMMA GoOnDepth ==
    ASSUME Stacks, Stacks', NEW t \in Threads, NEW l, At(t, l), NEW f,
           GoOn(t, f)
    PROVE  depth'[t] = depth[t] /\ f \in FrameType /\ WentOn(t, f)
  <1>1. stack[t] # <<>> /\ depth[t] \in Nat BY LastIs
  <1>2. f \in FrameType BY <1>1, GoneOnFits
  <1>3. WentOn(t, f) BY <1>1, <1>2, GoOnIs
  <1> QED BY <1>1, <1>2, <1>3 DEF WentOn

(* When the loop has closed a statement, it is closed. *)
LEMMA CloseEnds ==
    ASSUME LifeInv, LifeInv', ListedInv, OneThread, NEW t \in Threads,
           Continue(t), depth[t] = 3, calls[t][1].at = "connClosed",
           calls[t][2].at = "dropRef", Last(t).at \in Closing,
           depth'[t] # 3
    PROVE  ~handle'[Last(t).s]
  <1>1. /\ Stacks /\ Stacks' /\ handle \in [Stmts -> BOOLEAN]
        /\ \A s \in Stmts : parent[s] = NULL
    BY DEF LifeInv, TypeOK, ListedInv
  <1> PICK s, l : s = Last(t).s /\ l = Last(t).at OBVIOUS
  <1>2. At(t, l) /\ Top(t).s = s /\ s \in Stmts /\ l \in Closing
    <2>1. At(t, l) /\ Top(t) = Last(t) /\ depth[t] \in Nat \ {0}
      BY <1>1, Continues
    <2>2. l \in InStmt BY DEF Closing, InClose, InStmt
    <2> QED BY <1>1, <2>1, <2>2, LastStmt
  <1>3. \A f : ~GoOn(t, f) BY <1>1, <1>2, GoOnDepth
  <1>4. \A m : ~GoTo(t, m) BY <1>3 DEF GoTo
  <1>5. CASE l = "stmtClose"
    <2>1. StmtMarkClosing(t) BY <1>2, <1>5, StepAt
    <2>2. handle' = handle /\ (closing[s] \/ ~handle[s])
      BY <1>2, <1>4, <2>1 DEF StmtMarkClosing
    <2>3. ~In(s, InClose)
      <3>1. Last(t) = calls[t][3] BY DEF Last
      <3>2. \A k \in 1 .. depth[t] : k = 1 \/ k = 2 \/ k = 3 OBVIOUS
      <3>3. \A k \in 1 .. depth[t] : calls[t][k].at \notin InClose
        BY <1>5, <3>1, <3>2 DEF InClose
      <3> QED BY <3>3, NowhereIn
    <2>4. closing[s] => ~handle[s]
      BY <1>2, <2>3 DEF LifeInv, CloseState, CloseStateAt
    <2> QED BY <2>2, <2>4
  <1>6. CASE l = "closed"
    <2>1. StmtClosed(t) BY <1>2, <1>6, StepAt
    <2> QED BY <1>1, <1>2, <2>1 DEF StmtClosed
  <1>7. CASE l \notin {"stmtClose", "closed"}
    <2>1. l \in {"stmtRelease", "unparent", "ociRelease", "unlist",
                 "removeHandle"}
      BY <1>2, <1>7 DEF Closing, InClose
    <2>2. \/ StmtReleaseParent(t) \/ StmtCheckSession(t) \/ StmtClearParent(t)
          \/ OciStmtRelease(t) \/ StmtCheckListed(t) \/ StmtRemoveHandle(t)
      BY <1>2, <2>1, StepInClose
    <2>3. \E f : GoOn(t, f)
      <3>1. (\E m : GoTo(t, m)) => \E f : GoOn(t, f) BY DEF GoTo
      <3>2. ~StmtReleaseParent(t) BY <1>1, <1>2 DEF StmtReleaseParent
      <3>3. CASE OciStmtRelease(t) BY <3>3 DEF OciStmtRelease
      <3>4. CASE StmtCheckSession(t) \/ StmtClearParent(t)
                 \/ StmtCheckListed(t) \/ StmtRemoveHandle(t)
        BY <3>1, <3>4 DEF StmtCheckSession, StmtClearParent, StmtCheckListed,
           StmtRemoveHandle
      <3> QED BY <2>2, <3>2, <3>3, <3>4
    <2> QED BY <1>3, <2>3
  <1> QED BY <1>5, <1>6, <1>7

-----------------------------------------------------------------------------
(* While the loop has called somebody it stays where it is. *)
LEMMA ScanDeep ==
    ASSUME LifeInv, LifeInv', ListedInv, ~ImplicitResults, OneThread, Scans,
           NEW t \in Threads, Continue(t), Scanning(t), depth[t] # 2
    PROVE  Scanned(calls[t][2], depth[t], Last(t))'
  <1>1. Stacks /\ Stacks' /\ Shape BY DEF LifeInv, TypeOK
  <1>2. /\ depth[t] \in Nat /\ depth[t] >= 3 /\ 2 \in 1 .. depth[t]
        /\ 2 \in 1 .. depth[t] - 1 /\ depth[t] \in 1 .. depth[t]
        /\ calls[t][2] \in FrameType
    <2>1. depth[t] \in Nat BY <1>1, DepthOf
    <2>2. /\ depth[t] >= 3 /\ 2 \in 1 .. depth[t]
          /\ 2 \in 1 .. depth[t] - 1 /\ depth[t] \in 1 .. depth[t]
      BY <2>1 DEF Scanning
    <2> QED BY <1>1, <2>1, <2>2, DepthOf
  <1> PICK g : g = calls[t][2] OBVIOUS
  <1>3. Scanned(g, depth[t], Last(t)) /\ g.at \in {"dropRef", "slotDone"}
    BY DEF Scans, Scanned
  <1>4. GoesOn(t) \/ Pops(t) BY StepGoes
  <1>5. Last(t).at \notin {"prepare", "addHandle"}
    BY <1>1, <1>2, PublicIsFirst DEF Last, Public, New
  <1>6. /\ \A s \in Stmts : IsOpen(s)' => IsOpen(s)
        /\ openSlotNum' = openSlotNum
    <2>1. \A l : At(t, l) => l = Last(t).at BY <1>1, LastIs
    <2> QED BY <1>5, <2>1, Opened, SlotsStay
  <1>7. /\ calls'[t][2].at = g.at /\ calls'[t][2].s = g.s
        /\ calls'[t][2].i = g.i
    <2>1. ASSUME NEW f, WentOn(t, f) PROVE calls'[t][2] = g
      BY <1>2, <2>1 DEF WentOn, Below
    <2>2. ASSUME NEW f, NEW h, Called(t, h, f) PROVE calls'[t][2] = g
      BY <1>2, <2>2 DEF Called, Below
    <2>3. CASE Ended(t) BY <1>2, <2>3 DEF Ended, Below
    <2>4. ASSUME NEW status \in BOOLEAN, Returned(t, status), depth[t] = 3
          PROVE  calls'[t][2] = [g EXCEPT !.ok = status]
      BY <1>2, <2>4 DEF Returned
    <2>5. ASSUME NEW status \in BOOLEAN, Returned(t, status), depth[t] # 3
          PROVE  calls'[t][2] = g
      BY <1>2, <2>5 DEF Returned, Below
    <2>6. \A b \in BOOLEAN : /\ [g EXCEPT !.ok = b].at = g.at
                             /\ [g EXCEPT !.ok = b].s = g.s
                             /\ [g EXCEPT !.ok = b].i = g.i
      BY <1>2 DEF FrameType
    <2>7. CASE GoesOn(t) BY <2>1, <2>2, <2>7 DEF GoesOn
    <2>8. CASE Pops(t) BY <2>3, <2>4, <2>5, <2>6, <2>8 DEF Pops
    <2> QED BY <1>4, <2>7, <2>8
  <1>8. CASE g.at = "slotDone"
    <2>1. \A s \in Stmts : IsOpen(s)' => openSlotNum'[s] > g.i
      BY <1>3, <1>6, <1>8 DEF Scanned
    <2> QED BY <1>7, <1>8, <2>1 DEF Scanned, ConnClosing
  <1>9. CASE g.at = "dropRef"
    <2>1. /\ depth[t] = 3 /\ Last(t).at \in Closing /\ Last(t).s = g.s
      BY <1>2, <1>3, <1>9 DEF Scanned
    <2>2. CASE GoesOn(t)
      <3>1. PICK f : Follows(Last(t), f) /\ WentOn(t, f)
        BY <2>1, <2>2 DEF GoesOn
      <3>2. depth'[t] = 3 /\ Last(t)' = f BY <2>1, <3>1 DEF WentOn, Last
      <3>3. f.at \in Closing /\ f.s = g.s BY <2>1, <3>1 DEF Follows
      <3> QED BY <1>3, <1>6, <1>7, <1>9, <2>1, <3>2, <3>3 DEF Scanned,
          ConnClosing
    <2>3. CASE Pops(t)
      <3>1. depth'[t] = 2
        <4>1. depth'[t] = depth[t] - 1 BY <1>1, <2>1, <2>3, PoppedIs DEF Pops
        <4> QED BY <2>1, <4>1
      <3>2. ~handle'[g.s] BY <1>9, <2>1, <3>1, CloseEnds DEF Scanning
      <3>3. \A s \in Stmts : IsOpen(s)' => s # g.s BY <3>2 DEF IsOpen
      <3>4. \A s \in Stmts : IsOpen(s)' =>
               openSlotNum'[s] >= g.i /\ openSlotNum'[s] # g.i
        BY <1>3, <1>6, <1>9, <3>3 DEF Scanned
      <3> QED BY <1>7, <1>9, <3>1, <3>4 DEF Scanned, ConnClosing
    <2> QED BY <1>4, <2>2, <2>3
  <1> QED BY <1>3, <1>8, <1>9

(* It begins with the first slot. *)
LEMMA ScanStarts ==
    ASSUME LifeInv, LifeInv', ListedInv, NEW t \in Threads, Continue(t),
           ~Scanning(t), Scanning(t)'
    PROVE  Scanned(calls[t][2], depth[t], Last(t))'
  <1>1. Stacks /\ Stacks' /\ depth[t] \in Nat \ {0} /\ depth'[t] >= 2
        /\ calls'[t][1].at = "connClosed"
    BY Continues DEF LifeInv, TypeOK, Scanning
  <1>2. GoesOn(t) \/ Pops(t) BY StepGoes
  <1>3. CASE depth[t] >= 2
    <2>1. calls[t][1].at # "connClosed" /\ 1 \in 1 .. depth[t] - 1
      BY <1>1, <1>3 DEF Scanning
    <2>2. ASSUME NEW f, WentOn(t, f) PROVE calls'[t][1] = calls[t][1]
      BY <2>1, <2>2 DEF WentOn, Below
    <2>3. ASSUME NEW f, NEW h, Called(t, h, f)
          PROVE  calls'[t][1] = calls[t][1]
      BY <2>1, <2>3 DEF Called, Below
    <2>4. CASE GoesOn(t) BY <1>1, <2>1, <2>2, <2>3, <2>4 DEF GoesOn
    <2>5. CASE Pops(t)
      <3>1. calls'[t][1].at = calls[t][1].at
        BY <1>1, <2>1, <2>5, PoppedIs DEF Pops
      <3> QED BY <1>1, <2>1, <3>1
    <2> QED BY <1>2, <2>4, <2>5
  <1>4. CASE depth[t] = 1
    <2>1. PICK f, h : Follows(Last(t), f) /\ Called(t, h, f)
      <3>1. ~Pops(t) BY <1>1, <1>4 DEF Pops, Ended, Returned
      <3>2. \A f : ~WentOn(t, f) BY <1>1, <1>4 DEF WentOn
      <3> QED BY <1>2, <3>1, <3>2 DEF GoesOn
    <2>2. calls'[t][1] = f /\ calls'[t][2] = h /\ depth'[t] = 2
      BY <1>4, <2>1 DEF Called
    <2>3. Last(t).at = "markClosing" BY <1>1, <2>1, <2>2 DEF Follows
    <2>4. ConnMarkClosing(t) BY <1>1, <2>3, Continues, StepAt
    <2> PICK f2, h2 : /\ f2 = Frame("connClosed", NULL, TRUE)
                      /\ h2 = Frame("connClose", NULL, TRUE)
      OBVIOUS
    <2>5. Call(t, h2, f2)
      <3>1. ~ReturnVoid(t)
        <4>1. CASE ReturnVoid(t)
          <5>1. stack[t] # <<>> BY <1>1, <2>4, LastIs DEF ConnMarkClosing
          <5>2. Ended(t) BY <1>1, <4>1, <5>1, ReturnVoidIs
          <5> QED BY <1>1, <1>4, <5>2 DEF Ended
        <4> QED BY <4>1
      <3> QED BY <2>4, <3>1 DEF ConnMarkClosing
    <2>6. Called(t, h2, f2)
      <3>1. stack[t] # <<>> BY <1>1, <2>4, LastIs DEF ConnMarkClosing
      <3>2. f2 \in FrameType /\ h2 \in FrameType
        BY <1>1, <2>5, <3>1, CalledFits
      <3> QED BY <1>1, <2>5, <3>1, <3>2, CallIs
    <2>7. calls'[t][2] = h2
      <3>1. depth[t] + 1 = 2 BY <1>4
      <3>2. calls'[t][depth[t] + 1] = h2 BY <2>6 DEF Called
      <3> QED BY <3>1, <3>2
    <2>8. h2.at = "connClose" /\ h2.i = 0 BY DEF Frame
    <2> QED BY <2>2, <2>7, <2>8 DEF Scanned, ConnClosing
  <1> QED BY <1>1, <1>3, <1>4

(* At each label of the loop. *)
LEMMA ScanLoop ==
    ASSUME LifeInv, LifeInv', ListedInv, LiveIsHeld, Threaded,
           ~ImplicitResults, OneThread, Scans, NEW t \in Threads, Continue(t),
           Scanning(t), depth[t] = 2, Scanning(t)'
    PROVE  Scanned(calls[t][2], depth[t], Last(t))'
  <1>1. Stacks /\ Stacks' /\ depth[t] \in Nat \ {0}
    BY Continues DEF LifeInv, TypeOK
  <1> PICK g : g = calls[t][2] OBVIOUS
  <1>2. /\ Top(t) = g /\ Last(t) = g /\ At(t, g.at) /\ g \in FrameType
        /\ g.i \in Nat /\ Scanned(g, 2, g) /\ g.at \in ConnClosing
        /\ stack[t] # <<>>
    <2>1. Last(t) = g BY DEF Last
    <2>2. Scanned(g, 2, g) BY <2>1 DEF Scans
    <2>3. Top(t) = g /\ At(t, g.at) /\ g \in FrameType BY <1>1, <2>1, Continues
    <2>4. g.i \in Nat BY <2>3 DEF FrameType
    <2> QED BY <2>1, <2>2, <2>3, <2>4 DEF Scanned, At
  <1>3. /\ \A s \in Stmts : IsOpen(s)' => IsOpen(s)
        /\ openSlotNum' = openSlotNum
    <2>1. g.at \notin {"prepare", "addHandle"} BY <1>2 DEF ConnClosing
    <2>2. \A l : At(t, l) => l = g.at BY <1>1, <1>2, LastIs
    <2> QED BY <2>1, <2>2, Opened, SlotsStay
  <1>4. \A s \in Stmts : ~In(s, Unlisting) /\ ~In(s, Freeing)
    <2>1. \A k \in 1 .. depth[t] : k = 1 \/ k = 2 OBVIOUS
    <2>2. \A k \in 1 .. depth[t] :
             calls[t][k].at \in {"connClosed"} \cup ConnClosing
      BY <1>2, <2>1 DEF Scanning
    <2>3. \A l \in {"connClosed"} \cup ConnClosing :
             l \notin Unlisting /\ l \notin Freeing
      BY DEF ConnClosing, Unlisting, Entering, Leaving, Freeing
    <2> QED BY <2>2, <2>3, NowhereIn
  <1>5. \A s \in Stmts : /\ openSlotNum[s] \in Nat
                         /\ IsOpen(s) => /\ openSlotNum[s] \in 0 .. numSlots - 1
                                         /\ openStmts[openSlotNum[s]] = s
    BY <1>4, OpenSlots, SlotsAreNumbers
  <1>6. ASSUME NEW f, GoOn(t, f), Scanned(f, 2, f)'
        PROVE  Scanned(calls[t][2], depth[t], Last(t))'
    <2>1. WentOn(t, f) BY <1>1, <1>2, <1>6, GoOnDepth
    <2>2. depth'[t] = 2 /\ calls'[t][2] = f /\ Last(t)' = f
      BY <2>1 DEF WentOn, Last
    <2> QED BY <1>6, <2>2
  <1>7. ASSUME NEW f, NEW h, Called(t, h, f), Scanned(f, 3, h)'
        PROVE  Scanned(calls[t][2], depth[t], Last(t))'
    <2>1. depth[t] + 1 = 3 OBVIOUS
    <2>2. depth'[t] = 3 /\ calls'[t][2] = f /\ calls'[t][depth[t] + 1] = h
      BY <1>7, <2>1 DEF Called
    <2>3. Last(t)' = h BY <2>1, <2>2 DEF Last
    <2> QED BY <1>7, <2>2, <2>3
  <1>8. \A status \in BOOLEAN : ~Return(t, status)
    <2> SUFFICES ASSUME NEW status \in BOOLEAN, Return(t, status)
                 PROVE  FALSE
      OBVIOUS
    <2>1. Returned(t, status) BY <1>1, <1>2, ReturnIs
    <2>2. depth'[t] = 1 BY <2>1 DEF Returned
    <2> QED BY <2>2 DEF Scanning
  <1>9. CASE g.at = "connClose"
    <2> PICK f : f = [g EXCEPT !.at = "nextSlot"] OBVIOUS
    <2>1. GoOn(t, f) BY <1>2, <1>9, StepAt DEF ConnRollback, GoTo
    <2>2. f.at = "nextSlot" /\ f.i = 0 BY <1>2, <1>9 DEF FrameType, Scanned
    <2>3. Scanned(f, 2, f)' BY <1>3, <1>5, <2>2 DEF Scanned, ConnClosing
    <2> QED BY <1>6, <2>1, <2>3
  <1>10. CASE g.at = "nextSlot"
    <2>1. ConnReadSlot(t) BY <1>2, <1>10, StepAt
    <2>2. \A s \in Stmts : IsOpen(s) => openSlotNum[s] >= g.i
      BY <1>2, <1>10 DEF Scanned
    <2>3. CASE g.i >= numSlots
      <3> PICK f : f = [g EXCEPT !.at = "sessionEnd", !.i = 0] OBVIOUS
      <3>1. GoOn(t, f) BY <1>2, <2>1, <2>3 DEF ConnReadSlot
      <3>2. f.at = "sessionEnd" BY <1>2 DEF FrameType
      <3>3. \A s \in Stmts : ~IsOpen(s)
        <4> SUFFICES ASSUME NEW s \in Stmts, IsOpen(s) PROVE FALSE OBVIOUS
        <4>1. numSlots \in Nat BY DEF LifeInv, TypeOK
        <4>2. openSlotNum[s] \in 0 .. numSlots - 1 /\ openSlotNum[s] >= g.i
          BY <1>5, <2>2
        <4> QED BY <1>2, <2>3, <4>1, <4>2
      <3>4. Scanned(f, 2, f)' BY <1>3, <3>2, <3>3 DEF Scanned, ConnClosing
      <3> QED BY <1>6, <3>1, <3>4
    <2>4. CASE ~(g.i >= numSlots) /\ openStmts[g.i] = NULL
      <3> PICK f : f = [g EXCEPT !.i = g.i + 1] OBVIOUS
      <3>1. GoOn(t, f) BY <1>2, <2>1, <2>4 DEF ConnReadSlot
      <3>2. f.at = "nextSlot" /\ f.i = g.i + 1 BY <1>2, <1>10 DEF FrameType
      <3>3. \A s \in Stmts : IsOpen(s) => openSlotNum[s] # g.i
        BY <1>5, <2>4, StmtLifetimeAssumption
      <3>4. \A s \in Stmts : IsOpen(s) => openSlotNum[s] >= g.i + 1
        BY <1>2, <1>5, <2>2, <3>3
      <3>5. Scanned(f, 2, f)' BY <1>3, <3>2, <3>4 DEF Scanned, ConnClosing
      <3> QED BY <1>6, <3>1, <3>5
    <2>5. CASE ~(g.i >= numSlots) /\ openStmts[g.i] # NULL
      <3> PICK f : f = [g EXCEPT !.at = "takeRef", !.s = openStmts[g.i]]
        OBVIOUS
      <3>1. GoOn(t, f) /\ openStmts' = openStmts
        BY <1>2, <2>1, <2>5 DEF ConnReadSlot, listVars
      <3>2. f.at = "takeRef" /\ f.i = g.i /\ f.s = openStmts[g.i]
        BY <1>2 DEF FrameType
      <3>3. Scanned(f, 2, f)'
        BY <1>3, <2>2, <3>1, <3>2 DEF Scanned, ConnClosing
      <3> QED BY <1>6, <3>1, <3>3
    <2> QED BY <2>3, <2>4, <2>5
  <1>11. CASE g.at = "takeRef"
    <2>1. ConnTakeRef(t) /\ g.s \in Stmts
      BY <1>1, <1>2, <1>11, StepAt, LastStmt
    <2>2. /\ \A s \in Stmts : IsOpen(s) => openSlotNum[s] >= g.i
          /\ openStmts[g.i] = g.s
      BY <1>2, <1>11 DEF Scanned
    <2>3. \A s \in Stmts : IsOpen(s) /\ openSlotNum[s] = g.i => s = g.s
      BY <1>5, <2>2
    <2>4. CASE Valid(g.s)
      <3> PICK f, h : /\ f = [g EXCEPT !.at = "dropRef"]
                      /\ h = Frame("stmtClose", g.s, g.propagate)
        OBVIOUS
      <3>1. Call(t, h, f) BY <1>2, <2>1, <2>4 DEF ConnTakeRef
      <3>2. f.at = "dropRef" /\ f.i = g.i /\ f.s = g.s BY <1>2 DEF FrameType
      <3>3. h.at \in Closing /\ h.s = g.s BY DEF Frame, Closing
      <3>4. f \in FrameType /\ h \in FrameType BY <1>1, <1>2, <3>1, CalledFits
      <3>5. Called(t, h, f) BY <1>1, <1>2, <3>1, <3>4, CallIs
      <3>6. Scanned(f, 3, h)'
        BY <1>3, <2>2, <2>3, <3>2, <3>3 DEF Scanned, ConnClosing
      <3> QED BY <1>7, <3>5, <3>6
    <2>5. CASE ~Valid(g.s)
      <3> PICK f : f = NextSlot(g) OBVIOUS
      <3>1. GoOn(t, f) BY <1>2, <2>1, <2>5 DEF ConnTakeRef
      <3>2. f.at = "nextSlot" /\ f.i = g.i + 1 BY <1>2 DEF FrameType, NextSlot
      <3>3. ~IsOpen(g.s) BY <1>4, <2>1, <2>5 DEF Valid, IsOpen, LiveIsHeld
      <3>4. \A s \in Stmts : IsOpen(s) => openSlotNum[s] >= g.i + 1
        BY <1>2, <1>5, <2>2, <2>3, <3>3
      <3>5. Scanned(f, 2, f)' BY <1>3, <3>2, <3>4 DEF Scanned, ConnClosing
      <3> QED BY <1>6, <3>1, <3>5
    <2> QED BY <2>4, <2>5
  <1>12. CASE g.at = "dropRef"
    <2>1. ConnDropRef(t) /\ g.s \in Stmts
      BY <1>1, <1>2, <1>12, StepAt, LastStmt DEF InStmt
    <2> PICK f : f = [g EXCEPT !.at = "slotDone"] OBVIOUS
    <2>2. ReleaseStmtRef(t, g.s, f) BY <1>2, <2>1 DEF ConnDropRef
    <2>3. f.at = "slotDone" /\ f.i = g.i BY <1>2 DEF FrameType
    <2>4. \A s \in Stmts : IsOpen(s) => openSlotNum[s] > g.i
      <3>1. \A s \in Stmts : IsOpen(s) => openSlotNum[s] >= g.i
                                          /\ openSlotNum[s] # g.i
        BY <1>2, <1>12 DEF Scanned
      <3> QED BY <1>2, <1>5, <3>1
    <2>5. \A n, l : Scanned(f, n, l)'
      BY <1>3, <2>3, <2>4 DEF Scanned, ConnClosing
    <2>6. CASE GoOn(t, f) BY <1>6, <2>5, <2>6
    <2>7. CASE Call(t, Frame("stmtFree", g.s, FALSE), f)
      <3> PICK h : h = Frame("stmtFree", g.s, FALSE) OBVIOUS
      <3>1. Call(t, h, f) BY <2>7
      <3>2. f \in FrameType /\ h \in FrameType BY <1>1, <1>2, <3>1, CalledFits
      <3>3. Called(t, h, f) BY <1>1, <1>2, <3>1, <3>2, CallIs
      <3> QED BY <1>7, <2>5, <3>3
    <2> QED BY <2>2, <2>6, <2>7 DEF ReleaseStmtRef
  <1>13. CASE g.at = "slotDone"
    <2>1. ConnSlotDone(t) BY <1>2, <1>13, StepAt
    <2> PICK f : f = NextSlot(g) OBVIOUS
    <2>2. GoOn(t, f) BY <1>2, <1>8, <2>1 DEF ConnSlotDone
    <2>3. f.at = "nextSlot" /\ f.i = g.i + 1 BY <1>2 DEF FrameType, NextSlot
    <2>4. \A s \in Stmts : IsOpen(s) => openSlotNum[s] > g.i
      BY <1>2, <1>13 DEF Scanned
    <2>5. \A s \in Stmts : IsOpen(s) => openSlotNum[s] >= g.i + 1
      BY <1>2, <1>5, <2>4
    <2>6. Scanned(f, 2, f)' BY <1>3, <2>3, <2>5 DEF Scanned, ConnClosing
    <2> QED BY <1>6, <2>2, <2>6
  <1>14. CASE g.at = "sessionEnd"
    <2>1. ConnSessionEnd(t) BY <1>2, <1>14, StepAt
    <2> QED BY <1>8, <2>1 DEF ConnSessionEnd
  <1> QED BY <1>2, <1>9, <1>10, <1>11, <1>12, <1>13, <1>14 DEF ConnClosing

(* A public function that is called is the first of its thread. *)
LEMMA Begins ==
    ASSUME Stacks, Stacks', ~ImplicitResults, NEW t \in Threads, Begin(t)
    PROVE  /\ depth[t] = 0
           /\ \/ UNCHANGED stack
              \/ \E f : Began(t, f) /\ (f.at = "prepare" => connHandle')
  <1>1. depth[t] = 0
    BY DepthOf DEF Idle, Begin, PrepareStmt, CloseConn, ReleaseConn, CloseStmt,
       ReleaseStmt, AddRefFor, GetImplicitResult
  <1>2. \A f : Idle(t) /\ Start(t, f) => Began(t, f) BY Starts
  <1>3. CASE PrepareStmt(t)
    <2>1. \E f : Idle(t) /\ Start(t, f) BY <1>3 DEF PrepareStmt
    <2>2. connHandle' BY <1>3 DEF PrepareStmt, Connected
    <2> QED BY <1>1, <1>2, <2>1, <2>2
  <1>4. ASSUME NEW l, l # "prepare", NEW s, NEW p \in BOOLEAN, Idle(t),
               Start(t, Frame(l, s, p))
        PROVE  \E f : Began(t, f) /\ f.at # "prepare"
    <2> PICK f : f = Frame(l, s, p) OBVIOUS
    <2>1. f.at = l BY DEF Frame
    <2>2. Began(t, f) BY <1>2, <1>4
    <2> QED BY <1>4, <2>1, <2>2
  <1>5. CloseConn(t) => \E f : Began(t, f) /\ f.at # "prepare"
    <2>1. CloseConn(t) => Idle(t) /\ Start(t, Frame("markClosing", NULL, TRUE))
      BY DEF CloseConn
    <2> QED BY <1>4, <2>1
  <1>6. ReleaseConn(t) => \E f : Began(t, f) /\ f.at # "prepare"
    <2>1. ReleaseConn(t) => Idle(t) /\ Start(t, Frame("unrefConn", NULL, FALSE))
      BY DEF ReleaseConn
    <2> QED BY <1>4, <2>1
  <1>7. ASSUME NEW s \in Stmts, CloseStmt(t, s)
        PROVE  \E f : Began(t, f) /\ f.at # "prepare"
    <2>1. Idle(t) /\ Start(t, Frame("stmtClose", s, TRUE))
      BY <1>7 DEF CloseStmt
    <2> QED BY <1>4, <2>1
  <1>8. ASSUME NEW s \in Stmts, ReleaseStmt(t, s)
        PROVE  \E f : Began(t, f) /\ f.at # "prepare"
    <2>1. Idle(t) /\ Start(t, Frame("unref", s, FALSE)) BY <1>8 DEF ReleaseStmt
    <2> QED BY <1>4, <2>1
  <1>9. ASSUME NEW s \in Stmts, NEW u \in Threads, AddRefFor(t, s, u)
        PROVE  UNCHANGED stack
    BY <1>9 DEF AddRefFor
  <1> QED BY <1>1, <1>3, <1>5, <1>6, <1>7, <1>8, <1>9 DEF Begin,
      GetImplicitResult

(* Only the last function of the thread may have opened a statement. *)
LEMMA PreparesKept ==
    ASSUME LifeInv, LifeInv', ListedInv, ~ImplicitResults, OneThread,
           PreparesLast, NEW t \in Threads, Begin(t) \/ Continue(t)
    PROVE  PreparesLast'
  <1>1. Stacks /\ Stacks' /\ depth[t] \in Nat BY DepthOf DEF LifeInv, TypeOK
  <1> SUFFICES ASSUME NEW k \in 1 .. depth'[t], calls'[t][k].at = "prepare"
               PROVE  k = depth'[t] /\ connHandle'
    BY DEF PreparesLast, OneThread
  <1>2. CASE Continue(t)
    <2>1. GoesOn(t) \/ Pops(t) BY <1>2, StepGoes
    <2>2. depth[t] \in Nat \ {0} BY <1>1, <1>2, Continues
    <2>3. ASSUME NEW j \in 1 .. depth[t] - 1, calls[t][j].at = "prepare"
          PROVE  FALSE
      <3>1. j \in 1 .. depth[t] /\ j # depth[t] BY <1>1
      <3> QED BY <2>3, <3>1 DEF PreparesLast
    <2>4. ASSUME NEW f, Follows(Last(t), f), WentOn(t, f) PROVE FALSE
      <3>1. k \in 1 .. depth[t] - 1 \/ k = depth[t] BY <1>1, <2>4 DEF WentOn
      <3> QED BY <2>3, <2>4, <3>1 DEF WentOn, Below, Follows
    <2>5. ASSUME NEW f, NEW g, Follows(Last(t), f), Called(t, g, f),
                 g.at # "prepare"
          PROVE  FALSE
      <3>1. k \in 1 .. depth[t] - 1 \/ k = depth[t] \/ k = depth[t] + 1
        BY <1>1, <2>5 DEF Called
      <3> QED BY <2>3, <2>5, <3>1 DEF Called, Below, Follows
    <2>6. CASE Pops(t)
      <3>1. k \in 1 .. depth[t] - 1 /\ calls'[t][k].at = calls[t][k].at
        BY <1>1, <2>2, <2>6, PoppedIs DEF Pops
      <3> QED BY <2>3, <3>1
    <2> QED BY <2>1, <2>4, <2>5, <2>6 DEF GoesOn
  <1>3. CASE Begin(t)
    <2>1. depth[t] = 0 BY <1>1, <1>3, Begins
    <2>2. CASE UNCHANGED stack BY <1>1, <2>1, <2>2, SameStacks
    <2>3. ASSUME NEW f, Began(t, f), f.at = "prepare" => connHandle'
          PROVE  k = depth'[t] /\ connHandle'
      BY <2>3 DEF Began
    <2> QED BY <1>1, <1>3, <2>2, <2>3, Begins
  <1> QED BY <1>2, <1>3

(* When the session has ended no statement is open. *)
LEMMA NoneOpenKept ==
    ASSUME LifeInv, LifeInv', ListedInv, ~ImplicitResults, OneThread, Scans,
           PreparesLast, NoneOpen, NEW t \in Threads, Begin(t) \/ Continue(t)
    PROVE  NoneOpen'
  <1>1. Stacks /\ Shape BY DEF LifeInv, TypeOK
  <1> SUFFICES ASSUME ~connHandle', NEW s \in Stmts, IsOpen(s)'
               PROVE  FALSE
    BY DEF NoneOpen
  <1>2. \A l : At(t, l) => /\ l = Last(t).at /\ depth[t] \in Nat \ {0}
                           /\ depth[t] \in 1 .. depth[t]
                           /\ Last(t) \in FrameType
                           /\ Last(t) = calls[t][depth[t]]
    BY <1>1, LastIs
  <1>3. ~At(t, "prepare")
    <2> SUFFICES ASSUME At(t, "prepare") PROVE FALSE OBVIOUS
    <2>1. connHandle BY <1>2 DEF PreparesLast
    <2>2. ~At(t, "sessionEnd") BY DEF At
    <2> QED BY <2>1, <2>2, SessionStays DEF ConnSessionEnd
  <1>4. IsOpen(s) BY <1>3, Opened
  <1>5. At(t, "sessionEnd") BY <1>4, SessionStays DEF NoneOpen, ConnSessionEnd
  <1>6. /\ Last(t).at = "sessionEnd" /\ depth[t] \in 2 .. depth[t]
        /\ depth[t] - 1 \in 1 .. depth[t]
    <2>1. depth[t] # 1
      BY <1>1, <1>2, <1>5 DEF Shape, Ordered, MayBegin, ConnClosing
    <2> QED BY <1>2, <1>5, <2>1
  <1> PICK e : e = calls[t][depth[t] - 1] OBVIOUS
  <1>7. e.at \in {"connClosed", "connFreeMemory"} /\ e \in FrameType
    <2>1. MayCall(e, Last(t)) BY <1>1, <1>2, <1>5, <1>6, CallerOf
    <2>2. "sessionEnd" \in ConnClosing BY DEF ConnClosing
    <2> QED BY <1>1, <1>6, <2>1, <2>2, DepthOf DEF MayCall
  <1>8. CASE e.at = "connFreeMemory"
    <2>1. In(NULL, ConnFreeing)
      BY <1>6, <1>7, <1>8 DEF In, ConnFreeing, FrameType
    <2>2. Keepers = {} BY <2>1 DEF LifeInv, ConnCounted
    <2>3. In(s, Letting) BY <1>4, <2>2 DEF Keepers, IsOpen
    <2>4. In(s, Closed) BY <2>3 DEF In, Letting, Closed
    <2> QED BY <1>4, <2>4 DEF IsOpen, LifeInv, CloseState, CloseStateAt
  <1>9. CASE e.at = "connClosed"
    <2>1. depth[t] - 1 = 1 BY <1>1, <1>6, <1>9, PublicIsFirst DEF Public
    <2>2. depth[t] = 2 /\ Scanning(t) BY <1>6, <1>9, <2>1 DEF Scanning
    <2>3. Scanned(Last(t), 2, Last(t)) BY <1>2, <1>5, <2>2 DEF Scans
    <2> QED BY <1>4, <1>6, <2>3 DEF Scanned
  <1> QED BY <1>7, <1>8, <1>9

(* Scans is kept wherever the one thread is: the loop passes nothing open. *)
LEMMA ScansKept ==
    ASSUME LifeInv, LifeInv', ListedInv, LiveIsHeld, Threaded,
           ~ImplicitResults, OneThread, Scans, NEW t \in Threads,
           Begin(t) \/ Continue(t)
    PROVE  Scans'
  <1> SUFFICES ASSUME Scanning(t)'
               PROVE  Scanned(calls[t][2], depth[t], Last(t))'
    BY DEF Scans, OneThread
  <1>1. CASE Begin(t)
    <2>1. Stacks /\ Stacks' BY DEF LifeInv, TypeOK
    <2>2. depth[t] = 0 /\ (UNCHANGED stack \/ \E f : Began(t, f))
      BY <1>1, <2>1, Begins
    <2>3. depth'[t] \in {0, 1} BY <2>2, SameStacks DEF Began
    <2> QED BY <2>3 DEF Scanning
  <1>2. CASE Continue(t) BY <1>2, ScanDeep, ScanLoop, ScanStarts
  <1> QED BY <1>1, <1>2

(* Nothing is open at first, and nobody closes. *)
LEMMA InitScan ==
    ASSUME Init
    PROVE  ScanInv
  <1>1. \A t \in Threads : stack[t] = <<>> BY DEF Init
  <1>2. \A t \in Threads : depth[t] = 0 BY <1>1 DEF depth
  <1>3. connHandle /\ \A s \in Stmts : mem[s] # "live" BY DEF Init
  <1> QED BY <1>2, <1>3 DEF ScanInv, LiveIsHeld, PreparesLast, NoneOpen, Scans,
      Scanning

(* A step that changes nothing. *)
LEMMA ScanStill ==
    ASSUME ScanInv, UNCHANGED vars
    PROVE  ScanInv'
  <1>1. /\ UNCHANGED <<mem, refCount, handle, connHandle, openStmts>>
        /\ openSlotNum' = openSlotNum /\ UNCHANGED <<depth, calls>>
    BY SameStacks DEF vars, stmtVars, connVars, listVars
  <1>2. LiveIsHeld' BY <1>1 DEF ScanInv, LiveIsHeld, In
  <1>3. PreparesLast' /\ NoneOpen'
    BY <1>1 DEF ScanInv, PreparesLast, NoneOpen, IsOpen
  <1>4. \A g, n, l : Scanned(g, n, l) => Scanned(g, n, l)'
    BY <1>1 DEF Scanned, IsOpen
  <1>5. Scans'
    <2> SUFFICES ASSUME NEW t \in Threads, Scanning(t)'
                 PROVE  Scanned(calls[t][2], depth[t], Last(t))'
      BY DEF Scans
    <2> PICK g, n, l : g = calls[t][2] /\ n = depth[t] /\ l = Last(t) OBVIOUS
    <2>1. g = calls'[t][2] /\ n = depth'[t] /\ l = Last(t)' BY <1>1 DEF Last
    <2>2. Scanned(g, n, l) BY <1>1 DEF ScanInv, Scans, Scanning
    <2>3. Scanned(g, n, l)' BY <1>4, <2>2
    <2> QED BY <2>1, <2>3
  <1> QED BY <1>2, <1>3, <1>5 DEF ScanInv

(* ScanInv is inductive with what LifeInv and ListedInv say. *)
LEMMA ScanInvariant ==
    ASSUME Assumed, ~ImplicitResults, OneThread
    PROVE  Spec => []ScanInv
  <1>1. LifeInv /\ LifeInv' /\ ListedInv /\ ScanInv /\ [Next]_vars => ScanInv'
    <2> SUFFICES ASSUME LifeInv, LifeInv', ListedInv, ScanInv, [Next]_vars
                 PROVE  ScanInv'
      OBVIOUS
    <2>1. CASE UNCHANGED vars BY <2>1, ScanStill
    <2>2. ASSUME NEW t \in Threads, Begin(t) \/ Continue(t) PROVE ScanInv'
      <3>1. LiveIsHeld /\ PreparesLast /\ NoneOpen /\ Scans BY DEF ScanInv
      <3>2. LiveIsHeld' BY <2>2, <3>1, HeldKept
      <3>3. PreparesLast' BY <2>2, <3>1, PreparesKept
      <3>4. NoneOpen' BY <2>2, <3>1, NoneOpenKept
      <3>5. Scans' BY <2>2, <3>1, ScansKept DEF Assumed
      <3> QED BY <3>2, <3>3, <3>4, <3>5 DEF ScanInv
    <2> QED BY <2>1, <2>2 DEF Next
  <1> QED BY <1>1, InitScan, LifeInvariant, ListInvariant, PTL DEF Spec

(* Where a program uses its connection on one thread, no statement of it is *)
(* open once its session has been ended: dpiConn__close has found all of    *)
(* them on the list and closed them, or nobody has a statement any more.    *)
(* With more threads this fails: a statement that is being prepared is not  *)
(* on the list yet (the README, section 6).                                 *)
THEOREM ClosingClosesAll ==
    ASSUME Assumed, ~ImplicitResults, OneThread
    PROVE  Spec => []CloseClosesAll
  <1>1. ScanInv => CloseClosesAll
    BY DEF ScanInv, NoneOpen, IsOpen, CloseClosesAll
  <1> QED BY <1>1, ScanInvariant, PTL
=============================================================================
