---------------------------- MODULE HandlesProofs -----------------------------
(***************************************************************************)
(* Every step of module Handles keeps the inductive invariants: reference  *)
(* counts are exact, and the lists of the connection hold what is open,    *)
(* whatever the program does and whichever calls fail.                     *)
(***************************************************************************)
EXTENDS HandlesLemmas

-----------------------------------------------------------------------------
(* The calls that are left after a handle was made. *)
LEMMA NoCallFine ==
    ASSUME todo' = <<>>
    PROVE  /\ CallsFine
           /\ \A y : ~FreesIn(todo', y) /\ PendingIn(todo', y) = 0
<1>1. <<>> \in Seq(Works) /\ Shape(<<>>) BY NoWorkShape
<1>2. WorksOK' /\ EndOK' BY DEF WorksOK, EndOK
<1>3. \A y : ~FreesIn(<<>>, y) /\ ~ForgetsIn(<<>>, y) /\ PendingIn(<<>>, y) = 0
  BY PendingEmpty DEF FreesIn, ForgetsIn
<1> QED BY <1>1, <1>2, <1>3 DEF CallsFine

LEMMA OneCallFine ==
    ASSUME NEW w \in Works, w.do \in LastWorks \cup {"free", "unref"},
           todo' = <<w>>, WorkOK(w)'
    PROVE  /\ CallsFine
           /\ \A y : /\ FreesIn(todo', y) <=> w.do = "free" /\ w.h = y
                     /\ PendingIn(todo', y) = References(w, y)
<1>1. PICK p : p = todo' OBVIOUS
<1>2. PICK r : r = <<>> OBVIOUS
<1>3. /\ r \in Seq(Works) /\ Shape(r) /\ Settled(r) /\ p = <<w>> \o r
      /\ p = <<w>> /\ p \in Seq(Works)
  BY <1>1, <1>2, NoWorkShape
<1>4. \A y : ~FreesIn(r, y) /\ ~ForgetsIn(r, y) /\ PendingIn(r, y) = 0
  BY <1>2, PendingEmpty DEF FreesIn, ForgetsIn
<1>5. /\ w.do \notin {"prefetch", "closeStmt", "releaseStmt", "freeMemory",
                      "freeStmt"}
      /\ ~GivesUp(w) /\ ~OfFreeConn(w)
      /\ w.do \in FreeWorks <=> w.do = "free"
  BY DEF LastWorks, GivesUp, OfFreeConn, SweepWorks, CloseWorks, FreeWorks
<1>6. Shape(p) BY <1>2, <1>3, <1>4, <1>5, ShapePush
<1>7. ASSUME NEW y
      PROVE  /\ FreesIn(p, y) <=> w.do = "free" /\ w.h = y
             /\ ~ForgetsIn(p, y)
             /\ PendingIn(p, y) = References(w, y)
  <2>1. FreesIn(p, y) <=> w.do = "free" /\ w.h = y
    BY <1>3, <1>4, <1>5, AmongPushed
  <2>2. ~ForgetsIn(p, y) BY <1>3, <1>4, <1>5, AmongPushed
  <2>3. PendingIn(p, y) = References(w, y) BY <1>3, PendingOne
  <2> QED BY <2>1, <2>2, <2>3
<1>8. \A i \in DOMAIN p : p[i] = w BY <1>3
<1>9. WorksOK' BY <1>1, <1>8 DEF WorksOK, WorkOK
<1>10. EndOK' BY <1>1, <1>5, <1>8 DEF EndOK
<1> QED BY <1>1, <1>3, <1>6, <1>7, <1>9, <1>10 DEF CallsFine

LEMMA TwoCallsFine ==
    ASSUME NEW a \in Works, NEW b \in Works, a.do = "prefetch", a.why = "new",
           \/ b.do = "give" /\ b.h = a.h
           \/ b.do = "define" /\ b.arg = a.h,
           todo' = <<a, b>>, WorkOK(a)', WorkOK(b)'
    PROVE  /\ CallsFine
           /\ \A y : /\ ~FreesIn(todo', y)
                     /\ PendingIn(todo', y) = References(b, y)
<1>1. PICK p : p = todo' OBVIOUS
<1>2. PICK r : r = <<b>> OBVIOUS
<1>3. /\ r \in Seq(Works) /\ p \in Seq(Works) /\ Tail(p) = r /\ Head(p) = a
      /\ DOMAIN p = {1, 2} /\ p[1] = a /\ p[2] = b /\ Len(p) = 2
      /\ p # <<>>
  <2>1. PICK q : q = <<a, b>> OBVIOUS
  <2>2. DOMAIN q = {1, 2} /\ q[1] = a /\ q[2] = b /\ Len(q) = 2 BY <2>1
  <2>3. q \in Seq(Works) /\ Head(q) = a /\ q # <<>> BY <2>1
  <2>4. Tail(q) = <<b>> /\ <<b>> \in Seq(Works) BY <2>1
  <2> QED BY <1>1, <1>2, <2>1, <2>2, <2>3, <2>4
<1>4. /\ a.do \notin FreeWorks \cup LastWorks \cup CloseWorks \cup SweepWorks
      /\ b.do \in LastWorks
      /\ b.do \notin FreeWorks \cup CloseWorks \cup SweepWorks
      /\ ~GivesUp(a) /\ ~OfFreeConn(a) /\ ~GivesUp(b) /\ ~OfFreeConn(b)
  BY DEF LastWorks, GivesUp, OfFreeConn, SweepWorks, CloseWorks, FreeWorks
<1>5. \A i \in DOMAIN p : p[i].do \notin FreeWorks \cup CloseWorks
  BY <1>3, <1>4
<1>6. FreedOnce(p) BY <1>5 DEF FreedOnce
<1>7. LastIsLast(p) BY <1>3, <1>4 DEF LastIsLast
<1>8. PrefetchLate(p)
  <2> SUFFICES ASSUME NEW i \in DOMAIN p, NEW j \in DOMAIN p, i < j
               PROVE  p[j].do \in LastWorks
    BY DEF PrefetchLate
  <2>1. j = 2 BY <1>3
  <2> QED BY <1>3, <1>4, <2>1
<1>9. NewFirst(p)
  <2> SUFFICES ASSUME NEW i \in DOMAIN p, p[i].do = "prefetch"
               PROVE  i = 1
    BY <1>3 DEF NewFirst
  <2> QED BY <1>3, <1>4 DEF LastWorks
<1>10. GiveAlone(p)
  <2> SUFFICES ASSUME NEW i \in DOMAIN p, p[i].do \in {"give", "define"}
               PROVE  i = 2
    BY <1>3 DEF GiveAlone
  <2> QED BY <1>3
<1>11. GivesUpAlone(p)
  <2> SUFFICES ASSUME NEW i \in DOMAIN p PROVE ~GivesUp(p[i])
    BY DEF GivesUpAlone
  <2> QED BY <1>3, <1>4
<1>12. ConnForgotten(p)
  <2> SUFFICES ASSUME NEW i \in DOMAIN p PROVE ~OfFreeConn(p[i])
    BY DEF ConnForgotten
  <2> QED BY <1>3, <1>4
<1>13. CloseFirst(p) BY <1>5 DEF CloseFirst, CloseWorks
<1>14. ReleaseEnds(p) BY <1>5 DEF ReleaseEnds, CloseWorks
<1>15. Shape(p)
  BY <1>6, <1>7, <1>8, <1>9, <1>10, <1>11, <1>12, <1>13, <1>14 DEF Shape
<1>16. ASSUME NEW y
       PROVE  /\ ~FreesIn(p, y) /\ ~ForgetsIn(p, y)
              /\ PendingIn(p, y) = References(b, y)
  <2>1. ~FreesIn(p, y) /\ ~ForgetsIn(p, y)
    BY <1>5 DEF FreesIn, ForgetsIn, FreeWorks
  <2>2. References(a, y) = 0 BY DEF References, RefersTo
  <2>3. PendingIn(p, y) = References(a, y) + PendingIn(r, y)
    BY <1>3, PendingPop
  <2>4. PendingIn(r, y) = References(b, y) /\ References(b, y) \in Nat
    <3>1. References(b, y) \in Nat BY DEF References
    <3> QED BY <1>2, <3>1, PendingOne
  <2> QED BY <2>1, <2>2, <2>3, <2>4
<1>17. WorksOK'
  <2>1. \A i \in DOMAIN p : p[i] = a \/ p[i] = b BY <1>3
  <2> QED BY <1>1, <2>1 DEF WorksOK, WorkOK
<1>18. EndOK' BY <1>1, <1>5 DEF EndOK, FreeWorks
<1> QED BY <1>1, <1>3, <1>15, <1>16, <1>17, <1>18 DEF CallsFine

-----------------------------------------------------------------------------
(* Handles that the program asks for.                                       *)
Fit(k, f) ==
    /\ FieldsFit(k, f)
    /\ \A r \in RolesOf(k) : f[r] # NULL => mem[f[r]] = "live"
Ends(h) == \/ Give(h)
           \/ Discard(h)
           \/ todo' = <<Unref(h)>> /\ UNCHANGED user

LEMMA IdleIs ==
    ASSUME Idle
    PROVE  /\ NoneFreed(todo) /\ \A y : PendingIn(todo, y) = 0
           /\ \A w : <<w>> \o todo = <<w>>
<1>1. todo = <<>> BY DEF Idle
<1> QED BY <1>1, PendingEmpty DEF NoneFreed, FreesIn, ForgetsIn, Releases

LEMMA FreeFine ==
    ASSUME NEW h \in Blocks, todo' = <<Free(h)>>, mem'[h] = "live"
    PROVE  /\ CallsFine
           /\ \A y \in Blocks : /\ FreesIn(todo', y) <=> y = h
                                /\ PendingIn(todo', y) = 0
<1>1. PICK w : w = Free(h) OBVIOUS
<1>2. w \in Works /\ w.do = "free" /\ w.h = h
  BY <1>1, WorkTyped DEF Free, WorkNames, FreeWorks
<1>3. WorkOK(w)' BY <1>2 DEF WorkOK, CloseWorks, SweepWorks
<1>4. \A y : References(w, y) = 0 BY <1>2 DEF References, RefersTo
<1>5. todo' = <<w>> BY <1>1
<1>6. /\ CallsFine
      /\ \A y : /\ FreesIn(todo', y) <=> w.do = "free" /\ w.h = y
                /\ PendingIn(todo', y) = References(w, y)
  <2> HIDE DEF CallsFine, References, FreesIn
  <2> QED BY <1>2, <1>3, <1>5, OneCallFine
<1> QED BY <1>2, <1>4, <1>6

LEMMA UnrefFine ==
    ASSUME NEW h \in Blocks, todo' = <<Unref(h)>>
    PROVE  /\ CallsFine
           /\ \A y \in Blocks : /\ ~FreesIn(todo', y)
                                /\ PendingIn(todo', y) = Is(h, y)
<1>1. PICK w : w = Unref(h) OBVIOUS
<1>2. w \in Works /\ w.do = "unref" /\ w.h = h
  BY <1>1, WorkTyped DEF Unref, WorkNames
<1>3. WorkOK(w)' BY <1>2, UnrefOK
<1>4. \A y : References(w, y) = Is(h, y) BY <1>2 DEF References, RefersTo, Is
<1>5. todo' = <<w>> BY <1>1
<1>6. /\ CallsFine
      /\ \A y : /\ FreesIn(todo', y) <=> w.do = "free" /\ w.h = y
                /\ PendingIn(todo', y) = References(w, y)
  <2> HIDE DEF CallsFine, References, FreesIn
  <2> QED BY <1>2, <1>3, <1>5, OneCallFine
<1> QED BY <1>2, <1>4, <1>6

LEMMA EndsFine ==
    ASSUME Inv, Idle, NEW h \in Blocks, mem[h] = "unused", mem'[h] = "live",
           Ends(h)
    PROVE  UserTyped /\ CallsFine /\ Outcome(h)
<1>1. /\ user \in [Blocks -> Nat] /\ user[h] = 0
      /\ \A y : PendingIn(todo, y) = 0
  BY UnusedIs, IdleIs DEF Inv, HandlesTypes
<1>2. CASE Give(h)
  <2>1. todo' = <<>> BY <1>2 DEF Give, Idle
  <2>2. CallsFine /\ \A y : ~FreesIn(todo', y) /\ PendingIn(todo', y) = 0
    BY <2>1, NoCallFine
  <2>3. /\ user' \in [Blocks -> Nat] /\ user'[h] = 1
        /\ \A y \in Blocks \ {h} : user'[y] = user[y]
    BY <1>1, <1>2 DEF Give
  <2> QED BY <1>1, <2>2, <2>3 DEF UserTyped, Outcome
<1>3. CASE Discard(h)
  <2>1. todo' = <<Free(h)>> /\ user' = user BY <1>3, IdleIs DEF Discard
  <2>2. CallsFine /\ \A y \in Blocks : /\ FreesIn(todo', y) <=> y = h
                                       /\ PendingIn(todo', y) = 0
    BY <2>1, FreeFine
  <2> QED BY <1>1, <2>1, <2>2 DEF UserTyped, Outcome
<1>4. CASE todo' = <<Unref(h)>> /\ UNCHANGED user
  <2>1. CallsFine /\ \A y \in Blocks : /\ ~FreesIn(todo', y)
                                       /\ PendingIn(todo', y) = Is(h, y)
    BY <1>4, UnrefFine
  <2>2. Is(h, h) = 1 /\ \A y \in Blocks \ {h} : Is(h, y) = 0 BY DEF Is
  <2> QED BY <1>1, <1>4, <2>1, <2>2 DEF UserTyped, Outcome
<1> QED BY <1>2, <1>3, <1>4 DEF Ends

LEMMA IdleBirth ==
    ASSUME Inv, Idle, NEW h \in Blocks, NEW k, NEW f, Allocate(h, k, f),
           Fit(k, f), k \notin {"none", "conn"}, OciOf(h), NewSlot(h, k),
           UNCHANGED <<quota, closing, lastRowid, lost>>, Ends(h)
    PROVE  Inv'
<1>1. /\ mem[h] = "unused" /\ mem' = [mem EXCEPT ![h] = "live"]
      /\ kind' = [kind EXCEPT ![h] = k] /\ field' = [field EXCEPT ![h] = f]
      /\ refCount' = [y \in Blocks |->
                         IF y = h THEN 1 ELSE refCount[y] + CountOf(f, y)]
      /\ h \in First(Room(k))
  BY DEF Allocate, Make
<1>2. Allowed(k) BY <1>1 DEF First, Room
<1>3. mem'[h] = "live" BY <1>1 DEF Inv, HandlesTypes
<1>4. UserTyped /\ CallsFine /\ Outcome(h) BY <1>1, <1>3, EndsFine
<1>5. Takes(h, k, f) BY <1>1 DEF Takes, Fit
<1>6. NewHandle(h, k, f) BY <1>1, <1>2, <1>4, <1>5 DEF NewHandle
<1>7. NoneFreed(todo) BY IdleIs
<1> QED BY <1>1, <1>4, <1>6, <1>7, BirthFreeStep

(* The fields of new handles fit their kinds.                               *)
Points(k, r, p) == PointerOK(k, r, p) /\ p \in Blocks \cup {NULL}
                   /\ (p # NULL => mem[p] = "live")
LEMMA FitsAll ==
    ASSUME NEW k, k \notin Queues, NEW f, DOMAIN f = RolesOf(k),
           f = [r \in RolesOf(k) |-> f[r]],
           \A r \in RolesOf(k) : Points(k, r, f[r])
    PROVE  Fit(k, f)
BY DEF Fit, FieldsFit, Points

LEMMA ConnFits ==
    ASSUME Inv, mem[Conn] = "live"
    PROVE  \A k : Points(k, "conn", Conn)
<1>1. kind[Conn] = "conn" /\ Conn # NULL /\ Conn \in Blocks
  BY HandleTreeAssumption DEF Inv, KindOK
<1>2. \A k : KindsOf(k, "conn") = {"conn"} BY DEF KindsOf
<1> QED BY <1>1, <1>2 DEF Points, PointerOK

MayBeNull == {"element", "valueType", "dependsOn", "payloadObj",
              "payloadJson", "payloadType", "deqOptions", "enqOptions",
              "first", "second", "bind", "column", "value", "returned"}
LEMMA NullFits ==
    /\ \A k : \A r \in MayBeNull : Points(k, r, NULL)
    /\ \A k : k \notin {"object", "objectVar"} => Points(k, "type", NULL)
BY DEF Points, PointerOK, Required, MayBeNull

LEMMA TypeFits ==
    ASSUME NEW t \in Blocks, mem[t] = "live", kind[t] = "objectType", NEW k,
           NEW r \in {"element", "belongsTo", "valueType", "type",
                      "payloadType"}
    PROVE  Points(k, r, t)
<1>1. KindsOf(k, r) = {"objectType"} BY DEF KindsOf
<1> QED BY <1>1, HandleTreeAssumption DEF Points, PointerOK

LEMMA ConnAloneFits ==
    ASSUME Inv, mem[Conn] = "live",
           NEW k \in {"lob", "deqOptions", "enqOptions", "json", "sodaDb"},
           NEW f, f = [conn |-> Conn]
    PROVE  Fit(k, f)
<1>1. RolesOf(k) = {"conn"} /\ k \notin Queues BY RolesAre DEF Queues
<1>2. DOMAIN f = {"conn"} /\ f = [r \in {"conn"} |-> f[r]] /\ f["conn"] = Conn
  OBVIOUS
<1>3. \A r \in {"conn"} : Points(k, r, f[r]) BY <1>2, ConnFits
<1> QED BY <1>1, <1>2, <1>3, FitsAll

LEMMA TypeFieldsFit ==
    ASSUME Inv, mem[Conn] = "live"
    PROVE  Fit("objectType", TypeFields(NULL))
<1>1. PICK f : f = TypeFields(NULL) OBVIOUS
<1>2. RolesOf("objectType") = {"conn", "element"} /\ "objectType" \notin Queues
  BY RolesAre DEF Queues
<1>3. /\ DOMAIN f = {"conn", "element"}
      /\ f = [r \in {"conn", "element"} |-> f[r]]
      /\ f["conn"] = Conn /\ f["element"] = NULL
  BY <1>1 DEF TypeFields
<1>4. \A r \in {"conn", "element"} : Points("objectType", r, f[r])
  BY <1>3, ConnFits, NullFits DEF MayBeNull
<1> QED BY <1>1, <1>2, <1>3, <1>4, FitsAll

LEMMA AttrFieldsFit ==
    ASSUME NEW t \in Blocks, mem[t] = "live", kind[t] = "objectType"
    PROVE  Fit("objectAttr", AttrFields(t, NULL))
<1>1. PICK f : f = AttrFields(t, NULL) OBVIOUS
<1>2. /\ RolesOf("objectAttr") = {"belongsTo", "valueType"}
      /\ "objectAttr" \notin Queues
  BY RolesAre DEF Queues
<1>3. /\ DOMAIN f = {"belongsTo", "valueType"}
      /\ f = [r \in {"belongsTo", "valueType"} |-> f[r]]
      /\ f["belongsTo"] = t /\ f["valueType"] = NULL
  BY <1>1 DEF AttrFields
<1>4. \A r \in {"belongsTo", "valueType"} : Points("objectAttr", r, f[r])
  BY <1>3, TypeFits, NullFits DEF MayBeNull
<1> QED BY <1>1, <1>2, <1>3, <1>4, FitsAll

LEMMA ObjectFieldsFit ==
    ASSUME NEW t \in Blocks, mem[t] = "live", kind[t] = "objectType",
           NEW o \in Blocks \cup {NULL},
           o # NULL => mem[o] = "live" /\ kind[o] = "object"
    PROVE  Fit("object", ObjectFields(t, o))
<1>1. PICK f : f = ObjectFields(t, o) OBVIOUS
<1>2. /\ RolesOf("object") = {"type", "dependsOn"}
      /\ "object" \notin Queues
  BY RolesAre DEF Queues
<1>3. /\ DOMAIN f = {"type", "dependsOn"}
      /\ f = [r \in {"type", "dependsOn"} |-> f[r]]
      /\ f["type"] = t /\ f["dependsOn"] = o
  BY <1>1 DEF ObjectFields
<1>4. Points("object", "type", t) BY TypeFits
<1>5. Points("object", "dependsOn", o)
  <2>1. KindsOf("object", "dependsOn") = {"object"} BY DEF KindsOf
  <2>2. CASE o = NULL BY <2>2, NullFits DEF MayBeNull
  <2>3. CASE o # NULL BY <2>1, <2>3 DEF Points, PointerOK
  <2> QED BY <2>2, <2>3
<1>6. \A r \in {"type", "dependsOn"} : Points("object", r, f[r])
  BY <1>3, <1>4, <1>5
<1> QED BY <1>1, <1>2, <1>3, <1>6, FitsAll

LEMMA PropsFieldsFit ==
    ASSUME Inv, mem[Conn] = "live"
    PROVE  Fit("msgProps", PropsFields)
<1>1. PICK f : f = PropsFields OBVIOUS
<1> DEFINE R == {"conn", "payloadObj", "payloadJson"}
<1>2. RolesOf("msgProps") = R /\ "msgProps" \notin Queues
  BY RolesAre DEF Queues
<1>3. /\ DOMAIN f = R /\ f = [r \in R |-> f[r]]
      /\ f["conn"] = Conn /\ f["payloadObj"] = NULL /\ f["payloadJson"] = NULL
  BY <1>1 DEF PropsFields
<1>4. \A r \in R : Points("msgProps", r, f[r])
  BY <1>3, ConnFits, NullFits DEF MayBeNull
<1> QED BY <1>1, <1>2, <1>3, <1>4, FitsAll

LEMMA QueueFieldsFit ==
    ASSUME Inv, mem[Conn] = "live", NEW k \in Queues,
           NEW t \in Blocks \cup {NULL},
           t # NULL => mem[t] = "live" /\ kind[t] = "objectType"
    PROVE  Fit(k, QueueFields(t))
<1>1. PICK f : f = QueueFields(t) OBVIOUS
<1> DEFINE R == {"conn", "payloadType", "deqOptions", "enqOptions", "first",
                 "second"}
<1>2. RolesOf(k) = R BY RolesAre
<1>3. /\ DOMAIN f = R /\ f = [r \in R |-> f[r]]
      /\ f["conn"] = Conn /\ f["payloadType"] = t /\ f["first"] = NULL
      /\ \A r \in R \ {"conn", "payloadType"} : f[r] = NULL
  BY <1>1 DEF QueueFields
<1>4. Points(k, "payloadType", t)
  <2>1. CASE t = NULL BY <2>1, NullFits DEF MayBeNull
  <2>2. CASE t # NULL BY <2>2, TypeFits
  <2> QED BY <2>1, <2>2
<1>5. \A r \in R \ {"conn", "payloadType"} : Points(k, r, NULL)
  BY NullFits DEF MayBeNull
<1>6. \A r \in R : Points(k, r, f[r])
  <2> TAKE r \in R
  <2>1. CASE r = "conn" BY <1>3, <2>1, ConnFits
  <2>2. CASE r = "payloadType" BY <1>3, <1>4, <2>2
  <2>3. CASE r \notin {"conn", "payloadType"}
    <3>1. f[r] = NULL /\ Points(k, r, NULL) BY <1>3, <1>5, <2>3
    <3> QED BY <3>1
  <2> QED BY <2>1, <2>2, <2>3
<1>7. \A r \in R : PointerOK(k, r, f[r]) /\ f[r] \in Blocks \cup {NULL}
                   /\ (f[r] # NULL => mem[f[r]] = "live")
  BY <1>6 DEF Points
<1>8. f.first = NULL BY <1>3
<1> HIDE DEF R
<1> QED BY <1>1, <1>2, <1>3, <1>7, <1>8 DEF Fit, FieldsFit

LEMMA SodaFieldsFit ==
    ASSUME NEW x \in Blocks, mem[x] = "live", NEW k, NEW r, NEW f,
           \/ /\ k \in {"sodaColl", "sodaDoc", "sodaCollCursor"} /\ r = "db"
              /\ kind[x] = "sodaDb" /\ f = InDb(x)
           \/ /\ k = "sodaDocCursor" /\ r = "coll"
              /\ kind[x] = "sodaColl" /\ f = InColl(x)
    PROVE  Fit(k, f)
<1>1. RolesOf(k) = {r} /\ k \notin Queues BY RolesAre DEF Queues
<1>2. DOMAIN f = {r} /\ f = [q \in {r} |-> f[q]] /\ f[r] = x
  BY DEF InDb, InColl
<1>3. kind[x] \in KindsOf(k, r) BY DEF KindsOf
<1>4. \A q \in {r} : Points(k, q, f[q])
  BY <1>2, <1>3, HandleTreeAssumption DEF Points, PointerOK
<1> QED BY <1>1, <1>2, <1>4, FitsAll

LEMMA StmtFieldsFit ==
    ASSUME Inv, mem[Conn] = "live", NEW k \in StmtKinds
    PROVE  Fit(k, StmtFields)
<1>1. PICK f : f = StmtFields OBVIOUS
<1> DEFINE R == {"conn", "bind", "column"}
<1>2. RolesOf(k) = R /\ k \notin Queues BY RolesAre, PartsOfQueue
<1>3. /\ DOMAIN f = R /\ f = [r \in R |-> f[r]]
      /\ f["conn"] = Conn /\ f["bind"] = NULL /\ f["column"] = NULL
  BY <1>1 DEF StmtFields
<1>4. \A r \in R : Points(k, r, f[r]) BY <1>3, ConnFits, NullFits DEF MayBeNull
<1> QED BY <1>1, <1>2, <1>3, <1>4, FitsAll

LEMMA VarFieldsFit ==
    ASSUME Inv, mem[Conn] = "live", NEW k \in VarKinds,
           NEW t \in Blocks \cup {NULL}, k = "objectVar" => t # NULL,
           t # NULL => mem[t] = "live" /\ kind[t] = "objectType"
    PROVE  Fit(k, VarFields(t))
<1>1. PICK f : f = VarFields(t) OBVIOUS
<1> DEFINE R == {"conn", "type", "value", "returned"}
<1>2. RolesOf(k) = R /\ k \notin Queues BY RolesAre, PartsOfQueue
<1>3. /\ DOMAIN f = R /\ f = [r \in R |-> f[r]]
      /\ f["conn"] = Conn /\ f["type"] = t
      /\ f["value"] = NULL /\ f["returned"] = NULL
  BY <1>1 DEF VarFields
<1>4. Points(k, "type", t)
  <2>1. k # "object" BY DEF VarKinds
  <2>2. CASE t = NULL BY <2>1, <2>2, NullFits
  <2>3. CASE t # NULL BY <2>3, TypeFits
  <2> QED BY <2>2, <2>3
<1>5. \A r \in R : Points(k, r, f[r])
  BY <1>3, <1>4, ConnFits, NullFits DEF MayBeNull
<1> QED BY <1>1, <1>2, <1>3, <1>5, FitsAll

LEMMA HasAlive ==
    ASSUME Inv, NEW x \in Blocks, NEW k, Has(x, k)
    PROVE  Idle /\ mem[x] = "live" /\ kind[x] = k /\ KeepsFields(x)
BY UsersAlive DEF Has

LEMMA CreateKeeps ==
    ASSUME Inv, NEW h \in Blocks, NEW k, NEW f, Create(h, k, f), Idle,
           Fit(k, f), k \notin {"none", "conn"}, UNCHANGED varVars
    PROVE  Inv'
<1>1. OciOf(h) /\ Ends(h) /\ NewSlot(h, k)
  BY DEF Create, OciOf, Ends, NewSlot, listVars
<1>2. Allocate(h, k, f) /\ UNCHANGED <<quota, closing, lastRowid, lost>>
  BY DEF Create, listVars, varVars
<1> QED BY <1>1, <1>2, IdleBirth

LEMMA DescribeKeeps ==
    ASSUME Inv, NEW h \in Blocks, NEW k, NEW f, NEW ok, Describe(h, k, f, ok),
           Idle, Fit(k, f), k \notin {"none", "conn"}, UNCHANGED varVars
    PROVE  Inv'
<1>1. OciOf(h) /\ Ends(h) /\ NewSlot(h, k)
  BY DEF Describe, OciOf, Ends, NewSlot, listVars
<1>2. Allocate(h, k, f) /\ UNCHANGED <<quota, closing, lastRowid, lost>>
  BY DEF Describe, listVars, varVars
<1> QED BY <1>1, <1>2, IdleBirth

LEMMA FoundKeeps ==
    ASSUME Inv, NEW h \in Blocks, NEW k, NEW f, Found(h, k, f),
           Idle, Fit(k, f), k \notin {"none", "conn"}, UNCHANGED varVars
    PROVE  Inv'
<1>1. OciOf(h) /\ Ends(h) /\ NewSlot(h, k)
  BY DEF Found, OciOf, Ends, NewSlot, listVars
<1>2. Allocate(h, k, f) /\ UNCHANGED <<quota, closing, lastRowid, lost>>
  BY DEF Found, listVars, varVars
<1> QED BY <1>1, <1>2, IdleBirth

LEMMA ConnMakesKeeps ==
    ASSUME Inv, NEW h \in Blocks, UNCHANGED varVars,
           \/ NewMsgProps(h) \/ NewDeqOptions(h) \/ NewEnqOptions(h)
           \/ NewJson(h) \/ NewQueue(h) \/ GetSodaDb(h)
    PROVE  Inv'
<1>1. Has(Conn, "conn")
  BY DEF NewMsgProps, NewDeqOptions, NewEnqOptions, NewJson, NewQueue,
     GetSodaDb, ConnMakes
<1>2. Idle /\ mem[Conn] = "live" BY <1>1, HasAlive, ConnIsBlock
<1>3. CASE NewMsgProps(h)
  BY <1>2, <1>3, PropsFieldsFit, CreateKeeps DEF NewMsgProps
<1>4. ASSUME NEW k \in {"deqOptions", "enqOptions", "json"},
             Create(h, k, OptionsFields)
      PROVE  Inv'
  <2>1. Fit(k, OptionsFields) BY <1>2, ConnAloneFits DEF OptionsFields
  <2> QED BY <1>2, <1>4, <2>1, CreateKeeps
<1>5. CASE NewDeqOptions(h) \/ NewEnqOptions(h) \/ NewJson(h)
  BY <1>4, <1>5 DEF NewDeqOptions, NewEnqOptions, NewJson
<1>6. CASE NewQueue(h)
  <2>1. PICK k \in Queues : NewQueue(h)!(k) BY <1>6 DEF NewQueue
  <2>2. PICK t \in {NULL} \cup {t \in Blocks : Has(t, "objectType")} :
            \E ok \in BOOLEAN : Describe(h, k, QueueFields(t), ok)
    BY <2>1
  <2>3. t \in Blocks \cup {NULL}
        /\ (t # NULL => mem[t] = "live" /\ kind[t] = "objectType")
    BY <2>2, HasAlive
  <2>4. Fit(k, QueueFields(t)) /\ k \notin {"none", "conn"}
    BY <1>2, <2>3, QueueFieldsFit DEF Queues
  <2> QED BY <1>2, <2>2, <2>4, DescribeKeeps
<1>7. CASE GetSodaDb(h)
  <2>1. Fit("sodaDb", DbFields) BY <1>2, ConnAloneFits DEF DbFields
  <2> QED BY <1>2, <1>7, <2>1, DescribeKeeps DEF GetSodaDb
<1> QED BY <1>3, <1>5, <1>6, <1>7

(* The database of a collection, a document or a cursor is there.           *)
LEMMA DbIs ==
    ASSUME Inv, NEW x \in Blocks,
           NEW k \in {"sodaColl", "sodaCollCursor", "sodaDocCursor"}, Has(x, k)
    PROVE  DbOf(x) \in Blocks /\ mem[DbOf(x)] = "live"
           /\ kind[DbOf(x)] = "sodaDb"
<1>1. mem[x] = "live" /\ kind[x] = k /\ KeepsFields(x) BY HasAlive
<1>2. ASSUME NEW y \in Blocks, KeepsFields(y), NEW r \in RolesOf(kind[y]),
             r \in Required(kind[y])
      PROVE  /\ r \in DOMAIN field[y] /\ DOMAIN field[y] = RolesOf(kind[y])
             /\ field[y][r] \in Blocks
             /\ mem[field[y][r]] = "live" /\ KeepsFields(field[y][r])
             /\ kind[field[y][r]] \in KindsOf(kind[y], r)
  <2>1. /\ r \in DOMAIN field[y] /\ DOMAIN field[y] = RolesOf(kind[y])
        /\ field[y][r] \in Blocks \cup {NULL}
        /\ PointerOK(kind[y], r, field[y][r])
    BY <1>2, HoldsFields DEF FieldsFit
  <2>2. field[y][r] \in Blocks /\ kind[field[y][r]] \in KindsOf(kind[y], r)
    BY <1>2, <2>1, HandleTreeAssumption DEF PointerOK
  <2> QED BY <2>1, <2>2, PointedAlive, AliveKeeps
<1>3. ASSUME NEW y \in Blocks, KeepsFields(y),
             kind[y] \in {"sodaColl", "sodaDoc", "sodaCollCursor"}
      PROVE  /\ DOMAIN field[y] = {"db"}
             /\ field[y].db \in Blocks
             /\ mem[field[y].db] = "live" /\ kind[field[y].db] = "sodaDb"
  <2>1. RolesOf(kind[y]) = {"db"} BY <1>3, RolesAre
  <2>2. "db" \in Required(kind[y]) /\ KindsOf(kind[y], "db") = {"sodaDb"}
    BY DEF Required, KindsOf
  <2> QED BY <1>2, <1>3, <2>1, <2>2
<1>4. CASE k # "sodaDocCursor" BY <1>1, <1>3, <1>4 DEF DbOf
<1>5. CASE k = "sodaDocCursor"
  <2>1. RolesOf(kind[x]) = {"coll"} BY <1>1, <1>5, RolesAre
  <2>2. "coll" \in Required(kind[x]) /\ KindsOf(kind[x], "coll") = {"sodaColl"}
    BY DEF Required, KindsOf
  <2>3. /\ "coll" \in DOMAIN field[x] /\ field[x].coll \in Blocks
        /\ KeepsFields(field[x].coll) /\ kind[field[x].coll] = "sodaColl"
    BY <1>1, <1>2, <2>1, <2>2
  <2> QED BY <1>3, <2>3 DEF DbOf
<1> QED BY <1>4, <1>5

SodaMakes(x, h) ==
    \/ CreateCollection(x, h) \/ OpenCollection(x, h)
    \/ CreateDocument(x, h) \/ GetCollections(x, h)
    \/ NextCollection(x, h) \/ Find(x, h)
    \/ NextDocument(x, h) \/ FindOne(x, h) \/ GetDataGuide(x, h)
    \/ \E d \in Blocks : \/ InsertMany(x, d, h) \/ InsertOne(x, d, h)
                         \/ ReplaceOne(x, d, h) \/ Save(x, d, h)
LEMMA SodaMakesKeeps ==
    ASSUME Inv, NEW h \in Blocks, NEW x \in Blocks, SodaMakes(x, h),
           UNCHANGED varVars
    PROVE  Inv'
<1>1. ASSUME NEW d \in Blocks, mem[d] = "live", kind[d] = "sodaDb", Idle,
             NEW k \in {"sodaColl", "sodaDoc", "sodaCollCursor"},
             Found(h, k, InDb(d))
      PROVE  Inv'
  <2>1. Fit(k, InDb(d)) BY <1>1, SodaFieldsFit
  <2> QED BY <1>1, <2>1, FoundKeeps
<1>2. CASE \/ CreateCollection(x, h) \/ OpenCollection(x, h)
           \/ CreateDocument(x, h) \/ GetCollections(x, h)
  <2>1. Has(x, "sodaDb")
    BY <1>2 DEF CreateCollection, OpenCollection, CreateDocument,
       GetCollections, SodaDbCheck
  <2>2. mem[x] = "live" /\ kind[x] = "sodaDb" /\ Idle BY <2>1, HasAlive
  <2> QED BY <1>1, <1>2, <2>2 DEF CreateCollection, OpenCollection,
      CreateDocument, GetCollections
<1>3. CASE Find(x, h)
  <2>1. Has(x, "sodaColl") BY <1>3 DEF Find, SodaCollCheck
  <2>2. mem[x] = "live" /\ kind[x] = "sodaColl" /\ Idle BY <2>1, HasAlive
  <2>3. Fit("sodaDocCursor", InColl(x)) BY <2>2, SodaFieldsFit
  <2> QED BY <1>3, <2>2, <2>3, FoundKeeps DEF Find
<1>4. ASSUME NEW k \in {"sodaColl", "sodaCollCursor", "sodaDocCursor"},
             Has(x, k), NEW m \in {"sodaColl", "sodaDoc"},
             Found(h, m, InDb(DbOf(x)))
      PROVE  Inv'
  <2>1. DbOf(x) \in Blocks /\ mem[DbOf(x)] = "live"
        /\ kind[DbOf(x)] = "sodaDb" /\ Idle
    BY <1>4, DbIs, HasAlive
  <2> HIDE DEF DbOf
  <2> QED BY <1>1, <1>4, <2>1
<1>5. CASE NextCollection(x, h)
  BY <1>4, <1>5 DEF NextCollection, SodaCollCursorCheck
<1>6. CASE NextDocument(x, h)
  BY <1>4, <1>6 DEF NextDocument, SodaDocCursorCheck
<1>7. CASE FindOne(x, h) \/ GetDataGuide(x, h)
  BY <1>4, <1>7 DEF FindOne, GetDataGuide, SodaCollCheck
<1>8. ASSUME NEW d \in Blocks,
             \/ InsertMany(x, d, h) \/ InsertOne(x, d, h)
             \/ ReplaceOne(x, d, h) \/ Save(x, d, h)
      PROVE  Inv'
  BY <1>4, <1>8 DEF InsertMany, InsertOne, ReplaceOne, Save, Stored,
     SodaCollCheck
<1> QED BY <1>2, <1>3, <1>5, <1>6, <1>7, <1>8 DEF SodaMakes

LEMMA NewLobKeeps ==
    ASSUME Inv, NEW h \in Blocks, Idle, mem[Conn] = "live",
           \/ NewLob(h)
           \/ \E o \in Blocks : SetValue(o, h),
           UNCHANGED varVars
    PROVE  Inv'
<1>1. Fit("lob", LobFields) BY ConnAloneFits DEF LobFields
<1>2. UNCHANGED <<quota, closing, lastRowid, lost>>
  BY DEF NewLob, SetValue, varVars
<1>3. CASE AllocateLob(h, LobFields) /\ Ends(h)
  <2>1. Allocate(h, "lob", LobFields) /\ OciOf(h) /\ AddHandle("openLobs", h)
    BY <1>3 DEF AllocateLob, OciOf
  <2>2. NewSlot(h, "lob") BY <2>1 DEF NewSlot, Listed, Lists
  <2> QED BY <1>1, <1>2, <1>3, <2>1, <2>2, IdleBirth
<1>4. CASE AllocateLobFails(h, LobFields)
  <2>1. Allocate(h, "lob", LobFields) /\ OciOf(h) /\ Ends(h)
    BY <1>4 DEF AllocateLobFails, OciOf, Ends
  <2>2. NewSlot(h, "lob") BY <1>4 DEF NewSlot, AllocateLobFails
  <2> QED BY <1>1, <1>2, <2>1, <2>2, IdleBirth
<1> QED BY <1>3, <1>4 DEF NewLob, SetValue, Ends

(* The kinds of the handles that a handle always holds.                     *)
LEMMA AlwaysHeld ==
    ASSUME Inv, NEW y \in Blocks, KeepsFields(y), NEW r \in RolesOf(kind[y]),
           r \in Required(kind[y]) \/ field[y][r] # NULL
    PROVE  /\ r \in DOMAIN field[y] /\ DOMAIN field[y] = RolesOf(kind[y])
           /\ field[y][r] \in Blocks /\ ~Dead(field[y][r])
           /\ mem[field[y][r]] = "live" /\ KeepsFields(field[y][r])
           /\ kind[field[y][r]] \in KindsOf(kind[y], r)
<1>1. /\ r \in DOMAIN field[y] /\ DOMAIN field[y] = RolesOf(kind[y])
      /\ field[y][r] \in Blocks \cup {NULL}
      /\ PointerOK(kind[y], r, field[y][r])
  BY HoldsFields DEF FieldsFit
<1>2. field[y][r] \in Blocks /\ kind[field[y][r]] \in KindsOf(kind[y], r)
  BY <1>1, HandleTreeAssumption DEF PointerOK
<1> QED BY <1>1, <1>2, PointedAlive, AliveKeeps

LEMMA ConnHeld ==
    ASSUME Inv, NEW y \in Blocks, KeepsFields(y), "conn" \in RolesOf(kind[y])
    PROVE  mem[Conn] = "live" /\ field[y].conn = Conn /\ ~Dead(Conn)
<1>1. "conn" \in Required(kind[y]) /\ KindsOf(kind[y], "conn") = {"conn"}
  BY DEF Required, KindsOf
<1>2. /\ field[y].conn \in Blocks /\ mem[field[y].conn] = "live"
      /\ kind[field[y].conn] = "conn" /\ ~Dead(field[y].conn)
  BY <1>1, AlwaysHeld
<1> QED BY <1>2 DEF Inv, KindOK

LEMMA TypeHeld ==
    ASSUME Inv, NEW y \in Blocks, KeepsFields(y),
           kind[y] \in {"object", "objectVar"}
    PROVE  /\ field[y].type \in Blocks /\ mem[field[y].type] = "live"
           /\ kind[field[y].type] = "objectType"
           /\ KeepsFields(field[y].type) /\ ~Dead(field[y].type)
<1>1. "type" \in RolesOf(kind[y]) BY RolesAre DEF VarKinds
<1>2. "type" \in Required(kind[y]) /\ KindsOf(kind[y], "type") = {"objectType"}
  BY DEF Required, KindsOf
<1> QED BY <1>1, <1>2, AlwaysHeld

LEMMA TypeAnchored ==
    ASSUME Inv, NEW t \in Blocks, KeepsFields(t), kind[t] = "objectType"
    PROVE  mem[Conn] = "live"
<1>1. "conn" \in RolesOf(kind[t]) BY RolesAre
<1> QED BY <1>1, ConnHeld

LEMMA NewObjectKeeps ==
    ASSUME Inv, NEW h \in Blocks, Idle, NEW t \in Blocks, mem[t] = "live",
           kind[t] = "objectType", NewObject(h, t), UNCHANGED varVars
    PROVE  Inv'
<1>1. Fit("object", ObjectFields(t, NULL)) BY ObjectFieldsFit
<1>2. UNCHANGED <<quota, closing, lastRowid, lost>> BY DEF NewObject, varVars
<1>3. Allocate(h, "object", ObjectFields(t, NULL)) /\ OciOf(h) /\ Ends(h)
  BY DEF NewObject, OciOf, Ends
<1>4. NewSlot(h, "object") BY DEF NewObject, NewSlot, Listed, Lists
<1> QED BY <1>1, <1>2, <1>3, <1>4, IdleBirth

LEMMA PartTypesAre ==
    ASSUME Inv, NEW o \in Blocks, KeepsFields(o), kind[o] = "object",
           NEW t \in PartTypes(o)
    PROVE  t \in Blocks /\ mem[t] = "live" /\ kind[t] = "objectType"
<1>1. CASE t = field[field[o].type].element /\ t # NULL
  <2>1. PICK y : y = field[o].type OBVIOUS
  <2>2. y \in Blocks /\ KeepsFields(y) /\ kind[y] = "objectType"
    BY <2>1, TypeHeld
  <2>3. "element" \in RolesOf(kind[y])
        /\ KindsOf(kind[y], "element") = {"objectType"}
    BY <2>2, RolesAre DEF KindsOf
  <2> QED BY <1>1, <2>1, <2>2, <2>3, AlwaysHeld
<1>2. ASSUME NEW a \in Blocks, Has(a, "objectAttr"), t = field[a].valueType,
             t # NULL
      PROVE  t \in Blocks /\ mem[t] = "live" /\ kind[t] = "objectType"
  <2>1. KeepsFields(a) /\ kind[a] = "objectAttr" BY <1>2, HasAlive
  <2>2. "valueType" \in RolesOf(kind[a])
        /\ KindsOf(kind[a], "valueType") = {"objectType"}
    BY <2>1, RolesAre DEF KindsOf
  <2> QED BY <1>2, <2>1, <2>2, AlwaysHeld
<1> QED BY <1>1, <1>2 DEF PartTypes

LEMMA NewPartKeeps ==
    ASSUME Inv, NEW h \in Blocks, Idle, NEW o \in Blocks, mem[o] = "live",
           kind[o] = "object", NEW t \in Blocks, mem[t] = "live",
           kind[t] = "objectType", NewPart(o, t, h), UNCHANGED varVars
    PROVE  Inv'
<1>1. Fit("object", ObjectFields(t, o)) BY ObjectFieldsFit
<1>2. UNCHANGED <<quota, closing, lastRowid, lost>>
  BY DEF NewPart, listVars, varVars
<1>3. Allocate(h, "object", ObjectFields(t, o)) /\ OciOf(h) /\ Ends(h)
  BY DEF NewPart, OciOf, Ends
<1>4. NewSlot(h, "object") BY DEF NewPart, NewSlot, listVars
<1> QED BY <1>1, <1>2, <1>3, <1>4, IdleBirth

PartMakes(x, h) ==
    CreateObject(x, h) \/ CopyObject(x, h) \/ GetValue(x, h) \/ SetValue(x, h)
LEMMA PartMakesKeeps ==
    ASSUME Inv, NEW h \in Blocks, NEW x \in Blocks, PartMakes(x, h),
           UNCHANGED varVars
    PROVE  Inv'
<1>1. CASE CreateObject(x, h)
  <2>1. Has(x, "objectType") /\ NewObject(h, x)
    BY <1>1 DEF CreateObject, TypeCheck
  <2> QED BY <2>1, HasAlive, NewObjectKeeps
<1>2. ASSUME Has(x, "object")
      PROVE  /\ Idle /\ mem[x] = "live" /\ kind[x] = "object" /\ KeepsFields(x)
             /\ field[x].type \in Blocks /\ mem[field[x].type] = "live"
             /\ kind[field[x].type] = "objectType" /\ mem[Conn] = "live"
  BY <1>2, HasAlive, TypeHeld, TypeAnchored
<1>3. CASE CopyObject(x, h)
  BY <1>2, <1>3, NewObjectKeeps DEF CopyObject, ObjectCheck
<1>4. CASE GetValue(x, h)
  <2>1. Has(x, "object") BY <1>4 DEF GetValue, ObjectCheck
  <2>2. ASSUME NEW t \in PartTypes(x), NewPart(x, t, h)
        PROVE  Inv'
    <3>1. t \in Blocks /\ mem[t] = "live" /\ kind[t] = "objectType"
      BY <1>2, <2>1, PartTypesAre
    <3> QED BY <1>2, <2>1, <2>2, <3>1, NewPartKeeps
  <2>3. CASE NewLob(h) BY <1>2, <2>1, <2>3, NewLobKeeps
  <2> QED BY <1>4, <2>2, <2>3 DEF GetValue
<1>5. CASE SetValue(x, h)
  <2>1. Has(x, "object") BY <1>5 DEF SetValue, ObjectCheck
  <2> QED BY <1>2, <1>5, <2>1, NewLobKeeps
<1> QED BY <1>1, <1>3, <1>4, <1>5 DEF PartMakes

LEMMA LobMakesKeeps ==
    ASSUME Inv, NEW h \in Blocks, UNCHANGED varVars,
           NewTempLob(h) \/ \E l \in Blocks : CopyLob(l, h)
    PROVE  Inv'
<1>1. CASE NewTempLob(h)
  <2>1. Has(Conn, "conn") /\ NewLob(h) BY <1>1 DEF NewTempLob
  <2> QED BY <2>1, HasAlive, ConnIsBlock, NewLobKeeps
<1>2. ASSUME NEW l \in Blocks, CopyLob(l, h) PROVE Inv'
  <2>1. Has(l, "lob") /\ NewLob(h) BY <1>2 DEF CopyLob, LobCheck
  <2>2. Idle /\ KeepsFields(l) /\ kind[l] = "lob" BY <2>1, HasAlive
  <2>3. "conn" \in RolesOf(kind[l]) BY <2>2, RolesAre
  <2> QED BY <2>1, <2>2, <2>3, ConnHeld, NewLobKeeps
<1> QED BY <1>1, <1>2

LEMMA PrepareStmtKeeps ==
    ASSUME Inv, NEW h \in Blocks, NEW k \in StmtKinds, PrepareStmt(h, k)
    PROVE  Inv'
<1>1. Idle /\ mem[Conn] = "live"
  BY HasAlive, ConnIsBlock DEF PrepareStmt, ConnMakes
<1>2. Fit(k, StmtFields) /\ k \notin {"none", "conn"}
  BY <1>1, StmtFieldsFit DEF StmtKinds, Queries
<1>3. UNCHANGED <<quota, closing, lastRowid, lost>> BY DEF PrepareStmt, varVars
<1>4. Allocate(h, k, StmtFields) /\ OciOf(h) /\ Ends(h)
  BY DEF PrepareStmt, OciOf, Ends
<1>5. NewSlot(h, k) BY DEF PrepareStmt, NewSlot, Listed, Lists
<1> QED BY <1>1, <1>2, <1>3, <1>4, <1>5, IdleBirth

(* A variable, with the work that it is made for.                           *)
LEMMA DefineTyped ==
    ASSUME NEW q \in Blocks, NEW v \in Blocks
    PROVE  /\ DefineWork(q, v) \in Works /\ DefineWork(q, v).do = "define"
           /\ DefineWork(q, v).h = q /\ DefineWork(q, v).arg = v
<1>1. PICK w : w = WorkOn("define", q) OBVIOUS
<1>2. w \in Works /\ w.do = "define" /\ w.h = q
  BY <1>1, WorkTyped DEF WorkNames, LastWorks
<1>3. DefineWork(q, v) = [w EXCEPT !.arg = v] BY <1>1 DEF DefineWork
<1> QED BY <1>2, <1>3 DEF Works

VarFor(w, h) == \/ w.do = "give" /\ w.h = h
                \/ /\ w.do = "define" /\ w.arg = h
                   /\ user[w.h] > 0 /\ IsStmt(w.h) /\ ~closing[w.h]
LEMMA NewVarBirth ==
    ASSUME Inv, Idle, mem[Conn] = "live", NEW h \in Blocks,
           NEW k \in VarKinds, AllocateVar(h, k), NEW w \in Works,
           VarFor(w, h), todo' = InitBuffer(h, k) \o <<w>>,
           UNCHANGED <<quota, oci, listVars, conn, user, varVars>>
    PROVE  Inv'
<1>1. PICK t \in Types(k) : Allocate(h, k, VarFields(t)) BY DEF AllocateVar
<1>2. PICK f : f = VarFields(t) OBVIOUS
<1>3. /\ mem[h] = "unused" /\ mem' = [mem EXCEPT ![h] = "live"]
      /\ kind' = [kind EXCEPT ![h] = k] /\ field' = [field EXCEPT ![h] = f]
      /\ refCount' = [y \in Blocks |->
                         IF y = h THEN 1 ELSE refCount[y] + CountOf(f, y)]
      /\ h \in First(Room(k))
  BY <1>1, <1>2 DEF Allocate, Make
<1>4. /\ t \in Blocks \cup {NULL} /\ (k = "objectVar" => t # NULL)
      /\ (t # NULL => mem[t] = "live" /\ kind[t] = "objectType")
  BY <1>1, HandleTreeAssumption DEF Types
<1>5. Fit(k, f) BY <1>2, <1>4, VarFieldsFit
<1>7. UserTyped /\ UNCHANGED <<quota, closing, lastRowid, lost, lists>>
  BY DEF UserTyped, Inv, HandlesTypes, listVars, varVars
<1>8. NewHandle(h, k, f)
  <2>1. Takes(h, k, f) BY <1>3, <1>5 DEF Takes, Fit
  <2>2. k \notin {"none", "conn"} /\ (k = "stmtVar" => Allowed("stmtVar"))
    BY <1>3 DEF VarKinds, First, Room
  <2> QED BY <1>3, <1>7, <2>1, <2>2 DEF NewHandle, OciOf
<1>9. NewSlot(h, k) BY <1>7 DEF NewSlot
<1>10. /\ kind'[h] = k /\ refCount'[h] = 1 /\ field'[h] = f
       /\ \A y \in Blocks \ {h} : kind'[y] = kind[y]
       /\ mem'[h] = "live" /\ f.value = NULL
  BY <1>2, <1>3 DEF Inv, HandlesTypes, VarFields
<1>11. IsVar(h)' BY <1>10 DEF IsVar
<1>12. WorkOK(w)'
  <2>1. CASE w.do = "give"
    BY <1>10, <1>11, <2>1 DEF VarFor, WorkOK, FreeWorks, CloseWorks, SweepWorks
  <2>2. CASE w.do = "define"
    <3>1. w.h \in Blocks /\ w.h # h BY <2>2, UnusedIs, <1>3 DEF Works, VarFor
    <3>2. user'[w.h] > 0 /\ IsStmt(w.h)' /\ ~closing'[w.h]
      BY <1>7, <1>10, <2>2, <3>1 DEF VarFor, IsStmt
    <3>3. w.arg = h /\ h # NULL BY <2>2, HandleTreeAssumption DEF VarFor
    <3> QED BY <1>10, <1>11, <2>2, <3>2, <3>3 DEF WorkOK, FreeWorks,
        CloseWorks, SweepWorks
  <2> QED BY <2>1, <2>2 DEF VarFor
<1>13. \A y : References(w, y) = Is(h, y)
  BY DEF References, RefersTo, Is, VarFor
<1>14. CallsFine /\ \A y \in Blocks : ~FreesIn(todo', y)
                                      /\ PendingIn(todo', y) = References(w, y)
  <2>1. CASE k \in {"objectVar", "bytesVar"}
    <3>1. todo' = <<w>> BY <2>1 DEF InitBuffer
    <3>2. w.do \in LastWorks \cup {"free", "unref"} /\ w.do # "free"
      BY DEF VarFor, LastWorks
    <3>3. /\ CallsFine
          /\ \A y : /\ FreesIn(todo', y) <=> w.do = "free" /\ w.h = y
                    /\ PendingIn(todo', y) = References(w, y)
      <4> HIDE DEF CallsFine, References, FreesIn
      <4> QED BY <1>12, <3>1, <3>2, OneCallFine
    <3> QED BY <3>2, <3>3
  <2>2. CASE k \notin {"objectVar", "bytesVar"}
    <3>1. PICK a : a = Prefetch(h, "new") OBVIOUS
    <3>2. a \in Works /\ a.do = "prefetch" /\ a.h = h /\ a.why = "new"
      BY <3>1, PrefetchTyped DEF Reasons
    <3>3. todo' = <<a, w>>
      <4>1. InitBuffer(h, k) = <<a>> BY <2>2, <3>1 DEF InitBuffer
      <4>2. <<a>> \o <<w>> = <<a, w>> BY <3>2, Pair
      <4> QED BY <4>1, <4>2
    <3>4. WorkOK(a)'
      BY <1>10, <1>11, <2>2, <3>2 DEF WorkOK, FreeWorks, CloseWorks, SweepWorks
    <3>5. \/ w.do = "give" /\ w.h = a.h
          \/ w.do = "define" /\ w.arg = a.h
      BY <3>2 DEF VarFor
    <3> HIDE DEF CallsFine, References, FreesIn
    <3> QED BY <1>12, <3>2, <3>3, <3>4, <3>5, TwoCallsFine
  <2> QED BY <2>1, <2>2
<1>15. Outcome(h)
  <2>1. /\ user'[h] = 0 /\ ~FreesIn(todo', h) /\ PendingIn(todo', h) = 1
    <3>1. user[h] = 0 /\ References(w, h) = 1 BY <1>3, <1>13, UnusedIs DEF Is
    <3> QED BY <1>14, <3>1
  <2>2. ASSUME NEW y \in Blocks \ {h}
        PROVE  /\ user'[y] = user[y] /\ ~FreesIn(todo', y)
               /\ PendingIn(todo', y) = PendingIn(todo, y)
    <3>1. PendingIn(todo, y) = 0 BY IdleIs
    <3>2. References(w, y) = 0 BY <1>13 DEF Is
    <3> QED BY <1>14, <3>1, <3>2
  <2> QED BY <2>1, <2>2 DEF Outcome
<1>16. NoneFreed(todo) BY IdleIs
<1> QED BY <1>3, <1>7, <1>8, <1>9, <1>14, <1>15, <1>16, BirthFreeStep

LEMMA NewVarKeeps ==
    ASSUME Inv, NEW h \in Blocks, NEW k \in VarKinds, NewVar(h, k)
    PROVE  Inv'
<1>1. Idle /\ mem[Conn] = "live" BY HasAlive, ConnIsBlock DEF NewVar, ConnMakes
<1>2. PICK w : w = WorkOn("give", h) OBVIOUS
<1>3. w \in Works /\ VarFor(w, h)
  BY <1>2, WorkTyped DEF WorkNames, LastWorks, VarFor
<1> QED BY <1>1, <1>2, <1>3, NewVarBirth DEF NewVar

LEMMA DefineNewKeeps ==
    ASSUME Inv, NEW h \in Blocks, NEW k \in VarKinds, NEW q \in Blocks,
           DefineNew(q, h, k)
    PROVE  Inv'
<1>1. StmtCheck(q) /\ IsStmt(q) /\ Idle /\ user[q] > 0 /\ oci[q] = "open"
  BY DEF DefineNew, StmtCheck, HasStmt
<1>2. ~closing[q] BY <1>1, OpenNotClosing
<1>3. mem[Conn] = "live"
  <2>1. KeepsFields(q) /\ "conn" \in RolesOf(kind[q])
    BY <1>1, UsersAlive, RolesAre DEF IsStmt
  <2> QED BY <2>1, ConnHeld
<1>4. PICK w : w = DefineWork(q, h) OBVIOUS
<1>5. w \in Works /\ VarFor(w, h) BY <1>1, <1>2, <1>4, DefineTyped DEF VarFor
<1> QED BY <1>1, <1>3, <1>4, <1>5, NewVarBirth DEF DefineNew

(* Two types, or an attribute and its type, at once.                        *)
TwoFields(k, f, a, t, b, x) ==
    /\ k \in {"objectType", "objectAttr"} /\ a # b
    /\ RolesOf(k) = {a, b} /\ KindsOf(k, a) = {"objectType"}
    /\ DOMAIN f = {a, b} /\ f = [r \in {a, b} |-> f[r]]
    /\ f[a] = t /\ f[b] = x /\ x \in Blocks /\ Points(k, b, x)
BothCounted(h, f, t, g) ==
    \A y \in Blocks :
        /\ CountOf(f, y) \in Nat /\ CountOf(g, y) \in Nat
        /\ PointersIn(field', y) =
               PointersIn(field, y) + CountOf(f, y) + CountOf(g, y)
        /\ mem[y] # "live" => CountOf(f, y) = Is(t, y) /\ CountOf(g, y) = 0

LEMMA BothFields ==
    ASSUME Inv, mem[Conn] = "live", NEW h \in Blocks, NEW t \in Blocks, h # t,
           mem[h] = "unused", mem[t] = "unused", NEW k, NEW f, NEW g,
           NEW a, NEW b, NEW x, TwoFields(k, f, a, t, b, x),
           g = TypeFields(NULL), field' = [field EXCEPT ![h] = f, ![t] = g]
    PROVE  BothCounted(h, f, t, g)
<1>1. Fit("objectType", g) BY TypeFieldsFit
<1>2. /\ DOMAIN g = {"conn", "element"} /\ g["conn"] = Conn
      /\ g["element"] = NULL
  BY DEF TypeFields
<1>3. ASSUME NEW y \in Blocks
      PROVE  CountOf(g, y) = Is(Conn, y) /\ CountOf(f, y) = Is(t, y) + Is(x, y)
  <2>1. CountOf(g, y) = CountOn(g, DOMAIN g, y)
        /\ CountOf(f, y) = CountOn(f, DOMAIN f, y)
    BY DEF CountOf, CountOn
  <2>2. CountOn(g, DOMAIN g, y) = Is(g["conn"], y) + Is(g["element"], y)
    BY <1>2, CountTwo
  <2>3. CountOn(f, DOMAIN f, y) = Is(f[a], y) + Is(f[b], y)
    BY CountTwo DEF TwoFields
  <2>4. Is(NULL, y) = 0 /\ Is(Conn, y) \in Nat BY HandleTreeAssumption DEF Is
  <2> QED BY <1>2, <2>1, <2>2, <2>3, <2>4 DEF TwoFields
<1>4. ASSUME NEW y \in Blocks
      PROVE  /\ CountOf(f, y) \in Nat /\ CountOf(g, y) \in Nat
             /\ mem[y] # "live" => CountOf(f, y) = Is(t, y) /\ CountOf(g, y) = 0
  <2>1. Is(Conn, y) \in Nat /\ Is(t, y) \in Nat /\ Is(x, y) \in Nat BY DEF Is
  <2>2. mem[y] # "live" => Is(Conn, y) = 0 /\ Is(x, y) = 0
    BY HandleTreeAssumption DEF Is, TwoFields, Points
  <2> HIDE DEF Is
  <2> QED BY <1>3, <2>1, <2>2
<1>5. PICK F : F = [field EXCEPT ![t] = g] OBVIOUS
<1>6. PICK G : G = field' OBVIOUS
<1>7. /\ F[h] = NoFields /\ G[h] = f /\ G[t] = g
      /\ \A y \in Blocks \ {h} : G[y] = F[y]
  <2>1. field[h] = NoFields /\ DOMAIN field = Blocks
    BY UnusedIs DEF Inv, HandlesTypes
  <2> QED BY <1>5, <1>6, <2>1
<1>8. IsFiniteSet(DOMAIN g) /\ IsFiniteSet(DOMAIN f)
  <2>1. IsFiniteSet(DOMAIN g) BY <1>1, RolesFinite DEF Fit, FieldsFit
  <2>2. IsFiniteSet(DOMAIN f) BY RolesFinite DEF TwoFields
  <2> QED BY <2>1, <2>2
<1>9. PointersGrow(F, g) BY <1>5, <1>8, PointersBorn
<1>10. FiniteFields(F) /\ FiniteFields(G)
  BY <1>7, <1>8, <1>9 DEF PointersGrow, FiniteFields
<1>11. ASSUME NEW y \in Blocks
       PROVE  PointersIn(G, y) =
                  PointersIn(field, y) + CountOf(f, y) + CountOf(g, y)
  <2>1. Turned(F, G, h, y) BY <1>7, <1>10, PointersTurn
  <2>2. CountOf(F[h], y) = 0
    <3>1. {r \in DOMAIN NoFields : NoFields[r] = y} = {} BY DEF NoFields
    <3> QED BY <1>7, <3>1, FS_EmptySet DEF CountOf
  <2>3. /\ PointersIn(F, y) = PointersIn(field, y) + CountOf(g, y)
        /\ CountOf(g, y) \in Nat /\ PointersIn(F, y) \in Nat
    BY <1>9 DEF PointersGrow
  <2>4. PointersIn(field, y) \in Nat BY Parts
  <2> QED BY <1>4, <1>7, <2>1, <2>2, <2>3, <2>4 DEF Turned
<1> QED BY <1>4, <1>6, <1>11 DEF BothCounted

LEMMA DescribeBothKeeps ==
    ASSUME Inv, Idle, mem[Conn] = "live", NEW h \in Blocks, NEW t \in Blocks,
           h # t, mem[h] = "unused", mem[t] = "unused", NEW k, NEW f, NEW a,
           NEW b, NEW x, TwoFields(k, f, a, t, b, x), DescribeBoth(h, k, f, t),
           UNCHANGED varVars
    PROVE  Inv'
<1>1. PICK g : g = TypeFields(NULL) OBVIOUS
<1>2. PICK new : new = {h, t} OBVIOUS
<1>3. /\ UNCHANGED <<quota, oci, closing, lists, lastRowid, lost>>
      /\ todo' = <<>> /\ user' = [user EXCEPT ![h] = @ + 1]
      /\ field' = [field EXCEPT ![h] = f, ![t] = g]
  BY <1>1 DEF DescribeBoth, Give, Idle, listVars, varVars
<1>4. BothCounted(h, f, t, g) BY <1>1, <1>3, BothFields
<1>5. ASSUME NEW y \in Blocks
      PROVE  /\ mem'[y] = IF y \in new THEN "live" ELSE mem[y]
             /\ kind'[y] = IF y = h THEN k
                           ELSE IF y = t THEN "objectType" ELSE kind[y]
             /\ refCount'[y] = IF y \in new THEN 1
                               ELSE refCount[y] + CountOf(f, y) + CountOf(g, y)
             /\ field'[y] = IF y = h THEN f ELSE IF y = t THEN g ELSE field[y]
  BY <1>1, <1>2, <1>3 DEF DescribeBoth, Inv, HandlesTypes
<1>6. Born(new)
  <2>1. mem' \in [Blocks -> {"unused", "live", "freed"}]
    BY DEF DescribeBoth, Inv, HandlesTypes
  <2>2. kind' = [y \in Blocks |-> kind'[y]] /\ oci' = [y \in Blocks |-> oci'[y]]
    BY <1>3 DEF DescribeBoth, Inv, HandlesTypes
  <2>3. refCount' \in [Blocks -> Int]
    <3>1. refCount' = [y \in Blocks |-> refCount'[y]] BY DEF DescribeBoth
    <3>2. \A y \in Blocks : refCount'[y] \in Int
      BY <1>4, <1>5, Parts DEF BothCounted
    <3> QED BY <3>1, <3>2
  <2>4. user' \in [Blocks -> Nat] BY <1>3 DEF Inv, HandlesTypes
  <2>5. ASSUME NEW y \in new
        PROVE  kind'[y] \notin {"none", "conn", "stmtVar"}
    BY <1>2, <1>5 DEF TwoFields
  <2>6. \A y \in Blocks \ new : kind'[y] = kind[y] BY <1>2, <1>5
  <2> QED BY <1>3, <1>5, <2>1, <2>2, <2>3, <2>4, <2>5, <2>6 DEF Born
<1>7. kind[h] = "none" /\ kind[t] = "none" BY UnusedIs
<1>8. BornFields(new)
  <2>1. FieldsFit("objectType", g) BY <1>1, TypeFieldsFit DEF Fit
  <2>2. /\ g \in [{"conn", "element"} -> Blocks \cup {NULL}]
        /\ RolesOf("objectType") = {"conn", "element"}
        /\ g["conn"] = Conn /\ g["element"] = NULL
    BY <1>1, <2>1, RolesAre DEF FieldsFit, TypeFields
  <2>3. Conn \notin new /\ x \notin new
    BY <1>2, HandleTreeAssumption DEF TwoFields, Points
  <2>4. FieldsFit("objectType", g)'
    <3>1. \A r \in RolesOf("objectType") : PointerOK("objectType", r, g[r])
      BY <2>1 DEF FieldsFit
    <3>2. kind'[Conn] = kind[Conn] BY <1>2, <1>5, <2>3, HandleTreeAssumption
    <3>3. \A r \in RolesOf("objectType") : PointerOK("objectType", r, g[r])'
      BY <2>2, <3>1, <3>2 DEF PointerOK
    <3> QED BY <2>1, <3>3 DEF FieldsFit, Queues
  <2>5. FieldsFit(k, f)'
    <3>1. f \in [{a, b} -> Blocks \cup {NULL}] BY DEF TwoFields
    <3>2. PointerOK(k, b, x) /\ x # NULL
      BY HandleTreeAssumption DEF TwoFields, Points
    <3>3. kind'[x] = kind[x] BY <1>2, <1>5, <2>3 DEF TwoFields
    <3>4. PointerOK(k, b, x)' BY <3>2, <3>3 DEF PointerOK
    <3>5. PointerOK(k, a, t)'
      <4>1. kind'[t] = "objectType" /\ t # NULL BY <1>5, HandleTreeAssumption
      <4> QED BY <4>1 DEF TwoFields, PointerOK
    <3>6. k \notin Queues BY DEF TwoFields, Queues
    <3>7. \A r \in RolesOf(k) : PointerOK(k, r, f[r])'
      BY <3>4, <3>5 DEF TwoFields
    <3> QED BY <3>1, <3>6, <3>7 DEF FieldsFit, TwoFields
  <2>6. ASSUME NEW y \in new PROVE FieldsFit(kind[y], field[y])'
    <3>1. CASE y = h
      <4>1. kind'[y] = k /\ field'[y] = f BY <1>5, <3>1
      <4> QED BY <2>5, <4>1 DEF FieldsFit, PointerOK
    <3>2. CASE y = t
      <4>1. kind'[y] = "objectType" /\ field'[y] = g BY <1>5, <3>2
      <4> QED BY <2>4, <4>1 DEF FieldsFit, PointerOK
    <3> QED BY <1>2, <3>1, <3>2
  <2>7. field' = [y \in Blocks |-> field'[y]] BY <1>3 DEF Inv, HandlesTypes
  <2>8. \A y \in Blocks \ new : field'[y] = field[y] BY <1>2, <1>5
  <2> QED BY <2>6, <2>7, <2>8 DEF BornFields
<1>9. BornListed(new) /\ BornElsewhere(new)
  BY <1>3 DEF BornListed, BornElsewhere, Inv, HandlesTypes
<1>10. /\ CallsFine
       /\ \A y : ~FreesIn(todo', y) /\ PendingIn(todo', y) = 0
  BY <1>3, NoCallFine
<1>11. NoneFreed(todo) /\ \A y : PendingIn(todo, y) = 0 BY IdleIs
<1>12. ASSUME NEW y \in Blocks PROVE CountOK(y)'
  <2>1. /\ user[y] \in Nat /\ PointersIn(field, y) \in Nat
        /\ RowidsIn(lastRowid, closing, y) \in Nat /\ Forgotten(y) \in Nat
        /\ refCount[y] \in Int
    BY Parts
  <2>2. /\ RowidsIn(lastRowid, closing, y)' = RowidsIn(lastRowid, closing, y)
        /\ Forgotten(y)' = Forgotten(y) /\ PendingIn(todo', y) = 0
        /\ PendingIn(todo, y) = 0
    BY <1>3, <1>10, <1>11 DEF RowidsIn, Forgotten
  <2>3. /\ CountOf(f, y) \in Nat /\ CountOf(g, y) \in Nat
        /\ PointersIn(field', y) =
               PointersIn(field, y) + CountOf(f, y) + CountOf(g, y)
        /\ mem[y] # "live" => CountOf(f, y) = Is(t, y) /\ CountOf(g, y) = 0
    BY <1>4 DEF BothCounted
  <2>4. user'[y] = user[y] + Is(h, y) BY <1>3, <2>1 DEF Is, Inv, HandlesTypes
  <2>5. Is(h, y) \in Nat BY DEF Is
  <2>6. Counted(y)' = Counted(y) + Is(h, y) + CountOf(f, y) + CountOf(g, y)
    BY <2>1, <2>2, <2>3, <2>4, <2>5 DEF Counted
  <2>7. /\ Dead(y)' <=> mem'[y] # "live"
        /\ Dead(y) <=> mem[y] # "live"
    BY <1>10, <1>11 DEF Dead, NoneFreed
  <2>8. CountOK(y) /\ Counted(y) \in Nat BY Parts DEF Inv
  <2>9. CASE y \in new
    <3>1. mem[y] = "unused" /\ Dead(y) /\ refCount'[y] = 1 /\ ~Dead(y)'
      BY <1>2, <1>5, <2>7, <2>9
    <3>2. Counted(y) = 0 BY <2>8, <3>1 DEF CountOK
    <3>3. Is(h, y) + Is(t, y) = 1 /\ Is(t, y) \in Nat BY <1>2, <2>9 DEF Is
    <3>4. Counted(y)' = 1 BY <2>3, <2>5, <2>6, <3>1, <3>2, <3>3
    <3> QED BY <3>1, <3>4 DEF CountOK
  <2>10. CASE y \notin new
    <3>1. /\ Is(h, y) = 0 /\ Is(t, y) = 0 /\ kind'[y] = kind[y]
          /\ Dead(y)' <=> Dead(y)
          /\ refCount'[y] = refCount[y] + CountOf(f, y) + CountOf(g, y)
      BY <1>2, <1>5, <2>7, <2>10 DEF Is
    <3>2. CASE Dead(y) BY <2>3, <2>6, <2>7, <2>8, <3>1, <3>2 DEF CountOK
    <3>3. CASE ~Dead(y)
      <4>1. PICK c : c = Counted(y)' OBVIOUS
      <4>2. c = Counted(y) + CountOf(f, y) + CountOf(g, y)
        BY <2>3, <2>6, <2>8, <3>1, <4>1
      <4>3. /\ refCount[y] >= 1 /\ refCount[y] >= Counted(y)
            /\ kind[y] # "json" => refCount[y] = Counted(y)
        BY <2>8, <3>3 DEF CountOK
      <4>4. /\ refCount'[y] >= 1 /\ refCount'[y] >= c
            /\ kind[y] # "json" => refCount'[y] = c
        BY <2>1, <2>3, <2>8, <3>1, <4>2, <4>3
      <4> QED BY <3>1, <3>3, <4>1, <4>4 DEF CountOK
    <3> QED BY <3>2, <3>3
  <2> QED BY <2>9, <2>10
<1>13. new \in SUBSET Blocks /\ \A y \in new : mem[y] = "unused" BY <1>2
<1> QED BY <1>6, <1>8, <1>9, <1>10, <1>11, <1>12, <1>13, BirthStep DEF
    CallsFine

LEMMA TypeMakesKeeps ==
    ASSUME Inv, NEW h \in Blocks, mem[h] = "unused", UNCHANGED varVars,
           GetObjectType(h) \/ \E x \in Blocks : GetAttributes(x, h)
    PROVE  Inv'
<1>1. CASE GetObjectType(h)
  <2>1. Idle /\ mem[Conn] = "live"
    BY <1>1, HasAlive, ConnIsBlock DEF GetObjectType
  <2>2. ASSUME NEW ok \in BOOLEAN,
               Describe(h, "objectType", TypeFields(NULL), ok)
        PROVE  Inv'
    BY <2>1, <2>2, TypeFieldsFit, DescribeKeeps
  <2>3. ASSUME NEW t \in First(Room("objectType") \ {h}),
               DescribeBoth(h, "objectType", TypeFields(t), t)
        PROVE  Inv'
    <3>1. t \in Blocks /\ t # h /\ mem[t] = "unused" BY DEF First, Room, Unused
    <3>2. PICK f : f = TypeFields(t) OBVIOUS
    <3>3. TwoFields("objectType", f, "element", t, "conn", Conn)
      <4>1. /\ DOMAIN f = {"element", "conn"}
            /\ f = [r \in {"element", "conn"} |-> f[r]]
            /\ f["element"] = t /\ f["conn"] = Conn
        BY <3>2 DEF TypeFields
      <4>2. RolesOf("objectType") = {"element", "conn"} BY RolesAre
      <4>3. KindsOf("objectType", "element") = {"objectType"} BY DEF KindsOf
      <4> QED BY <2>1, <4>1, <4>2, <4>3, ConnFits, ConnIsBlock DEF TwoFields
    <3> QED BY <2>1, <2>3, <3>1, <3>2, <3>3, DescribeBothKeeps
  <2> QED BY <1>1, <2>2, <2>3 DEF GetObjectType
<1>2. ASSUME NEW x \in Blocks, GetAttributes(x, h) PROVE Inv'
  <2>1. Idle /\ mem[x] = "live" /\ kind[x] = "objectType" /\ KeepsFields(x)
    BY <1>2, HasAlive DEF GetAttributes, TypeCheck
  <2>2. ASSUME NEW ok \in BOOLEAN,
               Describe(h, "objectAttr", AttrFields(x, NULL), ok)
        PROVE  Inv'
    <3>1. Fit("objectAttr", AttrFields(x, NULL)) BY <2>1, AttrFieldsFit
    <3> QED BY <2>1, <2>2, <3>1, DescribeKeeps
  <2>3. ASSUME NEW t \in First(Room("objectType") \ {h}),
               DescribeBoth(h, "objectAttr", AttrFields(x, t), t)
        PROVE  Inv'
    <3>1. t \in Blocks /\ t # h /\ mem[t] = "unused" /\ mem[Conn] = "live"
      BY <2>1, TypeAnchored DEF First, Room, Unused
    <3>2. PICK f : f = AttrFields(x, t) OBVIOUS
    <3>3. TwoFields("objectAttr", f, "valueType", t, "belongsTo", x)
      <4>1. /\ DOMAIN f = {"valueType", "belongsTo"}
            /\ f = [r \in {"valueType", "belongsTo"} |-> f[r]]
            /\ f["valueType"] = t /\ f["belongsTo"] = x
        BY <3>2 DEF AttrFields
      <4>2. RolesOf("objectAttr") = {"valueType", "belongsTo"} BY RolesAre
      <4>3. KindsOf("objectAttr", "valueType") = {"objectType"} BY DEF KindsOf
      <4>4. Points("objectAttr", "belongsTo", x) BY <2>1, TypeFits
      <4> QED BY <4>1, <4>2, <4>3, <4>4 DEF TwoFields
    <3> QED BY <2>1, <2>3, <3>1, <3>2, <3>3, DescribeBothKeeps
  <2> QED BY <1>2, <2>2, <2>3 DEF GetAttributes
<1> QED BY <1>1, <1>2

-----------------------------------------------------------------------------
(* Handles that functions make for others, or drop when a call fails.       *)
PendingHeld(old) ==
    \A y \in Blocks :
        /\ ~FreesIn(todo', y)
        /\ \/ PendingIn(todo', y) = PendingIn(todo, y) + Is(old, y)
           \/ kind[y] = "json" /\ PendingIn(todo', y) = PendingIn(todo, y)

LEMMA HeldBirth ==
    ASSUME Inv, NEW h \in Blocks, NEW k, NEW f, NewHandle(h, k, f),
           NewSlot(h, k), NoneFreed(todo), NEW x \in Blocks, NEW r,
           HeldIn(h, k, f, x, r), CallsFine,
           UNCHANGED <<lastRowid, lost, user>>, PendingHeld(field[x][r])
    PROVE  Inv'
<1>1. PICK old : old = field[x][r] OBVIOUS
<1>2. mem[h] = "unused" /\ closing' = closing BY DEF NewHandle
<1>3. old # h BY <1>1, <1>2, UnusedIs DEF HeldIn
<1>4. BornFields({h}) /\ PointersAfter(f, old, h) BY <1>1, HeldFields
<1>5. BornElsewhere({h}) BY DEF BornElsewhere, Inv, HandlesTypes
<1>6. ASSUME NEW y \in Blocks
      PROVE  /\ RowidsIn(lastRowid, closing, y)' = RowidsIn(lastRowid, closing, y)
             /\ Forgotten(y)' = Forgotten(y) /\ user'[y] = user[y]
             /\ user[y] \in Nat /\ PendingIn(todo, y) \in Nat
             /\ RowidsIn(lastRowid, closing, y) \in Nat /\ Forgotten(y) \in Nat
             /\ Is(old, y) \in Nat
  <2>1. Is(old, y) \in Nat BY DEF Is
  <2> QED BY <1>2, <2>1, Parts DEF RowidsIn, Forgotten
<1>7. OwnedAfter(h, f, old, h)
  <2>1. Owned(h)' + Is(h, h) = IF FreesIn(todo', h) THEN 0 ELSE 1
    <3>1. /\ user[h] = 0 /\ PendingIn(todo, h) = 0 /\ Forgotten(h) = 0
          /\ RowidsIn(lastRowid, closing, h) = 0
      BY <1>2, UnusedIs
    <3>2. Is(old, h) = 0 /\ Is(h, h) = 1 BY <1>3 DEF Is
    <3>3. ~FreesIn(todo', h) /\ PendingIn(todo', h) = 0
      BY <1>1, <3>1, <3>2 DEF PendingHeld
    <3>4. Owned(h)' = 0 BY <1>6, <3>1, <3>3 DEF Owned
    <3> QED BY <3>2, <3>3, <3>4
  <2>2. ASSUME NEW y \in Blocks \ {h}
        PROVE  /\ ~FreesIn(todo', y)
               /\ \/ Owned(y)' = Owned(y) + Is(old, y)
                  \/ kind[y] = "json" /\ Owned(y)' = Owned(y)
    <3>1. CASE PendingIn(todo', y) = PendingIn(todo, y) + Is(old, y)
      <4>1. Owned(y)' = Owned(y) + Is(old, y) BY <1>6, <3>1 DEF Owned
      <4> QED BY <1>1, <4>1 DEF PendingHeld
    <3>2. CASE kind[y] = "json" /\ PendingIn(todo', y) = PendingIn(todo, y)
      <4>1. Owned(y)' = Owned(y) BY <1>6, <3>2 DEF Owned
      <4> QED BY <3>2, <4>1 DEF PendingHeld
    <3> QED BY <1>1, <3>1, <3>2 DEF PendingHeld
  <2> QED BY <2>1, <2>2 DEF OwnedAfter
<1> QED BY <1>3, <1>4, <1>5, <1>7, BirthOneStep

NothingLeft == NoneFreed(todo) /\ \A y : PendingIn(todo, y) = 0
LEMMA FailedBirth ==
    ASSUME Inv, NEW h \in Blocks, NEW k, NEW f, NewHandle(h, k, f),
           NothingLeft, field' = [field EXCEPT ![h] = f],
           UNCHANGED <<lists, lastRowid, lost, user>>, todo' = <<Free(h)>>
    PROVE  Inv'
<1>1. mem'[h] = "live" /\ mem[h] = "unused" BY OneBorn
<1>2. /\ CallsFine
      /\ \A y \in Blocks : /\ FreesIn(todo', y) <=> y = h
                           /\ PendingIn(todo', y) = 0
  BY <1>1, FreeFine
<1>3. user[h] = 0 BY <1>1, UnusedIs
<1>4. Outcome(h) BY <1>2, <1>3 DEF Outcome, NothingLeft
<1> QED BY <1>2, <1>4, BirthFreeStep DEF NothingLeft, NewSlot

(* The counts, when a handle takes a single reference.                      *)
LEMMA TakesOneOnly ==
    ASSUME Inv, NEW h \in Blocks, mem[h] = "unused", NEW z \in Blocks,
           mem[z] = "live", NEW k, NEW f, Fit(k, f), NEW a \in DOMAIN f,
           f[a] = z, \A r \in DOMAIN f : r # a => f[r] = NULL,
           refCount' = [refCount EXCEPT ![h] = 1, ![z] = @ + 1]
    PROVE  Takes(h, k, f)
<1>1. h # z /\ refCount \in [Blocks -> Int] BY DEF Inv, HandlesTypes
<1>2. ASSUME NEW y \in Blocks PROVE CountOf(f, y) = Is(z, y)
  <2>1. CASE y = z
    <3>1. {r \in DOMAIN f : f[r] = y} = {a} BY <2>1, HandleTreeAssumption
    <3> QED BY <2>1, <3>1, FS_Singleton DEF CountOf, Is
  <2>2. CASE y # z
    <3>1. {r \in DOMAIN f : f[r] = y} = {} BY <2>2, HandleTreeAssumption
    <3> QED BY <2>2, <3>1, FS_EmptySet DEF CountOf, Is
  <2> QED BY <2>1, <2>2
<1>3. ASSUME NEW y \in Blocks
      PROVE  refCount'[y] = IF y = h THEN 1 ELSE refCount[y] + CountOf(f, y)
  <2>1. refCount'[y] = IF y = h THEN 1
                       ELSE refCount[y] + Is(z, y)
    BY <1>1 DEF Is
  <2> QED BY <1>2, <2>1
<1>4. refCount' = [y \in Blocks |-> refCount'[y]] BY <1>1
<1> QED BY <1>3, <1>4 DEF Takes, Fit

LEMMA FreshIs ==
    ASSUME NEW h \in Fresh PROVE h \in Blocks /\ mem[h] = "unused"
BY DEF Fresh, First, Room, Unused

LEMMA MakeOptionsKeeps ==
    ASSUME Inv, NEW h \in Fresh, NEW q \in Blocks,
           NEW role \in {"deqOptions", "enqOptions"}, Idle, user[q] > 0,
           kind[q] \in Queues, MakeOptions(q, h, role), UNCHANGED varVars
    PROVE  Inv'
<1>1. h \in Blocks /\ mem[h] = "unused" BY FreshIs
<1>2. KeepsFields(q) /\ RolesOf(kind[q]) = DOMAIN field[q]
  BY UsersAlive, HoldsFields
<1>3. "conn" \in RolesOf(kind[q]) /\ role \in RolesOf(kind[q]) BY RolesAre
<1>4. mem[Conn] = "live" BY <1>2, <1>3, ConnHeld
<1>5. PICK f : f = OptionsFields OBVIOUS
<1>6. /\ Fit(role, f) /\ "conn" \in DOMAIN f /\ f["conn"] = Conn
      /\ \A r \in DOMAIN f : r # "conn" => f[r] = NULL
  BY <1>4, <1>5, ConnAloneFits DEF OptionsFields
<1>7. Takes(h, role, f)
  BY <1>1, <1>4, <1>6, TakesOneOnly, ConnIsBlock DEF MakeOptions
<1>8. UNCHANGED <<quota, closing, lists, user, lastRowid, lost>>
  BY DEF MakeOptions, listVars, varVars
<1>9. NewHandle(h, role, f)
  <2>1. OciOf(h) BY DEF MakeOptions, OciOf
  <2>2. UserTyped BY <1>8 DEF UserTyped, Inv, HandlesTypes
  <2> QED BY <1>1, <1>7, <1>8, <2>1, <2>2 DEF NewHandle, MakeOptions
<1>10. NothingLeft BY IdleIs DEF NothingLeft
<1>11. CASE /\ field' = [field EXCEPT ![h] = OptionsFields, ![q][role] = h]
            /\ UNCHANGED todo
  <2>1. q # h BY <1>1, UnusedIs, <1>2
  <2>2. /\ field' = [y \in Blocks |-> field'[y]] /\ field'[h] = f
        /\ \A y \in Blocks \ {h, q} : field'[y] = field[y]
        /\ field'[q] = [field[q] EXCEPT ![role] = h]
    BY <1>1, <1>5, <1>11, <2>1 DEF Inv, HandlesTypes
  <2>3. role \in KindsOf(kind[q], role) /\ ~IsStmt(q)
    BY PartsOfQueue DEF KindsOf, IsStmt
  <2>4. HeldIn(h, role, f, q, role) BY <1>2, <1>3, <2>2, <2>3 DEF HeldIn
  <2>5. todo' = <<>> /\ field[q][role] = NULL BY <1>11 DEF Idle, MakeOptions
  <2>6. CallsFine /\ \A y : ~FreesIn(todo', y) /\ PendingIn(todo', y) = 0
    BY <2>5, NoCallFine
  <2>7. PendingHeld(field[q][role])
    <3>1. \A y \in Blocks : Is(field[q][role], y) = 0
      BY <2>5, HandleTreeAssumption DEF Is
    <3> QED BY <1>10, <2>6, <3>1 DEF PendingHeld, NothingLeft
  <2> QED BY <1>1, <1>8, <1>9, <1>10, <2>4, <2>6, <2>7, HeldBirth DEF
      NothingLeft, NewSlot
<1>12. CASE /\ field' = [field EXCEPT ![h] = OptionsFields]
            /\ todo' = <<Free(h)>>
  BY <1>1, <1>5, <1>8, <1>9, <1>10, <1>12, FailedBirth
<1> QED BY <1>11, <1>12 DEF MakeOptions

LEMMA QueueMakesKeeps ==
    ASSUME Inv, NEW h \in Fresh, NEW q \in Blocks,
           GetDeqOptions(q, h) \/ GetEnqOptions(q, h), UNCHANGED varVars
    PROVE  Inv'
BY MakeOptionsKeeps DEF GetDeqOptions, GetEnqOptions

(* Making the messages of a queue, and their payloads.                      *)
LEMMA Populating ==
    ASSUME Inv, Doing("populate"), NEW q, q = Subject, NEW place,
           place = Places[Head(todo).i]
    PROVE  /\ q \in Blocks /\ user[q] > 0 /\ kind[q] \in Queues
           /\ KeepsFields(q) /\ ~IsStmt(q) /\ q = Head(todo).h
           /\ DOMAIN field[q] = RolesOf(kind[q])
           /\ place \in {"first", "second"} /\ place \in RolesOf(kind[q])
           /\ KindsOf(kind[q], place) = {"msgProps"}
           /\ mem[Conn] = "live" /\ NothingLeft
<1> PICK w : w = Head(todo) OBVIOUS
<1>1. w \in Works /\ w.do = "populate" /\ WorkOK(w) BY LastCall DEF LastWorks
<1>2. /\ q = w.h /\ q \in Blocks /\ user[q] > 0 /\ kind[q] \in Queues
      /\ w.i \in 1 .. Count(w.propagate)
  BY <1>1 DEF WorkOK, Subject, Works
<1>3. w.i \in {1, 2} BY <1>2 DEF Count
<1>4. place \in {"first", "second"} BY <1>3 DEF Places
<1>5. KeepsFields(q) /\ DOMAIN field[q] = RolesOf(kind[q])
  BY <1>2, UsersAlive, HoldsFields
<1>6. place \in RolesOf(kind[q]) /\ "conn" \in RolesOf(kind[q])
  BY <1>2, <1>4, RolesAre
<1>7. KindsOf(kind[q], place) = {"msgProps"} BY <1>4 DEF KindsOf
<1>8. mem[Conn] = "live" BY <1>2, <1>5, <1>6, ConnHeld
<1>9. ~IsStmt(q) BY <1>2, PartsOfQueue DEF IsStmt
<1>10. \A h : PendingIn(todo, h) = 0 BY NothingPending DEF LastWorks
<1>11. NoneFreed(todo) BY LastCall DEF LastWorks, NoneFreed
<1> QED BY <1>2, <1>4, <1>5, <1>6, <1>7, <1>8, <1>9, <1>10, <1>11 DEF
    NothingLeft

NoneAfter == \A y : ~FreesIn(todo', y) /\ PendingIn(todo', y) = 0
LEMMA SilentFine ==
    ASSUME NEW w \in Works, w.do \in {"populate", "dequeue", "bind"},
           todo' = <<w>>, WorkOK(w)'
    PROVE  CallsFine /\ NoneAfter
<1>1. w.do \in LastWorks \cup {"free", "unref"} /\ w.do # "free"
  BY DEF LastWorks
<1>2. \A y : References(w, y) = 0 BY DEF References, RefersTo
<1>3. /\ CallsFine
      /\ \A y : /\ FreesIn(todo', y) <=> w.do = "free" /\ w.h = y
                /\ PendingIn(todo', y) = References(w, y)
  <2> HIDE DEF CallsFine, References, FreesIn
  <2> QED BY <1>1, OneCallFine
<1> QED BY <1>1, <1>2, <1>3 DEF NoneAfter

LEMMA PlaceFine ==
    ASSUME Inv, Doing("populate"), todo' = todo \/ NextPlace,
           NEW q, q = Subject, user' = user, kind'[q] = kind[q]
    PROVE  CallsFine /\ NoneAfter
<1> PICK w : w = Head(todo) OBVIOUS
<1>1. /\ w \in Works /\ w.do = "populate" /\ WorkOK(w)
      /\ Tail(todo) = <<>> /\ todo # <<>> /\ todo \in Seq(Works)
  BY LastCall DEF LastWorks, Doing, Inv, HandlesTypes
<1>2. /\ q = w.h /\ q \in Blocks /\ user'[q] > 0 /\ kind'[q] \in Queues
      /\ w.i \in 1 .. Count(w.propagate)
      /\ w.propagate \in BOOLEAN /\ w.i \in Int
  BY <1>1 DEF WorkOK, Subject, Works
<1>3. CASE todo' = todo
  <2>1. todo = <<w>>
    <3>1. PICK r : r = Tail(todo) OBVIOUS
    <3>2. PICK p : p = <<w>> OBVIOUS
    <3>3. todo = <<w>> \o r BY <1>1, <3>1, NextCall
    <3>4. r = <<>> BY <1>1, <3>1
    <3>5. r \in Seq(Works) /\ p \in Seq(Works) /\ p = <<w>> \o r
      <4>1. w \in Works BY <1>1
      <4> QED BY <3>2, <3>4, <4>1
    <3> QED BY <3>2, <3>3, <3>5
  <2>2. WorkOK(w)' BY <1>1, <1>2 DEF WorkOK, FreeWorks, CloseWorks, SweepWorks
  <2> QED BY <1>1, <1>3, <2>1, <2>2, SilentFine
<1>4. CASE NextPlace /\ w.i = Count(w.propagate)
  <2>1. PICK v : v = QueueWork("dequeue", w.h, 0, w.propagate) OBVIOUS
  <2>2. v \in Works /\ v.do = "dequeue" /\ v.h = q /\ todo' = <<v>>
    <3>1. v \in Works /\ v.do = "dequeue" /\ v.h = q
      <4>1. "dequeue" \in WorkNames /\ 0 \in Int BY DEF WorkNames, LastWorks
      <4>2. \A m \in BOOLEAN : LET x == QueueWork("dequeue", q, 0, m) IN
                x \in Works /\ x.do = "dequeue" /\ x.h = q
        BY <1>2, <4>1, QueueWorkTyped
      <4> QED BY <1>2, <2>1, <4>2
    <3>2. todo' = <<v>> BY <1>4, <2>1 DEF NextPlace
    <3> QED BY <3>1, <3>2
  <2>3. WorkOK(v)' BY <1>2, <2>2 DEF WorkOK, FreeWorks, CloseWorks, SweepWorks
  <2> QED BY <2>2, <2>3, SilentFine
<1>5. CASE NextPlace /\ w.i # Count(w.propagate)
  <2>1. PICK v : v = [w EXCEPT !.i = @ + 1] OBVIOUS
  <2>2. /\ v \in Works /\ v.do = "populate" /\ v.h = q /\ v.i = w.i + 1
        /\ v.propagate = w.propagate
    BY <1>1, <1>2, <2>1 DEF Works
  <2>3. todo' = <<v>> BY <1>5, <2>1 DEF NextPlace
  <2>4. v.i \in 1 .. Count(v.propagate) BY <1>2, <1>5, <2>2 DEF Count
  <2>5. WorkOK(v)'
    BY <1>2, <2>2, <2>4 DEF WorkOK, FreeWorks, CloseWorks, SweepWorks
  <2> QED BY <2>2, <2>3, <2>5, SilentFine
<1> QED BY <1>3, <1>4, <1>5

LEMMA PopulatePropsKeeps ==
    ASSUME Inv, NEW h \in Fresh, PopulateProps(h), UNCHANGED varVars
    PROVE  Inv'
<1>1. h \in Blocks /\ mem[h] = "unused" BY FreshIs
<1> PICK q : q = Subject OBVIOUS
<1> PICK place : place = Places[Head(todo).i] OBVIOUS
<1>2. /\ q \in Blocks /\ KeepsFields(q) /\ ~IsStmt(q)
      /\ place \in RolesOf(kind[q]) /\ KindsOf(kind[q], place) = {"msgProps"}
      /\ mem[Conn] = "live" /\ NothingLeft /\ Doing("populate")
      /\ field[q][place] = NULL
  BY Populating DEF PopulateProps
<1>3. PICK f : f = PropsFields OBVIOUS
<1>4. /\ Fit("msgProps", f) /\ "conn" \in DOMAIN f /\ f["conn"] = Conn
      /\ \A r \in DOMAIN f : r # "conn" => f[r] = NULL
  BY <1>2, <1>3, PropsFieldsFit DEF PropsFields
<1>5. refCount' = [refCount EXCEPT ![h] = 1, ![Conn] = @ + 1]
  BY DEF PopulateProps
<1>6. Takes(h, "msgProps", f)
  BY <1>1, <1>2, <1>4, <1>5, TakesOneOnly, ConnIsBlock
<1>7. UNCHANGED <<quota, closing, lists, user, lastRowid, lost>>
  BY DEF PopulateProps, listVars, varVars
<1>8. NewHandle(h, "msgProps", f)
  <2>1. OciOf(h) BY DEF PopulateProps, OciOf
  <2>2. UserTyped BY <1>7 DEF UserTyped, Inv, HandlesTypes
  <2> QED BY <1>1, <1>6, <1>7, <2>1, <2>2 DEF NewHandle, PopulateProps
<1>9. CASE /\ field' = [field EXCEPT ![h] = PropsFields, ![q][place] = h]
           /\ UNCHANGED todo
  <2>1. q # h BY <1>1, <1>2, UnusedIs
  <2>2. /\ field' = [y \in Blocks |-> field'[y]] /\ field'[h] = f
        /\ \A y \in Blocks \ {h, q} : field'[y] = field[y]
        /\ field'[q] = [field[q] EXCEPT ![place] = h]
    BY <1>1, <1>2, <1>3, <1>9, <2>1 DEF Inv, HandlesTypes
  <2>3. HeldIn(h, "msgProps", f, q, place) BY <1>2, <2>2 DEF HeldIn
  <2>4. kind'[q] = kind[q] BY <1>2, <1>8, <2>1, OneBorn, <1>1
  <2>5. CallsFine /\ NoneAfter BY <1>2, <1>7, <1>9, <2>4, PlaceFine
  <2>6. PendingHeld(field[q][place])
    <3>1. \A y \in Blocks : Is(field[q][place], y) = 0
      BY <1>2, HandleTreeAssumption DEF Is
    <3> QED BY <1>2, <2>5, <3>1 DEF PendingHeld, NothingLeft, NoneAfter
  <2> QED BY <1>1, <1>2, <1>7, <1>8, <2>3, <2>5, <2>6, HeldBirth DEF
      NothingLeft, NewSlot
<1>10. CASE field' = [field EXCEPT ![h] = PropsFields] /\ todo' = <<Free(h)>>
  BY <1>1, <1>2, <1>3, <1>7, <1>8, <1>10, FailedBirth
<1> QED BY <1>9, <1>10 DEF PopulateProps

(* Nothing but the work that is left changes.                               *)
LEMMA NextPlaceKeeps ==
    ASSUME Inv, Doing("populate"), NextPlace,
           UNCHANGED <<quota, mem, kind, refCount, field, oci, closing, lists,
                       user, lastRowid, lost>>
    PROVE  Inv'
<1>1. CallsFine /\ NoneAfter BY PlaceFine
<1>2. NothingLeft BY Populating
<1>3. /\ \A y \in Blocks : ~Releases(todo', y)
      /\ \A i \in DOMAIN todo' : todo'[i].do \in {"populate", "dequeue"}
  <2> PICK w : w = Head(todo) OBVIOUS
  <2>1. \/ todo' = <<QueueWork("dequeue", w.h, 0, w.propagate)>>
        \/ todo' = <<[w EXCEPT !.i = @ + 1]>>
    BY DEF NextPlace
  <2>2. w.do = "populate" /\ w \in Works BY LastCall DEF LastWorks
  <2>3. QueueWork("dequeue", w.h, 0, w.propagate).do = "dequeue"
    BY DEF QueueWork, WorkOn
  <2>4. [w EXCEPT !.i = @ + 1].do = "populate" BY <2>2 DEF Works
  <2>5. PICK v : todo' = <<v>> /\ v.do \in {"populate", "dequeue"}
    BY <2>1, <2>3, <2>4
  <2>6. \A i \in DOMAIN todo' : todo'[i] = v BY <2>5
  <2> QED BY <2>5, <2>6 DEF Releases
<1>4. SameEffects(todo', todo)
  BY <1>1, <1>2, <1>3 DEF SameEffects, NoneAfter, NothingLeft, NoneFreed,
     CallsFine
<1>5. ASSUME NEW i \in DOMAIN todo' PROVE WorkOK(todo'[i])
  <2>1. PICK p : p = todo' OBVIOUS
  <2>2. PICK v : v = p[i] OBVIOUS
  <2>3. WorkOK(v)' BY <1>1, <2>1, <2>2 DEF CallsFine, WorksOK, WorkOK
  <2>4. v.do \in {"populate", "dequeue"} BY <1>3, <2>1, <2>2
  <2>5. WorkOK(v) BY <2>3, <2>4 DEF WorkOK, FreeWorks, CloseWorks, SweepWorks
  <2> QED BY <2>1, <2>2, <2>5
<1>6. ClosingTypes BY StaysClosed
<1> QED BY <1>1, <1>4, <1>5, <1>6, QuietStep DEF CallsFine

(* The payload of a message p that q has in a place.                        *)
LEMMA PayloadPlace ==
    ASSUME Inv, Doing("populate"), NEW q, q = Subject, NEW p,
           p = field[q][Places[Head(todo).i]], p # NULL
    PROVE  /\ q \in Blocks /\ p \in Blocks /\ KeepsFields(q) /\ KeepsFields(p)
           /\ kind[q] \in Queues /\ kind[p] = "msgProps" /\ ~IsStmt(p)
           /\ DOMAIN field[p] = {"conn", "payloadObj", "payloadJson"}
           /\ RolesOf(kind[p]) = {"conn", "payloadObj", "payloadJson"}
           /\ KindsOf(kind[p], "payloadObj") = {"object"}
           /\ KindsOf(kind[p], "payloadJson") = {"json"}
           /\ field[q].payloadType # NULL =>
                 /\ field[q].payloadType \in Blocks
                 /\ mem[field[q].payloadType] = "live"
                 /\ kind[field[q].payloadType] = "objectType"
           /\ field[p].payloadJson # NULL => kind[field[p].payloadJson] = "json"
           /\ mem[Conn] = "live" /\ NothingLeft
<1> PICK place : place = Places[Head(todo).i] OBVIOUS
<1>1. /\ q \in Blocks /\ KeepsFields(q) /\ kind[q] \in Queues
      /\ place \in RolesOf(kind[q]) /\ KindsOf(kind[q], place) = {"msgProps"}
      /\ mem[Conn] = "live" /\ NothingLeft
  BY Populating
<1>2. p \in Blocks /\ KeepsFields(p) /\ kind[p] = "msgProps"
  BY <1>1, AlwaysHeld
<1>3. /\ RolesOf(kind[p]) = {"conn", "payloadObj", "payloadJson"}
      /\ DOMAIN field[p] = RolesOf(kind[p]) /\ ~IsStmt(p)
  BY <1>2, RolesAre, HoldsFields DEF IsStmt, StmtKinds, Queries
<1>4. /\ KindsOf(kind[p], "payloadObj") = {"object"}
      /\ KindsOf(kind[p], "payloadJson") = {"json"}
      /\ KindsOf(kind[q], "payloadType") = {"objectType"}
  BY DEF KindsOf
<1>5. "payloadType" \in RolesOf(kind[q]) BY <1>1, RolesAre
<1>6. field[q].payloadType # NULL =>
          /\ field[q].payloadType \in Blocks
          /\ mem[field[q].payloadType] = "live"
          /\ kind[field[q].payloadType] = "objectType"
  BY <1>1, <1>4, <1>5, AlwaysHeld
<1>7. field[p].payloadJson # NULL => kind[field[p].payloadJson] = "json"
  BY <1>2, <1>3, <1>4, AlwaysHeld
<1> QED BY <1>1, <1>2, <1>3, <1>4, <1>6, <1>7

PayloadMade(h, k, f, z, p, role) ==
    /\ mem' = [mem EXCEPT ![h] = "live"] /\ kind' = [kind EXCEPT ![h] = k]
    /\ refCount' = [refCount EXCEPT ![h] = 1, ![z] = @ + 1]
    /\ oci' = [oci EXCEPT ![h] = "open"]
    /\ field' = [field EXCEPT ![h] = f, ![p][role] = h]
    /\ NextPlace /\ NewSlot(h, k)
    /\ UNCHANGED <<quota, closing, user, lastRowid, lost>>
HolderFor(k, p, role) ==
    \/ k = "object" /\ role = "payloadObj" /\ field[p].payloadObj = NULL
    \/ k = "json" /\ role = "payloadJson"
TakesIn(k, f, a, z) ==
    /\ Fit(k, f) /\ a \in DOMAIN f /\ f[a] = z
    /\ \A r \in DOMAIN f : r # a => f[r] = NULL
LEMMA PayloadHeld ==
    ASSUME Inv, Doing("populate"), NEW q, q = Subject, NEW p,
           p = field[q][Places[Head(todo).i]], p # NULL, NEW h \in Fresh,
           NEW k, k \in {"object", "json"}, NEW f, NEW a, NEW z, z \in Blocks,
           mem[z] = "live", TakesIn(k, f, a, z), NEW role,
           HolderFor(k, p, role), PayloadMade(h, k, f, z, p, role)
    PROVE  Inv'
<1>1. h \in Blocks /\ mem[h] = "unused" BY FreshIs
<1>2. /\ q \in Blocks /\ p \in Blocks /\ KeepsFields(q) /\ KeepsFields(p)
      /\ kind[p] = "msgProps" /\ ~IsStmt(p)
      /\ role \in RolesOf(kind[p]) /\ KindsOf(kind[p], role) = {k}
      /\ NothingLeft
      /\ field[p].payloadJson # NULL => kind[field[p].payloadJson] = "json"
  BY PayloadPlace DEF HolderFor
<1>3. Takes(h, k, f) BY <1>1, TakesOneOnly DEF PayloadMade, TakesIn
<1>4. NewHandle(h, k, f)
  <2>1. OciOf(h) /\ k \notin {"none", "conn", "stmtVar"}
    BY DEF OciOf, PayloadMade
  <2>2. UserTyped BY DEF UserTyped, Inv, HandlesTypes, PayloadMade
  <2> QED BY <1>1, <1>3, <2>1, <2>2 DEF NewHandle, PayloadMade
<1>5. q # h /\ p # h BY <1>1, <1>2, UnusedIs
<1>6. /\ field' = [y \in Blocks |-> field'[y]] /\ field'[h] = f
      /\ \A y \in Blocks \ {h, p} : field'[y] = field[y]
      /\ field'[p] = [field[p] EXCEPT ![role] = h]
  BY <1>1, <1>2, <1>5 DEF Inv, HandlesTypes, PayloadMade
<1>7. HeldIn(h, k, f, p, role) BY <1>2, <1>6 DEF HeldIn
<1>8. kind'[q] = kind[q] BY <1>1, <1>2, <1>5 DEF Inv, HandlesTypes, PayloadMade
<1>9. CallsFine /\ NoneAfter BY <1>8, PlaceFine DEF PayloadMade
<1>10. ASSUME NEW y \in Blocks
       PROVE  Is(field[p][role], y) = 0 \/ kind[y] = "json"
  BY <1>2, HandleTreeAssumption DEF Is, HolderFor
<1>11. PendingHeld(field[p][role])
  <2> PICK old : old = field[p][role] OBVIOUS
  <2> SUFFICES ASSUME NEW y \in Blocks
               PROVE  /\ ~FreesIn(todo', y)
                      /\ \/ PendingIn(todo', y) = PendingIn(todo, y) + Is(old, y)
                         \/ /\ kind[y] = "json"
                            /\ PendingIn(todo', y) = PendingIn(todo, y)
    BY DEF PendingHeld
  <2>1. /\ ~FreesIn(todo', y) /\ PendingIn(todo', y) = 0
        /\ PendingIn(todo, y) = 0
    BY <1>2, <1>9 DEF NothingLeft, NoneAfter
  <2>2. Is(old, y) = 0 \/ kind[y] = "json" BY <1>10
  <2> QED BY <2>1, <2>2
<1> QED BY <1>1, <1>2, <1>4, <1>7, <1>9, <1>11, HeldBirth DEF NothingLeft, PayloadMade

LEMMA PopulatePayloadKeeps ==
    ASSUME Inv, PopulatePayload, UNCHANGED varVars PROVE Inv'
<1> PICK q : q = Subject OBVIOUS
<1> PICK p : p = field[q][Places[Head(todo).i]] OBVIOUS
<1> PICK type : type = field[q].payloadType OBVIOUS
<1>1. Doing("populate") /\ p # NULL BY DEF PopulatePayload
<1>2. /\ type # NULL => /\ type \in Blocks /\ mem[type] = "live"
                        /\ kind[type] = "objectType"
      /\ mem[Conn] = "live" /\ NothingLeft
  BY <1>1, PayloadPlace
<1>3. UNCHANGED <<quota, closing, user, lastRowid, lost>>
  BY DEF PopulatePayload, varVars
<1>4. ASSUME type # NULL, field[p].payloadObj = NULL, NEW h \in Fresh,
             mem' = [mem EXCEPT ![h] = "live"],
             kind' = [kind EXCEPT ![h] = "object"],
             refCount' = [refCount EXCEPT ![h] = 1, ![type] = @ + 1],
             \/ /\ oci' = [oci EXCEPT ![h] = "open"]
                /\ field' = [field EXCEPT ![h] = ObjectFields(type, NULL),
                                          ![p].payloadObj = h]
                /\ AddHandle("objects", h)
                /\ NextPlace
             \/ /\ field' = [field EXCEPT ![h] = ObjectFields(type, NULL)]
                /\ todo' = <<Free(h)>>
                /\ UNCHANGED <<oci, lists, openSlotNum>>
      PROVE  Inv'
  <2>1. h \in Blocks /\ mem[h] = "unused" BY FreshIs
  <2>2. PICK f : f = ObjectFields(type, NULL) OBVIOUS
  <2>3. Fit("object", f) BY <1>2, <1>4, <2>2, ObjectFieldsFit
  <2>4. /\ "type" \in DOMAIN f /\ f["type"] = type
        /\ \A r \in DOMAIN f : r # "type" => f[r] = NULL
    BY <2>2 DEF ObjectFields
  <2>5. CASE /\ oci' = [oci EXCEPT ![h] = "open"]
             /\ field' = [field EXCEPT ![h] = ObjectFields(type, NULL),
                                       ![p].payloadObj = h]
             /\ AddHandle("objects", h) /\ NextPlace
    <3>1. NewSlot(h, "object") BY <2>5 DEF NewSlot, Listed, Lists
    <3>2. PICK k : k = "object" OBVIOUS
    <3>3. PICK role : role = "payloadObj" OBVIOUS
    <3>4. PayloadMade(h, k, f, type, p, role)
      BY <1>3, <1>4, <2>2, <2>5, <3>1, <3>2, <3>3 DEF PayloadMade
    <3>5. HolderFor(k, p, role) BY <1>4, <3>2, <3>3 DEF HolderFor
    <3>6. PICK a : TakesIn(k, f, a, type) BY <2>3, <2>4, <3>2 DEF TakesIn
    <3>7. h \in Fresh /\ k \in {"object", "json"} /\ mem[type] = "live"
          /\ type \in Blocks
      BY <1>2, <1>4, <3>2
    <3> HIDE DEF TakesIn
    <3> QED BY <1>1, <3>4, <3>5, <3>6, <3>7, PayloadHeld
  <2>6. CASE /\ field' = [field EXCEPT ![h] = ObjectFields(type, NULL)]
             /\ todo' = <<Free(h)>>
             /\ UNCHANGED <<oci, lists, openSlotNum>>
    <3>1. Takes(h, "object", f) BY <1>2, <1>4, <2>1, <2>3, <2>4, TakesOneOnly
    <3>2. OciOf(h) /\ UserTyped
      BY <1>3, <2>6 DEF OciOf, UserTyped, Inv, HandlesTypes
    <3>3. NewHandle(h, "object", f)
      BY <1>3, <1>4, <2>1, <3>1, <3>2 DEF NewHandle
    <3> QED BY <1>2, <1>3, <2>1, <2>2, <2>6, <3>3, FailedBirth
  <2> QED BY <1>4, <2>5, <2>6
<1>5. ASSUME NEW h \in Fresh, mem' = [mem EXCEPT ![h] = "live"],
             kind' = [kind EXCEPT ![h] = "json"],
             refCount' = [refCount EXCEPT ![h] = 1, ![Conn] = @ + 1],
             oci' = [oci EXCEPT ![h] = "open"],
             field' = [field EXCEPT ![h] = OptionsFields, ![p].payloadJson = h],
             NextPlace, UNCHANGED <<lists, openSlotNum>>
      PROVE  Inv'
  <2>1. PICK f : f = OptionsFields OBVIOUS
  <2>2. Fit("json", f) BY <1>2, <2>1, ConnAloneFits DEF OptionsFields
  <2>3. /\ "conn" \in DOMAIN f /\ f["conn"] = Conn
        /\ \A r \in DOMAIN f : r # "conn" => f[r] = NULL
    BY <2>1 DEF OptionsFields
  <2>4. NewSlot(h, "json") BY <1>5 DEF NewSlot
  <2>5. PICK k : k = "json" OBVIOUS
  <2>6. PICK role : role = "payloadJson" OBVIOUS
  <2>7. PayloadMade(h, k, f, Conn, p, role)
    BY <1>3, <1>5, <2>1, <2>4, <2>5, <2>6 DEF PayloadMade
  <2>8. HolderFor(k, p, role) BY <2>5, <2>6 DEF HolderFor
  <2>9. PICK a : TakesIn(k, f, a, Conn) BY <2>2, <2>3, <2>5 DEF TakesIn
  <2>10. h \in Fresh /\ k \in {"object", "json"} /\ mem[Conn] = "live"
         /\ Conn \in Blocks
    BY <1>2, <1>5, <2>5, ConnIsBlock
  <2> QED BY <1>1, <2>7, <2>8, <2>9, <2>10, PayloadHeld
<1>6. CASE /\ NextPlace
           /\ UNCHANGED <<mem, kind, refCount, oci, field, lists, openSlotNum>>
  BY <1>1, <1>3, <1>6, NextPlaceKeeps
<1> QED BY <1>4, <1>5, <1>6 DEF PopulatePayload

-----------------------------------------------------------------------------
(* The last rowid of a statement.                                           *)
LEMMA RowidFits == Fit("rowid", NoFields)
<1>1. RolesOf("rowid") = {}
  BY DEF RolesOf, Queues, StmtKinds, Queries, VarKinds
<1>2. FieldsFit("rowid", NoFields) BY <1>1 DEF FieldsFit, NoFields, Queues
<1> QED BY <1>1, <1>2 DEF Fit

LEMMA RowidsSet ==
    ASSUME NEW L, NEW C, NEW M, NEW s \in Blocks,
           \A y \in Blocks \ {s} : M[y] = L[y], NEW h
    PROVE  RowidsIn(M, C, h) = RowidsIn(L, C, h) - RowidOf(L, C, s, h)
                               + RowidOf(M, C, s, h)
<1>1. RowidsBut(M, C, s, h) = RowidsBut(L, C, s, h)
  <2>1. {y \in Blocks \ {s} : M[y] = h /\ ~C[y]} =
        {y \in Blocks \ {s} : L[y] = h /\ ~C[y]}
    OBVIOUS
  <2> QED BY <2>1 DEF RowidsBut
<1>2. /\ RowidsIn(L, C, h) = RowidsBut(L, C, s, h) + RowidOf(L, C, s, h)
      /\ RowidsIn(M, C, h) = RowidsBut(M, C, s, h) + RowidOf(M, C, s, h)
      /\ RowidsBut(L, C, s, h) \in Nat
  BY RowidsSplit
<1>3. RowidOf(L, C, s, h) \in Nat /\ RowidOf(M, C, s, h) \in Nat BY DEF RowidOf
<1> QED BY <1>1, <1>2, <1>3

LEMMA AllocateRowidKeeps ==
    ASSUME Inv, AllocateRowid PROVE Inv'
<1> PICK s : s = Subject OBVIOUS
<1> PICK f : f = NoFields OBVIOUS
<1> PICK w : w = Head(todo) OBVIOUS
<1> PICK k : k = "rowid" OBVIOUS
<1>1. PICK h \in Fresh :
         /\ Make(h, "rowid", NoFields)
         /\ \/ /\ oci' = [oci EXCEPT ![h] = "open"]
               /\ lastRowid' = [lastRowid EXCEPT ![s] = h]
               /\ todo' = Tail(todo)
            \/ /\ todo' = <<Free(h)>>
               /\ UNCHANGED <<oci, lastRowid>>
  BY DEF AllocateRowid
<1>2. Doing("lastRowid") /\ UNCHANGED <<quota, closing, lists, user, lost>>
  BY DEF AllocateRowid, listVars
<1>3. /\ w \in Works /\ w.do = "lastRowid" /\ WorkOK(w) /\ Tail(todo) = <<>>
      /\ \A y : PendingIn(todo, y) = References(w, y)
      /\ \A y : ~FreesIn(todo, y) /\ ~ForgetsIn(todo, y) /\ ~Releases(todo, y)
  BY <1>2, LastCall DEF LastWorks
<1>4. /\ s \in Blocks /\ kind[s] = "dml" /\ ~closing[s] /\ lastRowid[s] = NULL
      /\ Allowed("rowid")
  <2>1. w.h = s /\ w.h \in Blocks BY <1>3 DEF Subject, Works
  <2>2. /\ kind[w.h] = "dml" /\ ~closing[w.h] /\ lastRowid[w.h] = NULL
        /\ Allowed("rowid")
    BY <1>3 DEF WorkOK
  <2> QED BY <2>1, <2>2
<1>5. NothingLeft BY <1>3 DEF NothingLeft, NoneFreed, References, RefersTo
<1>6. h \in Blocks /\ mem[h] = "unused" /\ h # NULL /\ Fit(k, f)
  BY FreshIs, RowidFits, HandleTreeAssumption
<1>7. NewHandle(h, k, f)
  <2>1. OciOf(h) BY <1>1 DEF OciOf
  <2>2. UserTyped BY <1>2 DEF UserTyped, Inv, HandlesTypes
  <2>3. Takes(h, k, f) BY <1>1, <1>6 DEF Takes, Fit, Make
  <2>4. mem' = [mem EXCEPT ![h] = "live"] /\ kind' = [kind EXCEPT ![h] = k]
    BY <1>1 DEF Make
  <2> QED BY <1>2, <1>6, <2>1, <2>2, <2>3, <2>4 DEF NewHandle
<1>8. field' = [field EXCEPT ![h] = f] BY <1>1 DEF Make
<1>9. CASE /\ lastRowid' = [lastRowid EXCEPT ![s] = h] /\ todo' = Tail(todo)
  <2>1. /\ CallsFine
        /\ \A y : ~FreesIn(todo', y) /\ PendingIn(todo', y) = 0
    BY <1>3, <1>9, NoCallFine
  <2>2. BornFields({h}) /\ PointersAfter(f, NULL, NULL)
    BY <1>6, <1>7, <1>8, AloneFields
  <2>3. BornElsewhere({h})
    <3>1. kind'[h] = "rowid" BY <1>6, <1>7, OneBorn
    <3>2. lastRowid \in [Blocks -> Blocks \cup {NULL}] BY DEF Inv, HandlesTypes
    <3> QED BY <1>2, <1>4, <1>6, <1>9, <3>1, <3>2 DEF BornElsewhere
  <2>4. ASSUME NEW y \in Blocks
        PROVE  /\ RowidsIn(lastRowid, closing, y)' =
                      RowidsIn(lastRowid, closing, y) + Is(h, y)
               /\ Forgotten(y)' = Forgotten(y) /\ user'[y] = user[y]
               /\ user[y] \in Nat /\ PendingIn(todo, y) = 0
               /\ RowidsIn(lastRowid, closing, y) \in Nat
               /\ Forgotten(y) \in Nat /\ Is(NULL, y) = 0
    <3>1. RowidsIn(lastRowid', closing', y) =
              RowidsIn(lastRowid, closing, y)
              - RowidOf(lastRowid, closing, s, y)
              + RowidOf(lastRowid', closing', s, y)
      <4>1. PICK M : M = lastRowid' OBVIOUS
      <4>2. PICK L, C : L = lastRowid /\ C = closing OBVIOUS
      <4>3. \A x \in Blocks \ {s} : M[x] = L[x]
        BY <1>2, <1>4, <1>9, <4>1, <4>2 DEF Inv, HandlesTypes
      <4>4. RowidsIn(M, C, y) = RowidsIn(L, C, y) - RowidOf(L, C, s, y)
                                + RowidOf(M, C, s, y)
        BY <1>4, <4>3, RowidsSet
      <4> QED BY <1>2, <4>1, <4>2, <4>4
    <3>2. RowidOf(lastRowid, closing, s, y) = 0
      BY <1>4, HandleTreeAssumption DEF RowidOf
    <3>3. RowidOf(lastRowid', closing', s, y) = Is(h, y)
      <4>1. lastRowid'[s] = h /\ ~closing'[s]
        BY <1>2, <1>4, <1>9 DEF Inv, HandlesTypes
      <4> QED BY <4>1 DEF RowidOf, Is
    <3>4. RowidsIn(lastRowid, closing, y)' =
              RowidsIn(lastRowid', closing', y)
      BY DEF RowidsIn
    <3>5. Is(NULL, y) = 0 /\ Is(h, y) \in Nat BY HandleTreeAssumption DEF Is
    <3>6. Forgotten(y)' = Forgotten(y) /\ user'[y] = user[y]
      BY <1>2 DEF Forgotten
    <3> QED BY <1>5, <3>1, <3>2, <3>3, <3>4, <3>5, <3>6, Parts DEF NothingLeft
  <2>5. OwnedAfter(h, f, NULL, NULL)
    <3>1. ASSUME NEW y \in Blocks PROVE Owned(y)' = Owned(y) + Is(h, y)
      <4>1. Is(h, y) \in Nat /\ PendingIn(todo', y) = 0 BY <2>1 DEF Is
      <4> QED BY <2>4, <4>1 DEF Owned
    <3>2. Owned(h) = 0 BY <1>5, <1>6, UnusedIs DEF Owned, NothingLeft
    <3>3. Is(h, h) = 1 /\ \A y \in Blocks \ {h} : Is(h, y) = 0 BY DEF Is
    <3>4. Owned(h)' + Is(NULL, h) = 1 BY <1>6, <2>4, <3>1, <3>2, <3>3
    <3>5. ASSUME NEW y \in Blocks \ {h}
          PROVE  Owned(y)' = Owned(y) + Is(NULL, y)
      BY <2>4, <3>1, <3>3
    <3> QED BY <2>1, <3>4, <3>5 DEF OwnedAfter
  <2>6. NewSlot(h, k) /\ NoneFreed(todo) BY <1>2, <1>5 DEF NewSlot, NothingLeft
  <2>7. PICK old : old = NULL OBVIOUS
  <2>8. PICK held \in {h, NULL} : held = NULL OBVIOUS
  <2>9. old # h /\ PointersAfter(f, old, held) /\ OwnedAfter(h, f, old, held)
    BY <1>6, <2>2, <2>5, <2>7, <2>8
  <2> QED BY <1>6, <1>7, <2>1, <2>2, <2>3, <2>6, <2>9, BirthOneStep
<1>10. CASE todo' = <<Free(h)>> /\ UNCHANGED <<oci, lastRowid>>
  BY <1>2, <1>5, <1>6, <1>7, <1>8, <1>10, FailedBirth
<1> QED BY <1>1, <1>9, <1>10

(* A value bound with a variable of its own.                                *)
FieldsSum(f, a, b, c, d, y) ==
    Is(f[a], y) + Is(f[b], y) + Is(f[c], y) + Is(f[d], y)
LEMMA CountSum ==
    ASSUME NEW f, NEW a, NEW b, NEW c, NEW d, a # b, c \notin {a, b},
           d \notin {a, b, c}, NEW y, NEW D, D = {a, b, c, d}
    PROVE  CountOn(f, D, y) = FieldsSum(f, a, b, c, d, y)
<1> DEFINE O == {a, b, c}
<1>1. D = O \cup {d} /\ d \notin O /\ O = {a, b, c} OBVIOUS
<1> HIDE DEF O
<1>2. /\ IsFiniteSet(O)
      /\ CountOn(f, O, y) = Is(f[a], y) + Is(f[b], y) + Is(f[c], y)
  BY <1>1, CountThree
<1>3. IsFiniteSet(D) /\ CountOn(f, D, y) = CountOn(f, O, y) + Is(f[d], y)
  BY <1>1, <1>2, CountInsert
<1> QED BY <1>2, <1>3 DEF FieldsSum
LEMMA CountVar ==
    ASSUME NEW f, DOMAIN f = {"conn", "type", "value", "returned"}, NEW y
    PROVE  CountOf(f, y) = FieldsSum(f, "conn", "type", "value", "returned", y)
<1>1. CountOf(f, y) = CountOn(f, DOMAIN f, y) BY DEF CountOf, CountOn
<1>2. CountOn(f, DOMAIN f, y) =
          FieldsSum(f, "conn", "type", "value", "returned", y)
  BY CountSum
<1> QED BY <1>1, <1>2

LEMMA ValueFieldsFit ==
    ASSUME Inv, mem[Conn] = "live", NEW t \in Blocks, mem[t] = "live",
           kind[t] = "objectType", NEW x \in Blocks, mem[x] = "live",
           kind[x] = "object", NEW f, f = [VarFields(t) EXCEPT !.value = x]
    PROVE  /\ Fit("objectVar", f)
           /\ \A y \in Blocks :
                 CountOf(f, y) = Is(Conn, y) + Is(t, y) + Is(x, y)
<1> DEFINE R == {"conn", "type", "value", "returned"}
<1>1. PICK k : k = "objectVar" OBVIOUS
<1>2. RolesOf(k) = R /\ k \notin Queues
  BY <1>1, RolesAre, PartsOfQueue DEF VarKinds
<1>3. /\ DOMAIN f = R /\ f = [r \in R |-> f[r]]
      /\ f["conn"] = Conn /\ f["type"] = t
      /\ f["value"] = x /\ f["returned"] = NULL
  BY DEF VarFields
<1>4. Points(k, "value", x)
  <2>1. KindsOf(k, "value") = {"object"}
    BY <1>1 DEF KindsOf, Contents, ContentKinds
  <2> QED BY <2>1, HandleTreeAssumption DEF Points, PointerOK
<1>5. \A r \in R : Points(k, r, f[r])
  BY <1>3, <1>4, ConnFits, NullFits, TypeFits DEF MayBeNull
<1>6. Fit(k, f) BY <1>2, <1>3, <1>5, FitsAll
<1>7. ASSUME NEW y \in Blocks
      PROVE  CountOf(f, y) = Is(Conn, y) + Is(t, y) + Is(x, y)
  <2>1. CountOf(f, y) = Is(f["conn"], y) + Is(f["type"], y)
                        + Is(f["value"], y) + Is(f["returned"], y)
    BY <1>3, CountVar DEF FieldsSum
  <2>3. Is(NULL, y) = 0 /\ Is(Conn, y) \in Nat /\ Is(t, y) \in Nat
        /\ Is(x, y) \in Nat
    BY HandleTreeAssumption DEF Is
  <2> QED BY <1>3, <2>1, <2>3
<1> QED BY <1>1, <1>6, <1>7

LEMMA NewValueCounts ==
    ASSUME Inv, mem[Conn] = "live", NEW t \in Blocks, mem[t] = "live",
           kind[t] = "objectType", NEW f, f = VarFields(t)
    PROVE  \A y \in Blocks : CountOf(f, y) = Is(Conn, y) + Is(t, y)
<1> DEFINE R == {"conn", "type", "value", "returned"}
<1>1. /\ DOMAIN f = R /\ f["conn"] = Conn /\ f["type"] = t
      /\ f["value"] = NULL /\ f["returned"] = NULL
  BY DEF VarFields
<1>2. ASSUME NEW y \in Blocks PROVE CountOf(f, y) = Is(Conn, y) + Is(t, y)
  <2>1. CountOf(f, y) = Is(f["conn"], y) + Is(f["type"], y)
                        + Is(f["value"], y) + Is(f["returned"], y)
    BY <1>1, CountVar DEF FieldsSum
  <2>3. Is(NULL, y) = 0 /\ Is(Conn, y) \in Nat /\ Is(t, y) \in Nat
    BY HandleTreeAssumption DEF Is
  <2> QED BY <1>1, <2>1, <2>3
<1> QED BY <1>2

Binding(s, o, h, t) ==
    /\ s \in Blocks /\ o \in Blocks /\ h \in Blocks /\ t \in Blocks
    /\ mem[s] = "live" /\ IsStmt(s) /\ KeepsFields(s) /\ ~closing[s]
    /\ mem[o] = "live" /\ kind[o] = "object"
    /\ mem[t] = "live" /\ kind[t] = "objectType"
    /\ mem[Conn] = "live" /\ kind[Conn] = "conn" /\ mem[h] = "unused"
    /\ Idle /\ "bind" \in RolesOf(kind[s]) /\ DOMAIN field[s] = RolesOf(kind[s])
    /\ field[s].bind \in Blocks \cup {NULL}
    /\ "objectVar" \in KindsOf(kind[s], "bind")
LEMMA BindsValue ==
    ASSUME Inv, NEW s \in Blocks, NEW o \in Blocks, NEW h \in Fresh,
           BindValue(s, o, h), NEW t, t = field[o].type
    PROVE  Binding(s, o, h, t)
<1>1. StmtCheck(s) /\ IsStmt(s) /\ Idle /\ user[s] > 0 /\ oci[s] = "open"
      /\ Has(o, "object")
  BY DEF BindValue, StmtCheck, HasStmt
<1>2. ~closing[s] BY <1>1, OpenNotClosing
<1>3. KeepsFields(s) /\ mem[s] = "live" BY <1>1, UsersAlive
<1>4. "conn" \in RolesOf(kind[s]) /\ "bind" \in RolesOf(kind[s])
  BY <1>1, RolesAre DEF IsStmt
<1>5. mem[Conn] = "live" BY <1>3, <1>4, ConnHeld
<1>6. mem[o] = "live" /\ kind[o] = "object" /\ KeepsFields(o) BY <1>1, HasAlive
<1>7. t \in Blocks /\ mem[t] = "live" /\ kind[t] = "objectType"
  BY <1>6, TypeHeld
<1>8. h \in Blocks /\ mem[h] = "unused" BY FreshIs
<1>9. /\ DOMAIN field[s] = RolesOf(kind[s])
      /\ field[s].bind \in Blocks \cup {NULL}
  BY <1>3, <1>4, HoldsFields
<1>10. kind[Conn] = "conn" BY ConnIsBlock DEF Inv, KindOK
<1>11. "objectVar" \in KindsOf(kind[s], "bind") BY DEF KindsOf, VarKinds
<1> QED BY <1>1, <1>2, <1>3, <1>4, <1>5, <1>6, <1>7, <1>8, <1>9, <1>10, <1>11
    DEF Binding

LEMMA BindValueHeld ==
    ASSUME Inv, NEW s, NEW o, NEW h, NEW t, Binding(s, o, h, t), NEW f,
           f = [VarFields(t) EXCEPT !.value = o],
           mem' = [mem EXCEPT ![h] = "live"],
           kind' = [kind EXCEPT ![h] = "objectVar"],
           refCount' = [refCount EXCEPT ![h] = 1, ![o] = @ + 1,
                                        ![t] = @ + 1, ![Conn] = @ + 1],
           field' = [field EXCEPT ![s].bind = h, ![h] = f],
           todo' = UnrefOf(field[s].bind),
           UNCHANGED <<quota, oci, closing, lists, user, lastRowid, lost>>
    PROVE  Inv'
<1> PICK k : k = "objectVar" OBVIOUS
<1> PICK q : q = field[s].bind OBVIOUS
<1> PICK role : role = "bind" OBVIOUS
<1>1. /\ s \in Blocks /\ o \in Blocks /\ h \in Blocks /\ t \in Blocks
      /\ s # h /\ o # h /\ t # h /\ Conn # h /\ o # t /\ o # Conn /\ t # Conn
      /\ mem[h] = "unused" /\ Idle
  BY ConnIsBlock DEF Binding
<1>2. /\ Fit(k, f)
      /\ \A y \in Blocks : CountOf(f, y) = Is(Conn, y) + Is(t, y) + Is(o, y)
  BY ValueFieldsFit DEF Binding
<1>3. NewHandle(h, k, f)
  <2>1. OciOf(h) /\ UserTyped BY DEF OciOf, UserTyped, Inv, HandlesTypes
  <2>2. ASSUME NEW y \in Blocks
        PROVE  refCount'[y] = IF y = h THEN 1 ELSE refCount[y] + CountOf(f, y)
    <3>1. refCount \in [Blocks -> Int] BY DEF Inv, HandlesTypes
    <3>2. refCount'[y] = IF y = h THEN 1
                         ELSE refCount[y] + (Is(Conn, y) + Is(t, y) + Is(o, y))
      BY <1>1, <3>1, ConnIsBlock DEF Is
    <3> QED BY <1>2, <3>2
  <2>3. refCount' = [y \in Blocks |-> refCount'[y]] BY DEF Inv, HandlesTypes
  <2>4. Takes(h, k, f) BY <1>2, <2>2, <2>3 DEF Takes, Fit
  <2> QED BY <1>1, <2>1, <2>4 DEF NewHandle
<1>4. NewSlot(h, k) /\ NoneFreed(todo) BY <1>1, IdleIs DEF NewSlot
<1>5. HeldIn(h, k, f, s, role)
  <2>1. /\ field' = [y \in Blocks |-> field'[y]] /\ field'[h] = f
        /\ \A y \in Blocks \ {h, s} : field'[y] = field[y]
        /\ field'[s] = [field[s] EXCEPT ![role] = h]
    BY <1>1 DEF Inv, HandlesTypes
  <2> QED BY <2>1 DEF HeldIn, Binding
<1>6. CallsFine /\ PendingHeld(field[s][role])
  <2>1. \A y : PendingIn(todo, y) = 0 BY <1>1, IdleIs
  <2>2. q \in Blocks \cup {NULL} BY DEF Binding
  <2>3. CASE q = NULL
    <3>1. todo' = <<>> BY <2>3 DEF UnrefOf
    <3>2. CallsFine /\ \A y : ~FreesIn(todo', y) /\ PendingIn(todo', y) = 0
      BY <3>1, NoCallFine
    <3>3. \A y \in Blocks : Is(q, y) = 0 BY <2>3, HandleTreeAssumption DEF Is
    <3> QED BY <2>1, <3>2, <3>3 DEF PendingHeld
  <2>4. CASE q # NULL
    <3>1. todo' = <<Unref(q)>> /\ q \in Blocks BY <2>2, <2>4 DEF UnrefOf
    <3>2. /\ CallsFine
          /\ \A y \in Blocks : ~FreesIn(todo', y) /\ PendingIn(todo', y) = Is(q, y)
      BY <3>1, UnrefFine
    <3>3. \A y \in Blocks : Is(q, y) \in Nat BY DEF Is
    <3> QED BY <2>1, <3>2, <3>3 DEF PendingHeld
  <2> QED BY <2>3, <2>4
<1> QED BY <1>1, <1>3, <1>4, <1>5, <1>6, HeldBirth

LEMMA BindValueLost ==
    ASSUME Inv, NEW s, NEW o, NEW h, NEW t, Binding(s, o, h, t), NEW f,
           f = VarFields(t),
           mem' = [mem EXCEPT ![h] = "live"],
           kind' = [kind EXCEPT ![h] = "objectVar"],
           refCount' = [refCount EXCEPT ![h] = 1, ![t] = @ + 1, ![Conn] = @ + 1],
           field' = [field EXCEPT ![h] = f], lost' = lost \cup {h}, todo' = todo,
           UNCHANGED <<quota, oci, closing, lists, user, lastRowid>>
    PROVE  Inv'
<1> PICK k : k = "objectVar" OBVIOUS
<1>1. /\ h \in Blocks /\ t \in Blocks /\ t # h /\ Conn # h /\ t # Conn
      /\ mem[h] = "unused" /\ Idle /\ h # NULL
  BY ConnIsBlock, HandleTreeAssumption DEF Binding
<1>2. Fit(k, f) /\ \A y \in Blocks : CountOf(f, y) = Is(Conn, y) + Is(t, y)
  <2>1. Fit("objectVar", VarFields(t))
    <3>1. k \in VarKinds BY DEF VarKinds
    <3>2. t \in Blocks \cup {NULL} /\ mem[Conn] = "live" /\ mem[t] = "live"
          /\ kind[t] = "objectType" /\ t # NULL
      BY HandleTreeAssumption DEF Binding
    <3> QED BY <3>1, <3>2, VarFieldsFit
  <2> QED BY <2>1, NewValueCounts DEF Binding
<1>3. NewHandle(h, k, f)
  <2>1. OciOf(h) /\ UserTyped BY DEF OciOf, UserTyped, Inv, HandlesTypes
  <2>2. ASSUME NEW y \in Blocks
        PROVE  refCount'[y] = IF y = h THEN 1 ELSE refCount[y] + CountOf(f, y)
    <3>1. refCount \in [Blocks -> Int] BY DEF Inv, HandlesTypes
    <3>2. refCount'[y] = IF y = h THEN 1
                         ELSE refCount[y] + (Is(Conn, y) + Is(t, y))
      BY <1>1, <3>1, ConnIsBlock DEF Is
    <3> QED BY <1>2, <3>2
  <2>3. refCount' = [y \in Blocks |-> refCount'[y]] BY DEF Inv, HandlesTypes
  <2>4. Takes(h, k, f) BY <1>2, <2>2, <2>3 DEF Takes, Fit
  <2> QED BY <1>1, <2>1, <2>4 DEF NewHandle
<1>4. NewSlot(h, k) /\ NoneFreed(todo) BY <1>1, IdleIs DEF NewSlot
<1>5. CallsFine /\ \A y : ~FreesIn(todo', y) /\ PendingIn(todo', y) = 0
  BY <1>1, NoCallFine DEF Idle
<1>6. BornFields({h}) /\ PointersAfter(f, NULL, NULL)
  BY <1>1, <1>3, AloneFields
<1>7. BornElsewhere({h})
  <2>1. IsVar(h)' BY <1>1, <1>3, OneBorn DEF IsVar, VarKinds
  <2> QED BY <2>1 DEF BornElsewhere, Inv, HandlesTypes
<1>8. OwnedAfter(h, f, NULL, NULL)
  <2>1. ASSUME NEW y \in Blocks
        PROVE  /\ Forgotten(y)' = IF y = h THEN 1 ELSE Forgotten(y)
               /\ RowidsIn(lastRowid, closing, y)' = RowidsIn(lastRowid, closing, y)
               /\ user'[y] = user[y] /\ PendingIn(todo', y) = PendingIn(todo, y)
               /\ user[y] \in Nat /\ PendingIn(todo, y) \in Nat
               /\ RowidsIn(lastRowid, closing, y) \in Nat
               /\ Forgotten(y) \in Nat /\ Is(NULL, y) = 0
    <3>1. Is(NULL, y) = 0 BY HandleTreeAssumption DEF Is
    <3> QED BY <3>1, Parts DEF Forgotten, RowidsIn
  <2>2. Owned(h)' + Is(NULL, h) = 1
    <3>1. /\ user[h] = 0 /\ PendingIn(todo, h) = 0
          /\ RowidsIn(lastRowid, closing, h) = 0
      BY <1>1, UnusedIs
    <3> QED BY <1>1, <2>1, <3>1 DEF Owned
  <2>3. ASSUME NEW y \in Blocks \ {h}
        PROVE  Owned(y)' = Owned(y) + Is(NULL, y)
    BY <2>1 DEF Owned
  <2> QED BY <1>5, <2>2, <2>3 DEF OwnedAfter
<1>9. PICK old : old = NULL OBVIOUS
<1>10. PICK held \in {h, NULL} : held = NULL OBVIOUS
<1>11. old # h /\ PointersAfter(f, old, held) /\ OwnedAfter(h, f, old, held)
  BY <1>1, <1>6, <1>8, <1>9, <1>10
<1> QED BY <1>1, <1>3, <1>4, <1>5, <1>6, <1>7, <1>11, BirthOneStep

LEMMA BindValueKeeps ==
    ASSUME Inv, NEW s \in Blocks, NEW o \in Blocks, NEW h \in Fresh,
           BindValue(s, o, h)
    PROVE  Inv'
<1> PICK t : t = field[o].type OBVIOUS
<1>1. Binding(s, o, h, t) BY BindsValue
<1>2. UNCHANGED <<quota, oci, closing, lists, user, lastRowid>>
      /\ mem' = [mem EXCEPT ![h] = "live"]
      /\ kind' = [kind EXCEPT ![h] = "objectVar"]
  BY DEF BindValue, listVars
<1>3. CASE /\ refCount' = [refCount EXCEPT ![h] = 1, ![o] = @ + 1,
                                           ![t] = @ + 1, ![Conn] = @ + 1]
           /\ field' = [field EXCEPT ![s].bind = h,
                                     ![h] = [VarFields(t) EXCEPT !.value = o]]
           /\ todo' = UnrefOf(field[s].bind) /\ UNCHANGED lost
  <2>1. PICK f : f = [VarFields(t) EXCEPT !.value = o] OBVIOUS
  <2>2. field' = [field EXCEPT ![s].bind = h, ![h] = f] BY <1>3, <2>1
  <2> QED BY <1>1, <1>2, <1>3, <2>1, <2>2, BindValueHeld
<1>4. CASE /\ refCount' = [refCount EXCEPT ![h] = 1, ![t] = @ + 1,
                                           ![Conn] = @ + 1]
           /\ field' = [field EXCEPT ![h] = VarFields(t)]
           /\ lost' = lost \cup {h} /\ todo' = todo
  <2>1. PICK f : f = VarFields(t) OBVIOUS
  <2>2. field' = [field EXCEPT ![h] = f] BY <1>4, <2>1
  <2> QED BY <1>1, <1>2, <1>4, <2>1, <2>2, BindValueLost
<1> QED BY <1>3, <1>4 DEF BindValue

-----------------------------------------------------------------------------
(* The value of a variable that is made.                                    *)
Rest(e) == /\ e.do \in LastWorks \cup {"prefetch"}
           /\ e.do = "prefetch" => e.why # "new"
LEMMA RestOfPrefetch ==
    ASSUME Inv, Doing("prefetch"), NEW w, w = Head(todo), NEW r, r = Tail(todo)
    PROVE  /\ w \in Works /\ r \in Seq(Works) /\ todo = <<w>> \o r /\ WorkOK(w)
           /\ Shape(r) /\ w.do = "prefetch"
           /\ \A i \in DOMAIN r : r[i] \in Works /\ WorkOK(r[i]) /\ Rest(r[i])
           /\ NoneFreed(todo) /\ NoneFreed(r)
           /\ \A y : /\ PendingIn(todo, y) = PendingIn(r, y)
                     /\ PendingIn(r, y) \in Nat
           /\ w.why # "new" => \A y : PendingIn(r, y) = 0
           /\ w.why = "new" =>
                 /\ \A y : PendingIn(r, y) = Is(w.h, y)
                 /\ \E i \in DOMAIN todo : RefersTo(todo[i], w.h)
<1>1. todo # <<>> /\ w.do = "prefetch" BY DEF Doing
<1>2. /\ w \in Works /\ r \in Seq(Works) /\ todo = <<w>> \o r /\ WorkOK(w)
      /\ Shape(r)
      /\ \A i \in DOMAIN r : WorkOK(r[i]) /\ r[i].do \in LastWorks \cup {"prefetch"}
  BY <1>1, NextCall
<1>3. Shape(todo) /\ todo \in Seq(Works) BY DEF Inv, HandlesTypes
<1>4. /\ DOMAIN todo = 1 .. Len(todo) /\ Len(todo) = Len(r) + 1
      /\ todo[1] = w /\ \A i \in DOMAIN r : i + 1 \in DOMAIN todo /\ r[i] = todo[i + 1]
      /\ DOMAIN r = 1 .. Len(r) /\ Len(r) \in Nat
  BY <1>2, <1>3
<1>5. ASSUME NEW i \in DOMAIN r PROVE r[i] \in Works /\ Rest(r[i])
  <2>1. r[i] \in Works /\ r[i].do \in LastWorks \cup {"prefetch"} BY <1>2
  <2>2. r[i].do = "prefetch" => r[i].why # "new"
    <3> SUFFICES ASSUME r[i].do = "prefetch", r[i].why = "new" PROVE FALSE
      OBVIOUS
    <3>1. i + 1 = 1 BY <1>3, <1>4 DEF Shape, NewFirst
    <3> QED BY <1>4, <3>1
  <2> QED BY <2>1, <2>2 DEF Rest
<1>6. NoneFreed(r)
  <2>1. \A i \in DOMAIN r : r[i].do \notin FreeWorks \cup {"releaseStmt"}
    BY <1>2 DEF FreeWorks, LastWorks
  <2> QED BY <2>1 DEF NoneFreed, FreesIn, ForgetsIn, Releases, FreeWorks
<1>7. NoneFreed(todo)
  <2>1. \A y : /\ FreesIn(todo, y) <=> FreesIn(r, y)
               /\ ForgetsIn(todo, y) <=> ForgetsIn(r, y)
               /\ Releases(todo, y) <=> Releases(r, y)
    BY <1>1, NextCall DEF FreeWorks
  <2> QED BY <1>6, <2>1 DEF NoneFreed
<1>8. ASSUME NEW y
      PROVE  PendingIn(todo, y) = PendingIn(r, y) /\ PendingIn(r, y) \in Nat
  <2>1. PendingIn(todo, y) = References(w, y) + PendingIn(r, y)
        /\ PendingIn(r, y) \in Nat
    BY <1>1, NextCall
  <2>2. References(w, y) = 0 BY <1>1 DEF References, RefersTo
  <2> QED BY <2>1, <2>2
<1>9. ASSUME w.why # "new", NEW y PROVE PendingIn(r, y) = 0
  <2>1. Settled(r) BY <1>1, <1>9, NextCall
  <2>2. \A i \in DOMAIN r : ~RefersTo(r[i], y)
    BY <1>2, <2>1 DEF Settled, RefersTo, LastWorks
  <2> QED BY <2>2, PendingNone
<1>10. ASSUME w.why = "new"
       PROVE  /\ \A y : PendingIn(r, y) = Is(w.h, y)
              /\ \E i \in DOMAIN todo : RefersTo(todo[i], w.h)
  <2>1. /\ Len(todo) = 2
        /\ \/ todo[2].do = "give" /\ todo[2].h = todo[1].h
           \/ todo[2].do = "define" /\ todo[2].arg = todo[1].h
    BY <1>1, <1>3, <1>4, <1>10 DEF Shape, NewFirst
  <2>2. DOMAIN r = {1} /\ 2 \in DOMAIN todo
    <3>1. /\ Len(todo) = Len(r) + 1 /\ Len(r) \in Nat /\ DOMAIN r = 1 .. Len(r)
          /\ Len(todo) = 2 /\ DOMAIN todo = 1 .. Len(todo)
      BY <1>4, <2>1
    <3>2. Len(r) = 1 /\ 1 .. 1 = {1} /\ 2 \in 1 .. 2 BY <3>1
    <3> QED BY <3>1, <3>2
  <2>3. r[1] = todo[1 + 1] BY <1>4, <2>2
  <2>4. \A y : RefersTo(todo[2], y) <=> y = w.h BY <1>4, <2>1 DEF RefersTo
  <2>5. ASSUME NEW y PROVE PendingIn(r, y) = Is(w.h, y)
    <3>1. CASE y = w.h
      <4>1. {i \in DOMAIN r : RefersTo(r[i], y)} = {1}
        BY <2>2, <2>3, <2>4, <3>1
      <4> QED BY <3>1, <4>1, FS_Singleton DEF PendingIn, Is
    <3>2. CASE y # w.h
      <4>1. \A i \in DOMAIN r : ~RefersTo(r[i], y) BY <2>2, <2>3, <2>4, <3>2
      <4> QED BY <3>2, <4>1, PendingNone DEF Is
    <3> QED BY <3>1, <3>2
  <2> QED BY <2>2, <2>4, <2>5
<1> QED BY <1>1, <1>2, <1>5, <1>6, <1>7, <1>8, <1>9, <1>10

LEMMA PrefetchedVar ==
    ASSUME Inv, Doing("prefetch"), NEW w, w = Head(todo), NEW v, v = Subject
    PROVE  /\ v \in Blocks /\ IsVar(v) /\ kind[v] # "bytesVar" /\ ~IsStmt(v)
           /\ KeepsFields(v) /\ ~Dead(v) /\ mem[v] = "live" /\ mem[Conn] = "live"
           /\ w.h = v /\ Place \in {"value", "returned"}
           /\ Place \in RolesOf(kind[v])
           /\ w.why = "new" => refCount[v] = 1 /\ Counted(v) = 1
<1> PICK r : r = Tail(todo) OBVIOUS
<1>1. w \in Works /\ WorkOK(w) /\ w.do = "prefetch" /\ w.h = v /\ v \in Blocks
  <2>1. w \in Works /\ WorkOK(w) /\ w.do = "prefetch" BY RestOfPrefetch
  <2> QED BY <2>1 DEF Subject, Works
<1>2. IsVar(v) /\ kind[v] # "bytesVar" /\ ~IsStmt(v) /\ kind[v] \in VarKinds
      /\ kind[v] # "json"
  BY <1>1 DEF WorkOK, IsVar, IsStmt, VarKinds, StmtKinds, Queries
<1>3. ~Dead(v)
  <2>1. CASE w.why = "new"
    <3>1. PICK i \in DOMAIN todo : RefersTo(todo[i], v)
      BY <1>1, <2>1, RestOfPrefetch
    <3> QED BY <1>1, <3>1, PendingAlive
  <2>2. CASE w.why # "new"
    <3>1. Anchored(v) BY <1>1, <2>2 DEF WorkOK
    <3>2. CASE user[v] > 0 BY <1>1, <3>2, UsersAlive
    <3>3. CASE \E s \in Blocks : /\ user[s] > 0 /\ IsStmt(s)
                                 /\ field[s].bind = v \/ field[s].column = v
      <4>1. PICK s \in Blocks : /\ user[s] > 0 /\ IsStmt(s)
                                /\ field[s].bind = v \/ field[s].column = v
        BY <3>3
      <4>2. /\ KeepsFields(s) /\ "bind" \in RolesOf(kind[s])
            /\ "column" \in RolesOf(kind[s])
        BY <4>1, UsersAlive, RolesAre DEF IsStmt
      <4>3. "bind" \in DOMAIN field[s] /\ "column" \in DOMAIN field[s]
        BY <4>2, HoldsFields
      <4> QED BY <1>1, <4>1, <4>3, PointedAlive
    <3> QED BY <3>1, <3>2, <3>3 DEF Anchored
  <2> QED BY <2>1, <2>2
<1>4. KeepsFields(v) /\ mem[v] = "live" BY <1>1, <1>3, AliveKeeps
<1>5. /\ Place \in {"value", "returned"} /\ Place \in RolesOf(kind[v])
      /\ "conn" \in RolesOf(kind[v])
  BY <1>2, RolesAre DEF Place
<1>6. mem[Conn] = "live" BY <1>1, <1>4, <1>5, ConnHeld
<1>7. w.why = "new" => refCount[v] = 1 /\ Counted(v) = 1
  <2>1. refCount[v] = Counted(v) BY <1>1, <1>2, <1>3 DEF Inv, CountOK
  <2>2. w.why = "new" => refCount[v] = 1 BY <1>1 DEF WorkOK
  <2> QED BY <2>1, <2>2
<1> QED BY <1>1, <1>2, <1>3, <1>4, <1>5, <1>6, <1>7

LEMMA WorkAfterMaking ==
    ASSUME Inv, NEW h \in Blocks, mem[h] = "unused", NEW v \in Blocks, IsVar(v),
           \A y \in Blocks \ {h} : kind'[y] = kind[y],
           \A y \in Blocks \ {h} : IsVar(y) => refCount'[y] = refCount[y],
           \A y \in Blocks \ {h, v} : field'[y] = field[y],
           UNCHANGED <<quota, user, closing, lastRowid>>,
           NEW e \in Works, WorkOK(e), Rest(e)
    PROVE  WorkOK(e)'
<1>1. kind[h] = "none" /\ user[h] = 0 BY UnusedIs
<1>2. \A y \in Blocks : user[y] > 0 \/ IsVar(y) \/ IsStmt(y) => y # h
  BY <1>1 DEF IsVar, IsStmt, VarKinds, StmtKinds, Queries
<1>3. \A y \in Blocks : IsStmt(y) => y # v /\ ~IsVar(y)
  BY DEF IsVar, IsStmt, VarKinds, StmtKinds, Queries
<1>4. /\ e.h \in Blocks /\ e.arg \in Blocks \cup {NULL}
      /\ e.do \in LastWorks \cup {"prefetch"}
      /\ e.do \notin FreeWorks \cup CloseWorks \cup SweepWorks
             \cup {"freeStmt", "closeStmt", "releaseStmt"}
  BY DEF Works, Rest, LastWorks, FreeWorks, CloseWorks, SweepWorks
<1>5. \A y \in Blocks : IsVar(y) => IsVar(y)' /\ kind'[y] = kind[y]
  BY <1>2 DEF IsVar
<1>6. \A y \in Blocks : IsStmt(y) => IsStmt(y)' /\ field'[y] = field[y]
  BY <1>2, <1>3 DEF IsStmt
<1>7. \A y \in Blocks : Anchored(y) => Anchored(y)' BY <1>6 DEF Anchored
<1>8. CASE e.do = "give" BY <1>2, <1>4, <1>5, <1>8 DEF WorkOK
<1>9. CASE e.do = "define" BY <1>2, <1>4, <1>5, <1>6, <1>9 DEF WorkOK
<1>10. CASE e.do = "bind" BY <1>2, <1>4, <1>5, <1>6, <1>10 DEF WorkOK
<1>11. CASE e.do \in {"populate", "dequeue"} BY <1>2, <1>4, <1>11 DEF WorkOK
<1>12. CASE e.do = "lastRowid" BY <1>2, <1>4, <1>12 DEF WorkOK, Allowed
<1>13. CASE e.do = "prefetch" BY <1>4, <1>5, <1>7, <1>13 DEF WorkOK, Rest
<1> QED BY <1>4, <1>8, <1>9, <1>10, <1>11, <1>12, <1>13 DEF LastWorks

LEMMA ContentFits ==
    ASSUME Inv, Doing("prefetch"), NEW v, v = Subject, NEW k,
           k = MadeFor[kind[v]], NEW f, f = FieldsOf(k, v)
    PROVE  /\ Fit(k, f) /\ k \in {"lob", "rowid", "cursor", "object"}
           /\ k \in KindsOf(kind[v], Place)
           /\ \A y \in Blocks : IsVar(y) => CountOf(f, y) = 0
<1>1. /\ v \in Blocks /\ IsVar(v) /\ kind[v] # "bytesVar"
      /\ KeepsFields(v) /\ mem[Conn] = "live"
      /\ Place \in {"value", "returned"}
  BY PrefetchedVar
<1>2. kind[v] \in {"lobVar", "longVar", "stmtVar", "rowidVar", "objectVar"}
  BY <1>1 DEF IsVar, VarKinds
<1>3. KindsOf(kind[v], Place) = Contents(kind[v]) BY <1>1 DEF KindsOf
<1>4. /\ k \in {"lob", "rowid", "cursor", "object"}
      /\ k = "object" => kind[v] = "objectVar"
      /\ k \in Contents(kind[v])
  BY <1>2 DEF MadeFor, Contents, ContentKinds, StmtKinds, Queries
<1>5. kind[Conn] = "conn" /\ Conn \in Blocks BY ConnIsBlock DEF Inv, KindOK
<1>6. ASSUME NEW g,
             \A r \in DOMAIN g : g[r] # NULL => g[r] \in Blocks /\ ~IsVar(g[r])
      PROVE  \A y \in Blocks : IsVar(y) => CountOf(g, y) = 0
  <2> SUFFICES ASSUME NEW y \in Blocks, IsVar(y) PROVE CountOf(g, y) = 0
    OBVIOUS
  <2>1. {r \in DOMAIN g : g[r] = y} = {} BY <1>6, HandleTreeAssumption
  <2> QED BY <2>1, FS_EmptySet DEF CountOf
<1>7. ~IsVar(Conn) BY <1>5 DEF IsVar, VarKinds
<1>8. CASE k = "lob"
  <2>1. f = [conn |-> Conn] BY <1>8 DEF FieldsOf, LobFields
  <2>2. Fit(k, f) BY <1>1, <1>8, <2>1, ConnAloneFits
  <2>3. \A r \in DOMAIN f : f[r] = Conn BY <2>1
  <2> QED BY <1>3, <1>4, <1>5, <1>6, <1>7, <2>2, <2>3
<1>9. CASE k = "rowid"
  <2>1. f = NoFields BY <1>9 DEF FieldsOf
  <2>2. DOMAIN f = {} BY <2>1 DEF NoFields
  <2> QED BY <1>3, <1>4, <1>6, <1>9, <2>1, <2>2, RowidFits
<1>10. CASE k = "cursor"
  <2>1. f = StmtFields /\ k \in StmtKinds
    BY <1>10 DEF FieldsOf, StmtKinds, Queries
  <2>2. Fit(k, f) BY <1>1, <2>1, StmtFieldsFit
  <2>3. \A r \in DOMAIN f : f[r] = Conn \/ f[r] = NULL BY <2>1 DEF StmtFields
  <2>4. \A y \in Blocks : IsVar(y) => CountOf(f, y) = 0
    <3>1. \A r \in DOMAIN f : f[r] # NULL => f[r] \in Blocks /\ ~IsVar(f[r])
      BY <1>5, <1>7, <2>3
    <3> QED BY <1>6, <3>1
  <2> QED BY <1>3, <1>4, <2>2, <2>4
<1>11. CASE k = "object"
  <2> PICK t : t = field[v].type OBVIOUS
  <2>1. t \in Blocks /\ mem[t] = "live" /\ kind[t] = "objectType"
    BY <1>1, <1>4, <1>11, TypeHeld
  <2>2. f = ObjectFields(t, NULL) BY <1>11 DEF FieldsOf
  <2>3. Fit(k, f) BY <1>11, <2>1, <2>2, ObjectFieldsFit
  <2>4. ~IsVar(t) BY <2>1 DEF IsVar, VarKinds
  <2>5. \A r \in DOMAIN f : f[r] = t \/ f[r] = NULL BY <2>2 DEF ObjectFields
  <2>6. \A y \in Blocks : IsVar(y) => CountOf(f, y) = 0
    <3>1. \A r \in DOMAIN f : f[r] # NULL => f[r] \in Blocks /\ ~IsVar(f[r])
      BY <2>1, <2>4, <2>5
    <3> QED BY <1>6, <3>1
  <2> QED BY <1>3, <1>4, <2>3, <2>6
<1> QED BY <1>4, <1>8, <1>9, <1>10, <1>11

MadeContent(h, k, f) ==
    /\ mem' = [mem EXCEPT ![h] = "live"]
    /\ kind' = [kind EXCEPT ![h] = k]
    /\ refCount' = [x \in Blocks |->
                       IF x = h THEN 1 ELSE refCount[x] + CountOf(f, x)]
    /\ OciOf(h) /\ UNCHANGED <<quota, closing, user, lastRowid, lost>>
LEMMA ContentIsNew ==
    ASSUME Inv, Doing("prefetch"), NEW v, v = Subject, NEW k,
           k = MadeFor[kind[v]], NEW f, f = FieldsOf(k, v), NEW h \in Fresh,
           MadeContent(h, k, f)
    PROVE  /\ NewHandle(h, k, f) /\ h \in Blocks /\ mem[h] = "unused" /\ h # v
           /\ kind'[v] = kind[v] /\ mem'[v] = "live" /\ mem'[h] = "live"
           /\ \A y \in Blocks \ {h} : kind'[y] = kind[y]
           /\ \A y \in Blocks \ {h} : IsVar(y) => refCount'[y] = refCount[y]
<1>1. /\ Fit(k, f) /\ k \in {"lob", "rowid", "cursor", "object"}
      /\ \A y \in Blocks : IsVar(y) => CountOf(f, y) = 0
  BY ContentFits
<1>2. h \in Blocks /\ mem[h] = "unused" BY FreshIs
<1>3. NewHandle(h, k, f)
  <2>1. UserTyped BY DEF UserTyped, MadeContent, Inv, HandlesTypes
  <2>2. Takes(h, k, f) BY <1>1 DEF Takes, Fit, MadeContent
  <2> QED BY <1>1, <1>2, <2>1, <2>2 DEF NewHandle, MadeContent
<1>4. v \in Blocks /\ mem[v] = "live" /\ h # v BY <1>2, PrefetchedVar
<1>5. /\ \A y \in Blocks : mem'[y] = IF y = h THEN "live" ELSE mem[y]
      /\ \A y \in Blocks \ {h} : kind'[y] = kind[y]
  BY <1>2, <1>3, OneBorn
<1>6. \A y \in Blocks \ {h} : IsVar(y) => refCount'[y] = refCount[y]
  <2>1. refCount \in [Blocks -> Int] BY DEF Inv, HandlesTypes
  <2> QED BY <1>1, <2>1 DEF MadeContent
<1> QED BY <1>2, <1>3, <1>4, <1>5, <1>6

LEMMA ContentHeld ==
    ASSUME Inv, Doing("prefetch"), NEW v, v = Subject, NEW k,
           k = MadeFor[kind[v]], NEW f, f = FieldsOf(k, v), NEW h \in Fresh,
           MadeContent(h, k, f), NEW role, role = Place, Content = NULL,
           field' = [field EXCEPT ![h] = f, ![v] = [@ EXCEPT ![role] = h]],
           NEW r, r = Tail(todo), todo' = r, NewSlot(h, k)
    PROVE  Inv'
<1> PICK w : w = Head(todo) OBVIOUS
<1>1. /\ NewHandle(h, k, f) /\ h \in Blocks /\ mem[h] = "unused" /\ h # v
      /\ \A y \in Blocks \ {h} : kind'[y] = kind[y]
      /\ \A y \in Blocks \ {h} : IsVar(y) => refCount'[y] = refCount[y]
  BY ContentIsNew
<1>2. /\ v \in Blocks /\ IsVar(v) /\ ~IsStmt(v) /\ KeepsFields(v)
      /\ role \in RolesOf(kind[v])
  BY PrefetchedVar
<1>3. k \in KindsOf(kind[v], role) BY ContentFits
<1>4. /\ field' = [y \in Blocks |-> field'[y]] /\ field'[h] = f
      /\ \A y \in Blocks \ {h, v} : field'[y] = field[y]
      /\ field'[v] = [field[v] EXCEPT ![role] = h]
  BY <1>1, <1>2 DEF Inv, HandlesTypes
<1>5. HeldIn(h, k, f, v, role) BY <1>2, <1>3, <1>4 DEF HeldIn
<1>6. /\ r \in Seq(Works) /\ Shape(r) /\ NoneFreed(todo) /\ NoneFreed(r)
      /\ \A i \in DOMAIN r : r[i] \in Works /\ WorkOK(r[i]) /\ Rest(r[i])
      /\ \A y : PendingIn(todo, y) = PendingIn(r, y) /\ PendingIn(r, y) \in Nat
  BY RestOfPrefetch
<1>7. UNCHANGED <<quota, user, closing, lastRowid, lost>> BY DEF MadeContent
<1>8. ASSUME NEW i \in DOMAIN r PROVE WorkOK(r[i])' /\ r[i].do # "freeStmt"
  <2>1. PICK e \in Works : e = r[i] BY <1>6
  <2>2. WorkOK(e) /\ Rest(e) BY <1>6, <2>1
  <2>3. WorkOK(e)' BY <1>1, <1>2, <1>4, <1>7, <2>2, WorkAfterMaking
  <2> QED BY <2>1, <2>2, <2>3 DEF Rest, LastWorks
<1>9. CallsFine
  <2>1. WorksOK' BY <1>8 DEF WorksOK
  <2>2. EndOK' BY <1>8 DEF EndOK
  <2> QED BY <1>6, <2>1, <2>2 DEF CallsFine, NoneFreed
<1>10. PendingHeld(field[v][role])
  <2>1. field[v][role] = NULL BY DEF Content
  <2>2. \A y \in Blocks : Is(NULL, y) = 0 BY HandleTreeAssumption DEF Is
  <2> QED BY <1>6, <2>1, <2>2 DEF PendingHeld, NoneFreed
<1> QED BY <1>1, <1>2, <1>5, <1>6, <1>7, <1>9, <1>10, HeldBirth

(* A new variable that has no value is freed with what was made for it.     *)
LEMMA TwoFreesFine ==
    ASSUME NEW a \in Blocks, NEW b \in Blocks, a # b,
           todo' = <<Free(a)>> \o <<Free(b)>>, mem'[a] = "live", mem'[b] = "live"
    PROVE  /\ CallsFine
           /\ \A y \in Blocks : /\ FreesIn(todo', y) <=> y \in {a, b}
                                /\ PendingIn(todo', y) = 0
<1>1. PICK e \in Works : e = Free(a)
  BY WorkTyped DEF Free, WorkNames, FreeWorks
<1>2. PICK g \in Works : g = Free(b)
  BY WorkTyped DEF Free, WorkNames, FreeWorks
<1>3. PICK p : p = todo' OBVIOUS
<1>4. p = <<e, g>>
  <2>1. <<e>> \o <<g>> = <<e, g>> BY Pair
  <2> QED BY <1>1, <1>2, <1>3, <2>1
<1>5. e.do = "free" /\ e.h = a /\ g.do = "free" /\ g.h = b
  BY <1>1, <1>2 DEF Free, WorkOn
<1>6. /\ p \in Seq(Works) /\ DOMAIN p = {1, 2}
      /\ p[1].do = "free" /\ p[1].h = a /\ p[2].do = "free" /\ p[2].h = b
  BY <1>4, <1>5
<1>7. \A i \in DOMAIN p : p[i].do = "free" BY <1>6
<1>8. FreedOnce(p) BY <1>6 DEF FreedOnce
<1>9. Shape(p)
  <2>1. \A i \in DOMAIN p : ~GivesUp(p[i]) /\ ~OfFreeConn(p[i])
    BY <1>7 DEF GivesUp, OfFreeConn, SweepWorks, CloseWorks
  <2>2. GivesUpAlone(p) /\ ConnForgotten(p)
    BY <2>1 DEF GivesUpAlone, ConnForgotten
  <2>3. LastIsLast(p) /\ PrefetchLate(p) /\ NewFirst(p) /\ GiveAlone(p)
        /\ CloseFirst(p) /\ ReleaseEnds(p)
    BY <1>7 DEF LastIsLast, PrefetchLate, NewFirst, GiveAlone, CloseFirst,
       ReleaseEnds, LastWorks
  <2> QED BY <1>8, <2>2, <2>3 DEF Shape
<1>10. WorksOK'
  <2>1. ASSUME NEW i \in DOMAIN p PROVE WorkOK(p[i])'
    <3>1. p[i].do = "free" /\ mem'[p[i].h] = "live" BY <1>6
    <3> QED BY <3>1 DEF WorkOK, SweepWorks, CloseWorks
  <2> QED BY <1>3, <2>1 DEF WorksOK
<1>11. EndOK' BY <1>3, <1>7 DEF EndOK
<1>12. \A y \in Blocks : FreesIn(p, y) <=> y \in {a, b}
  BY <1>6 DEF FreesIn, FreeWorks
<1>13. \A y : ~ForgetsIn(p, y) /\ PendingIn(p, y) = 0
  <2>1. \A y : \A i \in DOMAIN p : ~RefersTo(p[i], y) BY <1>7 DEF RefersTo
  <2> QED BY <1>7, <2>1, PendingNone DEF ForgetsIn
<1> QED BY <1>3, <1>6, <1>9, <1>10, <1>11, <1>12, <1>13 DEF CallsFine

LEMMA ContentFailsNew ==
    ASSUME Inv, Doing("prefetch"), NEW v, v = Subject, NEW k,
           k = MadeFor[kind[v]], NEW f, f = FieldsOf(k, v), NEW h \in Fresh,
           MadeContent(h, k, f), Head(todo).why = "new",
           field' = [field EXCEPT ![h] = f], lists' = lists,
           todo' = <<Free(h)>> \o <<Free(v)>>
    PROVE  Inv'
<1> PICK w : w = Head(todo) OBVIOUS
<1> PICK r : r = Tail(todo) OBVIOUS
<1>1. /\ NewHandle(h, k, f) /\ h \in Blocks /\ mem[h] = "unused" /\ h # v
      /\ mem'[v] = "live" /\ mem'[h] = "live"
  BY ContentIsNew
<1>2. /\ v \in Blocks /\ IsVar(v) /\ w.h = v /\ Counted(v) = 1 BY PrefetchedVar
<1>3. /\ CallsFine
      /\ \A y \in Blocks : /\ FreesIn(todo', y) <=> y \in {h, v}
                           /\ PendingIn(todo', y) = 0
  BY <1>1, <1>2, TwoFreesFine
<1>4. NoneFreed(todo) /\ \A y : PendingIn(todo, y) = Is(v, y)
  BY <1>2, RestOfPrefetch
<1>5. BornFields({h}) /\ PointersAfter(f, NULL, NULL) BY <1>1, AloneFields
<1>6. UNCHANGED <<quota, user, closing, lastRowid, lost>> BY DEF MadeContent
<1>7. BornElsewhere({h}) BY <1>6 DEF BornElsewhere, Inv, HandlesTypes
<1>8. OwnedAfter(h, f, NULL, NULL)
  <2>1. ASSUME NEW y \in Blocks
        PROVE  /\ Owned(y) = Owned(y)' + Is(v, y) /\ Owned(y)' \in Nat
               /\ Is(NULL, y) = 0
    <3>1. /\ Forgotten(y)' = Forgotten(y) /\ user'[y] = user[y]
          /\ RowidsIn(lastRowid, closing, y)' = RowidsIn(lastRowid, closing, y)
          /\ user[y] \in Nat /\ Forgotten(y) \in Nat
          /\ RowidsIn(lastRowid, closing, y) \in Nat
      BY <1>6, Parts DEF Forgotten, RowidsIn
    <3>2. Is(NULL, y) = 0 /\ Is(v, y) \in Nat BY HandleTreeAssumption DEF Is
    <3>3. PendingIn(todo, y) = Is(v, y) /\ PendingIn(todo', y) = 0
      BY <1>3, <1>4
    <3> QED BY <3>1, <3>2, <3>3 DEF Owned
  <2>2. /\ Is(v, v) = 1 /\ \A y \in Blocks \ {v} : Is(v, y) = 0 BY DEF Is
  <2>3. Owned(h)' + Is(NULL, h) = 0
    <3>1. /\ user[h] = 0 /\ PendingIn(todo, h) = 0 /\ Forgotten(h) = 0
          /\ RowidsIn(lastRowid, closing, h) = 0
      BY <1>1, UnusedIs
    <3>2. Owned(h) = 0 BY <3>1 DEF Owned
    <3> QED BY <1>1, <2>1, <2>2, <3>2
  <2>4. CountOf(f, v) = 0 BY <1>2, ContentFits
  <2>5. ASSUME NEW y \in Blocks \ {h}
        PROVE  \/ ~FreesIn(todo', y) /\ Owned(y)' = Owned(y) + Is(NULL, y)
               \/ /\ FreesIn(todo', y) /\ Counted(y) = 1 /\ CountOf(f, y) = 0
                  /\ Owned(y)' + 1 = Owned(y)
    <3>1. CASE y = v BY <1>2, <1>3, <2>1, <2>2, <2>4, <3>1
    <3>2. CASE y # v
      <4>1. ~FreesIn(todo', y) BY <1>3, <3>2
      <4>2. Owned(y)' = Owned(y) + Is(NULL, y) BY <2>1, <2>2, <3>2
      <4> QED BY <4>1, <4>2
    <3> QED BY <3>1, <3>2
  <2> QED BY <1>1, <1>3, <2>3, <2>5 DEF OwnedAfter
<1>9. PICK old : old = NULL OBVIOUS
<1>10. PICK held \in {h, NULL} : held = NULL OBVIOUS
<1>11. old # h /\ PointersAfter(f, old, held) /\ OwnedAfter(h, f, old, held)
  BY <1>1, <1>5, <1>8, <1>9, <1>10, HandleTreeAssumption
<1>12. NewSlot(h, k) BY DEF NewSlot
<1> QED BY <1>1, <1>3, <1>4, <1>5, <1>7, <1>11, <1>12, BirthOneStep

LEMMA PrefetchAllocateKeeps ==
    ASSUME Inv, PrefetchAllocate PROVE Inv'
<1>1. PICK h \in Fresh : MakeContent(h) BY DEF PrefetchAllocate
<1>2. PICK v : v = Subject OBVIOUS
<1>3. PICK k : k = MadeFor[kind[v]] OBVIOUS
<1>4. PICK f : f = FieldsOf(k, v) OBVIOUS
<1>5. PICK role : role = Place OBVIOUS
<1>6. Doing("prefetch") /\ Content = NULL BY DEF PrefetchAllocate
<1>7. \/ /\ oci' = [oci EXCEPT ![h] = "open"]
         /\ field' = [field EXCEPT ![h] = f, ![v] = [@ EXCEPT ![role] = h]]
         /\ todo' = Tail(todo)
         /\ IF k = "rowid" THEN UNCHANGED <<lists, openSlotNum>>
            ELSE AddHandle(ListOf(k), h)
      \/ /\ field' = [field EXCEPT ![h] = f]
         /\ todo' = <<Free(h)>> \o (IF Head(todo).why = "new" THEN <<Free(v)>>
                                    ELSE <<>>)
         /\ UNCHANGED <<oci, lists, openSlotNum>>
  BY <1>1, <1>2, <1>3, <1>4, <1>5 DEF MakeContent
<1>8. MadeContent(h, k, f)
  <2>1. OciOf(h) BY <1>7 DEF OciOf
  <2> QED BY <1>1, <1>2, <1>3, <1>4, <2>1 DEF MakeContent, MadeContent,
      varVars, listVars
<1>9. CASE /\ field' = [field EXCEPT ![h] = f, ![v] = [@ EXCEPT ![role] = h]]
           /\ todo' = Tail(todo)
           /\ IF k = "rowid" THEN UNCHANGED <<lists, openSlotNum>>
              ELSE AddHandle(ListOf(k), h)
  <2>1. k \in {"lob", "rowid", "cursor", "object"}
    BY <1>2, <1>3, <1>4, <1>6, ContentFits
  <2>2. NewSlot(h, k)
    BY <1>9, <2>1 DEF NewSlot, ListOf, Lists, Listed, StmtKinds, Queries
  <2> QED BY <1>2, <1>3, <1>4, <1>5, <1>6, <1>8, <1>9, <2>2, ContentHeld
<1>10. CASE /\ field' = [field EXCEPT ![h] = f] /\ UNCHANGED lists
            /\ todo' = <<Free(h)>> \o (IF Head(todo).why = "new" THEN <<Free(v)>>
                                       ELSE <<>>)
  <2>1. CASE Head(todo).why = "new"
    BY <1>2, <1>3, <1>4, <1>6, <1>8, <1>10, <2>1, ContentFailsNew
  <2>2. CASE Head(todo).why # "new"
    <3>1. todo' = <<Free(h)>>
      <4>1. Free(h) \in Works
        BY FreshIs, WorkTyped DEF Free, WorkNames, FreeWorks
      <4> QED BY <1>10, <2>2, <4>1
    <3>2. NewHandle(h, k, f) /\ h \in Blocks
      BY <1>2, <1>3, <1>4, <1>6, <1>8, ContentIsNew
    <3>3. NothingLeft BY <1>6, <2>2, RestOfPrefetch DEF NothingLeft
    <3> QED BY <1>8, <1>10, <3>1, <3>2, <3>3, FailedBirth DEF MadeContent
  <2> QED BY <2>1, <2>2
<1> QED BY <1>7, <1>9, <1>10

-----------------------------------------------------------------------------
(* Every step preserves the invariant.                                      *)
LEMMA LobStepKeeps == ASSUME Inv, LobStep, UNCHANGED varVars PROVE Inv'
<1>1. CASE CloseEachLob BY <1>1, CloseEachLobKeeps
<1>2. CASE FreeLob BY <1>2, FreeLobKeeps
<1>3. CASE \E h \in Unused : NewTempLob(h) \/ \E l \in Blocks : CopyLob(l, h)
  BY <1>3, LobMakesKeeps DEF Unused
<1>4. CASE \E h \in Blocks : CloseLob(h) BY <1>4, CloseLobKeeps
<1> QED BY <1>1, <1>2, <1>3, <1>4 DEF LobStep

LEMMA ObjectStepKeeps == ASSUME Inv, ObjectStep, UNCHANGED varVars PROVE Inv'
<1>1. CASE CloseEachObject BY <1>1, CloseEachObjectKeeps
<1>2. CASE FreeObject BY <1>2, FreeObjectKeeps
<1>3. CASE FreeObjectType \/ FreeObjectAttr BY <1>3, FreeTypesKeeps
<1>4. ASSUME NEW h \in Unused,
             GetObjectType(h) \/ \E x \in Blocks : GetAttributes(x, h)
      PROVE  Inv'
  BY <1>4, TypeMakesKeeps DEF Unused
<1>5. ASSUME NEW h \in Unused, NEW x \in Blocks,
             \/ CreateObject(x, h) \/ CopyObject(x, h)
             \/ GetValue(x, h) \/ SetValue(x, h)
      PROVE  Inv'
  BY <1>5, PartMakesKeeps DEF Unused, PartMakes
<1> QED BY <1>1, <1>2, <1>3, <1>4, <1>5 DEF ObjectStep

LEMMA SodaStepKeeps == ASSUME Inv, SodaStep, UNCHANGED varVars PROVE Inv'
<1>1. CASE \/ FreeSodaDb \/ FreeSodaColl \/ FreeSodaDoc \/ FreeSodaCollCursor
           \/ FreeSodaDocCursor
  BY <1>1, FreeSodaKeeps
<1>2. ASSUME NEW h \in Unused, GetSodaDb(h) PROVE Inv'
  BY <1>2, ConnMakesKeeps DEF Unused
<1>3. ASSUME NEW h \in Unused, NEW x \in Blocks,
             \/ CreateCollection(x, h) \/ OpenCollection(x, h)
             \/ CreateDocument(x, h) \/ GetCollections(x, h)
             \/ NextCollection(x, h) \/ Find(x, h)
             \/ NextDocument(x, h) \/ FindOne(x, h) \/ GetDataGuide(x, h)
             \/ \E d \in Blocks : \/ InsertMany(x, d, h) \/ InsertOne(x, d, h)
                                  \/ ReplaceOne(x, d, h) \/ Save(x, d, h)
      PROVE  Inv'
  <2>1. SodaMakes(x, h) BY <1>3 DEF SodaMakes
  <2>2. h \in Blocks BY DEF Unused
  <2> QED BY <2>1, <2>2, SodaMakesKeeps
<1>4. CASE \E x \in Blocks : CloseCursor(x) BY <1>4, CloseCursorKeeps
<1> QED BY <1>1, <1>2, <1>3, <1>4 DEF SodaStep

LEMMA MessageStepKeeps == ASSUME Inv, MessageStep, UNCHANGED varVars PROVE Inv'
<1>1. CASE FreeMsgProps BY <1>1, FreeTypesKeeps
<1>2. CASE FreeDeqOptions \/ FreeEnqOptions \/ FreeJson
  BY <1>2, FreeOptionsKeeps
<1>3. CASE FreeQueue BY <1>3, FreeQueueKeeps
<1>4. CASE PopulatePayload BY <1>4, PopulatePayloadKeeps
<1>5. CASE Dequeue BY <1>5, DequeueKeeps
<1>6. CASE \E h \in Fresh : PopulateProps(h) BY <1>6, PopulatePropsKeeps
<1>7. ASSUME NEW h \in Unused,
             \/ NewMsgProps(h) \/ NewDeqOptions(h) \/ NewEnqOptions(h)
             \/ NewJson(h) \/ NewQueue(h)
      PROVE  Inv'
  BY <1>7, ConnMakesKeeps DEF Unused
<1>8. ASSUME NEW h \in Fresh, NEW q \in Blocks,
             GetDeqOptions(q, h) \/ GetEnqOptions(q, h)
      PROVE  Inv'
  BY <1>8, QueueMakesKeeps
<1>9. ASSUME NEW h \in Blocks, NEW many \in BOOLEAN, Deq(h, many) PROVE Inv'
  BY <1>9, DeqKeeps
<1>10. ASSUME NEW h \in Blocks, NEW x \in Blocks,
              SetPayloadObject(h, x) \/ SetPayloadJson(h, x)
       PROVE  Inv'
  BY <1>10, SetPayloadKeeps
<1>11. ASSUME NEW h \in Blocks, NEW x \in Blocks, NEW y \in Blocks, Enq(h, x, y)
       PROVE  Inv'
  BY <1>11, EnqKeeps
<1> QED BY <1>1, <1>2, <1>3, <1>4, <1>5, <1>6, <1>7, <1>8, <1>9, <1>10, <1>11
    DEF MessageStep

LEMMA VariableStepKeeps ==
    ASSUME Inv, ReleasesCleanly, VariableStep, UNCHANGED <<tpc, numElements>>
    PROVE  Inv'
<1>1. CASE StmtMarkClosing \/ CloseEachStmt \/ FreeStmt \/ FreeStmtEnds
  BY <1>1, StmtMarkedKeeps, CloseEachStmtKeeps, FreeStmtKeeps, FreeStmtEndsKeeps
<1>2. CASE StmtReleased BY <1>2, StmtReleasedKeeps
<1>3. CASE FreeVar \/ FreeRowid \/ GiveVar
  BY <1>3, FreeVarKeeps, FreeRowidKeeps, GiveVarKeeps
<1>4. CASE PrefetchRelease \/ PrefetchAllocate \/ PrefetchNull
  BY <1>4, PrefetchReleaseKeeps, PrefetchAllocateKeeps, PrefetchNullKeeps
<1>5. CASE BindConverted \/ DefineNewVar \/ AllocateRowid
  BY <1>5, BindConvertedKeeps, DefineNewVarKeeps, AllocateRowidKeeps
<1>6. ASSUME NEW h \in Unused, NEW k \in StmtKinds, PrepareStmt(h, k)
      PROVE  Inv'
  BY <1>6, PrepareStmtKeeps DEF Unused
<1>7. ASSUME NEW h \in Unused, NEW k \in VarKinds, NewVar(h, k) PROVE Inv'
  BY <1>7, NewVarKeeps DEF Unused
<1>8. ASSUME NEW h \in Unused, NEW s \in Blocks, NEW k \in VarKinds,
             DefineNew(s, h, k)
      PROVE  Inv'
  BY <1>8, DefineNewKeeps DEF Unused
<1>9. ASSUME NEW h \in Fresh, NEW s \in Blocks, NEW o \in Blocks,
             BindValue(s, o, h)
      PROVE  Inv'
  BY <1>9, BindValueKeeps
<1>10. ASSUME NEW s \in Blocks, \/ CloseStmt(s) \/ Execute(s) \/ ReExecute(s)
                                \/ Fetch(s) \/ GetLastRowid(s) \/ KeepValue(s)
       PROVE  Inv'
  BY <1>10, CloseStmtKeeps, ExecuteKeeps, ReExecuteKeeps, FetchKeeps,
     GetLastRowidKeeps, KeepValueKeeps
<1>11. ASSUME NEW s \in Blocks, NEW x \in Blocks,
              \/ SetFromHandle(s, x) \/ CopyData(s, x)
              \/ Bind(s, x) \/ BindConverts(s, x) \/ Define(s, x)
       PROVE  Inv'
  BY <1>11, HoldValueKeeps, BindKeeps, BindConvertsKeeps, DefineKeeps
<1> QED BY <1>1, <1>2, <1>3, <1>4, <1>5, <1>6, <1>7, <1>8, <1>9, <1>10, <1>11
    DEF VariableStep

LEMMA StutterKeeps == ASSUME Inv, UNCHANGED HandleVars PROVE Inv'
  BY NothingChanges DEF HandleVars, vars, blockVars, listVars, varVars

LEMMA StepKeeps ==
    ASSUME Inv, ReleasesCleanly, [Next]_HandleVars PROVE Inv'
<1>1. ASSUME NEW h \in Blocks, AddRef(h) \/ Release(h), UNCHANGED varVars
      PROVE  Inv'
  BY <1>1, AddRefKeeps, ReleaseKeeps
<1>2. ASSUME SetRefCount \/ DoFreeMemory, UNCHANGED varVars PROVE Inv'
  BY <1>2, SetRefCountKeeps, DoFreeMemoryKeeps
<1>3. ASSUME CloseConn \/ EndSession \/ FreeConn \/ FreeEnv, UNCHANGED varVars
      PROVE  Inv'
  BY <1>3, CloseConnKeeps, EndSessionKeeps, FreeConnKeeps, FreeEnvKeeps
<1>4. ASSUME LobStep \/ ObjectStep \/ SodaStep, UNCHANGED varVars PROVE Inv'
  BY <1>4, LobStepKeeps, ObjectStepKeeps, SodaStepKeeps
<1>5. ASSUME MessageStep, UNCHANGED varVars PROVE Inv'
  BY <1>5, MessageStepKeeps
<1>6. ASSUME TransactionStep, UNCHANGED <<numElements, varVars>> PROVE Inv'
  BY <1>6, TransactionKeeps
<1>7. ASSUME VariableStep, UNCHANGED <<tpc, numElements>> PROVE Inv'
  BY <1>7, VariableStepKeeps
<1>8. CASE UNCHANGED HandleVars BY <1>8, StutterKeeps
<1>9. CASE Next BY <1>1, <1>2, <1>3, <1>4, <1>5, <1>6, <1>7, <1>9 DEF Next
<1> QED BY <1>8, <1>9

-----------------------------------------------------------------------------
(* In the initial state the program has the one reference that there is to  *)
(* the connection.                                                          *)
LEMMA InitKeeps == HandlesInit => Inv
<1> SUFFICES ASSUME HandlesInit PROVE Inv OBVIOUS
<1> USE DEF HandlesInit, Init, VarsInit
<1>1. HandlesTypes BY HandleTreeAssumption DEF HandlesTypes
<1>2. todo = <<>> /\ Shape(todo) /\ WorksOK /\ EndOK
  BY NoWorkShape DEF WorksOK, EndOK
<1>3. \A h : ~FreesIn(todo, h) /\ ~ForgetsIn(todo, h) /\ PendingIn(todo, h) = 0
  BY NoWorkShape
<1>4. ListsOK BY DEF ListsOK, ListedOK
<1>5. ASSUME NEW h \in Blocks
      PROVE  KindOK(h) /\ FieldsOK(h) /\ CountOK(h) /\ StmtOK(h)
  <2>1. KindOK(h) BY <1>5 DEF KindOK
  <2>2. field[h] = NoFields BY <1>5
  <2>3. FieldsOK(h)
    <3>1. KeepsFields(h) => kind[h] = "conn" BY <1>5 DEF KeepsFields
    <3>2. RolesOf("conn") = {} /\ "conn" \notin Queues
      BY DEF RolesOf, Queues, StmtKinds, Queries, VarKinds
    <3> QED BY <2>2, <3>1, <3>2 DEF FieldsOK, NoFields
  <2>4. PointersIn(field, h) = 0
    <3>1. UNION {{x} \X DOMAIN field[x] : x \in Blocks} = {} BY DEF NoFields
    <3> QED BY <3>1, FS_EmptySet DEF PointersIn
  <2>5. RowidsIn(lastRowid, closing, h) = 0
    <3>1. {s \in Blocks : lastRowid[s] = h /\ ~closing[s]} = {}
      BY <1>5, HandleTreeAssumption
    <3> QED BY <3>1, FS_EmptySet DEF RowidsIn
  <2>6. Counted(h) = user[h] BY <1>3, <1>5, <2>4, <2>5 DEF Counted, Forgotten
  <2>7. CountOK(h) BY <1>3, <1>5, <2>6 DEF CountOK, Dead
  <2>8. StmtOK(h) BY <1>5 DEF StmtOK, IsStmt, StmtKinds, Queries
  <2> QED BY <2>1, <2>3, <2>7, <2>8
<1> QED BY <1>1, <1>2, <1>4, <1>5 DEF Inv

(* The counts of the invariant are those of CountsReferences. *)
LEMMA InvCounts == Inv => CountsReferences
<1> SUFFICES ASSUME Inv, NEW h \in Blocks,
                    mem[h] = "live", ~BeingFreed(h), kind[h] # "json"
             PROVE  refCount[h] = user[h] + Pending(h) + Holding(h)
                                  + (IF h \in lost THEN 1 ELSE 0)
  BY DEF CountsReferences
<1>1. ~Dead(h) BY DEF Dead, FreesIn, FreeWorks, BeingFreed
<1>2. refCount[h] = Counted(h) BY <1>1 DEF Inv, CountOK
<1>3. Pending(h) = PendingIn(todo, h) BY DEF Pending, PendingIn, RefersTo
<1>4. Holding(h) = PointersIn(field, h) + RowidsIn(lastRowid, closing, h)
  BY DEF Holding, Pointers, PointersIn, RowidsIn
<1> QED BY <1>2, <1>3, <1>4, Parts DEF Counted, Forgotten

(* The invariant holds in every behaviour. *)
THEOREM Invariant == ASSUME ReleasesCleanly PROVE Spec => []Inv
<1>1. Inv /\ [Next]_HandleVars => Inv' BY StepKeeps
<1> QED BY <1>1, InitKeeps, PTL DEF Spec

(* Reference counts. *)
THEOREM CountsKept == ASSUME ReleasesCleanly PROVE Spec => []CountsReferences
<1> QED BY Invariant, InvCounts, PTL

-----------------------------------------------------------------------------
(***************************************************************************)
(* THE LISTS OF THE CONNECTION                                             *)
(*                                                                         *)
(* What holds besides Inv: the lists are in order while the connection is  *)
(* open and nothing has failed.                                            *)
(***************************************************************************)
InOrder == conn.handle /\ conn.ordered /\ ~conn.closing

EndsSession(works) ==
    \E i \in DOMAIN works : works[i].do = "endSession" /\ works[i].propagate

ConnTypes ==
    /\ conn \in [handle : BOOLEAN, session : BOOLEAN, closing : BOOLEAN,
                 dead : BOOLEAN, env : {"open", "freed"},
                 ordered : BOOLEAN]
    /\ oci \in [Blocks -> {"none", "open", "part", "freed"}]
    /\ openSlotNum = [h \in Blocks |-> openSlotNum[h]]

(* Who closes something for the program, or for the connection; and on what *)
(* the environment and the transaction are freed.                           *)
NoteOK(w) ==
    /\ w.do \in SweepWorks /\ w.propagate => conn.closing
    /\ w.do \in CloseWorks /\ w.propagate => user[w.h] > 0 \/ conn.closing
    /\ w.do \in {"freeEnv", "freeTransaction"} => w.h = Conn
NotesOK == \A i \in DOMAIN todo : NoteOK(todo[i])

(* Closing the connection comes to an end, before which the session is      *)
(* there; the environment is freed last.                                    *)
ConnOK ==
    /\ conn.closing /\ conn.handle => EndsSession(todo)
    /\ conn.env = "freed" => Dead(Conn)
    /\ conn.handle /\ ~Dead(Conn) => oci[Conn] = "open"
    /\ conn.handle /\ conn.ordered => conn.session

(* LOBs and objects that are closed, and the OCI handles of others, that    *)
(* last as long as they do.                                                 *)
SweptKinds == {"lob", "object"}
Lasting == {"msgProps", "deqOptions", "enqOptions", "json", "sodaColl",
            "sodaDoc"}
OciOK(h) ==
    /\ mem[h] = "unused" => oci[h] = "none"
    /\ kind[h] \in SweptKinds /\ closing[h] => oci[h] # "open"
    /\ kind[h] \in SweptKinds /\ mem[h] = "live" /\ ~KeepsFields(h) => closing[h]
    /\ kind[h] \in Lasting /\ ~Dead(h) => oci[h] = "open"
    /\ kind[h] = "object" /\ ~Dead(h) /\ InOrder => oci[h] \in {"open", "part"}

(* A list holds what is open, where it was told that it is.                 *)
HeldAt(l, i) ==
    lists[l][i] # NULL => /\ mem[lists[l][i]] = "live"
                          /\ oci[lists[l][i]] = "open"
                          /\ openSlotNum[lists[l][i]] = i
OpenIn(l, h) ==
    mem[h] = "live" /\ oci[h] = "open" /\ kind[h] \in Listed[l] =>
        openSlotNum[h] \in Slots /\ lists[l][openSlotNum[h]] = h
OrderOK ==
    InOrder => \A l \in Lists : /\ \A i \in Slots : HeldAt(l, i)
                                /\ \A h \in Blocks : OpenIn(l, h)

ListInv ==
    /\ ConnTypes
    /\ NotesOK
    /\ ConnOK
    /\ \A h \in Blocks : OciOK(h)
    /\ OrderOK

-----------------------------------------------------------------------------
(* What goes on: calls that are noted as they have to be, and the last of   *)
(* the blocks in X, come before those that were left, of which the one that *)
(* runs is done.                                                            *)
Noted(w) ==
    /\ w.do \in SweepWorks /\ w.propagate => conn'.closing
    /\ w.do \in CloseWorks /\ w.propagate => user'[w.h] > 0 \/ conn'.closing
    /\ w.do \in {"freeEnv", "freeTransaction"} => w.h = Conn
Follows(X, w) ==
    \/ Noted(w) /\ w.do # "freeMemory"
    \/ w.do = "freeMemory" /\ w.h \in X
GoesOn(X) ==
    /\ \A i \in DOMAIN todo' :
          Follows(X, todo'[i]) \/ \E j \in DOMAIN todo : todo'[i] = todo[j]
    /\ conn'.handle /\ conn'.closing /\ EndsSession(todo) => EndsSession(todo')
    /\ \A h : FreesIn(todo, h) => FreesIn(todo', h) \/ mem'[h] # "live"

(* Calls that close nothing for the program.                                *)
Plain(w) ==
    /\ w.do \in SweepWorks \cup CloseWorks => ~w.propagate
    /\ w.do \in {"freeEnv", "freeTransaction"} => w.h = Conn
    /\ w.do # "freeMemory"
AllPlain(works) == \A i \in DOMAIN works : Plain(works[i])

LEMMA PlainFollows == \A X, w : Plain(w) => Follows(X, w)
  BY DEF Plain, Follows, Noted

(* Nothing happens to the other blocks, but that a variable may become one  *)
(* of LOBs.                                                                 *)
OnlyAt(X) == \A h \in Blocks \ X :
    /\ mem'[h] = mem[h] /\ oci'[h] = oci[h] /\ closing'[h] = closing[h]
    /\ kind'[h] = kind[h] \/ (IsVar(h) /\ kind'[h] \in VarKinds)

(* The program keeps what it has while a function runs. *)
UsersStay == todo = <<>> \/ \A h \in Blocks : user[h] > 0 => user'[h] > 0

LEMMA DeadStays ==
    ASSUME NEW X, GoesOn(X), NEW h \in Blocks, mem'[h] = mem[h], Dead(h)
    PROVE  Dead(h)'
  BY DEF Dead, GoesOn

LEMMA ForgetsBack ==
    ASSUME NEW X, GoesOn(X), NEW h, h \notin X, ForgetsIn(todo', h)
    PROVE  ForgetsIn(todo, h)
<1>1. PICK i \in DOMAIN todo' : todo'[i].do = "freeMemory" /\ todo'[i].h = h
  BY DEF ForgetsIn
<1>2. ~Follows(X, todo'[i]) BY <1>1 DEF Follows
<1>3. PICK j \in DOMAIN todo : todo'[i] = todo[j] BY <1>1, <1>2 DEF GoesOn
<1> QED BY <1>1, <1>3 DEF ForgetsIn

LEMMA NotesStay ==
    ASSUME Inv, NotesOK, NEW X, GoesOn(X), UsersStay,
           conn.closing => conn'.closing \/ todo' = <<>>
    PROVE  NotesOK'
<1>0. SUFFICES ASSUME NEW i \in DOMAIN todo' PROVE Noted(todo'[i])
  BY DEF NotesOK, NoteOK, Noted
<1>1. CASE Follows(X, todo'[i])
  BY <1>1 DEF Follows, Noted, SweepWorks, CloseWorks
<1>2. ASSUME NEW j \in DOMAIN todo, todo'[i] = todo[j]
      PROVE  Noted(todo'[i])
  <2>1. NoteOK(todo[j]) BY DEF NotesOK
  <2>2. todo \in Seq(Works) BY DEF Inv, HandlesTypes
  <2>3. todo[j] \in Works BY <2>2
  <2>4. todo # <<>> /\ todo[j].h \in Blocks BY <2>3 DEF Works
  <2>5. user[todo[j].h] > 0 => user'[todo[j].h] > 0 BY <2>4 DEF UsersStay
  <2> QED BY <1>2, <2>1, <2>5 DEF NoteOK, Noted
<1> QED BY <1>1, <1>2 DEF GoesOn

LEMMA KindsDistinct ==
    /\ \A k \in VarKinds : /\ k \notin SweptKinds \cup Lasting
                           /\ \A l \in Lists : k \notin Listed[l]
    /\ \A l \in Lists : \A k \in Listed[l] :
          k \in SweptKinds \/ k \in StmtKinds
    /\ \A l, m \in Lists : l # m => Listed[l] \cap Listed[m] = {}
    /\ SweptKinds \cap Lasting = {} /\ StmtKinds \cap SweptKinds = {}
    /\ StmtKinds \cap Lasting = {}
    /\ \A k \in {"conn", "none"} :
          /\ k \notin SweptKinds \cup Lasting \cup StmtKinds
          /\ \A l \in Lists : k \notin Listed[l]
    /\ "lob" \in SweptKinds /\ "object" \in SweptKinds
<1>1. \A l \in Lists : \/ l = "openStmts" /\ Listed[l] = StmtKinds
                       \/ l = "openLobs" /\ Listed[l] = {"lob"}
                       \/ l = "objects" /\ Listed[l] = {"object"}
  BY DEF Lists, Listed
<1> QED BY <1>1 DEF VarKinds, SweptKinds, Lasting, StmtKinds, Queries

LEMMA ConnStays ==
    ASSUME Inv, ConnOK, NEW X, GoesOn(X), mem'[Conn] = mem[Conn],
           conn'.env = conn.env, conn'.handle = conn.handle,
           conn'.ordered => conn.ordered /\ conn'.session = conn.session,
           conn'.closing => conn.closing, oci'[Conn] = oci[Conn]
    PROVE  ConnOK'
<1>1. Dead(Conn) => Dead(Conn)' BY DeadStays, HandleTreeAssumption
<1> QED BY <1>1 DEF ConnOK, GoesOn

LEMMA OciStays ==
    ASSUME Inv, NEW X, GoesOn(X), OnlyAt(X), NEW h \in Blocks \ X, OciOK(h),
           InOrder' => InOrder
    PROVE  OciOK(h)'
<1>1. mem'[h] = mem[h] /\ oci'[h] = oci[h] /\ closing'[h] = closing[h]
  BY DEF OnlyAt
<1>2. mem[h] = "live" /\ ~KeepsFields(h)' => ~KeepsFields(h)
  BY <1>1, ForgetsBack DEF KeepsFields
<1>3. Dead(h) => Dead(h)' BY <1>1, DeadStays
<1>4. \A k : k \in SweptKinds \cup Lasting /\ kind'[h] = k => kind[h] = k
  BY KindsDistinct DEF OnlyAt
<1>5. kind'[h] = "object" => kind[h] = "object" BY <1>4 DEF SweptKinds
<1>6. kind'[h] \in SweptKinds => kind[h] \in SweptKinds BY <1>4
<1>7. kind'[h] \in Lasting => kind[h] \in Lasting BY <1>4
<1> QED BY <1>1, <1>2, <1>3, <1>5, <1>6, <1>7 DEF OciOK

(* All that a step has to show whose changes are in X. *)
LEMMA ListsFrom ==
    ASSUME Inv, ListInv, NEW X, GoesOn(X), UsersStay, OnlyAt(X), ConnOK',
           conn.closing => conn'.closing \/ todo' = <<>>, InOrder' => InOrder,
           ConnTypes', \A x \in X : OciOK(x)', OrderOK'
    PROVE  ListInv'
<1>1. NotesOK' BY NotesStay DEF ListInv
<1>2. \A h \in Blocks : OciOK(h)'
  <2>1. \A h \in Blocks \ X : OciOK(h)' BY OciStays DEF ListInv
  <2> QED BY <2>1
<1> QED BY <1>1, <1>2 DEF ListInv

LEMMA ListsKept ==
    ASSUME Inv, ListInv, NEW X, Conn \notin X, GoesOn(X), UsersStay, OnlyAt(X),
           conn'.env = conn.env, conn'.handle = conn.handle,
           conn'.ordered => conn.ordered /\ conn'.session = conn.session,
           \/ conn'.closing = conn.closing
           \/ ~conn'.closing /\ todo' = <<>>,
           InOrder' => InOrder, ConnTypes', \A x \in X : OciOK(x)', OrderOK'
    PROVE  ListInv'
<1>1. ConnOK'
  <2>1. mem'[Conn] = mem[Conn] /\ oci'[Conn] = oci[Conn]
    BY HandleTreeAssumption DEF OnlyAt
  <2> QED BY <2>1, ConnStays DEF ListInv
<1> QED BY <1>1, ListsFrom

(* The lists stay as they are. *)
LEMMA OrderStays ==
    ASSUME Inv, OrderOK, NEW X, OnlyAt(X), lists' = lists,
           openSlotNum' = openSlotNum, InOrder' => InOrder,
           \A x \in X : \A l \in Lists :
               /\ kind[x] \notin Listed[l]
               /\ kind'[x] \notin Listed[l] \/ oci'[x] # "open"
    PROVE  OrderOK'
<1> SUFFICES ASSUME InOrder', NEW l \in Lists
             PROVE  /\ \A i \in Slots : HeldAt(l, i)'
                    /\ \A h \in Blocks : OpenIn(l, h)'
  BY DEF OrderOK
<1>1. /\ \A i \in Slots : HeldAt(l, i)
      /\ \A h \in Blocks : OpenIn(l, h)
  BY DEF OrderOK
<1>2. ASSUME NEW i \in Slots PROVE HeldAt(l, i)'
  <2>1. CASE lists[l][i] = NULL BY <2>1 DEF HeldAt
  <2>2. CASE lists[l][i] # NULL
    <3>1. lists[l][i] \in Blocks /\ kind[lists[l][i]] \in Listed[l]
      BY <2>2, ListedLive
    <3>2. lists[l][i] \notin X BY <3>1
    <3> QED BY <1>1, <3>1, <3>2 DEF HeldAt, OnlyAt
  <2> QED BY <2>1, <2>2
<1>3. ASSUME NEW h \in Blocks PROVE OpenIn(l, h)'
  <2>1. CASE h \in X BY <2>1 DEF OpenIn
  <2>2. CASE h \notin X
    <3>1. kind'[h] \in Listed[l] => kind[h] \in Listed[l]
      BY <2>2, KindsDistinct DEF OnlyAt
    <3> QED BY <1>1, <2>2, <3>1 DEF OpenIn, OnlyAt
  <2> QED BY <2>1, <2>2
<1> QED BY <1>2, <1>3

(* Nothing is made or closed. *)
LEMMA NothingCloses ==
    ASSUME Inv, ListInv, GoesOn({}), UsersStay, OnlyAt({}), mem' = mem,
           oci' = oci, conn' = conn, UNCHANGED listVars
    PROVE  ListInv'
<1>1. ConnTypes' BY DEF ListInv, ConnTypes, listVars
<1>2. InOrder' => InOrder BY DEF InOrder
<1>3. OrderOK' BY <1>2, OrderStays DEF ListInv, listVars
<1> QED BY <1>1, <1>2, <1>3, ListsKept

-----------------------------------------------------------------------------
(* Sequences of calls that close nothing. *)
PlainSeq(works) == AllPlain(works) /\ \E S : works \in Seq(S)

LEMMA PlainNone == PlainSeq(<<>>)
<1>1. <<>> \in Seq({}) OBVIOUS
<1> QED BY <1>1 DEF PlainSeq, AllPlain

LEMMA PlainOne == \A w : Plain(w) => PlainSeq(<<w>>)
<1> SUFFICES ASSUME NEW w, Plain(w) PROVE PlainSeq(<<w>>) OBVIOUS
<1>1. <<w>> \in Seq({w}) OBVIOUS
<1>2. AllPlain(<<w>>) BY DEF AllPlain
<1> QED BY <1>1, <1>2 DEF PlainSeq

LEMMA PlainTwo == \A v, w : Plain(v) /\ Plain(w) => PlainSeq(<<v, w>>)
<1> SUFFICES ASSUME NEW v, NEW w, Plain(v), Plain(w) PROVE PlainSeq(<<v, w>>)
  OBVIOUS
<1>1. <<v, w>> \in Seq({v, w}) OBVIOUS
<1>2. AllPlain(<<v, w>>) BY DEF AllPlain
<1> QED BY <1>1, <1>2 DEF PlainSeq

LEMMA PlainBoth ==
    ASSUME NEW a, NEW b, PlainSeq(a), PlainSeq(b) PROVE PlainSeq(a \o b)
<1>1. PICK S : a \in Seq(S) BY DEF PlainSeq
<1>2. PICK T : b \in Seq(T) BY DEF PlainSeq
<1>3. a \in Seq(S \cup T) /\ b \in Seq(S \cup T) BY <1>1, <1>2
<1>4. a \o b \in Seq(S \cup T) BY <1>3
<1>5. ASSUME NEW i \in DOMAIN (a \o b) PROVE Plain((a \o b)[i])
  <2>1. Len(a) \in Nat /\ Len(b) \in Nat /\ Len(a \o b) = Len(a) + Len(b)
    BY <1>3
  <2>2. i \in 1 .. Len(a) + Len(b) BY <1>4, <2>1
  <2>3. CASE i <= Len(a)
    <3>1. i \in DOMAIN a /\ (a \o b)[i] = a[i] BY <1>3, <2>1, <2>2, <2>3
    <3> QED BY <3>1 DEF PlainSeq, AllPlain
  <2>4. CASE i > Len(a)
    <3>1. i - Len(a) \in DOMAIN b /\ (a \o b)[i] = b[i - Len(a)]
      BY <1>3, <2>1, <2>2, <2>4
    <3> QED BY <3>1 DEF PlainSeq, AllPlain
  <2> QED BY <2>1, <2>2, <2>3, <2>4
<1> QED BY <1>4, <1>5 DEF PlainSeq, AllPlain

LEMMA PlainUnref == \A h : Plain(Unref(h)) /\ Plain(Free(h))
  BY DEF Plain, Unref, Free, WorkOn, SweepWorks, CloseWorks

LEMMA PlainUnrefOf == \A q : PlainSeq(UnrefOf(q))
  BY PlainNone, PlainOne, PlainUnref DEF UnrefOf

(* Nothing was left but what a public function does last. *)
LEMMA GoesOnAlone ==
    ASSUME NEW X, AllPlain(todo), \A h : ~FreesIn(todo, h), AllPlain(todo')
    PROVE  GoesOn(X)
<1>1. ~EndsSession(todo) BY DEF AllPlain, Plain, SweepWorks, EndsSession
<1>2. \A i \in DOMAIN todo' : Follows(X, todo'[i]) BY PlainFollows DEF AllPlain
<1> QED BY <1>1, <1>2 DEF GoesOn

LEMMA GoesOnIdle ==
    ASSUME NEW X, Idle, AllPlain(todo') PROVE GoesOn(X) /\ UsersStay
<1>1. todo = <<>> /\ AllPlain(todo) BY DEF Idle, AllPlain
<1>2. \A h : ~FreesIn(todo, h) BY <1>1 DEF FreesIn
<1> QED BY <1>1, <1>2, GoesOnAlone DEF UsersStay

LEMMA GoesOnSame ==
    ASSUME NEW X, todo' = todo PROVE GoesOn(X)
  BY DEF GoesOn, EndsSession, FreesIn

(* A call is done, others come in its place. *)
LEMMA GoesOnWith ==
    ASSUME Inv, NEW X, todo # <<>>, NEW S, NEW p \in Seq(S),
           \A i \in DOMAIN p : Follows(X, p[i]),
           todo' = p \o Tail(todo),
           Head(todo).do = "endSession" /\ Head(todo).propagate => ~conn'.handle,
           Head(todo).do \in FreeWorks =>
               FreesIn(p, Head(todo).h) \/ mem'[Head(todo).h] # "live"
    PROVE  GoesOn(X)
<1> DEFINE r == Tail(todo)
           n == Len(p)
<1>1. todo \in Seq(Works) BY DEF Inv, HandlesTypes
<1>2. /\ r \in Seq(Works) /\ p \in Seq(S \cup Works) /\ r \in Seq(S \cup Works)
      /\ n \in Nat /\ Len(r) \in Nat /\ Len(todo) = Len(r) + 1
  BY <1>1
<1>3. \A j \in DOMAIN r : j + 1 \in DOMAIN todo /\ todo[j + 1] = r[j]
  BY <1>1, <1>2
<1>4. \A j \in DOMAIN todo : j = 1 \/ (j - 1 \in DOMAIN r /\ todo[j] = r[j - 1])
  BY <1>1, <1>2
<1>5. todo[1] = Head(todo) BY <1>1
<1>6. todo' = p \o r OBVIOUS
<1> HIDE DEF r, n
<1>20. p \in Seq(S \cup Works) /\ r \in Seq(S \cup Works) /\ todo' = p \o r
      /\ n = Len(p) /\ n \in Nat /\ Len(r) \in Nat
  BY <1>2, <1>6 DEF n
<1>7. \A j \in DOMAIN r : n + j \in DOMAIN todo' /\ todo'[n + j] = r[j]
  <2> TAKE j \in DOMAIN r
  <2>1. j \in 1 .. Len(r) BY <1>20
  <2>2. n + j \in 1 .. Len(p) + Len(r) /\ n + j > Len(p) /\ n + j - Len(p) = j
    BY <1>20, <2>1
  <2>3. (p \o r)[n + j] = r[n + j - Len(p)] /\ n + j \in DOMAIN (p \o r)
    BY <1>20, <2>2
  <2> QED BY <1>20, <2>2, <2>3
<1>8. \A i \in DOMAIN todo' : Follows(X, todo'[i])
                              \/ \E j \in DOMAIN r : todo'[i] = r[j]
  <2> TAKE i \in DOMAIN todo'
  <2>1. i \in 1 .. n + Len(r) BY <1>2, <1>6 DEF n
  <2>2. CASE i <= n
    <3>1. i \in DOMAIN p /\ todo'[i] = p[i] BY <1>2, <1>6, <2>1, <2>2 DEF n
    <3> QED BY <3>1
  <2>3. CASE i > n
    <3>1. i - n \in DOMAIN r /\ todo'[i] = r[i - n]
      <4>1. i - Len(p) \in 1 .. Len(r) /\ i - Len(p) \in DOMAIN r /\ i > Len(p)
        BY <1>20, <2>1, <2>3
      <4>2. (p \o r)[i] = r[i - Len(p)] BY <1>20, <2>1, <4>1
      <4> QED BY <1>20, <4>1, <4>2
    <3> QED BY <3>1
  <2> QED BY <1>2, <2>1, <2>2, <2>3
<1>9. EndsSession(todo) /\ conn'.handle => EndsSession(todo')
  <2> SUFFICES ASSUME EndsSession(todo), conn'.handle PROVE EndsSession(todo')
    OBVIOUS
  <2>1. PICK j \in DOMAIN todo : todo[j].do = "endSession" /\ todo[j].propagate
    BY DEF EndsSession
  <2>2. j # 1 BY <1>5, <2>1
  <2>3. j - 1 \in DOMAIN r /\ todo[j] = r[j - 1] BY <1>4, <2>2
  <2>4. n + (j - 1) \in DOMAIN todo' /\ todo'[n + (j - 1)] = todo[j]
    BY <1>7, <2>3
  <2> QED BY <2>1, <2>4 DEF EndsSession
<1>11. \A i \in DOMAIN p : i \in DOMAIN todo' /\ todo'[i] = p[i] BY <1>2, <1>6
<1>10. \A h : FreesIn(todo, h) => FreesIn(todo', h) \/ mem'[h] # "live"
  <2> SUFFICES ASSUME NEW h, FreesIn(todo, h), mem'[h] = "live"
               PROVE  FreesIn(todo', h)
    OBVIOUS
  <2>1. PICK j \in DOMAIN todo : todo[j].do \in FreeWorks /\ todo[j].h = h
    BY DEF FreesIn
  <2>2. CASE j = 1
    <3>1. FreesIn(p, h) BY <1>5, <2>1, <2>2
    <3> QED BY <1>11, <3>1 DEF FreesIn
  <2>3. CASE j # 1
    <3>1. j - 1 \in DOMAIN r /\ todo[j] = r[j - 1] BY <1>4, <2>3
    <3> QED BY <1>7, <2>1, <3>1 DEF FreesIn
  <2> QED BY <2>2, <2>3
<1>12. \A i \in DOMAIN todo' :
           Follows(X, todo'[i]) \/ \E j \in DOMAIN todo : todo'[i] = todo[j]
  <2> SUFFICES ASSUME NEW i \in DOMAIN todo', ~Follows(X, todo'[i])
               PROVE  \E j \in DOMAIN todo : todo'[i] = todo[j]
    OBVIOUS
  <2>1. PICK j \in DOMAIN r : todo'[i] = r[j] BY <1>8
  <2> QED BY <1>3, <2>1
<1>13. conn'.handle /\ conn'.closing /\ EndsSession(todo) => EndsSession(todo')
  BY <1>9
<1> QED BY <1>10, <1>12, <1>13 DEF GoesOn

LEMMA GoesOnThen ==
    ASSUME Inv, NEW X, todo # <<>>, Head(todo).do \notin FreeWorks,
           Head(todo).do # "endSession", NEW p, PlainSeq(p),
           todo' = p \o Tail(todo)
    PROVE  GoesOn(X)
<1>1. PICK S : p \in Seq(S) BY DEF PlainSeq
<1>2. \A i \in DOMAIN p : Follows(X, p[i])
  BY PlainFollows DEF PlainSeq, AllPlain
<1> QED BY <1>1, <1>2, GoesOnWith

LEMMA GoesOnPop ==
    ASSUME Inv, NEW X, todo # <<>>, Head(todo).do \notin FreeWorks,
           Head(todo).do # "endSession", todo' = Tail(todo)
    PROVE  GoesOn(X)
<1>1. todo' = <<>> \o Tail(todo)
  <2>1. Tail(todo) \in Seq(Works) BY DEF Inv, HandlesTypes
  <2> QED BY <2>1
<1> QED BY <1>1, PlainNone, GoesOnThen

LEMMA GoesOnPush ==
    ASSUME Inv, NEW X, NEW w, Plain(w), todo' = <<w>> \o todo
    PROVE  GoesOn(X)
<1>1. todo \in Seq(Works) BY DEF Inv, HandlesTypes
<1>2. \A j \in DOMAIN todo : j + 1 \in DOMAIN todo' /\ todo'[j + 1] = todo[j]
  BY <1>1
<1>3. \A i \in DOMAIN todo' : i = 1 \/ (i - 1 \in DOMAIN todo
                                        /\ todo'[i] = todo[i - 1])
  BY <1>1
<1>4. todo'[1] = w BY <1>1
<1>5. EndsSession(todo) => EndsSession(todo') BY <1>2 DEF EndsSession
<1>6. \A h : FreesIn(todo, h) => FreesIn(todo', h) BY <1>2 DEF FreesIn
<1>7. Follows(X, w) BY PlainFollows
<1> QED BY <1>3, <1>4, <1>5, <1>6, <1>7 DEF GoesOn

(* What a public function does last, and the prefetching before it, has     *)
(* nothing else to wait for it.                                             *)
LEMMA LastPlain ==
    ASSUME Inv, todo # <<>>, Head(todo).do \in LastWorks \cup {"prefetch"}
    PROVE  AllPlain(todo) /\ \A h : ~FreesIn(todo, h)
<1> DEFINE r == Tail(todo)
           w == Head(todo)
<1>1. \A i \in DOMAIN r : r[i].do \in LastWorks \cup {"prefetch"}
  <2>1. CASE w.do \in LastWorks
    <3>1. r = <<>> BY <2>1, NextCall
    <3> QED BY <3>1
  <2>2. CASE w.do = "prefetch" BY <2>2, NextCall
  <2> QED BY <2>1, <2>2
<1>2. todo \in Seq(Works) BY DEF Inv, HandlesTypes
<1>3. \A j \in DOMAIN todo :
          todo[j] = w \/ (j - 1 \in DOMAIN r /\ todo[j] = r[j - 1])
  BY <1>2
<1>4. \A j \in DOMAIN todo : todo[j].do \in LastWorks \cup {"prefetch"}
  <2> HIDE DEF r, w
  <2> QED BY <1>1, <1>3 DEF w
<1>5. \A d \in LastWorks \cup {"prefetch"} :
          d \notin SweepWorks \cup CloseWorks \cup FreeWorks
                   \cup {"freeEnv", "freeTransaction", "freeMemory"}
  BY DEF LastWorks, SweepWorks, CloseWorks, FreeWorks
<1> QED BY <1>4, <1>5 DEF AllPlain, Plain, FreesIn

-----------------------------------------------------------------------------
(* Nothing is made or closed, and                                            *)
QuietAt ==
    /\ UNCHANGED <<mem, oci, conn, closing, openSlotNum, lists>>
    /\ \A h \in Blocks : kind'[h] = kind[h]
                          \/ (IsVar(h) /\ kind'[h] \in VarKinds)

LEMMA QuietKeeps ==
    ASSUME Inv, ListInv, QuietAt, GoesOn({}), UsersStay PROVE ListInv'
<1>1. OnlyAt({}) BY DEF OnlyAt, QuietAt
<1> QED BY <1>1, NothingCloses DEF QuietAt, listVars

LEMMA QuietIdle ==
    ASSUME Inv, ListInv, Idle, QuietAt, PlainSeq(todo') PROVE ListInv'
  BY QuietKeeps, GoesOnIdle DEF PlainSeq

LEMMA QuietThen ==
    ASSUME Inv, ListInv, todo # <<>>, Head(todo).do \notin FreeWorks,
           Head(todo).do # "endSession", NEW p, PlainSeq(p),
           todo' = p \o Tail(todo), QuietAt,
           \A h \in Blocks : user[h] > 0 => user'[h] > 0
    PROVE  ListInv'
  BY GoesOnThen, QuietKeeps DEF UsersStay

LEMMA QuietPop ==
    ASSUME Inv, ListInv, todo # <<>>, Head(todo).do \notin FreeWorks,
           Head(todo).do # "endSession", todo' = Tail(todo), QuietAt,
           \A h \in Blocks : user[h] > 0 => user'[h] > 0
    PROVE  ListInv'
  BY GoesOnPop, QuietKeeps DEF UsersStay

LEMMA QuietLast ==
    ASSUME Inv, ListInv, todo # <<>>,
           Head(todo).do \in LastWorks \cup {"prefetch"}, PlainSeq(todo'),
           QuietAt, \A h \in Blocks : user[h] > 0 => user'[h] > 0
    PROVE  ListInv'
<1>1. GoesOn({}) BY LastPlain, GoesOnAlone DEF PlainSeq
<1> QED BY <1>1, QuietKeeps DEF UsersStay

-----------------------------------------------------------------------------
(* The functions that neither make nor close a handle.                      *)
LEMMA ReferenceLists ==
    ASSUME Inv, ListInv, NEW h \in Blocks,
           AddRef(h) \/ Release(h)
    PROVE  ListInv'
<1>1. Idle /\ QuietAt BY DEF AddRef, Release, QuietAt, listVars, blockVars
<1>2. PlainSeq(todo')
  <2>1. CASE AddRef(h)
    <3>1. todo' = <<>> BY <2>1 DEF AddRef, Idle
    <3> QED BY <3>1, PlainNone
  <2>2. CASE Release(h)
    <3>1. todo' = <<Unref(h)>> BY <2>2 DEF Release
    <3> QED BY <3>1, PlainOne, PlainUnref
  <2> QED BY <2>1, <2>2
<1> QED BY <1>1, <1>2, QuietIdle

LEMMA SetRefCountLists == ASSUME Inv, ListInv, SetRefCount PROVE ListInv'
<1>1. QuietAt /\ user' = user BY DEF SetRefCount, QuietAt, listVars
<1>2. todo # <<>> /\ Head(todo).do = "unref" BY DEF SetRefCount, Doing
<1>3. Head(todo).do \notin FreeWorks /\ Head(todo).do # "endSession"
  BY <1>2 DEF FreeWorks
<1>4. CASE todo' = <<Free(Subject)>> \o Tail(todo)
  <2>1. PlainSeq(<<Free(Subject)>>) BY PlainOne, PlainUnref
  <2> QED BY <1>1, <1>2, <1>3, <1>4, <2>1, QuietThen
<1>5. CASE todo' = Tail(todo) BY <1>1, <1>2, <1>3, <1>5, QuietPop
<1> QED BY <1>4, <1>5 DEF SetRefCount

LEMMA PayloadLists ==
    ASSUME Inv, ListInv, NEW p, NEW x, SetPayloadObject(p, x) \/ SetPayloadJson(p, x)
    PROVE  ListInv'
<1>1. PICK role : SetPayload(p, role, x)
  BY DEF SetPayloadObject, SetPayloadJson
<1>2. Idle /\ QuietAt /\ todo' = UnrefOf(field[p][role])
  BY <1>1 DEF SetPayload, Has, QuietAt, listVars
<1> QED BY <1>2, PlainUnrefOf, QuietIdle

LEMMA BufferPlain ==
    ASSUME NEW q, NEW many, NEW then, AllocateBuffer(q, many, then),
           PlainSeq(then)
    PROVE  PlainSeq(todo')
  BY PlainBoth, PlainUnrefOf DEF AllocateBuffer

LEMMA DeqLists ==
    ASSUME Inv, ListInv, NEW q, NEW many, Deq(q, many) PROVE ListInv'
<1> DEFINE w == QueueWork("populate", q, 1, many)
<1>1. Idle /\ QuietAt /\ AllocateBuffer(q, many, <<w>>)
  BY DEF Deq, QueueCheck, QuietAt, listVars
<1>2. Plain(w) BY DEF Plain, QueueWork, WorkOn, SweepWorks, CloseWorks
<1> QED BY <1>1, <1>2, PlainOne, BufferPlain, QuietIdle

LEMMA EnqLists ==
    ASSUME Inv, ListInv, NEW q, NEW p, NEW r, Enq(q, p, r) PROVE ListInv'
<1>1. Idle /\ QuietAt /\ AllocateBuffer(q, p # r, <<>>)
  BY DEF Enq, QueueCheck, QuietAt, listVars
<1> QED BY <1>1, PlainNone, BufferPlain, QuietIdle

LEMMA DequeueLists == ASSUME Inv, ListInv, Dequeue PROVE ListInv'
<1>1. QuietAt /\ todo # <<>> /\ Head(todo).do = "dequeue" /\ todo' = <<>>
  BY DEF Dequeue, Doing, QuietAt, listVars
<1>2. "dequeue" \in LastWorks \cup {"prefetch"} BY DEF LastWorks
<1>3. \A h \in Blocks : user[h] > 0 => user'[h] > 0
  <2>1. user \in [Blocks -> Nat] BY DEF Inv, HandlesTypes
  <2> QED BY <2>1 DEF Dequeue
<1> QED BY <1>1, <1>2, <1>3, PlainNone, QuietLast

(* The next place of the buffer. *)
LEMMA PlacePlain ==
    ASSUME NextPlace, Head(todo).do = "populate",
           Head(todo) \in Works
    PROVE  PlainSeq(todo')
<1> DEFINE w == Head(todo)
           v == QueueWork("dequeue", w.h, 0, w.propagate)
           z == [w EXCEPT !.i = @ + 1]
<1>1. Plain(v) BY DEF Plain, QueueWork, WorkOn, SweepWorks, CloseWorks
<1>2. ASSUME w \in Works PROVE Plain(z)
  <2>1. z.do = w.do BY <1>2 DEF Works
  <2> QED BY <2>1 DEF Plain, SweepWorks, CloseWorks
<1> QED BY <1>1, <1>2, PlainOne DEF NextPlace

(* Commit, rollback, two-phase commit. *)
LEMMA TransactionLists ==
    ASSUME Inv, ListInv, TransactionStep, UNCHANGED <<numElements, varVars>>
    PROVE  ListInv'
<1>1. ASSUME NEW outcomes, Idle, Transact(outcomes) PROVE ListInv'
  <2>1. QuietAt /\ todo' = <<>>
    BY <1>1 DEF Transact, Idle, QuietAt, listVars, blockVars
  <2> QED BY <1>1, <2>1, PlainNone, QuietIdle
<1>2. CASE FreeTransaction
  <2>1. QuietAt /\ user' = user /\ todo' = Tail(todo) /\ todo # <<>>
        /\ Head(todo).do = "freeTransaction"
    BY <1>2 DEF FreeTransaction, Doing, QuietAt, listVars, blockVars
  <2>2. Head(todo).do \notin FreeWorks /\ Head(todo).do # "endSession"
    BY <2>1 DEF FreeWorks
  <2> QED BY <2>1, <2>2, QuietPop
<1>3. TransactionStep => FreeTransaction \/ (Idle /\ \E outcomes : Transact(outcomes))
  BY DEF TransactionStep, Commit, Rollback, TpcBegin, TpcCommit, TpcEnd,
     TpcForget, TpcPrepare, TpcRollback
<1> QED BY <1>1, <1>2, <1>3

-----------------------------------------------------------------------------
(* Values of variables. *)
LEMMA HoldValueLists ==
    ASSUME Inv, ListInv, NEW v, NEW x, SetFromHandle(v, x) \/ CopyData(v, x)
    PROVE  ListInv'
<1>1. PICK y : HoldValue(v, y) BY DEF SetFromHandle, CopyData
<1>2. Idle BY DEF SetFromHandle, CopyData, HasVar
<1>3. QuietAt /\ todo' = UnrefOf(field[v].value)
  BY <1>1 DEF HoldValue, QuietAt, listVars
<1> QED BY <1>2, <1>3, PlainUnrefOf, QuietIdle

LEMMA KeepValueLists ==
    ASSUME Inv, ListInv, NEW v, KeepValue(v) PROVE ListInv'
<1>1. Idle BY DEF KeepValue, HasVar, HasStmt
<1>2. QuietAt /\ todo' = <<>> BY <1>1 DEF KeepValue, Idle, QuietAt, listVars
<1> QED BY <1>1, <1>2, PlainNone, QuietIdle

LEMMA PlainPrefetch == \A v, why : Plain(Prefetch(v, why))
<1> TAKE v, why
<1>1. Prefetch(v, why).do = "prefetch" BY DEF Prefetch, WorkOn
<1> QED BY <1>1 DEF Plain, SweepWorks, CloseWorks

LEMMA PlainDefine ==
    \A q, v : /\ Plain(DefineWork(q, v))
              /\ Plain([WorkOn("bind", q) EXCEPT !.arg = v])
<1> TAKE q, v
<1>1. DefineWork(q, v).do = "define"
      /\ [WorkOn("bind", q) EXCEPT !.arg = v].do = "bind"
  BY DEF DefineWork, WorkOn
<1> QED BY <1>1 DEF Plain, SweepWorks, CloseWorks

LEMMA PrefetchReleaseLists == ASSUME Inv, ListInv, PrefetchRelease PROVE ListInv'
<1> DEFINE w == Unref(Content)
<1>1. QuietAt /\ user' = user /\ todo' = <<w>> \o todo
  BY DEF PrefetchRelease, QuietAt, listVars
<1>2. Plain(w) BY PlainUnref
<1> HIDE DEF w
<1>3. GoesOn({}) BY <1>1, <1>2, GoesOnPush
<1> QED BY <1>1, <1>3, QuietKeeps DEF UsersStay

LEMMA PrefetchNullLists == ASSUME Inv, ListInv, PrefetchNull PROVE ListInv'
<1>1. QuietAt /\ user' = user /\ todo' = Tail(todo) /\ todo # <<>>
      /\ Head(todo).do = "prefetch"
  BY DEF PrefetchNull, Doing, QuietAt, listVars, blockVars
<1>2. Head(todo).do \notin FreeWorks /\ Head(todo).do # "endSession"
  BY <1>1 DEF FreeWorks
<1> QED BY <1>1, <1>2, QuietPop

LEMMA GiveVarLists == ASSUME Inv, ListInv, GiveVar PROVE ListInv'
<1>1. QuietAt /\ todo' = Tail(todo) /\ todo # <<>> /\ Head(todo).do = "give"
  BY DEF GiveVar, Doing, QuietAt, listVars, blockVars
<1>2. Head(todo).do \notin FreeWorks /\ Head(todo).do # "endSession"
  BY <1>1 DEF FreeWorks
<1>3. \A h \in Blocks : user[h] > 0 => user'[h] > 0
  <2>1. user \in [Blocks -> Nat] BY DEF Inv, HandlesTypes
  <2> QED BY <2>1 DEF GiveVar
<1> QED BY <1>1, <1>2, <1>3, QuietPop

-----------------------------------------------------------------------------
(* Statements and their variables. *)
LEMMA BindLists ==
    ASSUME Inv, ListInv, NEW s, NEW v, Bind(s, v) \/ Define(s, v)
    PROVE  ListInv'
<1>1. Idle /\ QuietAt BY DEF Bind, Define, HasVar, QuietAt, listVars
<1>2. PlainSeq(todo')
  BY PlainUnrefOf, PlainNone, PlainBoth DEF Bind, Define, Attach, SetColumn
<1> QED BY <1>1, <1>2, QuietIdle

LEMMA BindConvertsLists ==
    ASSUME Inv, ListInv, NEW s, NEW v, BindConverts(s, v) PROVE ListInv'
<1> DEFINE a == Prefetch(v, "convert")
           b == [WorkOn("bind", s) EXCEPT !.arg = v]
<1>1. Idle /\ todo' = UnrefOf(field[s].bind) \o <<a, b>>
  BY DEF BindConverts, HasVar
<1>2. QuietAt
  <2>1. IsVar(v) /\ "longVar" \in VarKinds /\ kind' = [kind EXCEPT ![v] = "longVar"]
    BY DEF BindConverts, HasVar, VarKinds
  <2>2. kind = [h \in Blocks |-> kind[h]] BY DEF Inv, HandlesTypes
  <2>3. \A h \in Blocks : kind'[h] = kind[h] \/ (IsVar(h) /\ kind'[h] \in VarKinds)
    BY <2>1, <2>2
  <2> QED BY <2>3 DEF BindConverts, QuietAt, listVars
<1>3. Plain(a) /\ Plain(b) BY PlainPrefetch, PlainDefine
<1> HIDE DEF a, b
<1>4. PlainSeq(<<a, b>>) BY <1>3, PlainTwo
<1> QED BY <1>1, <1>2, <1>4, PlainUnrefOf, PlainBoth, QuietIdle

LEMMA BindConvertedLists == ASSUME Inv, ListInv, BindConverted PROVE ListInv'
<1>1. QuietAt /\ user' = user /\ todo' = Tail(todo) /\ todo # <<>>
      /\ Head(todo).do = "bind"
  BY DEF BindConverted, Doing, QuietAt, listVars
<1>2. Head(todo).do \notin FreeWorks /\ Head(todo).do # "endSession"
  BY <1>1 DEF FreeWorks
<1> QED BY <1>1, <1>2, QuietPop

LEMMA ExecuteLists ==
    ASSUME Inv, ListInv, NEW s, Execute(s) \/ ReExecute(s) PROVE ListInv'
<1>1. Idle /\ QuietAt
  BY DEF Execute, ReExecute, Executable, StmtCheck, HasStmt, QuietAt, listVars,
     blockVars
<1>2. PlainSeq(todo')
  <2>1. CASE Execute(s)
    <3>1. PICK grows \in BOOLEAN : todo' = ExecuteWork(s, field[s].bind, grows)
      BY <2>1 DEF Execute
    <3> QED BY <3>1, PlainPrefetch, PlainOne, PlainNone, PlainBoth DEF ExecuteWork
  <2>2. CASE ReExecute(s) BY <2>2, PlainUnrefOf DEF ReExecute
  <2> QED BY <2>1, <2>2
<1> QED BY <1>1, <1>2, QuietIdle

LEMMA DefineNewVarLists == ASSUME Inv, ListInv, DefineNewVar PROVE ListInv'
<1>1. QuietAt /\ user' = user /\ todo # <<>> /\ Head(todo).do = "define"
  BY DEF DefineNewVar, Doing, QuietAt, listVars
<1>2. "define" \in LastWorks /\ "define" \notin FreeWorks
  BY DEF LastWorks, FreeWorks
<1>3. CASE todo' = <<>> BY <1>1, <1>2, <1>3, PlainNone, QuietLast
<1>4. CASE todo' = UnrefOf(field[Subject].column) \o Tail(todo)
  <2>1. PlainSeq(UnrefOf(field[Subject].column)) BY PlainUnrefOf
  <2> QED BY <1>1, <1>2, <1>4, <2>1, QuietThen
<1> QED BY <1>3, <1>4 DEF DefineNewVar

LEMMA FetchLists ==
    ASSUME Inv, ListInv, NEW q, Fetch(q) \/ GetLastRowid(q) PROVE ListInv'
<1>1. Idle /\ QuietAt
  BY DEF Fetch, GetLastRowid, StmtCheck, HasStmt, QuietAt, listVars, blockVars
<1>2. PlainSeq(todo')
  <2>1. CASE Fetch(q)
    <3>1. \/ todo' = <<>>
          \/ todo' = <<Prefetch(field[q].column, "fetch")>>
      BY <2>1 DEF Fetch
    <3> QED BY <3>1, PlainPrefetch, PlainOne, PlainNone
  <2>2. CASE GetLastRowid(q)
    <3> DEFINE w == WorkOn("lastRowid", q)
    <3>1. todo' = UnrefOf(lastRowid[q]) \o <<w>> BY <2>2 DEF GetLastRowid
    <3>2. Plain(w) BY DEF Plain, WorkOn, SweepWorks, CloseWorks
    <3> HIDE DEF w
    <3> QED BY <3>1, <3>2, PlainUnrefOf, PlainOne, PlainBoth
  <2> QED BY <2>1, <2>2
<1> QED BY <1>1, <1>2, QuietIdle

-----------------------------------------------------------------------------
(* New handles, which have what their kind needs or are freed again.        *)
OciStates == {"none", "open", "part", "freed"}
NewIn(X) == \A x \in X :
    /\ mem[x] = "unused" /\ mem'[x] = "live" /\ closing'[x] = closing[x]
    /\ kind'[x] \in Lasting => oci'[x] = "open" \/ FreesIn(todo', x)
    /\ kind'[x] = "object" => oci'[x] \in {"open", "part"} \/ FreesIn(todo', x)

LEMMA NotForgotten ==
    ASSUME Inv, NEW h \in Blocks, mem[h] = "unused", NEW X, h \notin X, GoesOn(X)
    PROVE  ~ForgetsIn(todo', h) /\ ~FreesIn(todo, h)
<1>1. ~FreesIn(todo, h)
  <2> SUFFICES ASSUME NEW i \in DOMAIN todo,
                      todo[i].do \in FreeWorks, todo[i].h = h
               PROVE  FALSE
    BY DEF FreesIn
  <2> QED BY DEF Inv, WorksOK, WorkOK
<1>2. ~ForgetsIn(todo, h) BY <1>1 DEF FreesIn, ForgetsIn, FreeWorks
<1> QED BY <1>1, <1>2, ForgetsBack

LEMMA NewOci ==
    ASSUME Inv, NEW X, X \subseteq Blocks, NewIn(X), GoesOn({}), NEW x \in X
    PROVE  OciOK(x)'
<1>1. /\ mem[x] = "unused" /\ mem'[x] = "live" /\ x \in Blocks
      /\ closing'[x] = closing[x]
  BY DEF NewIn
<1>2. ~closing[x] BY <1>1, UnusedIs
<1>3. ~ForgetsIn(todo', x) BY <1>1, NotForgotten
<1>4. KeepsFields(x)' BY <1>1, <1>3 DEF KeepsFields
<1>5. FreesIn(todo', x) => Dead(x)' BY DEF Dead
<1> QED BY <1>1, <1>2, <1>4, <1>5 DEF OciOK, NewIn

LEMMA GoesOnMore == ASSUME GoesOn({}), NEW X PROVE GoesOn(X)
  BY DEF GoesOn, Follows

LEMMA Births ==
    ASSUME Inv, ListInv, NEW X, X \subseteq Blocks, NewIn(X), OnlyAt(X),
           GoesOn({}), UsersStay,
           conn' = conn \/ conn' = [conn EXCEPT !.ordered = FALSE],
           oci' \in [Blocks -> OciStates],
           openSlotNum' = [h \in Blocks |-> openSlotNum'[h]], OrderOK'
    PROVE  ListInv'
<1>1. Conn \notin X BY UnusedIs, HandleTreeAssumption DEF NewIn
<1>2. /\ conn'.env = conn.env /\ conn'.handle = conn.handle
      /\ conn'.closing = conn.closing
      /\ conn'.ordered => conn.ordered /\ conn'.session = conn.session
      /\ conn' \in [handle : BOOLEAN, session : BOOLEAN, closing : BOOLEAN,
                    dead : BOOLEAN, env : {"open", "freed"},
                    ordered : BOOLEAN]
  BY DEF ListInv, ConnTypes
<1>3. InOrder' => InOrder BY <1>2 DEF InOrder
<1>4. ConnTypes' BY <1>2 DEF ConnTypes, OciStates
<1>5. \A x \in X : OciOK(x)' BY NewOci
<1> QED BY <1>1, <1>2, <1>3, <1>4, <1>5, GoesOnMore, ListsKept

(* Handles that are in no list. *)
LEMMA BirthsUnlisted ==
    ASSUME Inv, ListInv, NEW X, X \subseteq Blocks, NewIn(X), OnlyAt(X),
           GoesOn({}), UsersStay, conn' = conn, oci' \in [Blocks -> OciStates],
           lists' = lists, openSlotNum' = openSlotNum,
           \A x \in X : \A l \in Lists :
               kind'[x] \notin Listed[l] \/ oci'[x] # "open"
    PROVE  ListInv'
<1>1. openSlotNum' = [h \in Blocks |-> openSlotNum'[h]]
  BY DEF ListInv, ConnTypes
<1>2. ASSUME NEW x \in X, NEW l \in Lists PROVE kind[x] \notin Listed[l]
  <2>1. kind[x] = "none" BY UnusedIs DEF NewIn
  <2> QED BY <2>1, KindsDistinct
<1>3. OrderOK' BY <1>2, OrderStays DEF InOrder, ListInv
<1> QED BY <1>1, <1>3, Births

(* There is an empty slot, since there are as many as blocks and what the   *)
(* list holds is open and elsewhere.                                        *)
LEMMA EmptySlot ==
    ASSUME Inv, OrderOK, InOrder, NEW l \in Lists, NEW h \in Blocks,
           mem[h] # "live"
    PROVE  \E i \in Slots : lists[l][i] = NULL
<1> SUFFICES ASSUME \A i \in Slots : lists[l][i] # NULL PROVE FALSE OBVIOUS
<1> DEFINE T == Blocks \ {h}
<1>1. lists[l] \in [Slots -> Blocks \cup {NULL}] BY DEF Inv, HandlesTypes
<1>2. \A i \in Slots : lists[l][i] \in T /\ openSlotNum[lists[l][i]] = i
  BY <1>1 DEF OrderOK, HeldAt
<1>3. lists[l] \in [Slots -> T] BY <1>1, <1>2
<1>4. IsFiniteSet(T) /\ Cardinality(T) = Cardinality(Blocks) - 1
      /\ Cardinality(Blocks) \in Nat /\ Cardinality(T) \in Nat
  BY FS_RemoveElement, FS_CardinalityType, HandleTreeAssumption
<1>5. IsFiniteSet(Slots) /\ Cardinality(Slots) = Cardinality(Blocks)
  <2>1. ASSUME NEW n \in Nat
        PROVE  IsFiniteSet(1 .. n) /\ Cardinality(1 .. n) = n
    BY FS_Interval
  <2> QED BY <1>4, <2>1 DEF Slots
<1>6. \E i, j \in Slots : i # j /\ lists[l][i] = lists[l][j]
  <2> HIDE DEF T
  <2>1. Cardinality(T) < Cardinality(Slots) BY <1>4, <1>5
  <2> QED BY <1>3, <1>4, <1>5, <2>1, FS_PigeonHole
<1> QED BY <1>2, <1>6

LEMMA OrderAdded ==
    ASSUME Inv, OrderOK, NEW l \in Lists, NEW h \in Blocks, mem[h] = "unused",
           mem'[h] = "live", oci'[h] = "open", kind'[h] \in Listed[l],
           OnlyAt({h}), AddHandle(l, h), InOrder' => InOrder,
           openSlotNum = [x \in Blocks |-> openSlotNum[x]]
    PROVE  OrderOK'
<1> SUFFICES ASSUME InOrder', NEW m \in Lists
             PROVE  /\ \A i \in Slots : HeldAt(m, i)'
                    /\ \A x \in Blocks : OpenIn(m, x)'
  BY DEF OrderOK
<1> DEFINE i0 == CHOOSE i \in Slots : lists[l][i] = NULL
<1>1. i0 \in Slots /\ lists[l][i0] = NULL BY EmptySlot
<1>2. /\ lists' = [lists EXCEPT ![l][i0] = h]
      /\ openSlotNum' = [openSlotNum EXCEPT ![h] = i0]
  BY DEF AddHandle
<1> HIDE DEF i0
<1>3. /\ lists \in [Lists -> [Slots -> Blocks \cup {NULL}]]
      /\ h # NULL
  BY HandleTreeAssumption DEF Inv, HandlesTypes
<1>4. /\ openSlotNum'[h] = i0
      /\ \A x \in Blocks : x # h => openSlotNum'[x] = openSlotNum[x]
  BY <1>2
<1>5. /\ lists'[l][i0] = h
      /\ \A i \in Slots : lists'[m][i] = lists[m][i] \/ (m = l /\ i = i0)
  BY <1>1, <1>2, <1>3
<1>6. /\ \A i \in Slots : HeldAt(m, i)
      /\ \A x \in Blocks : OpenIn(m, x)
  BY DEF OrderOK
<1>7. ASSUME NEW i \in Slots PROVE HeldAt(m, i)'
  <2>1. CASE m = l /\ i = i0 BY <1>4, <1>5, <2>1 DEF HeldAt
  <2>2. CASE lists'[m][i] = lists[m][i] /\ lists[m][i] # NULL
    <3>1. lists[m][i] \in Blocks /\ mem[lists[m][i]] = "live"
          /\ oci[lists[m][i]] = "open" /\ openSlotNum[lists[m][i]] = i
      BY <1>3, <1>6, <2>2 DEF HeldAt
    <3>2. lists[m][i] # h BY <3>1
    <3> QED BY <1>4, <2>2, <3>1, <3>2 DEF HeldAt, OnlyAt
  <2>3. CASE lists'[m][i] = NULL BY <2>3 DEF HeldAt
  <2> QED BY <1>5, <2>1, <2>2, <2>3
<1>8. ASSUME NEW x \in Blocks PROVE OpenIn(m, x)'
  <2>1. CASE x = h
    <3>1. kind'[h] \in Listed[m] => m = l BY KindsDistinct
    <3> QED BY <1>1, <1>4, <1>5, <2>1, <3>1 DEF OpenIn
  <2>2. CASE x # h
    <3> SUFFICES ASSUME mem'[x] = "live", oci'[x] = "open",
                        kind'[x] \in Listed[m]
                 PROVE  /\ openSlotNum'[x] \in Slots
                        /\ lists'[m][openSlotNum'[x]] = x
      BY DEF OpenIn
    <3>1. mem[x] = "live" /\ oci[x] = "open" /\ kind[x] \in Listed[m]
      BY <2>2, KindsDistinct DEF OnlyAt
    <3>2. openSlotNum[x] \in Slots /\ lists[m][openSlotNum[x]] = x
      BY <1>6, <3>1 DEF OpenIn
    <3>3. x # NULL BY HandleTreeAssumption
    <3> QED BY <1>1, <1>4, <1>5, <2>2, <3>2, <3>3
  <2> QED BY <2>1, <2>2
<1> QED BY <1>7, <1>8

(* A handle that is given a slot of the list of its kind. *)
Opens(h) == oci' = [oci EXCEPT ![h] = "open"]

LEMMA BirthListed ==
    ASSUME Inv, ListInv, NEW l \in Lists, NEW h \in Blocks, mem[h] = "unused",
           mem'[h] = "live", Opens(h),
           kind'[h] \in Listed[l], closing'[h] = closing[h],
           NEW X, X = {h}, OnlyAt(X),
           AddHandle(l, h), GoesOn({}), UsersStay, conn' = conn
    PROVE  ListInv'
<1>1. oci \in [Blocks -> OciStates]
      /\ openSlotNum = [x \in Blocks |-> openSlotNum[x]]
  BY DEF ListInv, ConnTypes, OciStates
<1>2. oci' \in [Blocks -> OciStates] /\ oci'[h] = "open"
  BY <1>1 DEF OciStates, Opens
<1>3. openSlotNum' = [x \in Blocks |-> openSlotNum'[x]]
  <2>1. \E i : openSlotNum' = [openSlotNum EXCEPT ![h] = i] BY DEF AddHandle
  <2> QED BY <1>1, <2>1
<1>4. NewIn(X) BY <1>2 DEF NewIn
<1>5. OrderOK' BY <1>1, <1>2, OrderAdded DEF InOrder, ListInv
<1> QED BY <1>2, <1>3, <1>4, <1>5, Births

-----------------------------------------------------------------------------
(* One new handle of kind k, and how it may begin: without an OCI handle,   *)
(* with one, in the instance of another object, or with a slot of a list.   *)
Begun(h, k) ==
    /\ mem[h] = "unused"
    /\ mem' = [mem EXCEPT ![h] = "live"]
    /\ kind' = [kind EXCEPT ![h] = k]
    /\ UNCHANGED <<closing, conn>>

LEMMA BegunIs ==
    ASSUME Inv, ListInv, NEW h \in Blocks, NEW k, Begun(h, k), NEW o,
           oci' = [oci EXCEPT ![h] = o]
    PROVE  /\ OnlyAt({h}) /\ mem'[h] = "live" /\ kind'[h] = k /\ oci'[h] = o
           /\ o \in OciStates => oci' \in [Blocks -> OciStates]
           /\ oci[h] = "none"
<1>1. mem = [x \in Blocks |-> mem[x]] /\ kind = [x \in Blocks |-> kind[x]]
      /\ oci \in [Blocks -> OciStates]
  BY DEF Inv, HandlesTypes, ListInv, ConnTypes, OciStates
<1>2. oci[h] = "none" BY DEF ListInv, OciOK, Begun
<1> QED BY <1>1, <1>2 DEF OnlyAt, Begun

LEMMA BegunWithout ==
    ASSUME Inv, ListInv, NEW h \in Blocks, NEW k, Begun(h, k),
           UNCHANGED <<oci, openSlotNum, lists>>,
           k \notin Lasting \cup {"object"} \/ FreesIn(todo', h),
           GoesOn({}), UsersStay
    PROVE  ListInv'
<1>1. oci' = [oci EXCEPT ![h] = "none"]
  <2>1. oci[h] = "none" /\ oci \in [Blocks -> OciStates]
    BY DEF ListInv, OciOK, Begun, ConnTypes, OciStates
  <2> QED BY <2>1
<1>2. /\ OnlyAt({h}) /\ mem'[h] = "live" /\ kind'[h] = k /\ oci'[h] = "none"
      /\ oci' \in [Blocks -> OciStates]
  BY <1>1, BegunIs DEF OciStates
<1>3. NewIn({h}) BY <1>2 DEF NewIn, Begun
<1> QED BY <1>2, <1>3, BirthsUnlisted DEF Begun

LEMMA BegunOpen ==
    ASSUME Inv, ListInv, NEW h \in Blocks, NEW k, Begun(h, k),
           oci' = [oci EXCEPT ![h] = "open"], UNCHANGED <<openSlotNum, lists>>,
           \A l \in Lists : k \notin Listed[l], GoesOn({}), UsersStay
    PROVE  ListInv'
<1>1. /\ OnlyAt({h}) /\ mem'[h] = "live" /\ kind'[h] = k /\ oci'[h] = "open"
      /\ oci' \in [Blocks -> OciStates]
  BY BegunIs DEF OciStates
<1>2. NewIn({h}) BY <1>1 DEF NewIn, Begun
<1> QED BY <1>1, <1>2, BirthsUnlisted DEF Begun

LEMMA BegunPart ==
    ASSUME Inv, ListInv, NEW h \in Blocks, NEW k, k = "object", Begun(h, k),
           oci' = [oci EXCEPT ![h] = "part"], UNCHANGED <<openSlotNum, lists>>,
           GoesOn({}), UsersStay
    PROVE  ListInv'
<1>1. /\ OnlyAt({h}) /\ mem'[h] = "live" /\ kind'[h] = k /\ oci'[h] = "part"
      /\ oci' \in [Blocks -> OciStates]
  BY BegunIs DEF OciStates
<1>2. NewIn({h}) BY <1>1 DEF NewIn, Begun, Lasting
<1> QED BY <1>1, <1>2, BirthsUnlisted DEF Begun

LEMMA BegunListed ==
    ASSUME Inv, ListInv, NEW h \in Blocks, NEW l \in Lists, NEW X, X = {h},
           NEW k, Begun(h, k), k \in Listed[l], Opens(h), AddHandle(l, h),
           GoesOn({}), UsersStay
    PROVE  ListInv'
<1>1. OnlyAt(X) /\ mem'[h] = "live" /\ kind'[h] = k BY BegunIs DEF Opens
<1>2. mem[h] = "unused" /\ closing'[h] = closing[h] /\ conn' = conn
  BY DEF Begun
<1>3. kind'[h] \in Listed[l] BY <1>1
<1> QED BY <1>1, <1>2, <1>3, BirthListed

(* Between calls it is given to the program, or freed.                      *)
LEMMA IdleGives ==
    ASSUME Idle, NEW h, Give(h) PROVE GoesOn({}) /\ UsersStay
<1>1. AllPlain(todo') BY DEF Give, Idle, AllPlain
<1> QED BY <1>1, GoesOnIdle

LEMMA IdleDiscards ==
    ASSUME Idle, NEW h, Discard(h)
    PROVE  GoesOn({}) /\ UsersStay /\ FreesIn(todo', h)
<1>1. todo' = <<Free(h)>> BY DEF Discard, Idle
<1>2. AllPlain(todo') BY <1>1, PlainOne, PlainUnref DEF PlainSeq
<1>3. FreesIn(todo', h)
  <2>1. todo'[1] = Free(h) /\ 1 \in DOMAIN todo' BY <1>1
  <2> QED BY <2>1 DEF FreesIn, Free, WorkOn, FreeWorks
<1> QED BY <1>2, <1>3, GoesOnIdle

LEMMA IdleWorks ==
    ASSUME Idle, PlainSeq(todo') PROVE GoesOn({}) /\ UsersStay
  BY GoesOnIdle DEF PlainSeq

LEMMA AllocateBears ==
    ASSUME NEW h, NEW k, NEW fields, Allocate(h, k, fields),
           UNCHANGED <<closing, conn>>
    PROVE  Begun(h, k) /\ h \in Blocks
<1>1. mem[h] = "unused" /\ mem' = [mem EXCEPT ![h] = "live"]
      /\ kind' = [kind EXCEPT ![h] = k]
  BY DEF Allocate, Make
<1>2. h \in Blocks
  <2>1. h \in Room(k) BY DEF Allocate, First
  <2> QED BY <2>1 DEF Room, Unused
<1> QED BY <1>1, <1>2 DEF Begun

LEMMA UnlistedKinds ==
    \A l \in Lists : \A k \in Lasting \cup Queues \cup VarKinds \cup
        {"objectType", "objectAttr", "sodaDb", "sodaCollCursor",
         "sodaDocCursor", "rowid"} : k \notin Listed[l]
<1>1. \A k \in Lasting \cup Queues \cup VarKinds \cup
          {"objectType", "objectAttr", "sodaDb", "sodaCollCursor",
           "sodaDocCursor", "rowid"} : k \notin SweptKinds \cup StmtKinds
  BY DEF Lasting, Queues, VarKinds, SweptKinds, StmtKinds, Queries
<1> QED BY <1>1, KindsDistinct

-----------------------------------------------------------------------------
(* Handles that the program makes. *)
LEMMA CreateLists ==
    ASSUME Inv, ListInv, Idle, NEW h, NEW k \in Lasting, NEW fields,
           Create(h, k, fields)
    PROVE  ListInv'
<1>1. Allocate(h, k, fields) /\ UNCHANGED <<closing, conn, openSlotNum, lists>>
  BY DEF Create, listVars
<1>2. Begun(h, k) /\ h \in Blocks BY <1>1, AllocateBears
<1>3. \A l \in Lists : k \notin Listed[l] BY UnlistedKinds
<1>4. CASE oci' = [oci EXCEPT ![h] = "open"] /\ Give(h)
  BY <1>1, <1>2, <1>3, <1>4, IdleGives, BegunOpen
<1>5. CASE UNCHANGED oci /\ Discard(h)
  BY <1>1, <1>2, <1>5, IdleDiscards, BegunWithout
<1> QED BY <1>4, <1>5 DEF Create

Bare == Queues \cup {"objectType", "objectAttr", "sodaDb"}

LEMMA DescribeLists ==
    ASSUME Inv, ListInv, Idle, NEW h, NEW k \in Bare, NEW fields, NEW ok,
           Describe(h, k, fields, ok)
    PROVE  ListInv'
<1>1. Allocate(h, k, fields)
      /\ UNCHANGED <<oci, closing, conn, openSlotNum, lists>>
  BY DEF Describe, listVars
<1>2. Begun(h, k) /\ h \in Blocks BY <1>1, AllocateBears
<1>3. k \notin Lasting \cup {"object"} BY DEF Bare, Queues, Lasting
<1>4. GoesOn({}) /\ UsersStay BY IdleGives, IdleDiscards DEF Describe
<1> QED BY <1>1, <1>2, <1>3, <1>4, BegunWithout

LEMMA DescribeBothLists ==
    ASSUME Inv, ListInv, Idle, NEW h, NEW k \in Bare, NEW fields,
           NEW t \in First(Room("objectType") \ {h}), DescribeBoth(h, k, fields, t)
    PROVE  ListInv'
<1> DEFINE X == {h, t}
<1>1. /\ h \in Blocks /\ t \in Blocks /\ h # t
      /\ mem[h] = "unused" /\ mem[t] = "unused"
  BY DEF DescribeBoth, First, Room, Unused
<1>2. /\ mem = [x \in Blocks |-> mem[x]] /\ kind = [x \in Blocks |-> kind[x]]
      /\ oci \in [Blocks -> OciStates]
  BY DEF Inv, HandlesTypes, ListInv, ConnTypes, OciStates
<1>3. /\ mem' = [mem EXCEPT ![h] = "live", ![t] = "live"]
      /\ kind' = [kind EXCEPT ![h] = k, ![t] = "objectType"]
      /\ Give(h) /\ UNCHANGED <<oci, closing, openSlotNum, lists, conn>>
  BY DEF DescribeBoth, listVars
<1>4. /\ mem'[h] = "live" /\ mem'[t] = "live" /\ kind'[h] = k
      /\ kind'[t] = "objectType"
      /\ \A x \in Blocks \ X : mem'[x] = mem[x] /\ kind'[x] = kind[x]
  BY <1>1, <1>2, <1>3
<1>5. OnlyAt(X) BY <1>3, <1>4 DEF OnlyAt
<1>6. k \in Bare /\ "objectType" \in Bare
      /\ \A d \in Bare : d \notin Lasting \cup {"object"}
  BY DEF Bare, Queues, Lasting
<1>7. NewIn(X) BY <1>1, <1>3, <1>4, <1>6 DEF NewIn
<1>8. \A x \in X : \A l \in Lists : kind'[x] \notin Listed[l] \/ oci'[x] # "open"
  <2>1. \A d \in Bare : \A l \in Lists : d \notin Listed[l]
    BY UnlistedKinds DEF Bare
  <2> QED BY <1>4, <1>6, <2>1
<1>9. X \subseteq Blocks BY <1>1
<1>10. GoesOn({}) /\ UsersStay BY <1>3, IdleGives
<1>11. oci' \in [Blocks -> OciStates] /\ lists' = lists
       /\ openSlotNum' = openSlotNum /\ conn' = conn
  BY <1>2, <1>3
<1> HIDE DEF X
<1> QED BY <1>5, <1>7, <1>8, <1>9, <1>10, <1>11, BirthsUnlisted

LEMMA FoundLists ==
    ASSUME Inv, ListInv, Idle, NEW h,
           NEW k \in {"sodaColl", "sodaDoc", "sodaCollCursor", "sodaDocCursor"},
           NEW fields, Found(h, k, fields)
    PROVE  ListInv'
<1>1. Allocate(h, k, fields) /\ oci' = [oci EXCEPT ![h] = "open"] /\ Give(h)
      /\ UNCHANGED <<closing, conn, openSlotNum, lists>>
  BY DEF Found, listVars
<1>2. Begun(h, k) /\ h \in Blocks BY <1>1, AllocateBears
<1>3. \A l \in Lists : k \notin Listed[l] BY UnlistedKinds DEF Lasting
<1> QED BY <1>1, <1>2, <1>3, IdleGives, BegunOpen

-----------------------------------------------------------------------------
(* LOBs and objects that the program makes.                                 *)
LEMMA ListsOf ==
    /\ "openLobs" \in Lists /\ "lob" \in Listed["openLobs"]
    /\ "objects" \in Lists /\ "object" \in Listed["objects"]
    /\ "openStmts" \in Lists /\ \A k \in StmtKinds : k \in Listed["openStmts"]
  BY DEF Lists, Listed

LEMMA BegunAtHand ==
    ASSUME Inv, ListInv, NEW h \in Blocks, NEW l \in Lists, NEW k, Begun(h, k),
           k \in Listed[l], Opens(h), AddHandle(l, h), GoesOn({}), UsersStay
    PROVE  ListInv'
<1>1. \E X : X = {h} OBVIOUS
<1> QED BY <1>1, BegunListed

LEMMA LobFailsLists ==
    ASSUME Inv, ListInv, Idle, NEW h, AllocateLobFails(h, LobFields),
           UNCHANGED <<closing, conn>>
    PROVE  ListInv'
<1>1. Begun(h, "lob") /\ h \in Blocks BY AllocateBears DEF AllocateLobFails
<1>2. UNCHANGED <<oci, openSlotNum, lists>> /\ Discard(h)
  BY DEF AllocateLobFails
<1> QED BY <1>1, <1>2, IdleDiscards, BegunWithout

LEMMA AllocateLobLists ==
    ASSUME Inv, ListInv, NEW h, AllocateLob(h, LobFields), GoesOn({}), UsersStay,
           UNCHANGED <<closing, conn>>
    PROVE  ListInv'
<1>1. Begun(h, "lob") /\ h \in Blocks BY AllocateBears DEF AllocateLob
<1>2. Opens(h) /\ AddHandle("openLobs", h) BY DEF AllocateLob, Opens
<1> QED BY <1>1, <1>2, ListsOf, BegunAtHand

LEMMA NewLobLists ==
    ASSUME Inv, ListInv, Idle, NEW h, NewLob(h) PROVE ListInv'
<1>1. UNCHANGED <<closing, conn>> BY DEF NewLob
<1>2. CASE AllocateLobFails(h, LobFields) BY <1>1, <1>2, LobFailsLists
<1>3. CASE AllocateLob(h, LobFields) /\ (Give(h) \/ Discard(h))
  <2>1. GoesOn({}) /\ UsersStay BY <1>3, IdleGives, IdleDiscards
  <2> QED BY <1>1, <1>3, <2>1, AllocateLobLists
<1> QED BY <1>2, <1>3 DEF NewLob

LEMMA SetValueLists ==
    ASSUME Inv, ListInv, NEW o, NEW h, SetValue(o, h) PROVE ListInv'
<1>1. Idle /\ UNCHANGED <<closing, conn>> BY DEF SetValue, ObjectCheck, Has
<1>2. CASE AllocateLobFails(h, LobFields) BY <1>1, <1>2, LobFailsLists
<1>3. CASE AllocateLob(h, LobFields) /\ todo' = <<Unref(h)>>
  <2>1. PlainSeq(todo') BY <1>3, PlainOne, PlainUnref
  <2> QED BY <1>1, <1>3, <2>1, IdleWorks, AllocateLobLists
<1> QED BY <1>2, <1>3 DEF SetValue

LEMMA NewObjectLists ==
    ASSUME Inv, ListInv, Idle, NEW h, NEW type, NewObject(h, type) PROVE ListInv'
<1>1. h \in Blocks /\ Allocate(h, "object", ObjectFields(type, NULL))
      /\ closing' = closing
  <2>1. Allocate(h, "object", ObjectFields(type, NULL)) /\ closing' = closing
    BY DEF NewObject
  <2>2. h \in Room("object") BY <2>1 DEF Allocate, First
  <2> QED BY <2>1, <2>2 DEF Room, Unused
<1>2. CASE /\ oci' = [oci EXCEPT ![h] = "open"] /\ AddHandle("objects", h)
           /\ (Give(h) \/ Discard(h)) /\ UNCHANGED conn
  <2>1. Begun(h, "object") BY <1>1, <1>2, AllocateBears
  <2>2. GoesOn({}) /\ UsersStay BY <1>2, IdleGives, IdleDiscards
  <2>3. Opens(h) /\ AddHandle("objects", h) BY <1>2 DEF Opens
  <2> QED BY <1>1, <2>1, <2>2, <2>3, ListsOf, BegunAtHand
<1>3. CASE Discard(h) /\ UNCHANGED <<oci, lists, openSlotNum, conn>>
  <2>1. Begun(h, "object") BY <1>1, <1>3, AllocateBears
  <2> QED BY <1>1, <1>3, <2>1, IdleDiscards, BegunWithout
<1>4. CASE /\ oci' = [oci EXCEPT ![h] = "open"]
           /\ conn' = [conn EXCEPT !.ordered = FALSE]
           /\ Discard(h) /\ UNCHANGED <<lists, openSlotNum>>
  <2> DEFINE X == {h}
  <2>1. /\ mem[h] = "unused" /\ mem' = [mem EXCEPT ![h] = "live"]
        /\ kind' = [kind EXCEPT ![h] = "object"]
    BY <1>1 DEF Allocate, Make
  <2>2. mem = [x \in Blocks |-> mem[x]] /\ kind = [x \in Blocks |-> kind[x]]
        /\ oci \in [Blocks -> OciStates]
        /\ openSlotNum = [x \in Blocks |-> openSlotNum[x]]
        /\ conn.ordered \in BOOLEAN
        /\ conn \in [handle : BOOLEAN, session : BOOLEAN, closing : BOOLEAN,
                     dead : BOOLEAN, env : {"open", "freed"},
                     ordered : BOOLEAN]
    BY DEF Inv, HandlesTypes, ListInv, ConnTypes, OciStates
  <2>3. OnlyAt(X) /\ mem'[h] = "live" /\ kind'[h] = "object" /\ oci'[h] = "open"
    BY <1>1, <1>4, <2>1, <2>2 DEF OnlyAt
  <2>4. oci' \in [Blocks -> OciStates]
        /\ openSlotNum' = [x \in Blocks |-> openSlotNum'[x]]
    BY <1>4, <2>2 DEF OciStates
  <2>5. NewIn(X) BY <1>1, <2>1, <2>3 DEF NewIn
  <2>6. OrderOK'
    <3>1. ~conn'.ordered BY <1>4, <2>2
    <3> QED BY <3>1 DEF OrderOK, InOrder
  <2>7. GoesOn({}) /\ UsersStay BY <1>4, IdleDiscards
  <2>8. X \subseteq Blocks BY <1>1
  <2>9. conn' = [conn EXCEPT !.ordered = FALSE] BY <1>4
  <2> HIDE DEF X
  <2> QED BY <2>3, <2>4, <2>5, <2>6, <2>7, <2>8, <2>9, Births
<1> QED BY <1>2, <1>3, <1>4 DEF NewObject

LEMMA NewPartLists ==
    ASSUME Inv, ListInv, Idle, NEW o, NEW type, NEW h, NewPart(o, type, h)
    PROVE  ListInv'
<1>1. Allocate(h, "object", ObjectFields(type, o))
      /\ oci' = [oci EXCEPT ![h] = "part"] /\ Give(h)
      /\ UNCHANGED <<closing, conn, openSlotNum, lists>>
  BY DEF NewPart, listVars
<1>2. Begun(h, "object") /\ h \in Blocks BY <1>1, AllocateBears
<1> QED BY <1>1, <1>2, IdleGives, BegunPart

LEMMA ObjectMakesLists ==
    ASSUME Inv, ListInv, NEW h, NEW x,
           \/ CreateObject(x, h) \/ CopyObject(x, h)
           \/ GetValue(x, h) \/ SetValue(x, h)
    PROVE  ListInv'
<1>1. CASE CreateObject(x, h)
  BY <1>1, NewObjectLists DEF CreateObject, TypeCheck, Has
<1>2. CASE CopyObject(x, h)
  BY <1>2, NewObjectLists DEF CopyObject, ObjectCheck, Has
<1>3. CASE GetValue(x, h)
  BY <1>3, NewPartLists, NewLobLists DEF GetValue, ObjectCheck, Has
<1>4. CASE SetValue(x, h) BY <1>4, SetValueLists
<1> QED BY <1>1, <1>2, <1>3, <1>4

LEMMA LobMakesLists ==
    ASSUME Inv, ListInv, NEW h, NewTempLob(h) \/ \E x : CopyLob(x, h)
    PROVE  ListInv'
  BY NewLobLists DEF NewTempLob, CopyLob, LobCheck, Has

LEMMA TypeMakesLists ==
    ASSUME Inv, ListInv, NEW h,
           GetObjectType(h) \/ \E x \in Blocks : GetAttributes(x, h)
    PROVE  ListInv'
<1>1. "objectType" \in Bare /\ "objectAttr" \in Bare BY DEF Bare
<1>2. CASE GetObjectType(h)
  BY <1>1, <1>2, DescribeLists, DescribeBothLists DEF GetObjectType, Has
<1>3. ASSUME NEW x \in Blocks, GetAttributes(x, h) PROVE ListInv'
  BY <1>1, <1>3, DescribeLists, DescribeBothLists DEF GetAttributes, TypeCheck,
     Has
<1> QED BY <1>2, <1>3

LEMMA ConnMakesLists ==
    ASSUME Inv, ListInv, NEW h,
           \/ NewMsgProps(h) \/ NewDeqOptions(h) \/ NewEnqOptions(h)
           \/ NewJson(h) \/ NewQueue(h) \/ GetSodaDb(h)
    PROVE  ListInv'
<1>1. Idle
  BY DEF NewMsgProps, NewDeqOptions, NewEnqOptions, NewJson, NewQueue,
     GetSodaDb, ConnMakes, Has
<1>2. /\ \A k \in {"msgProps", "deqOptions", "enqOptions", "json"} : k \in Lasting
      /\ \A k \in Queues : k \in Bare
      /\ "sodaDb" \in Bare
  BY DEF Lasting, Bare
<1>3. CASE \/ NewMsgProps(h) \/ NewDeqOptions(h) \/ NewEnqOptions(h)
           \/ NewJson(h)
  BY <1>1, <1>2, <1>3, CreateLists DEF NewMsgProps, NewDeqOptions,
     NewEnqOptions, NewJson
<1>4. CASE NewQueue(h)
  <2>1. PICK k \in Queues : \E type, ok : Describe(h, k, QueueFields(type), ok)
    BY <1>4 DEF NewQueue
  <2> QED BY <1>1, <1>2, <2>1, DescribeLists
<1>5. CASE GetSodaDb(h) BY <1>1, <1>2, <1>5, DescribeLists DEF GetSodaDb
<1> QED BY <1>3, <1>4, <1>5

LEMMA SodaMakesLists ==
    ASSUME Inv, ListInv, NEW h, NEW x, SodaMakes(x, h) PROVE ListInv'
<1>1. Idle
  BY DEF SodaMakes, CreateCollection, OpenCollection, CreateDocument,
     GetCollections, NextCollection, Find, NextDocument, FindOne, GetDataGuide,
     InsertMany, InsertOne, ReplaceOne, Save, Stored, SodaDbCheck,
     SodaCollCheck, SodaCollCursorCheck, SodaDocCursorCheck, Has
<1>2. PICK k \in {"sodaColl", "sodaDoc", "sodaCollCursor", "sodaDocCursor"} :
          \E fields : Found(h, k, fields)
  BY DEF SodaMakes, CreateCollection, OpenCollection, CreateDocument,
     GetCollections, NextCollection, Find, NextDocument, FindOne, GetDataGuide,
     InsertMany, InsertOne, ReplaceOne, Save, Stored
<1> QED BY <1>1, <1>2, FoundLists

-----------------------------------------------------------------------------
(* Handles that a function makes for itself: nothing else is left to do but *)
(* what it does last.                                                       *)
OthersPlain == AllPlain(todo) /\ \A h : ~FreesIn(todo, h)

LEMMA IdleOthers == ASSUME Idle PROVE OthersPlain
  BY DEF Idle, OthersPlain, AllPlain, FreesIn

LEMMA LastOthers ==
    ASSUME Inv, NEW do \in LastWorks \cup {"prefetch"}, Doing(do)
    PROVE  OthersPlain
  BY LastPlain DEF OthersPlain, Doing

LEMMA AmongOthers ==
    ASSUME OthersPlain, AllPlain(todo'),
           \A h \in Blocks : user[h] > 0 => user'[h] > 0
    PROVE  GoesOn({}) /\ UsersStay
  BY GoesOnAlone DEF OthersPlain, UsersStay

LEMMA FreedNext == ASSUME NEW h, todo' = <<Free(h)>>
                   PROVE  FreesIn(todo', h) /\ AllPlain(todo')
<1>1. todo'[1] = Free(h) /\ 1 \in DOMAIN todo' OBVIOUS
<1>2. AllPlain(todo') BY PlainOne, PlainUnref DEF PlainSeq
<1> QED BY <1>1, <1>2 DEF FreesIn, Free, WorkOn, FreeWorks

LEMMA OwnLists ==
    ASSUME Inv, ListInv, OthersPlain, NEW h \in Blocks,
           NEW k \in Lasting \cup {"rowid"}, Begun(h, k),
           UNCHANGED <<openSlotNum, lists, user>>, AllPlain(todo'),
           \/ oci' = [oci EXCEPT ![h] = "open"]
           \/ UNCHANGED oci /\ FreesIn(todo', h)
    PROVE  ListInv'
<1>1. GoesOn({}) /\ UsersStay BY AmongOthers
<1>2. \A l \in Lists : k \notin Listed[l] BY UnlistedKinds
<1>3. CASE oci' = [oci EXCEPT ![h] = "open"] BY <1>1, <1>2, <1>3, BegunOpen
<1>4. CASE UNCHANGED oci /\ FreesIn(todo', h) BY <1>1, <1>4, BegunWithout
<1> QED BY <1>3, <1>4

LEMMA OwnListed ==
    ASSUME Inv, ListInv, OthersPlain, NEW h \in Blocks, NEW l \in Lists, NEW k,
           k \in Listed[l], Begun(h, k), user' = user, AllPlain(todo'),
           \/ Opens(h) /\ AddHandle(l, h)
           \/ UNCHANGED <<oci, lists, openSlotNum>> /\ FreesIn(todo', h)
    PROVE  ListInv'
<1>1. GoesOn({}) /\ UsersStay BY AmongOthers
<1>2. CASE Opens(h) /\ AddHandle(l, h) BY <1>1, <1>2, BegunAtHand
<1>3. CASE UNCHANGED <<oci, lists, openSlotNum>> /\ FreesIn(todo', h)
  BY <1>1, <1>3, BegunWithout
<1> QED BY <1>2, <1>3

LEMMA MakeOptionsLists ==
    ASSUME Inv, ListInv, NEW h \in Fresh, NEW q,
           GetDeqOptions(q, h) \/ GetEnqOptions(q, h)
    PROVE  ListInv'
<1>1. h \in Blocks /\ mem[h] = "unused" BY FreshIs
<1>2. PICK role \in {"deqOptions", "enqOptions"} : MakeOptions(q, h, role)
  BY DEF GetDeqOptions, GetEnqOptions
<1>3. OthersPlain BY IdleOthers DEF GetDeqOptions, GetEnqOptions
<1>4. role \in Lasting BY DEF Lasting
<1>5. Begun(h, role) /\ UNCHANGED <<openSlotNum, lists, user>>
  BY <1>1, <1>2 DEF MakeOptions, Begun, listVars
<1>6. \/ oci' = [oci EXCEPT ![h] = "open"] /\ todo' = todo
      \/ UNCHANGED oci /\ todo' = <<Free(h)>>
  BY <1>2 DEF MakeOptions
<1>7. /\ AllPlain(todo')
      /\ \/ oci' = [oci EXCEPT ![h] = "open"]
         \/ UNCHANGED oci /\ FreesIn(todo', h)
  BY <1>3, <1>6, FreedNext DEF OthersPlain
<1> QED BY <1>1, <1>3, <1>4, <1>5, <1>7, OwnLists

LEMMA PopulatePropsLists ==
    ASSUME Inv, ListInv, NEW h \in Fresh, PopulateProps(h) PROVE ListInv'
<1>1. h \in Blocks /\ mem[h] = "unused" BY FreshIs
<1>2. OthersPlain BY LastOthers DEF PopulateProps, LastWorks
<1>3. "msgProps" \in Lasting BY DEF Lasting
<1>4. Begun(h, "msgProps") /\ UNCHANGED <<openSlotNum, lists, user>>
  BY <1>1 DEF PopulateProps, Begun, listVars
<1>5. \/ oci' = [oci EXCEPT ![h] = "open"] /\ todo' = todo
      \/ UNCHANGED oci /\ todo' = <<Free(h)>>
  BY DEF PopulateProps
<1>6. /\ AllPlain(todo')
      /\ \/ oci' = [oci EXCEPT ![h] = "open"]
         \/ UNCHANGED oci /\ FreesIn(todo', h)
  BY <1>2, <1>5, FreedNext DEF OthersPlain
<1> QED BY <1>1, <1>2, <1>3, <1>4, <1>6, OwnLists

LEMMA PopulatePayloadLists ==
    ASSUME Inv, ListInv, PopulatePayload PROVE ListInv'
<1>1. Doing("populate") /\ UNCHANGED <<closing, conn, user>>
  BY DEF PopulatePayload
<1>2. OthersPlain BY <1>1, LastOthers DEF LastWorks
<1>3. NextPlace => PlainSeq(todo')
  <2>1. Head(todo) \in Works /\ Head(todo).do = "populate"
    BY <1>1, NextCall DEF Doing
  <2> QED BY <2>1, PlacePlain
<1>4. ASSUME NEW h \in Fresh,
             /\ mem' = [mem EXCEPT ![h] = "live"]
             /\ kind' = [kind EXCEPT ![h] = "object"]
             /\ \/ /\ oci' = [oci EXCEPT ![h] = "open"]
                   /\ AddHandle("objects", h) /\ NextPlace
                \/ /\ todo' = <<Free(h)>>
                   /\ UNCHANGED <<oci, lists, openSlotNum>>
      PROVE  ListInv'
  <2>1. h \in Blocks /\ mem[h] = "unused" BY FreshIs
  <2>2. Begun(h, "object") BY <1>1, <1>4, <2>1 DEF Begun
  <2>3. /\ AllPlain(todo')
        /\ \/ Opens(h) /\ AddHandle("objects", h)
           \/ UNCHANGED <<oci, lists, openSlotNum>> /\ FreesIn(todo', h)
    BY <1>3, <1>4, FreedNext DEF Opens, PlainSeq
  <2> QED BY <1>1, <1>2, <2>1, <2>2, <2>3, ListsOf, OwnListed
<1>5. ASSUME NEW h \in Fresh,
             /\ mem' = [mem EXCEPT ![h] = "live"]
             /\ kind' = [kind EXCEPT ![h] = "json"]
             /\ oci' = [oci EXCEPT ![h] = "open"]
             /\ NextPlace /\ UNCHANGED <<lists, openSlotNum>>
      PROVE  ListInv'
  <2>1. h \in Blocks /\ mem[h] = "unused" /\ "json" \in Lasting
    BY FreshIs DEF Lasting
  <2>2. Begun(h, "json") BY <1>1, <1>5, <2>1 DEF Begun
  <2>3. AllPlain(todo') BY <1>3, <1>5 DEF PlainSeq
  <2> QED BY <1>1, <1>2, <1>5, <2>1, <2>2, <2>3, OwnLists
<1>6. CASE NextPlace /\ UNCHANGED <<mem, kind, oci, lists, openSlotNum>>
  <2>1. QuietAt BY <1>1, <1>6 DEF QuietAt
  <2>2. todo # <<>> /\ Head(todo).do \in LastWorks \cup {"prefetch"}
    BY <1>1 DEF Doing, LastWorks
  <2> QED BY <1>1, <1>3, <1>6, <2>1, <2>2, QuietLast
<1> QED BY <1>4, <1>5, <1>6 DEF PopulatePayload

LEMMA PrepareStmtLists ==
    ASSUME Inv, ListInv, NEW h, NEW k \in StmtKinds, PrepareStmt(h, k)
    PROVE  ListInv'
<1>1. Idle /\ Allocate(h, k, StmtFields) /\ UNCHANGED <<closing, conn>>
  BY DEF PrepareStmt, ConnMakes, Has
<1>2. Begun(h, k) /\ h \in Blocks BY <1>1, AllocateBears
<1>3. CASE /\ oci' = [oci EXCEPT ![h] = "open"] /\ AddHandle("openStmts", h)
           /\ (Give(h) \/ Discard(h))
  <2>1. GoesOn({}) /\ UsersStay BY <1>1, <1>3, IdleGives, IdleDiscards
  <2>2. Opens(h) BY <1>3 DEF Opens
  <2> QED BY <1>2, <1>3, <2>1, <2>2, ListsOf, BegunAtHand
<1>4. CASE Discard(h) /\ UNCHANGED <<oci, lists, openSlotNum>>
  BY <1>1, <1>2, <1>4, IdleDiscards, BegunWithout
<1> QED BY <1>3, <1>4 DEF PrepareStmt

LEMMA NewVarLists ==
    ASSUME Inv, ListInv, NEW h, NEW k \in VarKinds, NEW s,
           NewVar(h, k) \/ DefineNew(s, h, k)
    PROVE  ListInv'
<1>1. Idle /\ AllocateVar(h, k) /\ UNCHANGED <<oci, openSlotNum, lists, closing,
                                               conn>>
  BY DEF NewVar, DefineNew, ConnMakes, Has, StmtCheck, HasStmt, listVars
<1>2. Begun(h, k) /\ h \in Blocks BY <1>1, AllocateBears DEF AllocateVar
<1>3. k \notin Lasting \cup {"object"} BY KindsDistinct
<1>4. PlainSeq(InitBuffer(h, k))
  BY PlainNone, PlainOne, PlainPrefetch DEF InitBuffer
<1>5. Plain(WorkOn("give", h)) /\ Plain(DefineWork(s, h))
  BY PlainDefine DEF Plain, WorkOn, SweepWorks, CloseWorks
<1>6. PlainSeq(<<WorkOn("give", h)>>) /\ PlainSeq(<<DefineWork(s, h)>>)
  BY <1>5, PlainOne
<1>7. PlainSeq(todo') BY <1>4, <1>6, PlainBoth DEF NewVar, DefineNew
<1> QED BY <1>1, <1>2, <1>3, <1>7, IdleWorks, BegunWithout

LEMMA BindValueLists ==
    ASSUME Inv, ListInv, NEW h \in Fresh, NEW s, NEW o, BindValue(s, o, h)
    PROVE  ListInv'
<1>1. h \in Blocks /\ mem[h] = "unused" BY FreshIs
<1>2. Idle /\ UNCHANGED <<oci, openSlotNum, lists, closing, conn>>
  BY DEF BindValue, StmtCheck, HasStmt, listVars
<1>3. Begun(h, "objectVar") BY <1>1, <1>2 DEF BindValue, Begun
<1>4. "objectVar" \notin Lasting \cup {"object"} BY DEF Lasting
<1>5. todo' = UnrefOf(field[s].bind) \/ todo' = <<>>
  BY <1>2 DEF BindValue, Idle
<1>6. PlainSeq(todo') BY <1>5, PlainUnrefOf, PlainNone
<1> QED BY <1>1, <1>2, <1>3, <1>4, <1>6, IdleWorks, BegunWithout

LEMMA AllocateRowidLists ==
    ASSUME Inv, ListInv, AllocateRowid PROVE ListInv'
<1>1. PICK h \in Fresh :
          /\ Make(h, "rowid", NoFields)
          /\ \/ oci' = [oci EXCEPT ![h] = "open"] /\ todo' = Tail(todo)
             \/ todo' = <<Free(h)>> /\ UNCHANGED oci
  BY DEF AllocateRowid
<1>2. Doing("lastRowid") /\ UNCHANGED <<closing, conn, openSlotNum, lists, user>>
  BY DEF AllocateRowid, listVars
<1>3. OthersPlain BY <1>2, LastOthers DEF LastWorks
<1>4. Begun(h, "rowid") /\ h \in Blocks BY <1>1, <1>2, FreshIs DEF Make, Begun
<1>5. Tail(todo) = <<>> BY <1>2, LastCall DEF LastWorks
<1>6. /\ AllPlain(todo')
      /\ \/ oci' = [oci EXCEPT ![h] = "open"]
         \/ UNCHANGED oci /\ FreesIn(todo', h)
  BY <1>1, <1>5, FreedNext, PlainNone DEF PlainSeq
<1> QED BY <1>2, <1>3, <1>4, <1>6, OwnLists

LEMMA PrefetchAllocateLists ==
    ASSUME Inv, ListInv, PrefetchAllocate PROVE ListInv'
<1>1. PICK h \in Fresh : MakeContent(h) BY DEF PrefetchAllocate
<1>2. PICK v : v = Subject OBVIOUS
<1>3. PICK k : k = MadeFor[kind[v]] OBVIOUS
<1>4. Doing("prefetch") /\ UNCHANGED <<closing, conn, user>>
  BY <1>1 DEF PrefetchAllocate, MakeContent
<1>5. k \in {"lob", "rowid", "cursor", "object"}
  BY <1>2, <1>3, <1>4, ContentFits DEF PrefetchAllocate
<1>6. Begun(h, k) /\ h \in Blocks
  BY <1>1, <1>2, <1>3, <1>4, FreshIs DEF MakeContent, Begun
<1>7. OthersPlain BY <1>4, LastOthers
<1>8. \/ /\ oci' = [oci EXCEPT ![h] = "open"]
         /\ todo' = Tail(todo)
         /\ IF k = "rowid" THEN UNCHANGED <<lists, openSlotNum>>
            ELSE AddHandle(ListOf(k), h)
      \/ /\ todo' = <<Free(h)>> \o (IF Head(todo).why = "new" THEN <<Free(v)>>
                                    ELSE <<>>)
         /\ UNCHANGED <<oci, lists, openSlotNum>>
  BY <1>1, <1>2, <1>3 DEF MakeContent
<1>9. AllPlain(Tail(todo))
  <2>1. todo \in Seq(Works) /\ todo # <<>> BY <1>4 DEF Inv, HandlesTypes, Doing
  <2>2. \A i \in DOMAIN Tail(todo) : i + 1 \in DOMAIN todo
                                     /\ Tail(todo)[i] = todo[i + 1]
    BY <2>1
  <2> QED BY <1>7, <2>2 DEF OthersPlain, AllPlain
<1>10. ASSUME todo' = <<Free(h)>> \o (IF Head(todo).why = "new" THEN <<Free(v)>>
                                      ELSE <<>>)
       PROVE  AllPlain(todo') /\ FreesIn(todo', h)
  <2>1. PlainSeq(<<Free(h)>>) /\ PlainSeq(<<Free(v)>>) /\ PlainSeq(<<>>)
    BY PlainOne, PlainUnref, PlainNone
  <2>2. PICK b : b = IF Head(todo).why = "new" THEN <<Free(v)>> ELSE <<>>
    OBVIOUS
  <2>3. PlainSeq(b) /\ todo' = <<Free(h)>> \o b BY <1>10, <2>1, <2>2
  <2>4. PlainSeq(todo') BY <2>1, <2>3, PlainBoth
  <2>5. 1 \in DOMAIN todo' /\ todo'[1] = Free(h)
    <3>1. PICK S : b \in Seq(S) BY <2>3 DEF PlainSeq
    <3> QED BY <2>3, <3>1
  <2> QED BY <2>4, <2>5 DEF PlainSeq, FreesIn, Free, WorkOn, FreeWorks
<1>11. CASE k = "rowid"
  <2>1. \/ oci' = [oci EXCEPT ![h] = "open"]
        \/ UNCHANGED oci /\ FreesIn(todo', h)
    BY <1>8, <1>10
  <2>2. UNCHANGED <<openSlotNum, lists>> /\ AllPlain(todo')
    BY <1>8, <1>9, <1>10, <1>11
  <2> QED BY <1>4, <1>6, <1>7, <1>11, <2>1, <2>2, OwnLists
<1>12. CASE k # "rowid"
  <2>1. PICK l : l = ListOf(k) OBVIOUS
  <2>2. l \in Lists /\ k \in Listed[l]
    BY <1>5, <1>12, <2>1 DEF ListOf, Lists, Listed, StmtKinds, Queries
  <2>3. \/ Opens(h) /\ AddHandle(l, h)
        \/ UNCHANGED <<oci, lists, openSlotNum>> /\ FreesIn(todo', h)
    BY <1>8, <1>10, <1>12, <2>1 DEF Opens
  <2>4. AllPlain(todo') BY <1>8, <1>9, <1>10
  <2> QED BY <1>4, <1>6, <1>7, <2>2, <2>3, <2>4, OwnListed
<1> QED BY <1>11, <1>12

-----------------------------------------------------------------------------
(* The ends of free functions.                                              *)
LEMMA ConcatOne ==
    ASSUME NEW S, NEW a \in Seq(S), NEW z
    PROVE  /\ \E T : a \o <<z>> \in Seq(T)
           /\ Len(a) + 1 \in DOMAIN (a \o <<z>>)
           /\ (a \o <<z>>)[Len(a) + 1] = z
           /\ \A i \in DOMAIN (a \o <<z>>) :
                 (a \o <<z>>)[i] = z
                 \/ (i \in DOMAIN a /\ (a \o <<z>>)[i] = a[i])
<1>1. a \in Seq(S \cup {z}) /\ <<z>> \in Seq(S \cup {z}) OBVIOUS
<1>2. a \o <<z>> \in Seq(S \cup {z}) /\ Len(a \o <<z>>) = Len(a) + 1
      /\ Len(a) \in Nat
  BY <1>1
<1>3. Len(a) + 1 \in DOMAIN (a \o <<z>>) /\ (a \o <<z>>)[Len(a) + 1] = z
  BY <1>1, <1>2
<1>4. ASSUME NEW i \in DOMAIN (a \o <<z>>)
      PROVE  (a \o <<z>>)[i] = z \/ (i \in DOMAIN a /\ (a \o <<z>>)[i] = a[i])
  <2>1. i \in 1 .. Len(a) + 1 BY <1>2
  <2>2. CASE i = Len(a) + 1 BY <1>3, <2>2
  <2>3. CASE i # Len(a) + 1
    <3>1. i \in 1 .. Len(a) BY <1>2, <2>1, <2>3
    <3> QED BY <1>1, <1>2, <3>1
  <2> QED BY <2>2, <2>3
<1> QED BY <1>2, <1>3, <1>4

LEMMA GivesBackOn ==
    ASSUME Inv, NEW do \in {"free", "freeStmt"}, Doing(do), NEW x, x = Subject,
           NEW unrefs, PlainSeq(unrefs), GiveBack(unrefs), NEW X, x \in X
    PROVE  GoesOn(X) /\ FreesIn(todo', x)
<1> DEFINE z == FreeMemory(x)
           p == unrefs \o <<z>>
<1>1. PICK S : unrefs \in Seq(S) BY DEF PlainSeq
<1>2. z.do = "freeMemory" /\ z.h = x BY DEF FreeMemory, WorkOn
<1>3. \A i \in DOMAIN unrefs : Follows(X, unrefs[i])
  BY PlainFollows DEF PlainSeq, AllPlain
<1>4. Follows(X, z) BY <1>2 DEF Follows
<1> HIDE DEF z
<1>5. /\ \E T : p \in Seq(T)
      /\ Len(unrefs) + 1 \in DOMAIN p /\ p[Len(unrefs) + 1] = z
      /\ \A i \in DOMAIN p : p[i] = z \/ (i \in DOMAIN unrefs /\ p[i] = unrefs[i])
  BY <1>1, ConcatOne
<1>6. PICK T : p \in Seq(T) BY <1>5
<1>7. todo' = p \o Tail(todo) BY DEF GiveBack, z
<1> HIDE DEF p
<1>8. \A i \in DOMAIN p : Follows(X, p[i]) BY <1>3, <1>4, <1>5
<1>9. FreesIn(p, x) BY <1>2, <1>5 DEF FreesIn, FreeWorks
<1>10. todo # <<>> /\ Head(todo).do = do /\ Head(todo).h = x
  BY DEF Doing, Subject
<1>11. GoesOn(X) BY <1>6, <1>7, <1>8, <1>9, <1>10, GoesOnWith
<1>12. FreesIn(todo', x)
  <2>1. PICK i \in DOMAIN p : p[i].do \in FreeWorks /\ p[i].h = x
    BY <1>9 DEF FreesIn
  <2>2. Tail(todo) \in Seq(Works) BY <1>10 DEF Inv, HandlesTypes
  <2>3. p \in Seq(T \cup Works) /\ Tail(todo) \in Seq(T \cup Works)
    BY <1>6, <2>2
  <2>4. i \in DOMAIN todo' /\ todo'[i] = p[i] BY <1>7, <2>3
  <2> QED BY <2>1, <2>4 DEF FreesIn
<1> QED BY <1>11, <1>12

(* What is freed is there.                                                  *)
LEMMA FreedLive ==
    ASSUME Inv, NEW do \in FreeWorks, Doing(do), NEW x, x = Subject
    PROVE  x \in Blocks /\ mem[x] = "live" /\ FreesIn(todo, x) /\ Dead(x)
<1>1. PICK w : w = Head(todo) OBVIOUS
<1>2. w \in Works /\ WorkOK(w) /\ w.do = do /\ w.h = x
  BY <1>1, NextCall DEF Doing, Subject
<1>3. x \in Blocks /\ mem[x] = "live" BY <1>2 DEF Works, WorkOK
<1>4. FreesIn(todo, x)
  <2>1. todo \in Seq(Works) /\ todo # <<>> BY DEF Inv, HandlesTypes, Doing
  <2>2. 1 \in DOMAIN todo /\ todo[1] = w BY <1>1, <2>1
  <2> QED BY <1>2, <2>2 DEF FreesIn
<1> QED BY <1>3, <1>4 DEF Dead

(* The lists are what they were, and what changes was in none.              *)
LEMMA OrderGone ==
    ASSUME Inv, OrderOK, NEW X, OnlyAt(X), lists' = lists,
           openSlotNum' = openSlotNum,
           InOrder' => /\ InOrder
                       /\ \A x \in X : oci[x] # "open" /\ oci'[x] # "open"
    PROVE  OrderOK'
<1> SUFFICES ASSUME InOrder', NEW l \in Lists
             PROVE  /\ \A i \in Slots : HeldAt(l, i)'
                    /\ \A h \in Blocks : OpenIn(l, h)'
  BY DEF OrderOK
<1>1. /\ \A i \in Slots : HeldAt(l, i)
      /\ \A h \in Blocks : OpenIn(l, h)
  BY DEF OrderOK
<1>2. ASSUME NEW i \in Slots PROVE HeldAt(l, i)'
  <2>1. CASE lists[l][i] = NULL BY <2>1 DEF HeldAt
  <2>2. CASE lists[l][i] # NULL
    <3>1. lists[l][i] \in Blocks BY <2>2, ListedLive
    <3>2. lists[l][i] \notin X BY <1>1, <2>2 DEF HeldAt
    <3> QED BY <1>1, <3>1, <3>2 DEF HeldAt, OnlyAt
  <2> QED BY <2>1, <2>2
<1>3. ASSUME NEW h \in Blocks PROVE OpenIn(l, h)'
  <2>1. CASE h \in X BY <2>1 DEF OpenIn
  <2>2. CASE h \notin X
    <3>1. kind'[h] \in Listed[l] => kind[h] \in Listed[l]
      BY <2>2, KindsDistinct DEF OnlyAt
    <3> QED BY <1>1, <2>2, <3>1 DEF OpenIn, OnlyAt
  <2> QED BY <2>1, <2>2
<1> QED BY <1>2, <1>3

(* A handle that is closed leaves its list.                                 *)
Leaves(l, x) ==
    /\ lists' = IF oci[x] = "open" /\ ~conn.closing THEN RemoveHandle(l, x)
                                                    ELSE lists
    /\ openSlotNum' = openSlotNum

LEMMA OrderLeft ==
    ASSUME Inv, OrderOK, NEW l \in Lists, NEW x \in Blocks,
           kind[x] \in Listed[l], kind' = kind, NEW X, X = {x}, OnlyAt(X),
           oci'[x] # "open", Leaves(l, x),
           InOrder' => InOrder /\ mem[x] = "live"
    PROVE  OrderOK'
<1>1. CASE ~(oci[x] = "open" /\ InOrder')
  <2>1. CASE ~InOrder' BY <2>1 DEF OrderOK
  <2>2. CASE oci[x] # "open" BY <2>2, OrderGone DEF Leaves
  <2> QED BY <1>1, <2>1, <2>2
<1>2. CASE oci[x] = "open" /\ InOrder'
  <2> SUFFICES ASSUME NEW m \in Lists
               PROVE  /\ \A i \in Slots : HeldAt(m, i)'
                      /\ \A h \in Blocks : OpenIn(m, h)'
    BY DEF OrderOK
  <2>1. /\ \A i \in Slots : HeldAt(m, i)
        /\ \A h \in Blocks : OpenIn(m, h)
        /\ OpenIn(l, x) /\ mem[x] = "live"
    BY <1>2 DEF OrderOK
  <2>2. PICK s : s = openSlotNum[x] OBVIOUS
  <2>3. s \in Slots /\ lists[l][s] = x BY <1>2, <2>1, <2>2 DEF OpenIn
  <2>4. lists' = [lists EXCEPT ![l][s] = NULL] /\ openSlotNum' = openSlotNum
    BY <1>2, <2>2 DEF Leaves, RemoveHandle, InOrder
  <2>5. lists \in [Lists -> [Slots -> Blocks \cup {NULL}]]
    BY DEF Inv, HandlesTypes
  <2>6. /\ lists'[l][s] = NULL
        /\ \A i \in Slots : lists'[m][i] = lists[m][i] \/ (m = l /\ i = s)
    BY <2>3, <2>4, <2>5
  <2>7. ASSUME NEW i \in Slots PROVE HeldAt(m, i)'
    <3> SUFFICES ASSUME lists'[m][i] # NULL
                 PROVE  /\ mem'[lists'[m][i]] = "live"
                        /\ oci'[lists'[m][i]] = "open"
                        /\ openSlotNum'[lists'[m][i]] = i
      BY DEF HeldAt
    <3>1. lists'[m][i] = lists[m][i] /\ lists[m][i] # NULL
          /\ ~(m = l /\ i = s)
      BY <2>6
    <3>2. /\ lists[m][i] \in Blocks /\ kind[lists[m][i]] \in Listed[m]
          /\ mem[lists[m][i]] = "live" /\ oci[lists[m][i]] = "open"
          /\ openSlotNum[lists[m][i]] = i
      BY <2>1, <3>1, ListedLive DEF HeldAt
    <3>3. lists[m][i] # x BY <2>2, <3>1, <3>2, KindsDistinct
    <3> QED BY <2>4, <3>1, <3>2, <3>3 DEF OnlyAt
  <2>8. ASSUME NEW h \in Blocks PROVE OpenIn(m, h)'
    <3> SUFFICES ASSUME mem'[h] = "live", oci'[h] = "open",
                        kind'[h] \in Listed[m]
                 PROVE  /\ openSlotNum'[h] \in Slots
                        /\ lists'[m][openSlotNum'[h]] = h
      BY DEF OpenIn
    <3>1. h # x OBVIOUS
    <3>2. mem[h] = "live" /\ oci[h] = "open" /\ kind[h] \in Listed[m]
      BY <3>1 DEF OnlyAt
    <3>3. openSlotNum[h] \in Slots /\ lists[m][openSlotNum[h]] = h
      BY <2>1, <3>2 DEF OpenIn
    <3> QED BY <2>3, <2>4, <2>6, <3>1, <3>3
  <2> QED BY <2>7, <2>8
<1> QED BY <1>1, <1>2

-----------------------------------------------------------------------------
(* Handles that are freed.                                                  *)
Shuts(x) == oci' = [oci EXCEPT ![x] = IF @ = "open" THEN "freed" ELSE @]

LEMMA ShutsIs ==
    ASSUME ListInv, NEW x \in Blocks, Shuts(x) \/ oci' = oci
    PROVE  /\ oci' \in [Blocks -> OciStates]
           /\ \A h \in Blocks : h # x => oci'[h] = oci[h]
           /\ Shuts(x) \/ oci[x] # "open" => oci'[x] # "open"
           /\ oci[x] # "open" => oci'[x] = oci[x]
<1>1. oci \in [Blocks -> OciStates] BY DEF ListInv, ConnTypes, OciStates
<1>2. CASE oci' = oci
  <2>1. oci' = [oci EXCEPT ![x] = oci[x]] BY <1>1, <1>2
  <2> QED BY <1>1, <1>2, <2>1 DEF Shuts
<1>3. CASE Shuts(x) BY <1>1, <1>3 DEF Shuts, OciStates
<1> QED BY <1>2, <1>3

LEMMA ConnTyped ==
    ASSUME ListInv, conn' = conn, openSlotNum' = openSlotNum,
           oci' \in [Blocks -> OciStates]
    PROVE  ConnTypes'
  BY DEF ListInv, ConnTypes, OciStates

LEMMA FreedOci ==
    ASSUME Inv, NEW x \in Blocks, mem[x] = "live", UNCHANGED <<mem, kind>>,
           FreesIn(todo', x), kind[x] \in SweptKinds => closing'[x] /\ oci'[x] # "open"
    PROVE  OciOK(x)'
<1>1. Dead(x)' BY DEF Dead
<1> QED BY <1>1 DEF OciOK

LEMMA FreedLists ==
    ASSUME Inv, ListInv, NEW do \in {"free", "freeStmt"}, Doing(do),
           NEW x, x = Subject, x # Conn, NEW unrefs, PlainSeq(unrefs),
           GiveBack(unrefs), UNCHANGED <<mem, kind, user, conn, openSlotNum>>,
           \A h \in Blocks : h # x => closing'[h] = closing[h],
           Shuts(x) \/ oci' = oci,
           kind[x] \in SweptKinds => closing'[x] /\ oci'[x] # "open",
           OrderOK'
    PROVE  ListInv'
<1>1. PICK X : X = {x} OBVIOUS
<1>2. x \in Blocks /\ mem[x] = "live" BY FreedLive DEF FreeWorks
<1>3. GoesOn(X) /\ FreesIn(todo', x) BY <1>1, GivesBackOn
<1>4. ConnTypes' /\ \A h \in Blocks : h # x => oci'[h] = oci[h]
  BY <1>2, ShutsIs, ConnTyped
<1>5. OnlyAt(X) BY <1>1, <1>4 DEF OnlyAt
<1>6. \A y \in X : OciOK(y)' BY <1>1, <1>2, <1>3, FreedOci
<1>7. UsersStay /\ (InOrder' => InOrder) /\ Conn \notin X
  BY <1>1 DEF UsersStay, InOrder
<1> QED BY <1>3, <1>4, <1>5, <1>6, <1>7, ListsKept

LEMMA SubjectNotConn ==
    ASSUME Inv, kind[Subject] # "conn" PROVE Subject # Conn
<1>1. kind[Conn] = "conn" BY HandleTreeAssumption DEF Inv, KindOK
<1> QED BY <1>1

LEMMA UnlistedLists ==
    ASSUME Inv, ListInv, Doing("free"), NEW k \in Lasting \cup Queues \cup VarKinds
               \cup {"objectType", "objectAttr", "sodaDb", "sodaCollCursor",
                     "sodaDocCursor", "rowid"},
           kind[Subject] = k, NEW unrefs, PlainSeq(unrefs), GiveBack(unrefs),
           Shuts(Subject) \/ oci' = oci,
           UNCHANGED <<mem, kind, listVars, conn, user>>
    PROVE  ListInv'
<1>1. PICK x : x = Subject OBVIOUS
<1>2. x # Conn BY <1>1, SubjectNotConn DEF Lasting, Queues, VarKinds
<1>3. x \in Blocks BY <1>1, FreedLive DEF FreeWorks
<1>4. PICK X : X = {x} OBVIOUS
<1>5. \A h \in Blocks : h # x => oci'[h] = oci[h] BY <1>1, <1>3, ShutsIs
<1>6. UNCHANGED <<mem, kind, closing, openSlotNum, lists, conn, user>>
  BY DEF listVars
<1>7. OnlyAt(X) BY <1>4, <1>5, <1>6 DEF OnlyAt
<1>8. \A y \in X : \A l \in Lists : kind[y] \notin Listed[l]
  BY <1>1, <1>4, UnlistedKinds
<1>9. OrderOK' BY <1>6, <1>7, <1>8, OrderStays DEF InOrder, ListInv
<1>10. k \notin SweptKinds BY DEF Lasting, Queues, VarKinds, SweptKinds
<1> QED BY <1>1, <1>2, <1>6, <1>9, <1>10, FreedLists

LEMMA PlainRoles ==
    \A a, b, c, d, e, f :
        /\ PlainSeq(UnrefField(a))
        /\ PlainSeq(UnrefField(a) \o UnrefField(b))
        /\ PlainSeq(UnrefField(a) \o UnrefField(b) \o UnrefField(c)
                    \o UnrefField(d))
        /\ PlainSeq(UnrefField(a) \o UnrefField(b) \o UnrefField(c)
                    \o UnrefField(d) \o UnrefField(e) \o UnrefField(f))
<1> TAKE a, b, c, d, e, f
<1>1. \A r : PlainSeq(UnrefField(r)) BY PlainUnrefOf DEF UnrefField
<1>2. PlainSeq(UnrefField(a) \o UnrefField(b)) BY <1>1, PlainBoth
<1>3. PlainSeq(UnrefField(a) \o UnrefField(b) \o UnrefField(c))
  BY <1>1, <1>2, PlainBoth
<1>4. PlainSeq(UnrefField(a) \o UnrefField(b) \o UnrefField(c) \o UnrefField(d))
  BY <1>1, <1>3, PlainBoth
<1>5. PlainSeq(UnrefField(a) \o UnrefField(b) \o UnrefField(c)
               \o UnrefField(d) \o UnrefField(e))
  BY <1>1, <1>4, PlainBoth
<1>6. PlainSeq(UnrefField(a) \o UnrefField(b) \o UnrefField(c)
               \o UnrefField(d) \o UnrefField(e) \o UnrefField(f))
  BY <1>1, <1>5, PlainBoth
<1> QED BY <1>1, <1>2, <1>4, <1>6

LEMMA FreeSimpleLists ==
    ASSUME Inv, ListInv, NEW k \in Lasting \cup Queues
               \cup {"objectType", "objectAttr", "sodaDb", "sodaCollCursor",
                     "sodaDocCursor", "rowid"},
           NEW unrefs, PlainSeq(unrefs), FreeSimple(k, unrefs)
    PROVE  ListInv'
<1>1. /\ Doing("free") /\ kind[Subject] = k /\ GiveBack(unrefs)
      /\ Shuts(Subject) /\ UNCHANGED <<mem, kind, listVars, conn, user>>
  BY DEF FreeSimple, Shuts
<1> QED BY <1>1, UnlistedLists

LEMMA SimpleFreesLists ==
    ASSUME Inv, ListInv,
           \/ FreeObjectType \/ FreeObjectAttr \/ FreeMsgProps \/ FreeDeqOptions
           \/ FreeEnqOptions \/ FreeJson \/ FreeQueue \/ FreeSodaDb
           \/ FreeSodaColl \/ FreeSodaDoc \/ FreeSodaCollCursor
           \/ FreeSodaDocCursor \/ FreeRowid
    PROVE  ListInv'
<1> DEFINE K == Lasting \cup Queues
                \cup {"objectType", "objectAttr", "sodaDb", "sodaCollCursor",
                      "sodaDocCursor", "rowid"}
<1>0. ASSUME NEW k \in K, NEW unrefs, PlainSeq(unrefs), FreeSimple(k, unrefs)
      PROVE  ListInv'
  BY <1>0, FreeSimpleLists
<1>1. /\ \A k \in {"objectType", "objectAttr", "msgProps", "deqOptions",
                   "enqOptions", "json", "sodaDb", "sodaColl", "sodaDoc",
                   "sodaCollCursor", "sodaDocCursor", "rowid"} : k \in K
      /\ \A k \in Queues : k \in K
  BY DEF Lasting
<1> HIDE DEF K
<1>2. CASE FreeObjectType \/ FreeObjectAttr \/ FreeMsgProps
  BY <1>0, <1>1, <1>2, PlainRoles DEF FreeObjectType, FreeObjectAttr, FreeMsgProps
<1>3. CASE FreeDeqOptions \/ FreeEnqOptions \/ FreeJson
  BY <1>0, <1>1, <1>3, PlainRoles DEF FreeDeqOptions, FreeEnqOptions, FreeJson
<1>4. CASE FreeQueue BY <1>0, <1>1, <1>4, PlainRoles DEF FreeQueue
<1>5. CASE \/ FreeSodaDb \/ FreeSodaColl \/ FreeSodaDoc \/ FreeSodaCollCursor
           \/ FreeSodaDocCursor
  BY <1>0, <1>1, <1>5, PlainRoles DEF FreeSodaDb, FreeSodaColl, FreeSodaDoc,
     FreeSodaCollCursor, FreeSodaDocCursor
<1>6. CASE FreeRowid BY <1>0, <1>1, <1>6, PlainNone DEF FreeRowid
<1> QED BY <1>2, <1>3, <1>4, <1>5, <1>6

LEMMA FreeVarLists == ASSUME Inv, ListInv, FreeVar PROVE ListInv'
<1>1. PICK unrefs : unrefs = UnrefField("value") \o UnrefField("returned")
                             \o UnrefField("type") \o UnrefField("conn")
  OBVIOUS
<1>2. PlainSeq(unrefs) BY <1>1, PlainRoles
<1>3. GiveBack(unrefs) BY <1>1 DEF FreeVar
<1>4. /\ Doing("free") /\ oci' = oci /\ kind[Subject] \in VarKinds
      /\ UNCHANGED <<mem, kind, listVars, conn, user>>
  BY DEF FreeVar, IsVar
<1> QED BY <1>2, <1>3, <1>4, UnlistedLists

LEMMA SameOrder ==
    ASSUME OrderOK, UNCHANGED <<mem, kind, oci, lists, openSlotNum>>,
           InOrder' => InOrder
    PROVE  OrderOK'
<1> SUFFICES ASSUME InOrder', NEW l \in Lists
             PROVE  /\ \A i \in Slots : HeldAt(l, i)'
                    /\ \A h \in Blocks : OpenIn(l, h)'
  BY DEF OrderOK
<1>1. /\ \A i \in Slots : HeldAt(l, i)
      /\ \A h \in Blocks : OpenIn(l, h)
  BY DEF OrderOK
<1> QED BY <1>1 DEF HeldAt, OpenIn

LEMMA FreeStmtEndsLists == ASSUME Inv, ListInv, FreeStmtEnds PROVE ListInv'
<1>1. PICK x : x = Subject OBVIOUS
<1>2. /\ Doing("freeStmt") /\ oci' = oci /\ GiveBack(UnrefField("conn"))
      /\ UNCHANGED <<mem, kind, closing, openSlotNum, lists, conn, user>>
  BY DEF FreeStmtEnds, listVars
<1>3. kind[x] \in StmtKinds
  BY <1>1, <1>2, NextCall DEF WorkOK, Doing, IsStmt, Subject
<1>4. x # Conn BY <1>1, <1>3, SubjectNotConn, KindsDistinct
<1>5. OrderOK' BY <1>2, SameOrder DEF ListInv, InOrder
<1>6. kind[x] \notin SweptKinds BY <1>3 DEF StmtKinds, SweptKinds, Queries
<1>7. PlainSeq(UnrefField("conn")) BY PlainRoles
<1> QED BY <1>1, <1>2, <1>4, <1>5, <1>6, <1>7, FreedLists

(* LOBs and objects are closed first.                                       *)
LEMMA FreeListedLists ==
    ASSUME Inv, ListInv, NEW l \in Lists, Doing("free"), NEW x, x = Subject,
           kind[x] \in SweptKinds, kind[x] \in Listed[l],
           IF closing[x] THEN UNCHANGED <<closing, oci, lists>>
           ELSE /\ closing' = [closing EXCEPT ![x] = TRUE] /\ Shuts(x)
                /\ Leaves(l, x),
           NEW unrefs, PlainSeq(unrefs), GiveBack(unrefs),
           UNCHANGED <<mem, kind, openSlotNum, conn, user>>
    PROVE  ListInv'
<1>1. x \in Blocks /\ mem[x] = "live" BY FreedLive DEF FreeWorks
<1>2. x # Conn BY SubjectNotConn DEF SweptKinds
<1>3. closing \in [Blocks -> BOOLEAN] BY DEF Inv, HandlesTypes
<1>4. closing[x] => oci[x] # "open" BY <1>1 DEF ListInv, OciOK
<1>5. Shuts(x) \/ oci' = oci OBVIOUS
<1>6. closing'[x] /\ \A h \in Blocks : h # x => closing'[h] = closing[h]
  BY <1>1, <1>3
<1>7. oci'[x] # "open" /\ \A h \in Blocks : h # x => oci'[h] = oci[h]
  BY <1>1, <1>4, <1>5, ShutsIs
<1>8. OrderOK'
  <2>1. PICK X : X = {x} OBVIOUS
  <2>2. OnlyAt(X) BY <1>6, <1>7, <2>1 DEF OnlyAt
  <2>3. InOrder' => InOrder BY DEF InOrder
  <2>4. Leaves(l, x) BY <1>4 DEF Leaves
  <2>5. OrderOK BY DEF ListInv
  <2> QED BY <1>1, <1>7, <2>1, <2>2, <2>3, <2>4, <2>5, OrderLeft
<1> QED BY <1>2, <1>5, <1>6, <1>7, <1>8, FreedLists

LEMMA FreeLobLists == ASSUME Inv, ListInv, FreeLob PROVE ListInv'
<1>1. PICK x, l : x = Subject /\ l = "openLobs" OBVIOUS
<1>2. /\ Doing("free") /\ kind[x] = "lob" /\ GiveBack(UnrefField("conn"))
      /\ UNCHANGED <<mem, kind, openSlotNum, conn, user>>
  BY <1>1 DEF FreeLob
<1>3. IF closing[x] THEN UNCHANGED <<closing, oci, lists>>
      ELSE /\ closing' = [closing EXCEPT ![x] = TRUE] /\ Shuts(x) /\ Leaves(l, x)
  BY <1>1, <1>2 DEF FreeLob, LobClosed, Shuts, Leaves
<1>4. l \in Lists /\ kind[x] \in SweptKinds /\ kind[x] \in Listed[l]
  BY <1>1, <1>2, ListsOf DEF SweptKinds
<1>5. PlainSeq(UnrefField("conn")) BY PlainRoles
<1> QED BY <1>1, <1>2, <1>3, <1>4, <1>5, FreeListedLists

LEMMA FreeObjectLists == ASSUME Inv, ListInv, FreeObject PROVE ListInv'
<1>1. PICK x, l : x = Subject /\ l = "objects" OBVIOUS
<1>2. PICK unrefs : unrefs = UnrefField("type") \o UnrefField("dependsOn")
  OBVIOUS
<1>3. /\ Doing("free") /\ kind[x] = "object" /\ GiveBack(unrefs)
      /\ UNCHANGED <<mem, kind, openSlotNum, conn, user>>
  BY <1>1, <1>2 DEF FreeObject
<1>4. IF closing[x] THEN UNCHANGED <<closing, oci, lists>>
      ELSE /\ closing' = [closing EXCEPT ![x] = TRUE] /\ Shuts(x) /\ Leaves(l, x)
  BY <1>1, <1>3 DEF FreeObject, ObjectClosed, Shuts, Leaves
<1>5. l \in Lists /\ kind[x] \in SweptKinds /\ kind[x] \in Listed[l]
  BY <1>1, <1>3, ListsOf DEF SweptKinds
<1>6. PlainSeq(unrefs) BY <1>2, PlainRoles
<1> QED BY <1>1, <1>3, <1>4, <1>5, <1>6, FreeListedLists

-----------------------------------------------------------------------------
(* The memory of a handle is freed: it was closed before.                   *)
LEMMA GoesOnTail ==
    ASSUME Inv, NEW X, todo # <<>>, todo' = Tail(todo),
           Head(todo).do = "endSession" /\ Head(todo).propagate => ~conn'.handle,
           Head(todo).do \in FreeWorks => mem'[Head(todo).h] # "live"
    PROVE  GoesOn(X)
<1>1. PICK p : p = <<>> OBVIOUS
<1>2. Tail(todo) \in Seq(Works) BY DEF Inv, HandlesTypes
<1>3. todo' = p \o Tail(todo) /\ p \in Seq({}) /\ \A i \in DOMAIN p : FALSE
  BY <1>1, <1>2
<1> QED BY <1>3, GoesOnWith

LEMMA ForgottenShut ==
    ASSUME Inv, ListInv, InOrder, Doing("freeMemory"), NEW x, x = Subject,
           kind[x] \in SweptKinds \cup StmtKinds
    PROVE  oci[x] # "open"
<1>1. PICK w, r : w = Head(todo) /\ r = Tail(todo) OBVIOUS
<1>2. /\ w \in Works /\ r \in Seq(Works) /\ w.do = "freeMemory" /\ w.h = x
      /\ todo = <<w>> \o r /\ todo \in Seq(Works)
      /\ ~FreesIn(r, x) /\ ForgetsIn(todo, x)
      /\ Releases(todo, x) => Releases(r, x)
      /\ (\A i \in DOMAIN r : WorkOK(r[i]))
      /\ Shape(r)
  BY <1>1, NextCall DEF Doing, Subject, FreeWorks, Inv, HandlesTypes
<1>3. x \in Blocks /\ mem[x] = "live" /\ Dead(x) BY FreedLive DEF FreeWorks
<1>4. ~KeepsFields(x) BY <1>2 DEF KeepsFields
<1>5. CASE kind[x] \in SweptKinds BY <1>3, <1>4, <1>5 DEF ListInv, OciOK
<1>6. CASE kind[x] \in StmtKinds
  <2> SUFFICES ASSUME oci[x] = "open" PROVE FALSE OBVIOUS
  <2>1. StmtOK(x) BY <1>3 DEF Inv
  <2>2. Releases(r, x) BY <1>2, <1>4, <1>6, <2>1 DEF StmtOK, IsStmt
  <2>3. PICK i \in DOMAIN r : r[i].do = "releaseStmt" /\ r[i].h = x
    BY <2>2 DEF Releases
  <2>4. CASE r[i].propagate
    <3>1. i + 1 \in DOMAIN todo /\ todo[i + 1] = r[i] BY <1>2
    <3>2. NoteOK(todo[i + 1]) BY <3>1 DEF ListInv, NotesOK
    <3>3. user[x] > 0 BY <2>3, <2>4, <3>1, <3>2 DEF NoteOK, CloseWorks, InOrder
    <3>4. user[x] = 0 BY <1>3, DeadUnheld
    <3> QED BY <3>3, <3>4
  <2>5. CASE ~r[i].propagate
    <3>1. EndsIn(r, x) BY <1>2, <2>3, <2>5 DEF Shape, ReleaseEnds, EndsIn
    <3> QED BY <1>2, <3>1 DEF EndsIn, FreesIn, FreeWorks
  <2> QED BY <2>4, <2>5
<1> QED BY <1>5, <1>6

LEMMA DoFreeMemoryLists == ASSUME Inv, ListInv, DoFreeMemory PROVE ListInv'
<1>1. PICK x : x = Subject OBVIOUS
<1>2. /\ Doing("freeMemory") /\ mem' = [mem EXCEPT ![x] = "freed"]
      /\ todo' = Tail(todo)
      /\ UNCHANGED <<kind, oci, closing, openSlotNum, lists, conn, user>>
  BY <1>1 DEF DoFreeMemory, listVars
<1>3. x \in Blocks /\ mem[x] = "live" BY <1>1, <1>2, FreedLive DEF FreeWorks
<1>4. mem'[x] = "freed" /\ \A h \in Blocks : h # x => mem'[h] = mem[h]
  <2>1. mem \in [Blocks -> {"unused", "live", "freed"}]
    BY DEF Inv, HandlesTypes
  <2> QED BY <1>2, <1>3, <2>1
<1>5. PICK X : X = {x} OBVIOUS
<1>6. GoesOn(X) BY <1>1, <1>2, <1>4, GoesOnTail DEF Doing, Subject
<1>7. OnlyAt(X) BY <1>2, <1>4, <1>5 DEF OnlyAt
<1>8. (InOrder' => InOrder) /\ UsersStay /\ ConnTypes'
  BY <1>2 DEF InOrder, UsersStay, ListInv, ConnTypes
<1>9. ConnOK'
  <2>1. CASE x = Conn
    <3>1. Dead(Conn)' BY <1>4, <2>1 DEF Dead
    <3>2. conn.closing /\ conn.handle => EndsSession(todo')
      BY <1>2, <1>6 DEF GoesOn, ListInv, ConnOK
    <3> QED BY <1>2, <3>1, <3>2 DEF ConnOK, ListInv
  <2>2. CASE x # Conn
    <3>1. mem'[Conn] = mem[Conn] BY <1>4, <2>2, HandleTreeAssumption
    <3> QED BY <1>2, <1>6, <3>1, ConnStays DEF ListInv
  <2> QED BY <2>1, <2>2
<1>10. OciOK(x)'
  <2>1. Dead(x)' BY <1>4 DEF Dead
  <2> QED BY <1>2, <1>3, <1>4, <2>1 DEF ListInv, OciOK
<1>11. OrderOK'
  <2>1. CASE kind[x] \in SweptKinds \cup StmtKinds
    <3>1. InOrder => oci[x] # "open" BY <1>1, <1>2, <2>1, ForgottenShut
    <3>2. InOrder' => /\ InOrder
                      /\ \A y \in X : oci[y] # "open" /\ oci'[y] # "open"
      BY <1>2, <1>5, <1>8, <3>1
    <3> QED BY <1>2, <1>7, <3>2, OrderGone DEF ListInv
  <2>2. CASE kind[x] \notin SweptKinds \cup StmtKinds
    <3>1. \A l \in Lists : kind[x] \notin Listed[l] BY <2>2, KindsDistinct
    <3> QED BY <1>2, <1>5, <1>7, <1>8, <3>1, OrderStays DEF ListInv
  <2> QED BY <2>1, <2>2
<1> QED BY <1>2, <1>5, <1>6, <1>7, <1>8, <1>9, <1>10, <1>11, ListsFrom

-----------------------------------------------------------------------------
(* A LOB or an object is closed, and the functions that do so go on.        *)
LEMMA ClosedLists ==
    ASSUME Inv, ListInv, NEW l \in Lists, NEW x \in Blocks,
           kind[x] \in SweptKinds, kind[x] \in Listed[l], mem[x] = "live",
           UNCHANGED <<mem, kind, user, conn>>, Shuts(x), Leaves(l, x),
           \A h \in Blocks : h # x => closing'[h] = closing[h],
           closing'[x] \/ KeepsFields(x)',
           kind[x] = "object" => ~InOrder, NEW X, X = {x}, GoesOn(X)
    PROVE  ListInv'
<1>1. /\ oci' \in [Blocks -> OciStates] /\ oci'[x] # "open"
      /\ \A h \in Blocks : h # x => oci'[h] = oci[h]
  BY ShutsIs
<1>2. OnlyAt(X) BY <1>1 DEF OnlyAt
<1>3. (InOrder' <=> InOrder) /\ UsersStay /\ ConnTypes'
  BY <1>1, ConnTyped DEF InOrder, UsersStay, Leaves
<1>4. OrderOK BY DEF ListInv
<1>5. OrderOK' BY <1>1, <1>2, <1>3, <1>4, OrderLeft
<1>6. OciOK(x)'
  <2>1. kind[x] \notin Lasting BY KindsDistinct
  <2> QED BY <1>1, <1>3, <2>1 DEF OciOK
<1>7. Conn \notin X
  <2>1. kind[Conn] = "conn" BY HandleTreeAssumption DEF Inv, KindOK
  <2>2. x # Conn BY <2>1 DEF SweptKinds
  <2> QED BY <2>2
<1> QED BY <1>2, <1>3, <1>5, <1>6, <1>7, ListsKept

LEMMA CloseLobLists == ASSUME Inv, ListInv, NEW h \in Blocks, CloseLob(h)
                       PROVE  ListInv'
<1>1. LobCheck(h) /\ kind[h] = "lob" /\ user[h] > 0
  BY DEF CloseLob, LobCheck, Has
<1>2. KeepsFields(h) /\ mem[h] = "live" BY <1>1, UsersAlive
<1>3. UNCHANGED <<mem, kind, openSlotNum, conn, user, todo>> BY DEF CloseLob
<1>4. CASE closing[h]
  <2>1. QuietAt /\ todo' = todo BY <1>3, <1>4 DEF CloseLob, QuietAt
  <2> QED BY <1>3, <2>1, GoesOnSame, QuietKeeps DEF UsersStay
<1>5. CASE ~closing[h]
  <2>1. /\ Shuts(h) /\ Leaves("openLobs", h)
        /\ closing' = [closing EXCEPT ![h] = TRUE] \/ closing' = closing
    <3>1. CASE LobClosed(h) BY <1>3, <3>1 DEF LobClosed, Shuts, Leaves
    <3>2. CASE LobCloseFails(h)
      <4>1. oci[h] = "open" /\ oci' = [oci EXCEPT ![h] = "freed"]
        BY <3>2 DEF LobCloseFails
      <4>2. Shuts(h) BY <4>1 DEF Shuts
      <4> QED BY <1>3, <3>2, <4>1, <4>2 DEF LobCloseFails, Leaves
    <3> QED BY <1>5, <3>1, <3>2 DEF CloseLob
  <2>2. closing \in [Blocks -> BOOLEAN] BY DEF Inv, HandlesTypes
  <2>3. \A y \in Blocks : y # h => closing'[y] = closing[y] BY <2>1, <2>2
  <2>4. KeepsFields(h)' BY <1>2, <1>3 DEF KeepsFields
  <2>5. PICK l : l = "openLobs" OBVIOUS
  <2>6. l \in Lists /\ kind[h] \in SweptKinds /\ kind[h] \in Listed[l]
    BY <1>1, <2>5, ListsOf DEF SweptKinds
  <2>7. PICK X : X = {h} OBVIOUS
  <2>8. GoesOn(X) /\ kind[h] # "object" /\ Leaves(l, h)
    BY <1>1, <1>3, <2>1, <2>5, GoesOnSame
  <2> QED BY <1>2, <1>3, <2>1, <2>3, <2>4, <2>6, <2>7, <2>8, ClosedLists
<1> QED BY <1>4, <1>5

LEMMA CloseCursorLists == ASSUME Inv, ListInv, NEW c \in Blocks, CloseCursor(c)
                          PROVE  ListInv'
<1>1. /\ kind[c] \in {"sodaCollCursor", "sodaDocCursor"}
      /\ oci' = [oci EXCEPT ![c] = "freed"]
      /\ UNCHANGED <<mem, kind, closing, openSlotNum, lists, conn, user, todo>>
      /\ user[c] > 0
  BY DEF CloseCursor, SodaCollCursorCheck, SodaDocCursorCheck, Has, listVars
<1>2. PICK X : X = {c} OBVIOUS
<1>3. oci' \in [Blocks -> OciStates] /\ \A h \in Blocks : h # c => oci'[h] = oci[h]
  BY <1>1 DEF ListInv, ConnTypes, OciStates
<1>4. OnlyAt(X) /\ GoesOn(X) /\ UsersStay /\ (InOrder' => InOrder)
  BY <1>1, <1>2, <1>3, GoesOnSame DEF OnlyAt, UsersStay, InOrder
<1>5. ConnTypes' BY <1>1, <1>3, ConnTyped
<1>6. kind[c] \notin SweptKinds \cup Lasting /\ \A l \in Lists : kind[c] \notin Listed[l]
  BY <1>1, UnlistedKinds DEF SweptKinds, Lasting
<1>7. OrderOK' BY <1>1, <1>2, <1>4, <1>6, OrderStays DEF ListInv
<1>8. mem[c] = "live" BY <1>1, UsersAlive
<1>9. OciOK(c)' BY <1>1, <1>6, <1>8 DEF OciOK, SweptKinds
<1>10. Conn \notin X
  <2>1. kind[Conn] = "conn" BY HandleTreeAssumption DEF Inv, KindOK
  <2> QED BY <1>1, <1>2, <2>1
<1> QED BY <1>1, <1>2, <1>4, <1>5, <1>7, <1>9, <1>10, ListsKept

-----------------------------------------------------------------------------
(* The loops that close what is in the lists.                               *)
LEMMA HeadNoted ==
    ASSUME Inv, ListInv, todo # <<>>
    PROVE  NoteOK(Head(todo)) /\ Head(todo) \in Works
<1>1. todo \in Seq(Works) BY DEF Inv, HandlesTypes
<1>2. 1 \in DOMAIN todo /\ todo[1] = Head(todo) /\ Head(todo) \in Works BY <1>1
<1> QED BY <1>2 DEF ListInv, NotesOK

LEMMA FailsLists ==
    ASSUME Inv, ListInv, todo # <<>>, GivesUp(Head(todo)),
           CloseFails \/ DetachFails, UNCHANGED <<user, openSlotNum>>, NEW X, Conn \notin X, OnlyAt(X),
           oci' \in [Blocks -> OciStates], \A x \in X : OciOK(x)'
    PROVE  ListInv'
<1>1. \A h : ~FreesIn(todo, h)
  <2>1. PICK w, r : w = Head(todo) /\ r = Tail(todo) OBVIOUS
  <2>2. /\ GivenUp(r) /\ w.do \notin FreeWorks
        /\ \A h : FreesIn(todo, h) <=>
                      (w.do \in FreeWorks /\ w.h = h) \/ FreesIn(r, h)
    BY <2>1, NextCall DEF GivesUp, SweepWorks, CloseWorks, FreeWorks
  <2>3. \A h : ~FreesIn(r, h)
    BY <2>2 DEF GivenUp, FreesIn, FreeWorks, SweepWorks
  <2> QED BY <2>2, <2>3
<1>2. /\ todo' = <<>>
      /\ \/ conn' = [conn EXCEPT !.closing = FALSE, !.ordered = FALSE]
         \/ conn' = [conn EXCEPT !.session = FALSE, !.closing = FALSE,
                                 !.ordered = FALSE]
  BY DEF CloseFails, DetachFails
<1>3. /\ conn'.env = conn.env /\ conn'.handle = conn.handle
      /\ ~conn'.closing /\ ~conn'.ordered
      /\ conn' \in [handle : BOOLEAN, session : BOOLEAN, closing : BOOLEAN,
                    dead : BOOLEAN, env : {"open", "freed"},
                    ordered : BOOLEAN]
  BY <1>2 DEF ListInv, ConnTypes
<1>4. GoesOn(X) BY <1>1, <1>2, <1>3 DEF GoesOn
<1>5. ConnTypes' BY <1>3 DEF ListInv, ConnTypes, OciStates
<1>6. OrderOK' /\ (InOrder' => InOrder) /\ UsersStay
  BY <1>3 DEF OrderOK, InOrder, UsersStay
<1> QED BY <1>2, <1>3, <1>4, <1>5, <1>6, ListsKept

LEMMA LoopGoesOn ==
    ASSUME Inv, ListInv, NEW do \in {"closeObjects", "closeStmts", "closeLobs"},
           Doing(do), NEW i, LoopOn(i), UNCHANGED <<conn, user>>, NEW X
    PROVE  GoesOn(X)
<1>1. PICK w : w = Head(todo) OBVIOUS
<1>2. todo # <<>> /\ w.do = do /\ NoteOK(w) /\ w \in Works
  BY <1>1, HeadNoted DEF Doing
<1>3. CASE i = 0
  <2>1. todo' = Tail(todo) BY <1>3 DEF LoopOn
  <2> QED BY <1>1, <1>2, <2>1, GoesOnTail DEF FreeWorks
<1>4. CASE i # 0
  <2>1. PICK z : z = [w EXCEPT !.i = i + 1] OBVIOUS
  <2>2. z.do = do /\ z.propagate = w.propagate BY <1>2, <2>1 DEF Works
  <2>3. PICK p : p = <<z>> OBVIOUS
  <2>4. p \in Seq({z}) /\ \A j \in DOMAIN p : p[j] = z BY <2>3
  <2>5. Follows(X, z)
    BY <1>2, <2>2 DEF Follows, Noted, NoteOK, SweepWorks, CloseWorks
  <2>6. todo' = p \o Tail(todo) BY <1>1, <1>4, <2>1, <2>3 DEF LoopOn
  <2> QED BY <1>1, <1>2, <2>4, <2>5, <2>6, GoesOnWith DEF FreeWorks
<1> QED BY <1>3, <1>4

LEMMA CloseEachLobLists == ASSUME Inv, ListInv, CloseEachLob PROVE ListInv'
<1>1. PICK i, l : i = NextSlot("closeLobs", "openLobs") /\ l = "openLobs"
  OBVIOUS
<1>2. PICK h : h = lists[l][i] OBVIOUS
<1>3. Doing("closeLobs") /\ UNCHANGED <<mem, kind, openSlotNum, user>>
  BY DEF CloseEachLob
<1>4. l \in Lists BY <1>1, ListsOf
<1>5. i # 0 => /\ h \in Blocks /\ kind[h] = "lob" /\ kind[h] \in Listed[l]
               /\ ~closing[h] => KeepsFields(h) /\ mem[h] = "live"
  <2>1. i # 0 => i \in Slots /\ lists[l][i] # NULL BY <1>1, <1>4, NextSlotUsed
  <2> QED BY <1>1, <1>2, <1>4, <2>1, ListedLive DEF Listed
<1>6. closing \in [Blocks -> BOOLEAN] BY DEF Inv, HandlesTypes
<1>7. CASE /\ IF i # 0 /\ ~closing[h] THEN LobClosed(h)
              ELSE UNCHANGED <<oci, closing, lists>>
           /\ LoopOn(i) /\ UNCHANGED conn
  <2>1. \A X : GoesOn(X) BY <1>3, <1>7, LoopGoesOn
  <2>2. CASE i # 0 /\ ~closing[h]
    <3>1. Shuts(h) /\ Leaves(l, h) /\ closing' = [closing EXCEPT ![h] = TRUE]
      BY <1>1, <1>3, <1>7, <2>2 DEF LobClosed, Shuts, Leaves
    <3>2. closing'[h] /\ \A y \in Blocks : y # h => closing'[y] = closing[y]
      BY <1>5, <1>6, <2>2, <3>1
    <3>3. PICK X : X = {h} OBVIOUS
    <3>4. kind[h] \in SweptKinds /\ kind[h] # "object"
      BY <1>5, <2>2 DEF SweptKinds
    <3> QED BY <1>3, <1>4, <1>5, <1>7, <2>1, <2>2, <3>1, <3>2, <3>3, <3>4,
        ClosedLists
  <2>3. CASE ~(i # 0 /\ ~closing[h])
    <3>1. QuietAt BY <1>3, <1>7, <2>3 DEF QuietAt
    <3> QED BY <1>3, <2>1, <3>1, QuietKeeps DEF UsersStay
  <2> QED BY <2>2, <2>3
<1>8. CASE /\ i # 0 /\ ~closing[h] /\ Head(todo).propagate
           /\ LobCloseFails(h) /\ CloseFails
  <2>1. GivesUp(Head(todo)) /\ todo # <<>>
    BY <1>3, <1>8 DEF GivesUp, Doing, SweepWorks
  <2>2. PICK X : X = {h} OBVIOUS
  <2>3. /\ closing' = closing
        /\ oci' \in [Blocks -> OciStates] /\ oci'[h] = "freed"
        /\ \A y \in Blocks : y # h => oci'[y] = oci[y]
    BY <1>5, <1>8 DEF LobCloseFails, ListInv, ConnTypes, OciStates
  <2>4. OnlyAt(X) BY <1>3, <2>2, <2>3 DEF OnlyAt
  <2>5. KeepsFields(h)'
    <3>1. todo' = <<>> BY <1>8 DEF CloseFails
    <3> QED BY <1>3, <1>5, <1>8, <3>1 DEF KeepsFields, ForgetsIn
  <2>6. OciOK(h)' BY <1>3, <1>5, <1>8, <2>3, <2>5 DEF OciOK, Lasting
  <2>7. Conn \notin X BY <1>5, <1>8, <2>2 DEF Inv, KindOK
  <2> QED BY <1>3, <1>8, <2>1, <2>2, <2>3, <2>4, <2>6, <2>7, FailsLists
<1> QED BY <1>1, <1>2, <1>7, <1>8 DEF CloseEachLob

(* An object keeps its type, which keeps the connection: the loops run       *)
(* while the connection is being closed, or when there is none.             *)
LEMMA SweptOutOfOrder ==
    ASSUME Inv, ListInv, NEW do \in SweepWorks, Doing(do), NEW o \in Blocks,
           kind[o] = "object", KeepsFields(o)
    PROVE  ~InOrder
<1>1. PICK w, r : w = Head(todo) /\ r = Tail(todo) OBVIOUS
<1>2. todo # <<>> /\ w.do = do /\ NoteOK(w) BY <1>1, HeadNoted DEF Doing
<1>3. CASE w.propagate BY <1>2, <1>3 DEF NoteOK, InOrder
<1>4. CASE ~w.propagate
  <2>1. ForgetsIn(r, Conn) BY <1>1, <1>2, <1>4, NextCall DEF OfFreeConn
  <2>2. FreesIn(todo, Conn)
    <3>1. FreesIn(r, Conn) BY <2>1 DEF ForgetsIn, FreesIn, FreeWorks
    <3> QED BY <1>1, <1>2, <3>1, NextCall
  <2>3. "type" \in RolesOf("object") /\ "type" \in Required("object")
        /\ KindsOf("object", "type") = {"objectType"}
        /\ "conn" \in RolesOf("objectType")
    BY DEF RolesOf, Required, KindsOf, Queries, Queues, StmtKinds, VarKinds
  <2>4. /\ "type" \in DOMAIN field[o] /\ field[o]["type"] \in Blocks \cup {NULL}
        /\ PointerOK("object", "type", field[o]["type"])
    BY <2>3, HoldsFields DEF Inv, FieldsOK
  <2>5. field[o]["type"] \in Blocks /\ kind[field[o]["type"]] = "objectType"
    BY <2>3, <2>4, HandleTreeAssumption DEF PointerOK
  <2>6. KeepsFields(field[o]["type"]) BY <2>4, <2>5, PointedAlive, AliveKeeps
  <2>7. ~Dead(Conn) BY <2>3, <2>5, <2>6, ConnHeld
  <2> QED BY <2>2, <2>7 DEF Dead
<1> QED BY <1>3, <1>4

LEMMA CloseEachObjectLists == ASSUME Inv, ListInv, CloseEachObject PROVE ListInv'
<1>1. PICK i, l : i = NextSlot("closeObjects", "objects") /\ l = "objects"
  OBVIOUS
<1>2. PICK h : h = lists[l][i] OBVIOUS
<1>3. Doing("closeObjects") /\ UNCHANGED <<mem, kind, openSlotNum, user>>
  BY DEF CloseEachObject
<1>4. l \in Lists BY <1>1, ListsOf
<1>5. i # 0 => /\ h \in Blocks /\ kind[h] = "object" /\ kind[h] \in Listed[l]
               /\ ~closing[h] => KeepsFields(h) /\ mem[h] = "live"
  <2>1. i # 0 => i \in Slots /\ lists[l][i] # NULL BY <1>1, <1>4, NextSlotUsed
  <2> QED BY <1>1, <1>2, <1>4, <2>1, ListedLive DEF Listed
<1>6. closing \in [Blocks -> BOOLEAN] BY DEF Inv, HandlesTypes
<1>7. CASE /\ IF i # 0 /\ ~closing[h] THEN ObjectClosed(h)
              ELSE UNCHANGED <<oci, closing, lists>>
           /\ LoopOn(i) /\ UNCHANGED conn
  <2>1. \A X : GoesOn(X) BY <1>3, <1>7, LoopGoesOn
  <2>2. CASE i # 0 /\ ~closing[h]
    <3>1. Shuts(h) /\ Leaves(l, h) /\ closing' = [closing EXCEPT ![h] = TRUE]
      BY <1>1, <1>3, <1>7, <2>2 DEF ObjectClosed, Shuts, Leaves
    <3>2. closing'[h] /\ \A y \in Blocks : y # h => closing'[y] = closing[y]
      BY <1>5, <1>6, <2>2, <3>1
    <3>3. PICK X : X = {h} OBVIOUS
    <3>4. kind[h] \in SweptKinds BY <1>5, <2>2 DEF SweptKinds
    <3>5. ~InOrder BY <1>3, <1>5, <2>2, SweptOutOfOrder DEF SweepWorks
    <3> QED BY <1>3, <1>4, <1>5, <1>7, <2>1, <2>2, <3>1, <3>2, <3>3, <3>4,
        <3>5, ClosedLists
  <2>3. CASE ~(i # 0 /\ ~closing[h])
    <3>1. QuietAt BY <1>3, <1>7, <2>3 DEF QuietAt
    <3> QED BY <1>3, <2>1, <3>1, QuietKeeps DEF UsersStay
  <2> QED BY <2>2, <2>3
<1>8. CASE /\ Head(todo).propagate /\ CloseFails
           /\ UNCHANGED <<closing, oci, lists>>
  <2>1. GivesUp(Head(todo)) /\ todo # <<>>
    BY <1>3, <1>8 DEF GivesUp, Doing, SweepWorks
  <2>2. PICK X : X = {} OBVIOUS
  <2>3. OnlyAt(X) /\ Conn \notin X /\ \A x \in X : OciOK(x)'
    BY <1>3, <1>8, <2>2 DEF OnlyAt
  <2>4. oci' \in [Blocks -> OciStates]
    BY <1>8 DEF ListInv, ConnTypes, OciStates
  <2> QED BY <1>3, <1>8, <2>1, <2>3, <2>4, FailsLists
<1> QED BY <1>1, <1>2, <1>7, <1>8 DEF CloseEachObject

-----------------------------------------------------------------------------
(* Statements that are closed and freed.                                    *)
LEMMA ClosesOnIs ==
    ASSUME NEW s \in Blocks, NEW prop \in BOOLEAN, NEW w,
           w = CloseWorkOn(s, prop)
    PROVE  w.do = "closeStmt" /\ w.h = s /\ w.propagate = prop
  BY DEF CloseWorkOn, WorkOn

LEMMA CloseStmtLists == ASSUME Inv, ListInv, NEW s \in Blocks, CloseStmt(s)
                        PROVE  ListInv'
<1>1. PICK w : w = CloseWorkOn(s, TRUE) OBVIOUS
<1>2. /\ Idle /\ user[s] > 0 /\ todo' = <<w>> /\ user' = user /\ QuietAt
  BY <1>1 DEF CloseStmt, StmtCheck, HasStmt, QuietAt, blockVars, listVars
<1>3. w.do = "closeStmt" /\ w.h = s /\ w.propagate = TRUE BY <1>1, ClosesOnIs
<1>4. Follows({}, w) BY <1>2, <1>3 DEF Follows, Noted, SweepWorks
<1>5. \A i \in DOMAIN todo' : Follows({}, todo'[i]) BY <1>2, <1>4
<1>6. todo = <<>> BY <1>2 DEF Idle
<1>7. GoesOn({}) /\ UsersStay
  BY <1>5, <1>6 DEF GoesOn, UsersStay, EndsSession, FreesIn
<1> QED BY <1>2, <1>7, QuietKeeps

LEMMA CloseEachStmtLists == ASSUME Inv, ListInv, CloseEachStmt PROVE ListInv'
<1>1. PICK i, l : i = NextSlot("closeStmts", "openStmts") /\ l = "openStmts"
  OBVIOUS
<1>2. PICK s : s = lists[l][i] OBVIOUS
<1>3. PICK w : w = Head(todo) OBVIOUS
<1>4. PICK after : after = [w EXCEPT !.i = i + 1] OBVIOUS
<1>5. PICK c : c = CloseWorkOn(s, w.propagate) OBVIOUS
<1>6. /\ Doing("closeStmts") /\ QuietAt /\ user' = user /\ conn' = conn
      /\ todo' = IF i = 0 THEN Tail(todo)
                 ELSE IF closing[s] THEN <<after>> \o Tail(todo)
                 ELSE <<c, after>> \o Tail(todo)
  BY <1>1, <1>2, <1>3, <1>4, <1>5 DEF CloseEachStmt, QuietAt, blockVars,
     listVars
<1>7. todo # <<>> /\ w.do = "closeStmts" /\ NoteOK(w) /\ w \in Works
  BY <1>3, <1>6, HeadNoted DEF Doing
<1>8. after.do = "closeStmts" /\ after.propagate = w.propagate
  BY <1>4, <1>7 DEF Works
<1>9. Follows({}, after)
  BY <1>6, <1>7, <1>8 DEF Follows, Noted, NoteOK, SweepWorks, CloseWorks
<1>10. GoesOn({})
  <2>1. CASE i = 0 BY <1>3, <1>6, <1>7, <2>1, GoesOnTail DEF FreeWorks
  <2>2. CASE i # 0 /\ closing[s]
    <3>1. PICK p : p = <<after>> OBVIOUS
    <3>2. p \in Seq({after}) /\ \A j \in DOMAIN p : p[j] = after BY <3>1
    <3>3. todo' = p \o Tail(todo) BY <1>6, <2>2, <3>1
    <3> QED BY <1>3, <1>7, <1>9, <3>2, <3>3, GoesOnWith DEF FreeWorks
  <2>3. CASE i # 0 /\ ~closing[s]
    <3>1. s \in Blocks
      <4>1. i \in Slots /\ lists[l][i] # NULL
        BY <1>1, <2>3, ListsOf, NextSlotUsed
      <4> QED BY <1>1, <1>2, <4>1, ListsOf, ListedLive
    <3>2. w.propagate \in BOOLEAN BY <1>7 DEF Works
    <3>3. c.do = "closeStmt" /\ c.propagate = w.propagate
      BY <1>5, <3>1, <3>2, ClosesOnIs
    <3>4. Follows({}, c)
      BY <1>6, <1>7, <3>3 DEF Follows, Noted, NoteOK, SweepWorks, CloseWorks
    <3>5. PICK p : p = <<c, after>> OBVIOUS
    <3>6. p \in Seq({c, after}) /\ \A j \in DOMAIN p : p[j] \in {c, after}
      BY <3>5
    <3>7. \A j \in DOMAIN p : Follows({}, p[j]) BY <1>9, <3>4, <3>6
    <3>8. todo' = p \o Tail(todo) BY <1>6, <2>3, <3>5
    <3> QED BY <1>3, <1>7, <3>6, <3>7, <3>8, GoesOnWith DEF FreeWorks
  <2> QED BY <2>1, <2>2, <2>3
<1> QED BY <1>6, <1>10, QuietKeeps DEF UsersStay

LEMMA FreeStmtLists == ASSUME Inv, ListInv, FreeStmt PROVE ListInv'
<1>1. PICK x : x = Subject OBVIOUS
<1>2. PICK c, z : c = CloseWorkOn(x, FALSE) /\ z = WorkOn("freeStmt", x)
  OBVIOUS
<1>3. PICK p : p = <<c, z>> OBVIOUS
<1>4. /\ Doing("free") /\ QuietAt /\ user' = user /\ todo' = p \o Tail(todo)
  BY <1>1, <1>2, <1>3 DEF FreeStmt, QuietAt, blockVars, listVars
<1>5. x \in Blocks BY <1>1, <1>4, FreedLive DEF FreeWorks
<1>6. /\ c.do = "closeStmt" /\ c.propagate = FALSE
      /\ z.do = "freeStmt" /\ z.h = x
  BY <1>2, <1>5, ClosesOnIs DEF WorkOn
<1>7. Follows({}, c) /\ Follows({}, z)
  BY <1>6 DEF Follows, Noted, SweepWorks, CloseWorks
<1>8. /\ p \in Seq({c, z}) /\ \A j \in DOMAIN p : p[j] \in {c, z}
      /\ 2 \in DOMAIN p /\ p[2] = z
  BY <1>3
<1>9. \A j \in DOMAIN p : Follows({}, p[j]) BY <1>7, <1>8
<1>10. FreesIn(p, x) BY <1>6, <1>8 DEF FreesIn, FreeWorks
<1>11. todo # <<>> /\ Head(todo).do = "free" /\ Head(todo).h = x
  BY <1>1, <1>4 DEF Doing, Subject
<1>12. GoesOn({}) BY <1>4, <1>8, <1>9, <1>10, <1>11, GoesOnWith
<1> QED BY <1>4, <1>12, QuietKeeps DEF UsersStay

LEMMA StmtMarkClosingLists == ASSUME Inv, ListInv, StmtMarkClosing PROVE ListInv'
<1>1. PICK s : s = Subject OBVIOUS
<1>2. PICK w : w = Head(todo) OBVIOUS
<1>3. PICK z : z = [w EXCEPT !.do = "releaseStmt"] OBVIOUS
<1>4. PICK u : u = UnrefOf(field[s].bind) \o UnrefOf(field[s].column)
                   \o UnrefOf(lastRowid[s])
  OBVIOUS
<1>5. /\ Doing("closeStmt") /\ closing' = [closing EXCEPT ![s] = TRUE]
      /\ todo' = IF closing[s] THEN Tail(todo) ELSE (u \o <<z>>) \o Tail(todo)
      /\ UNCHANGED <<mem, kind, oci, openSlotNum, lists, conn, user>>
  BY <1>1, <1>2, <1>3, <1>4 DEF StmtMarkClosing
<1>6. /\ todo # <<>> /\ w.do = "closeStmt" /\ w.h = s /\ NoteOK(w) /\ w \in Works
      /\ WorkOK(w)
  BY <1>1, <1>2, <1>5, HeadNoted, NextCall DEF Doing, Subject
<1>7. s \in Blocks /\ kind[s] \in StmtKinds BY <1>6 DEF Works, WorkOK, IsStmt
<1>8. PICK X : X = {s} OBVIOUS
<1>9. GoesOn(X)
  <2>1. CASE closing[s] BY <1>2, <1>5, <1>6, <2>1, GoesOnTail DEF FreeWorks
  <2>2. CASE ~closing[s]
    <3>1. z.do = "releaseStmt" /\ z.h = s /\ z.propagate = w.propagate
      BY <1>3, <1>6 DEF Works
    <3>2. Follows(X, z)
      BY <1>5, <1>6, <3>1 DEF Follows, Noted, NoteOK, SweepWorks, CloseWorks
    <3>3. PlainSeq(u) BY <1>4, PlainUnrefOf, PlainBoth
    <3>4. PICK S : u \in Seq(S) BY <3>3 DEF PlainSeq
    <3>5. PICK p : p = u \o <<z>> OBVIOUS
    <3>6. PICK T : p \in Seq(T) BY <3>4, <3>5, ConcatOne
    <3>7. \A j \in DOMAIN p : Follows(X, p[j])
      BY <3>2, <3>3, <3>4, <3>5, ConcatOne, PlainFollows DEF PlainSeq, AllPlain
    <3>8. todo' = p \o Tail(todo) BY <1>5, <2>2, <3>5
    <3> QED BY <1>2, <1>6, <3>6, <3>7, <3>8, GoesOnWith DEF FreeWorks
  <2> QED BY <2>1, <2>2
<1>10. \A h \in Blocks : h # s => closing'[h] = closing[h]
  <2>1. closing \in [Blocks -> BOOLEAN] BY DEF Inv, HandlesTypes
  <2> QED BY <1>5, <2>1
<1>11. OnlyAt(X) /\ UsersStay /\ (InOrder' => InOrder) /\ ConnTypes'
  BY <1>5, <1>8, <1>10 DEF OnlyAt, UsersStay, InOrder, ListInv, ConnTypes
<1>12. OrderOK' BY <1>5, <1>11, SameOrder DEF ListInv
<1>13. kind[s] \notin SweptKinds \cup Lasting BY <1>7, KindsDistinct
<1>14. OciOK(s) BY <1>7 DEF ListInv
<1>15. OciOK(s)' BY <1>5, <1>13, <1>14 DEF OciOK, SweptKinds
<1>16. Conn \notin X
  <2>1. kind[Conn] = "conn" BY HandleTreeAssumption DEF Inv, KindOK
  <2> QED BY <1>7, <1>8, <2>1, KindsDistinct
<1> QED BY <1>5, <1>8, <1>9, <1>11, <1>12, <1>15, <1>16, ListsKept

-----------------------------------------------------------------------------
(* A statement whose OCI statement is released leaves its list: it is there, *)
(* for the program holds it or its free function ends later.                *)
LEMMA ReleasedLive ==
    ASSUME Inv, ListInv, InOrder, Doing("releaseStmt"), NEW s, s = Subject
    PROVE  mem[s] = "live"
<1>1. PICK w, r : w = Head(todo) /\ r = Tail(todo) OBVIOUS
<1>2. /\ w \in Works /\ w.do = "releaseStmt" /\ w.h = s /\ NoteOK(w)
      /\ \A i \in DOMAIN r : WorkOK(r[i])
      /\ ~w.propagate => EndsIn(r, s)
  BY <1>1, NextCall, HeadNoted DEF Doing, Subject
<1>3. CASE w.propagate
  <2>1. user[s] > 0 /\ s \in Blocks
    BY <1>2, <1>3 DEF NoteOK, CloseWorks, InOrder, Works
  <2> QED BY <2>1, UsersAlive
<1>4. CASE ~w.propagate
  <2>1. PICK i \in DOMAIN r : r[i].do = "freeStmt" /\ r[i].h = s
    BY <1>2, <1>4 DEF EndsIn
  <2>2. WorkOK(r[i]) BY <1>2
  <2> QED BY <2>1, <2>2 DEF WorkOK, FreeWorks
<1> QED BY <1>3, <1>4

LEMMA StmtReleasedLists == ASSUME Inv, ListInv, StmtReleased PROVE ListInv'
<1>1. PICK s : s = Subject OBVIOUS
<1>2. PICK l : l = "openStmts" OBVIOUS
<1>3. PICK w : w = Head(todo) OBVIOUS
<1>4. /\ Doing("releaseStmt") /\ Shuts(s) /\ openSlotNum' = openSlotNum
      /\ lists' = IF oci[s] = "open" /\ ~conn.closing
                  THEN RemoveHandle(l, s) ELSE lists
      /\ UNCHANGED <<mem, kind, user>>
  BY <1>1, <1>2 DEF StmtReleased, Shuts
<1>5. \/ todo' = Tail(todo) /\ closing' = closing /\ conn' = conn
      \/ /\ todo' = Tail(todo) /\ conn' = conn
         /\ closing' = [closing EXCEPT ![s] = FALSE]
      \/ /\ w.propagate /\ CloseFails
         /\ closing' = [closing EXCEPT ![s] = FALSE]
  BY <1>1, <1>3 DEF StmtReleased
<1>6. /\ todo # <<>> /\ w.do = "releaseStmt" /\ w.h = s /\ w \in Works
      /\ WorkOK(w)
  BY <1>1, <1>3, <1>4, HeadNoted, NextCall DEF Doing, Subject
<1>7. s \in Blocks /\ kind[s] \in StmtKinds BY <1>6 DEF Works, WorkOK, IsStmt
<1>8. PICK X : X = {s} OBVIOUS
<1>9. /\ oci' \in [Blocks -> OciStates] /\ oci'[s] # "open"
      /\ \A h \in Blocks : h # s => oci'[h] = oci[h]
      /\ oci[s] # "open" => oci'[s] = oci[s]
  BY <1>4, <1>7, ShutsIs
<1>10. \A h \in Blocks : h # s => closing'[h] = closing[h]
  <2>1. closing \in [Blocks -> BOOLEAN] BY DEF Inv, HandlesTypes
  <2> QED BY <1>5, <2>1
<1>11. OnlyAt(X) BY <1>4, <1>8, <1>9, <1>10 DEF OnlyAt
<1>12. Conn \notin X
  <2>1. kind[Conn] = "conn" BY HandleTreeAssumption DEF Inv, KindOK
  <2> QED BY <1>7, <1>8, <2>1, KindsDistinct
<1>13. OciOK(s)'
  <2>1. kind[s] \notin SweptKinds \cup Lasting /\ kind[s] # "object"
    BY <1>7, KindsDistinct DEF SweptKinds
  <2>2. mem[s] = "unused" => oci[s] = "none" BY <1>7 DEF ListInv, OciOK
  <2> QED BY <1>4, <1>9, <2>1, <2>2 DEF OciOK
<1>14. CASE todo' = Tail(todo) /\ conn' = conn
  <2>1. GoesOn(X) BY <1>3, <1>6, <1>14, GoesOnTail DEF FreeWorks
  <2>2. ConnTypes' /\ UsersStay /\ (InOrder' <=> InOrder)
    BY <1>4, <1>9, <1>14, ConnTyped DEF UsersStay, InOrder
  <2>3. OrderOK'
    <3>1. Leaves(l, s) /\ kind[s] \in Listed[l] /\ l \in Lists
      BY <1>2, <1>4, <1>7, ListsOf DEF Leaves
    <3>2. InOrder' => InOrder /\ mem[s] = "live"
      BY <1>1, <1>4, <2>2, ReleasedLive
    <3>3. OrderOK BY DEF ListInv
    <3> QED BY <1>4, <1>7, <1>8, <1>9, <1>11, <3>1, <3>2, <3>3, OrderLeft
  <2> QED BY <1>8, <1>11, <1>12, <1>13, <1>14, <2>1, <2>2, <2>3, ListsKept
<1>15. CASE w.propagate /\ CloseFails
  <2>1. GivesUp(Head(todo)) BY <1>3, <1>6, <1>15 DEF GivesUp, CloseWorks
  <2> QED BY <1>4, <1>6, <1>8, <1>9, <1>11, <1>12, <1>13, <1>15, <2>1, FailsLists
<1> QED BY <1>5, <1>14, <1>15

-----------------------------------------------------------------------------
(* The connection is closed and freed.                                      *)
LEMMA SweepsAre ==
    ASSUME NEW do \in SweepWorks \cup {"freeEnv", "freeTransaction"}, NEW i,
           NEW prop \in BOOLEAN
    PROVE  /\ Work(do, i, prop).do = do /\ Work(do, i, prop).h = Conn
           /\ Work(do, i, prop).propagate = prop
  BY DEF Work, WorkOn

LEMMA ClosesAre ==
    ASSUME NEW prop \in BOOLEAN, NEW p, p = CloseWork(prop)
    PROVE  /\ \E S : p \in Seq(S)
           /\ \A j \in DOMAIN p : /\ p[j].do \in SweepWorks /\ p[j].h = Conn
                                  /\ p[j].propagate = prop
           /\ 4 \in DOMAIN p /\ p[4].do = "endSession"
<1>1. PICK a, b : /\ a = Work("closeObjects", 1, prop)
                  /\ b = Work("closeStmts", 1, prop)
  OBVIOUS
<1>2. PICK c, d : /\ c = Work("closeLobs", 1, prop)
                  /\ d = Work("endSession", 0, prop)
  OBVIOUS
<1>3. p = <<a, b, c, d>> BY <1>1, <1>2 DEF CloseWork
<1>4. \A z \in {a, b, c, d} : /\ z.do \in SweepWorks /\ z.h = Conn
                              /\ z.propagate = prop
  BY <1>1, <1>2, SweepsAre DEF SweepWorks
<1>5. d.do = "endSession" BY <1>2, SweepsAre DEF SweepWorks
<1>6. p \in Seq({a, b, c, d}) /\ DOMAIN p = 1 .. 4 /\ p[4] = d
      /\ \A j \in 1 .. 4 : p[j] \in {a, b, c, d}
  BY <1>3
<1> QED BY <1>4, <1>5, <1>6

LEMMA CloseConnLists == ASSUME Inv, ListInv, CloseConn PROVE ListInv'
<1>1. PICK p : p = CloseWork(TRUE) OBVIOUS
<1>2. /\ Idle /\ conn.handle /\ ~conn.closing
      /\ \E fails \in {FALSE, conn.session /\ Allowed("closeFails")} :
            conn' = [conn EXCEPT !.closing = TRUE, !.dead = @ \/ fails]
      /\ todo' = p
      /\ UNCHANGED <<mem, kind, oci, closing, openSlotNum, lists, user>>
  BY <1>1 DEF CloseConn, Has, blockVars, listVars
<1>3. ConnTypes BY DEF ListInv
<1>4. /\ conn'.closing /\ conn'.handle = conn.handle /\ conn'.env = conn.env
      /\ conn'.session = conn.session /\ conn'.ordered = conn.ordered
      /\ conn' \in [handle : BOOLEAN, session : BOOLEAN, closing : BOOLEAN,
                    dead : BOOLEAN, env : {"open", "freed"},
                    ordered : BOOLEAN]
  <2>1. PICK fails \in {FALSE, conn.session /\ Allowed("closeFails")} :
            conn' = [conn EXCEPT !.closing = TRUE, !.dead = @ \/ fails]
    BY <1>2
  <2>2. conn.dead \in BOOLEAN BY <1>3 DEF ConnTypes
  <2>3. (conn.dead \/ fails) \in BOOLEAN BY <2>2
  <2> QED BY <1>3, <2>1, <2>3 DEF ConnTypes
<1>5. /\ \A j \in DOMAIN todo' : /\ todo'[j].do \in SweepWorks
                                 /\ todo'[j].propagate
      /\ EndsSession(todo')
  BY <1>1, <1>2, ClosesAre DEF EndsSession
<1>6. PICK X : X = {} OBVIOUS
<1>7. GoesOn(X)
  <2>1. todo = <<>> BY <1>2 DEF Idle
  <2>2. \A j \in DOMAIN todo' : Follows(X, todo'[j])
    BY <1>4, <1>5 DEF Follows, Noted, SweepWorks, CloseWorks
  <2> QED BY <1>5, <2>1, <2>2 DEF GoesOn, FreesIn
<1>8. UsersStay /\ OnlyAt(X) /\ ~InOrder'
  BY <1>2, <1>4 DEF UsersStay, OnlyAt, InOrder
<1>9. OrderOK' BY <1>8 DEF OrderOK
<1>10. ConnTypes' BY <1>2, <1>3, <1>4 DEF ConnTypes
<1>11. Dead(Conn) => Dead(Conn)' BY <1>2, <1>7, DeadStays, HandleTreeAssumption
<1>12. ConnOK' BY <1>2, <1>4, <1>5, <1>11 DEF ConnOK, ListInv
<1> QED BY <1>4, <1>6, <1>7, <1>8, <1>9, <1>10, <1>12, ListsFrom

LEMMA EndSessionLists == ASSUME Inv, ListInv, EndSession PROVE ListInv'
<1>1. /\ Doing("endSession")
      /\ UNCHANGED <<mem, kind, closing, openSlotNum, lists, user>>
  BY DEF EndSession, listVars
<1>2. todo # <<>> /\ Head(todo).do = "endSession" BY <1>1 DEF Doing
<1>3. ConnTypes BY DEF ListInv
<1>4. CASE /\ conn' = [conn EXCEPT !.handle = FALSE, !.session = FALSE]
           /\ oci' = [oci EXCEPT ![Conn] = "freed"]
           /\ todo' = Tail(todo)
  <2>1. /\ ~conn'.handle /\ conn'.closing = conn.closing /\ conn'.env = conn.env
        /\ conn' \in [handle : BOOLEAN, session : BOOLEAN, closing : BOOLEAN,
                      dead : BOOLEAN, env : {"open", "freed"},
                      ordered : BOOLEAN]
    BY <1>3, <1>4 DEF ConnTypes
  <2>2. /\ oci' \in [Blocks -> OciStates]
        /\ \A h \in Blocks : h # Conn => oci'[h] = oci[h]
        /\ oci'[Conn] = "freed"
    BY <1>3, <1>4, HandleTreeAssumption DEF ConnTypes, OciStates
  <2>3. PICK X : X = {Conn} OBVIOUS
  <2>4. GoesOn(X) BY <1>2, <1>4, <2>1, GoesOnTail DEF FreeWorks
  <2>5. OnlyAt(X) /\ UsersStay /\ ~InOrder'
    BY <1>1, <2>1, <2>2, <2>3 DEF OnlyAt, UsersStay, InOrder
  <2>6. ConnTypes' BY <1>1, <1>3, <2>1, <2>2 DEF ConnTypes, OciStates
  <2>7. Dead(Conn) => Dead(Conn)'
    BY <1>1, <2>4, DeadStays, HandleTreeAssumption
  <2>8. ConnOK' BY <2>1, <2>7 DEF ConnOK, ListInv
  <2>9. OciOK(Conn)'
    <3>1. kind[Conn] = "conn" /\ mem[Conn] # "unused"
      BY HandleTreeAssumption DEF Inv, KindOK
    <3> QED BY <1>1, <3>1 DEF OciOK, SweptKinds, Lasting
  <2>10. OrderOK' BY <2>5 DEF OrderOK
  <2> QED BY <2>1, <2>3, <2>4, <2>5, <2>6, <2>8, <2>9, <2>10, ListsFrom
<1>5. CASE Head(todo).propagate /\ (CloseFails \/ DetachFails) /\ oci' = oci
  <2>1. PICK X : X = {} OBVIOUS
  <2>2. GivesUp(Head(todo)) BY <1>2, <1>5 DEF GivesUp, SweepWorks
  <2>3. OnlyAt(X) /\ Conn \notin X /\ \A x \in X : OciOK(x)'
    BY <1>1, <1>5, <2>1 DEF OnlyAt
  <2>4. oci' \in [Blocks -> OciStates] BY <1>3, <1>5 DEF ConnTypes, OciStates
  <2> QED BY <1>1, <1>2, <1>5, <2>2, <2>3, <2>4, FailsLists
<1> QED BY <1>4, <1>5 DEF EndSession

LEMMA FreeConnLists == ASSUME Inv, ListInv, FreeConn PROVE ListInv'
<1>1. PICK q : q = IF conn.handle THEN CloseWork(FALSE) ELSE <<>> OBVIOUS
<1>2. PICK a, b : /\ a = Work("freeEnv", 0, FALSE)
                  /\ b = Work("freeTransaction", 0, FALSE)
  OBVIOUS
<1>3. PICK z : z = FreeMemory(Conn) OBVIOUS
<1>4. PICK p : p = q \o <<a, b, z>> OBVIOUS
<1>5. /\ Doing("free") /\ Subject = Conn
      /\ UNCHANGED <<mem, kind, oci, closing, openSlotNum, lists, conn, user>>
      /\ todo' = p \o Tail(todo)
  BY <1>1, <1>2, <1>3, <1>4 DEF FreeConn, blockVars, listVars
<1>6. PICK X : X = {Conn} OBVIOUS
<1>7. /\ a.do = "freeEnv" /\ a.h = Conn /\ b.do = "freeTransaction"
      /\ b.h = Conn /\ z.do = "freeMemory" /\ z.h = Conn
  BY <1>2, <1>3, SweepsAre DEF FreeMemory, WorkOn
<1>8. Follows(X, a) /\ Follows(X, b) /\ Follows(X, z)
  BY <1>6, <1>7 DEF Follows, Noted, SweepWorks, CloseWorks
<1>9. (\E S : q \in Seq(S)) /\ \A j \in DOMAIN q : Follows(X, q[j])
  <2>1. CASE conn.handle
    <3>1. /\ \E S : q \in Seq(S)
          /\ \A j \in DOMAIN q : q[j].do \in SweepWorks /\ q[j].propagate = FALSE
      BY <1>1, <2>1, ClosesAre
    <3> QED BY <3>1 DEF Follows, Noted, SweepWorks, CloseWorks
  <2>2. CASE ~conn.handle
    <3>1. q = <<>> BY <1>1, <2>2
    <3>2. q \in Seq({}) /\ \A j \in DOMAIN q : FALSE BY <3>1
    <3> QED BY <3>2
  <2> QED BY <2>1, <2>2
<1>10. PICK S : q \in Seq(S) BY <1>9
<1>11. PICK t : t = <<a, b, z>> OBVIOUS
<1>12. /\ t \in Seq({a, b, z}) /\ Len(t) = 3 /\ t[3] = z
       /\ \A j \in 1 .. 3 : t[j] \in {a, b, z}
  BY <1>11
<1>13. p = q \o t BY <1>4, <1>11
<1>14. PICK T : T = S \cup {a, b, z} OBVIOUS
<1>15. q \in Seq(T) /\ t \in Seq(T) BY <1>10, <1>12, <1>14
<1>16. p \in Seq(T) /\ Len(p) = Len(q) + 3 /\ Len(q) \in Nat
  <2>1. q \o t \in Seq(T) /\ Len(q \o t) = Len(q) + Len(t) /\ Len(q) \in Nat
    BY <1>15
  <2> QED BY <1>12, <1>13, <2>1
<1>17. \A j \in DOMAIN p : Follows(X, p[j])
  <2> SUFFICES ASSUME NEW j \in DOMAIN p PROVE Follows(X, p[j]) OBVIOUS
  <2>1. j \in 1 .. Len(q) + 3 BY <1>16
  <2>2. CASE j <= Len(q)
    <3>1. j \in DOMAIN q /\ p[j] = q[j] BY <1>13, <1>15, <1>16, <2>1, <2>2
    <3> QED BY <1>9, <3>1
  <2>3. CASE j > Len(q)
    <3>1. j - Len(q) \in 1 .. 3 BY <1>16, <2>1, <2>3
    <3>2. p[j] = t[j - Len(q)] BY <1>12, <1>13, <1>15, <1>16, <2>1, <2>3
    <3> QED BY <1>8, <1>12, <3>1, <3>2
  <2> QED BY <1>16, <2>1, <2>2, <2>3
<1>18. Len(q) + 3 \in DOMAIN p /\ p[Len(q) + 3] = z
  <2>1. Len(q) + 3 \in 1 .. Len(p) BY <1>16
  <2>2. p[Len(q) + 3] = t[Len(q) + 3 - Len(q)] BY <1>12, <1>13, <1>15, <1>16
  <2>3. Len(q) + 3 - Len(q) = 3 BY <1>16
  <2> QED BY <1>12, <1>16, <2>1, <2>2, <2>3
<1>19. FreesIn(p, Conn) BY <1>7, <1>18 DEF FreesIn, FreeWorks
<1>20. todo # <<>> /\ Head(todo).do = "free" /\ Head(todo).h = Conn
  BY <1>5 DEF Doing, Subject
<1>21. GoesOn(X) BY <1>5, <1>16, <1>17, <1>19, <1>20, GoesOnWith
<1>22. QuietAt /\ UsersStay BY <1>5 DEF QuietAt, UsersStay
<1>23. OnlyAt(X) /\ (InOrder' => InOrder) /\ ConnTypes'
  BY <1>5, <1>6 DEF OnlyAt, InOrder, ListInv, ConnTypes
<1>24. OrderOK' BY <1>5, <1>23, SameOrder DEF ListInv
<1>25. ConnOK' BY <1>5, <1>21, ConnStays DEF ListInv
<1>26. OciOK(Conn)'
  <2>1. kind[Conn] = "conn" /\ mem[Conn] # "unused"
    BY HandleTreeAssumption DEF Inv, KindOK
  <2> QED BY <1>5, <2>1 DEF OciOK, SweptKinds, Lasting
<1> QED BY <1>5, <1>6, <1>21, <1>22, <1>23, <1>24, <1>25, <1>26, ListsFrom

LEMMA FreeEnvLists == ASSUME Inv, ListInv, FreeEnv PROVE ListInv'
<1>1. /\ Doing("freeEnv") /\ conn' = [conn EXCEPT !.env = "freed"]
      /\ todo' = Tail(todo)
      /\ UNCHANGED <<mem, kind, oci, closing, openSlotNum, lists, user>>
  BY DEF FreeEnv, blockVars, listVars
<1>2. PICK w, r : w = Head(todo) /\ r = Tail(todo) OBVIOUS
<1>3. todo # <<>> /\ w.do = "freeEnv" /\ ForgetsIn(r, Conn)
  BY <1>1, <1>2, NextCall DEF Doing, OfFreeConn
<1>4. FreesIn(todo', Conn)
  BY <1>1, <1>2, <1>3 DEF ForgetsIn, FreesIn, FreeWorks
<1>5. Dead(Conn)' BY <1>4 DEF Dead
<1>6. PICK X : X = {} OBVIOUS
<1>7. GoesOn(X) BY <1>1, <1>2, <1>3, GoesOnTail DEF FreeWorks
<1>8. /\ conn'.closing = conn.closing /\ conn'.handle = conn.handle
      /\ conn'.ordered = conn.ordered /\ conn'.session = conn.session
      /\ conn' \in [handle : BOOLEAN, session : BOOLEAN, closing : BOOLEAN,
                    dead : BOOLEAN, env : {"open", "freed"},
                    ordered : BOOLEAN]
  BY <1>1 DEF ListInv, ConnTypes
<1>9. ConnOK' BY <1>5, <1>7, <1>8 DEF ConnOK, ListInv, GoesOn
<1>10. OnlyAt(X) /\ UsersStay /\ (InOrder' => InOrder)
  BY <1>1, <1>8 DEF OnlyAt, UsersStay, InOrder
<1>11. ConnTypes' BY <1>1, <1>8 DEF ListInv, ConnTypes
<1>12. OrderOK' BY <1>1, <1>10, SameOrder DEF ListInv
<1> QED BY <1>6, <1>7, <1>8, <1>9, <1>10, <1>11, <1>12, ListsFrom

-----------------------------------------------------------------------------
(* Every step keeps the lists.                                              *)
LEMMA LobStepLists == ASSUME Inv, ListInv, LobStep PROVE ListInv'
<1>1. CASE CloseEachLob \/ FreeLob BY <1>1, CloseEachLobLists, FreeLobLists
<1>2. ASSUME NEW h \in Unused, NewTempLob(h) \/ \E l \in Blocks : CopyLob(l, h)
      PROVE  ListInv'
  BY <1>2, LobMakesLists
<1>3. ASSUME NEW h \in Blocks, CloseLob(h) PROVE ListInv'
  BY <1>3, CloseLobLists
<1> QED BY <1>1, <1>2, <1>3 DEF LobStep

LEMMA ObjectStepLists == ASSUME Inv, ListInv, ObjectStep PROVE ListInv'
<1>1. CASE CloseEachObject \/ FreeObject
  BY <1>1, CloseEachObjectLists, FreeObjectLists
<1>2. CASE FreeObjectType \/ FreeObjectAttr BY <1>2, SimpleFreesLists
<1>3. ASSUME NEW h \in Unused,
             GetObjectType(h) \/ \E x \in Blocks : GetAttributes(x, h)
      PROVE  ListInv'
  BY <1>3, TypeMakesLists
<1>4. ASSUME NEW h \in Unused, NEW x \in Blocks,
             \/ CreateObject(x, h) \/ CopyObject(x, h)
             \/ GetValue(x, h) \/ SetValue(x, h)
      PROVE  ListInv'
  BY <1>4, ObjectMakesLists
<1> QED BY <1>1, <1>2, <1>3, <1>4 DEF ObjectStep

LEMMA SodaStepLists == ASSUME Inv, ListInv, SodaStep PROVE ListInv'
<1>1. CASE \/ FreeSodaDb \/ FreeSodaColl \/ FreeSodaDoc \/ FreeSodaCollCursor
           \/ FreeSodaDocCursor
  BY <1>1, SimpleFreesLists
<1>2. ASSUME NEW h \in Unused, GetSodaDb(h) PROVE ListInv'
  BY <1>2, ConnMakesLists
<1>3. ASSUME NEW h \in Unused, NEW x \in Blocks,
             \/ CreateCollection(x, h) \/ OpenCollection(x, h)
             \/ CreateDocument(x, h) \/ GetCollections(x, h)
             \/ NextCollection(x, h) \/ Find(x, h)
             \/ NextDocument(x, h) \/ FindOne(x, h) \/ GetDataGuide(x, h)
             \/ \E d \in Blocks : \/ InsertMany(x, d, h) \/ InsertOne(x, d, h)
                                  \/ ReplaceOne(x, d, h) \/ Save(x, d, h)
      PROVE  ListInv'
  <2>1. SodaMakes(x, h) BY <1>3 DEF SodaMakes
  <2> QED BY <2>1, SodaMakesLists
<1>4. ASSUME NEW x \in Blocks, CloseCursor(x) PROVE ListInv'
  BY <1>4, CloseCursorLists
<1> QED BY <1>1, <1>2, <1>3, <1>4 DEF SodaStep

LEMMA MessageStepLists == ASSUME Inv, ListInv, MessageStep PROVE ListInv'
<1>1. CASE FreeMsgProps \/ FreeDeqOptions \/ FreeEnqOptions \/ FreeJson \/ FreeQueue
  BY <1>1, SimpleFreesLists
<1>2. CASE PopulatePayload \/ Dequeue
  BY <1>2, PopulatePayloadLists, DequeueLists
<1>3. ASSUME NEW h \in Fresh, PopulateProps(h) PROVE ListInv'
  BY <1>3, PopulatePropsLists
<1>4. ASSUME NEW h \in Unused,
             \/ NewMsgProps(h) \/ NewDeqOptions(h) \/ NewEnqOptions(h)
             \/ NewJson(h) \/ NewQueue(h)
      PROVE  ListInv'
  BY <1>4, ConnMakesLists
<1>5. ASSUME NEW h \in Fresh, NEW q \in Blocks,
             GetDeqOptions(q, h) \/ GetEnqOptions(q, h)
      PROVE  ListInv'
  BY <1>5, MakeOptionsLists
<1>6. ASSUME NEW h \in Blocks, NEW many \in BOOLEAN, Deq(h, many) PROVE ListInv'
  BY <1>6, DeqLists
<1>7. ASSUME NEW h \in Blocks, NEW x \in Blocks,
             SetPayloadObject(h, x) \/ SetPayloadJson(h, x)
      PROVE  ListInv'
  BY <1>7, PayloadLists
<1>8. ASSUME NEW h \in Blocks, NEW x \in Blocks, NEW y \in Blocks, Enq(h, x, y)
      PROVE  ListInv'
  BY <1>8, EnqLists
<1> QED BY <1>1, <1>2, <1>3, <1>4, <1>5, <1>6, <1>7, <1>8 DEF MessageStep

LEMMA VariableStepLists == ASSUME Inv, ListInv, VariableStep PROVE ListInv'
<1>1. CASE StmtMarkClosing \/ StmtReleased \/ CloseEachStmt
  BY <1>1, StmtMarkClosingLists, StmtReleasedLists, CloseEachStmtLists
<1>2. CASE FreeStmt \/ FreeStmtEnds \/ FreeVar \/ FreeRowid
  BY <1>2, FreeStmtLists, FreeStmtEndsLists, FreeVarLists, SimpleFreesLists
<1>3. CASE GiveVar \/ PrefetchRelease \/ PrefetchAllocate \/ PrefetchNull
  BY <1>3, GiveVarLists, PrefetchReleaseLists, PrefetchAllocateLists,
     PrefetchNullLists
<1>4. CASE BindConverted \/ DefineNewVar \/ AllocateRowid
  BY <1>4, BindConvertedLists, DefineNewVarLists, AllocateRowidLists
<1>5. ASSUME NEW h \in Unused, NEW k \in StmtKinds, PrepareStmt(h, k)
      PROVE  ListInv'
  BY <1>5, PrepareStmtLists
<1>6. ASSUME NEW h \in Unused, NEW k \in VarKinds, NEW s \in Blocks,
             NewVar(h, k) \/ DefineNew(s, h, k)
      PROVE  ListInv'
  BY <1>6, NewVarLists
<1>7. ASSUME NEW h \in Fresh, NEW s \in Blocks, NEW o \in Blocks,
             BindValue(s, o, h)
      PROVE  ListInv'
  BY <1>7, BindValueLists
<1>8. ASSUME NEW s \in Blocks, \/ CloseStmt(s) \/ Execute(s) \/ ReExecute(s)
                               \/ Fetch(s) \/ GetLastRowid(s) \/ KeepValue(s)
      PROVE  ListInv'
  BY <1>8, CloseStmtLists, ExecuteLists, FetchLists, KeepValueLists
<1>9. ASSUME NEW s \in Blocks, NEW x \in Blocks,
             \/ SetFromHandle(s, x) \/ CopyData(s, x)
             \/ Bind(s, x) \/ BindConverts(s, x) \/ Define(s, x)
      PROVE  ListInv'
  BY <1>9, HoldValueLists, BindLists, BindConvertsLists
<1>10. ASSUME NEW h \in Unused, NEW k \in VarKinds, NewVar(h, k) PROVE ListInv'
  BY <1>6, <1>10, HandleTreeAssumption
<1> QED BY <1>1, <1>2, <1>3, <1>4, <1>5, <1>6, <1>7, <1>8, <1>9, <1>10 DEF
    VariableStep

LEMMA ListStepKeeps == ASSUME Inv, ListInv, [Next]_HandleVars PROVE ListInv'
<1>1. ASSUME NEW h \in Blocks, AddRef(h) \/ Release(h) PROVE ListInv'
  BY <1>1, ReferenceLists
<1>2. CASE SetRefCount \/ DoFreeMemory
  BY <1>2, SetRefCountLists, DoFreeMemoryLists
<1>3. CASE CloseConn \/ EndSession \/ FreeConn \/ FreeEnv
  BY <1>3, CloseConnLists, EndSessionLists, FreeConnLists, FreeEnvLists
<1>4. CASE LobStep \/ ObjectStep \/ SodaStep
  BY <1>4, LobStepLists, ObjectStepLists, SodaStepLists
<1>5. CASE MessageStep BY <1>5, MessageStepLists
<1>6. CASE TransactionStep /\ UNCHANGED <<numElements, varVars>>
  BY <1>6, TransactionLists
<1>7. CASE VariableStep BY <1>7, VariableStepLists
<1>8. CASE UNCHANGED HandleVars
  <2>1. UNCHANGED <<mem, kind, oci, conn, closing, openSlotNum, lists, user, todo>>
    BY <1>8 DEF HandleVars, vars, blockVars, listVars
  <2>2. QuietAt /\ UsersStay BY <2>1 DEF QuietAt, UsersStay
  <2> QED BY <2>1, <2>2, GoesOnSame, QuietKeeps
<1>9. CASE Next BY <1>1, <1>2, <1>3, <1>4, <1>5, <1>6, <1>7, <1>9 DEF Next
<1> QED BY <1>8, <1>9

LEMMA ListInit == HandlesInit => ListInv
<1> SUFFICES ASSUME HandlesInit PROVE ListInv OBVIOUS
<1>1. /\ mem = [h \in Blocks |-> IF h = Conn THEN "live" ELSE "unused"]
      /\ kind = [h \in Blocks |-> IF h = Conn THEN "conn" ELSE "none"]
      /\ oci = [h \in Blocks |-> IF h = Conn THEN "open" ELSE "none"]
      /\ closing = [h \in Blocks |-> FALSE]
      /\ openSlotNum = [h \in Blocks |-> 1]
      /\ lists = [l \in Lists |-> [i \in Slots |-> NULL]]
      /\ conn = [handle |-> TRUE, session |-> TRUE, closing |-> FALSE,
                 dead |-> FALSE, env |-> "open", ordered |-> TRUE]
      /\ todo = <<>>
  BY DEF HandlesInit, Init
<1>2. ConnTypes BY <1>1 DEF ConnTypes
<1>3. NotesOK BY <1>1 DEF NotesOK
<1>4. ConnOK BY <1>1, HandleTreeAssumption DEF ConnOK
<1>5. \A k \in {"conn", "none"} :
          /\ k \notin SweptKinds \cup Lasting
          /\ k # "object"
          /\ \A l \in Lists : k \notin Listed[l]
  BY KindsDistinct
<1>6. ASSUME NEW h \in Blocks PROVE OciOK(h) BY <1>1, <1>5 DEF OciOK
<1>7. OrderOK
  <2>1. ASSUME NEW l \in Lists, NEW i \in Slots PROVE HeldAt(l, i)
    BY <1>1 DEF HeldAt
  <2>2. ASSUME NEW l \in Lists, NEW h \in Blocks PROVE OpenIn(l, h)
    BY <1>1, <1>5 DEF OpenIn
  <2> QED BY <2>1, <2>2 DEF OrderOK
<1> QED BY <1>2, <1>3, <1>4, <1>6, <1>7 DEF ListInv

(* The lists are in order in every behaviour. *)
THEOREM ListInvariant == ASSUME ReleasesCleanly PROVE Spec => []ListInv
<1>1. HandlesInit => Inv /\ ListInv BY InitKeeps, ListInit
<1>2. (Inv /\ ListInv) /\ [Next]_HandleVars => (Inv /\ ListInv)'
  BY StepKeeps, ListStepKeeps
<1> QED BY <1>1, <1>2, PTL DEF Spec

-----------------------------------------------------------------------------
(***************************************************************************)
(* WHAT FOLLOWS FROM THE LISTS                                             *)
(***************************************************************************)

(* Between calls nothing of the closing of a connection is left. *)
LEMMA IdleInOrder ==
    ASSUME ListInv, Idle, conn.handle, conn.ordered
    PROVE  InOrder
<1>1. ~EndsSession(todo) BY DEF Idle, EndsSession
<1>2. conn.closing \in BOOLEAN BY DEF ListInv, ConnTypes
<1> QED BY <1>1, <1>2 DEF ListInv, ConnOK, InOrder

LEMMA InvLists == Inv /\ ListInv => ListsOpenHandles
<1> SUFFICES ASSUME Inv, ListInv, Idle, conn.handle, conn.ordered,
                    NEW l \in Lists
             PROVE  {lists[l][i] : i \in Slots} \ {NULL} =
                        {h \in Blocks : /\ mem[h] = "live" /\ oci[h] = "open"
                                        /\ kind[h] \in Listed[l]}
  BY DEF ListsOpenHandles
<1>1. /\ \A i \in Slots : HeldAt(l, i)
      /\ \A h \in Blocks : OpenIn(l, h)
  BY IdleInOrder DEF ListInv, OrderOK
<1>2. ASSUME NEW i \in Slots, lists[l][i] # NULL
      PROVE  /\ lists[l][i] \in Blocks /\ mem[lists[l][i]] = "live"
             /\ oci[lists[l][i]] = "open" /\ kind[lists[l][i]] \in Listed[l]
  BY <1>1, <1>2, ListedLive DEF HeldAt
<1>3. ASSUME NEW h \in Blocks, mem[h] = "live", oci[h] = "open",
             kind[h] \in Listed[l]
      PROVE  h # NULL /\ \E i \in Slots : lists[l][i] = h
  BY <1>1, <1>3, HandleTreeAssumption DEF OpenIn
<1> QED BY <1>2, <1>3

-----------------------------------------------------------------------------
(* The handles that a function may be called with are open. *)
LEMMA FieldOf ==
    ASSUME Inv, NEW x \in Blocks, ~Dead(x), NEW r \in RolesOf(kind[x]),
           r \in Required(kind[x])
    PROVE  /\ field[x][r] \in Blocks /\ ~Dead(field[x][r])
           /\ kind[field[x][r]] \in KindsOf(kind[x], r)
<1>1. KeepsFields(x) BY AliveKeeps
<1>2. /\ DOMAIN field[x] = RolesOf(kind[x])
      /\ field[x][r] \in Blocks \cup {NULL}
  BY <1>1, HoldsFields
<1>3. PointerOK(kind[x], r, field[x][r]) BY <1>1 DEF Inv, FieldsOK
<1>4. field[x][r] # NULL /\ kind[field[x][r]] \in KindsOf(kind[x], r)
  BY <1>3 DEF PointerOK
<1> QED BY <1>2, <1>4, PointedAlive

(* What keeps the connection, directly or by what it comes from. *)
LEMMA KeepsConn ==
    ASSUME Inv, NEW x \in Blocks, ~Dead(x), "conn" \in RolesOf(kind[x])
    PROVE  ~Dead(Conn)
  BY ConnHeld, AliveKeeps

LEMMA TypeKeepsConn ==
    ASSUME Inv, NEW o \in Blocks, ~Dead(o), kind[o] = "object"
    PROVE  ~Dead(Conn)
<1>0. "type" \in RolesOf("object") /\ "type" \in Required("object")
  BY DEF RolesOf, Required, Queues, StmtKinds, Queries, VarKinds
<1>1. "type" \in RolesOf(kind[o]) /\ "type" \in Required(kind[o]) BY <1>0
<1>2. /\ field[o].type \in Blocks /\ ~Dead(field[o].type)
      /\ kind[field[o].type] \in KindsOf(kind[o], "type")
  BY <1>1, FieldOf
<1>3. kind[field[o].type] = "objectType" BY <1>2 DEF KindsOf
<1>4. "conn" \in RolesOf("objectType")
  BY DEF RolesOf, Queues, StmtKinds, Queries, VarKinds
<1> QED BY <1>2, <1>3, <1>4, KeepsConn

LEMMA DbKeepsConn ==
    ASSUME Inv, NEW x \in Blocks, ~Dead(x),
           kind[x] \in {"sodaColl", "sodaDoc", "sodaCollCursor"}
    PROVE  ~Dead(Conn)
<1>0. \A k \in {"sodaColl", "sodaDoc", "sodaCollCursor"} :
          "db" \in RolesOf(k) /\ "db" \in Required(k)
  BY DEF RolesOf, Required, Queues, StmtKinds, Queries, VarKinds
<1>1. "db" \in RolesOf(kind[x]) /\ "db" \in Required(kind[x]) BY <1>0
<1>2. /\ field[x].db \in Blocks /\ ~Dead(field[x].db)
      /\ kind[field[x].db] \in KindsOf(kind[x], "db")
  BY <1>1, FieldOf
<1>3. kind[field[x].db] = "sodaDb" BY <1>2 DEF KindsOf
<1>4. "conn" \in RolesOf("sodaDb")
  BY DEF RolesOf, Queues, StmtKinds, Queries, VarKinds
<1> QED BY <1>2, <1>3, <1>4, KeepsConn

LEMMA CollKeepsConn ==
    ASSUME Inv, NEW x \in Blocks, ~Dead(x), kind[x] = "sodaDocCursor"
    PROVE  ~Dead(Conn)
<1>0. "coll" \in RolesOf("sodaDocCursor") /\ "coll" \in Required("sodaDocCursor")
  BY DEF RolesOf, Required, Queues, StmtKinds, Queries, VarKinds
<1>1. "coll" \in RolesOf(kind[x]) /\ "coll" \in Required(kind[x]) BY <1>0
<1>2. /\ field[x].coll \in Blocks /\ ~Dead(field[x].coll)
      /\ kind[field[x].coll] \in KindsOf(kind[x], "coll")
  BY <1>1, FieldOf
<1>3. kind[field[x].coll] = "sodaColl" BY <1>2 DEF KindsOf
<1> QED BY <1>2, <1>3, DbKeepsConn

LEMMA EnvOpen ==
    ASSUME ListInv, ~Dead(Conn)
    PROVE  conn.env = "open"
  BY DEF ListInv, ConnTypes, ConnOK

(* The kinds of the handles that a function may be called with, and what it *)
(* has asked.                                                               *)
LEMMA UsableIs ==
    ASSUME NEW h \in Blocks, Usable(h)
    PROVE  /\ Idle
           /\ \/ user[h] > 0 /\ kind[h] = "conn" /\ conn.handle
              \/ user[h] > 0 /\ IsStmt(h) /\ oci[h] = "open"
              \/ user[h] > 0 /\ kind[h] = "lob" /\ oci[h] = "open"
              \/ user[h] > 0 /\ kind[h] = "object" /\ conn.handle
              \/ /\ EnqueuesObject(h) /\ conn.handle
              \/ user[h] > 0 /\ kind[h] \in {"msgProps", "deqOptions",
                                             "enqOptions", "json"}
              \/ user[h] > 0 /\ kind[h] \in {"sodaColl", "sodaDoc"}
              \/ user[h] > 0 /\ kind[h] = "sodaCollCursor" /\ oci[h] = "open"
              \/ user[h] > 0 /\ kind[h] = "sodaDocCursor" /\ oci[h] = "open"
<1>1. CASE DescribeConn(h) \/ AlterConn(h)
  BY <1>1 DEF DescribeConn, AlterConn, Has, Connected
<1>2. CASE DescribeStmt(h) \/ CountRows(h)
  BY <1>2 DEF DescribeStmt, CountRows, StmtCheck, HasStmt
<1>3. CASE DescribeLob(h) \/ AccessLob(h)
  BY <1>3 DEF DescribeLob, AccessLob, LobCheck, Has
<1>4. CASE AccessObject(h) \/ EnqDeqObject(h)
  BY <1>4 DEF AccessObject, EnqDeqObject, ObjectCheck, Has, Connected
<1>5. CASE EnqueuesObject(h) BY <1>5 DEF EnqueuesObject, QueueCheck
<1>6. CASE \/ GetMsgAttr(h) \/ SetMsgAttr(h) \/ GetDeqAttr(h) \/ SetDeqAttr(h)
           \/ GetSetEnqAttr(h) \/ GetSetJson(h)
  BY <1>6 DEF GetMsgAttr, SetMsgAttr, GetDeqAttr, SetDeqAttr, GetSetEnqAttr,
     GetSetJson, Has
<1>7. CASE \/ ManageIndex(h) \/ CountDocuments(h) \/ RemoveDocuments(h)
           \/ GetContent(h) \/ GetAttributeText(h)
  BY <1>7 DEF ManageIndex, CountDocuments, RemoveDocuments, GetContent,
     GetAttributeText, SodaCollCheck, SodaDocCheck, Has
<1>8. CASE SodaCollCursorCheck(h) \/ SodaDocCursorCheck(h)
  BY <1>8 DEF SodaCollCursorCheck, SodaDocCursorCheck, Has
<1> QED BY <1>1, <1>2, <1>3, <1>4, <1>5, <1>6, <1>7, <1>8 DEF Usable

(* An object has an instance as long as nothing has failed. *)
LEMMA ObjectOpen ==
    ASSUME Inv, ListInv, Idle, conn.handle, NEW o \in Blocks, ~Dead(o),
           kind[o] = "object"
    PROVE  oci[o] \in {"open", "part"} \/ ~conn.ordered
  BY IdleInOrder DEF ListInv, OciOK

LEMMA UsableOpen ==
    ASSUME Inv, ListInv, NEW h \in Blocks, Usable(h)
    PROVE  /\ mem[h] = "live" /\ conn.env = "open"
           /\ oci[h] \in {"open", "part"}
              \/ (kind[h] = "object" /\ ~conn.ordered)
<1> DEFINE Ready == /\ ~Dead(h) /\ ~Dead(Conn)
                    /\ \/ oci[h] \in {"open", "part"}
                       \/ kind[h] = "object" /\ ~conn.ordered
<1>0. SUFFICES Ready BY AliveKeeps, EnvOpen
<1>1. /\ "conn" \in RolesOf("lob")
      /\ \A k \in StmtKinds : "conn" \in RolesOf(k)
      /\ \A k \in {"msgProps", "deqOptions", "enqOptions", "json"} :
            "conn" \in RolesOf(k)
  BY DEF RolesOf, Queues, StmtKinds, Queries, VarKinds
<1>2. user[h] > 0 => ~Dead(h) BY UsersAlive
<1>3. CASE user[h] > 0 /\ kind[h] = "conn" /\ conn.handle
  <2>1. h = Conn BY <1>3 DEF Inv, KindOK
  <2> QED BY <1>2, <1>3, <2>1 DEF ListInv, ConnOK
<1>4. CASE user[h] > 0 /\ IsStmt(h) /\ oci[h] = "open"
  BY <1>1, <1>2, <1>4, KeepsConn DEF IsStmt
<1>5. CASE user[h] > 0 /\ kind[h] = "lob" /\ oci[h] = "open"
  BY <1>1, <1>2, <1>5, KeepsConn
<1>6. CASE user[h] > 0 /\ kind[h] = "object" /\ conn.handle
  BY <1>2, <1>6, TypeKeepsConn, ObjectOpen, UsableIs
<1>7. CASE EnqueuesObject(h) /\ conn.handle
  <2>1. PICK p \in Blocks : Has(p, "msgProps") /\ field[p].payloadObj = h
    BY <1>7 DEF EnqueuesObject
  <2>2. ~Dead(p) /\ KeepsFields(p) BY <2>1, UsersAlive DEF Has
  <2>3. "payloadObj" \in RolesOf(kind[p]) /\ kind[p] = "msgProps"
    <3>1. "payloadObj" \in RolesOf("msgProps")
      BY DEF RolesOf, Queues, StmtKinds, Queries, VarKinds
    <3> QED BY <2>1, <3>1 DEF Has
  <2>4. /\ "payloadObj" \in DOMAIN field[p]
        /\ PointerOK(kind[p], "payloadObj", field[p].payloadObj)
    <3>1. DOMAIN field[p] = RolesOf(kind[p]) BY <2>2, HoldsFields
    <3> QED BY <2>2, <2>3, <3>1 DEF Inv, FieldsOK
  <2>5. ~Dead(h) BY <2>1, <2>4, PointedAlive
  <2>6. kind[h] = "object"
    BY <2>1, <2>3, <2>4, HandleTreeAssumption DEF PointerOK, KindsOf
  <2> QED BY <1>7, <2>5, <2>6, TypeKeepsConn, ObjectOpen, UsableIs
<1>8. CASE user[h] > 0 /\ kind[h] \in {"msgProps", "deqOptions", "enqOptions",
                                       "json"}
  BY <1>1, <1>2, <1>8, KeepsConn DEF ListInv, OciOK, Lasting
<1>9. CASE user[h] > 0 /\ kind[h] \in {"sodaColl", "sodaDoc"}
  BY <1>2, <1>9, DbKeepsConn DEF ListInv, OciOK, Lasting
<1>10. CASE user[h] > 0 /\ kind[h] = "sodaCollCursor" /\ oci[h] = "open"
  BY <1>2, <1>10, DbKeepsConn
<1>11. CASE user[h] > 0 /\ kind[h] = "sodaDocCursor" /\ oci[h] = "open"
  BY <1>2, <1>11, CollKeepsConn
<1> HIDE DEF Ready
<1> QED BY <1>3, <1>4, <1>5, <1>6, <1>7, <1>8, <1>9, <1>10, <1>11, UsableIs

LEMMA InvUses == Inv /\ ListInv => UsesOpen
<1> SUFFICES ASSUME Inv, ListInv PROVE UsesOpen OBVIOUS
<1>1. \A h \in Blocks :
          Usable(h) => /\ mem[h] = "live" /\ conn.env = "open"
                       /\ oci[h] \in {"open", "part"}
                          \/ (kind[h] = "object" /\ ~conn.ordered)
  BY UsableOpen
<1>2. \A h \in Blocks :
          DescribeConn(h) \/ AlterConn(h) => conn.session \/ ~conn.ordered
  BY DEF DescribeConn, AlterConn, Connected, ListInv, ConnOK
<1> QED BY <1>1, <1>2 DEF UsesOpen

-----------------------------------------------------------------------------
(* No pointer outlives what it points to. *)
LEMMA HeldLive ==
    ASSUME Inv, NEW x \in Blocks, NEW h \in Held(field[x])
    PROVE  mem[h] = "live"
<1>1. PICK r \in DOMAIN field[x] : field[x][r] = h /\ h # NULL BY DEF Held
<1>2. CASE KeepsFields(x)
  <2>1. h \in Blocks BY <1>1, <1>2, HoldsFields
  <2> QED BY <1>1, <2>1, PointedAlive, AliveKeeps
<1>3. CASE ~KeepsFields(x)
  <2>1. field[x] = NoFields BY <1>3 DEF Inv, FieldsOK
  <2> QED BY <1>1, <2>1 DEF NoFields
<1> QED BY <1>2, <1>3

LEMMA RowidLive ==
    ASSUME Inv, NEW s \in Blocks, lastRowid[s] # NULL, ~closing[s]
    PROVE  mem[lastRowid[s]] = "live"
<1>1. lastRowid[s] \in Blocks BY DEF Inv, HandlesTypes
<1> QED BY <1>1, RowidAlive, AliveKeeps

LEMMA OrderedLive ==
    ASSUME Inv, ListInv, InOrder, NEW l \in Lists, NEW i \in Slots,
           lists[l][i] # NULL
    PROVE  mem[lists[l][i]] = "live"
  BY DEF ListInv, OrderOK, HeldAt

(* What a variable is anchored by has it among its fields. *)
LEMMA AnchoredLive ==
    ASSUME Inv, NEW v \in Blocks, Anchored(v)
    PROVE  mem[v] = "live"
<1>1. CASE user[v] > 0 BY <1>1, UsersAlive
<1>2. ASSUME NEW s \in Blocks, user[s] > 0, IsStmt(s),
             field[s].bind = v \/ field[s].column = v
      PROVE  mem[v] = "live"
  <2>1. KeepsFields(s) BY <1>2, UsersAlive
  <2>2. \A k \in StmtKinds : "bind" \in RolesOf(k) /\ "column" \in RolesOf(k)
    BY DEF RolesOf, Queues, StmtKinds, Queries, VarKinds
  <2>3. "bind" \in DOMAIN field[s] /\ "column" \in DOMAIN field[s]
    BY <1>2, <2>1, <2>2, HoldsFields DEF IsStmt
  <2> QED BY <1>2, <2>3, PointedAlive, AliveKeeps
<1> QED BY <1>1, <1>2 DEF Anchored

(* The calls that are left, by what they do. *)
LEMMA WorkIs ==
    ASSUME Inv, NEW i \in DOMAIN todo
    PROVE  /\ todo[i] \in Works /\ todo[i].h \in Blocks
           /\ todo[i].do \in WorkNames /\ user[todo[i].h] \in Nat
<1>1. todo \in Seq(Works) /\ user \in [Blocks -> Nat] BY DEF Inv, HandlesTypes
<1>2. todo[i] \in Works BY <1>1
<1> QED BY <1>1, <1>2 DEF Works

LEMMA ReferenceLive ==
    ASSUME Inv, NEW i \in DOMAIN todo, todo[i].do \in {"unref", "give"}
    PROVE  mem[todo[i].h] = "live"
<1>1. todo[i] \in Works /\ todo[i].h \in Blocks BY WorkIs
<1>2. RefersTo(todo[i], todo[i].h) BY DEF RefersTo
<1> QED BY <1>1, <1>2, PendingAlive, AliveKeeps

LEMMA PrefetchLive ==
    ASSUME Inv, NEW i \in DOMAIN todo, todo[i].do = "prefetch"
    PROVE  mem[todo[i].h] = "live"
<1>1. todo[i] \in Works /\ todo[i].h \in Blocks BY WorkIs
<1>2. WorkOK(todo[i]) /\ NewFirst(todo) BY DEF Inv, WorksOK, Shape
<1>3. CASE todo[i].why # "new" BY <1>1, <1>2, <1>3, AnchoredLive DEF WorkOK
<1>4. CASE todo[i].why = "new"
  <2>1. /\ i = 1 /\ 2 \in DOMAIN todo
        /\ \/ todo[2].do = "give" /\ todo[2].h = todo[i].h
           \/ todo[2].do = "define" /\ todo[2].arg = todo[i].h
    BY <1>2, <1>4 DEF NewFirst, Inv, HandlesTypes
  <2>2. RefersTo(todo[2], todo[i].h) BY <2>1 DEF RefersTo
  <2> QED BY <1>1, <2>1, <2>2, PendingAlive, AliveKeeps
<1> QED BY <1>3, <1>4

LEMMA CloseLive ==
    ASSUME Inv, NotesOK, NEW i \in DOMAIN todo, todo[i].do \in CloseWorks
    PROVE  \/ mem[todo[i].h] = "live"
           \/ /\ todo[i].do = "releaseStmt" /\ conn.closing
              /\ user[todo[i].h] = 0 /\ Allowed("stmtVar")
<1>1. todo[i] \in Works /\ todo[i].h \in Blocks /\ user[todo[i].h] \in Nat
  BY WorkIs
<1>2. WorkOK(todo[i]) /\ CloseFirst(todo) /\ ReleaseEnds(todo) /\ NoteOK(todo[i])
  BY DEF Inv, WorksOK, Shape, NotesOK
<1>3. \A j \in DOMAIN todo : todo[j].do = "freeStmt" => mem[todo[j].h] = "live"
  BY DEF Inv, WorksOK, WorkOK, FreeWorks
<1>4. user[todo[i].h] > 0 => mem[todo[i].h] = "live" BY <1>1, UsersAlive
<1>5. CASE todo[i].do = "closeStmt"
  BY <1>1, <1>2, <1>3, <1>5, AliveKeeps DEF WorkOK, CloseFirst
<1>6. CASE todo[i].do = "releaseStmt" /\ ~todo[i].propagate
  BY <1>2, <1>3, <1>6 DEF ReleaseEnds
<1>7. CASE todo[i].do = "releaseStmt" /\ todo[i].propagate
  BY <1>1, <1>2, <1>4, <1>7 DEF WorkOK, NoteOK, CloseWorks
<1> QED BY <1>5, <1>6, <1>7 DEF CloseWorks

LEMMA SweepLive ==
    ASSUME Inv, NotesOK, NEW i \in DOMAIN todo,
           todo[i].do \in SweepWorks \cup {"freeEnv", "freeTransaction"}
    PROVE  mem[todo[i].h] = "live"
<1>1. WorkOK(todo[i]) /\ NoteOK(todo[i]) /\ ConnForgotten(todo)
  BY DEF Inv, WorksOK, Shape, NotesOK
<1>2. todo[i].h = Conn BY <1>1 DEF WorkOK, NoteOK
<1>3. CASE OfFreeConn(todo[i])
  <2>1. PICK j \in DOMAIN todo :
            todo[j].do = "freeMemory" /\ todo[j].h = Conn
    BY <1>1, <1>3 DEF ConnForgotten
  <2>2. WorkOK(todo[j]) BY DEF Inv, WorksOK
  <2> QED BY <1>2, <2>1, <2>2 DEF WorkOK, FreeWorks
<1>4. CASE ~OfFreeConn(todo[i])
  <2>1. user[Conn] > 0 BY <1>1, <1>4 DEF WorkOK, OfFreeConn
  <2> QED BY <1>2, <2>1, UsersAlive, HandleTreeAssumption
<1> QED BY <1>3, <1>4

LEMMA WorkLive ==
    ASSUME Inv, NotesOK, NEW i \in DOMAIN todo
    PROVE  \/ mem[todo[i].h] = "live"
           \/ /\ todo[i].do = "releaseStmt" /\ conn.closing
              /\ user[todo[i].h] = 0 /\ Allowed("stmtVar")
<1>1. todo[i] \in Works /\ todo[i].h \in Blocks /\ todo[i].do \in WorkNames
  BY WorkIs
<1>2. WorkOK(todo[i]) BY DEF Inv, WorksOK
<1>3. CASE todo[i].do \in {"unref", "give"} BY <1>3, ReferenceLive
<1>4. CASE todo[i].do = "prefetch" BY <1>4, PrefetchLive
<1>5. CASE todo[i].do \in SweepWorks \cup {"freeEnv", "freeTransaction"}
  BY <1>5, SweepLive
<1>6. CASE todo[i].do \in FreeWorks BY <1>2, <1>6 DEF WorkOK
<1>7. CASE todo[i].do \in CloseWorks BY <1>7, CloseLive
<1>8. CASE todo[i].do \in {"define", "bind", "populate", "dequeue", "lastRowid"}
  <2>1. user[todo[i].h] > 0 BY <1>2, <1>8 DEF WorkOK
  <2> QED BY <1>1, <2>1, UsersAlive
<1> QED BY <1>1, <1>3, <1>4, <1>5, <1>6, <1>7, <1>8 DEF WorkNames, LastWorks

LEMMA InvPoints == Inv /\ ListInv => PointsToLive
<1> SUFFICES ASSUME Inv, ListInv PROVE PointsToLive OBVIOUS
<1>1. \A x \in Blocks : \A h \in Held(field[x]) : mem[h] = "live" BY HeldLive
<1>2. \A s \in Blocks : lastRowid[s] # NULL /\ ~closing[s] =>
          mem[lastRowid[s]] = "live"
  BY RowidLive
<1>3. conn.handle /\ conn.ordered /\ ~conn.closing =>
          \A l \in Lists : \A i \in Slots :
              lists[l][i] # NULL => mem[lists[l][i]] = "live"
  BY OrderedLive DEF InOrder
<1>4. \A i \in DOMAIN todo :
          mem[todo[i].h] = "live" \/ (todo[i].do = "releaseStmt" /\ conn.closing)
  BY WorkLive DEF ListInv
<1> QED BY <1>1, <1>2, <1>3, <1>4 DEF PointsToLive

LEMMA InvCloses == Inv /\ ListInv => Allowed("stmtVar") \/ ClosesLive
  BY WorkLive DEF ListInv, ClosesLive

-----------------------------------------------------------------------------
(* Between calls the lists of an open connection hold exactly its open      *)
(* statements, LOBs and objects, whatever was opened, shared, closed and    *)
(* freed before, and in whichever slots (dpiHandleList.c, and the functions *)
(* that call it).                                                           *)
THEOREM ListsHoldOpen == ASSUME ReleasesCleanly PROVE Spec => []ListsOpenHandles
<1>1. Inv /\ ListInv => ListsOpenHandles BY InvLists
<1>2. Spec => []Inv /\ []ListInv BY Invariant, ListInvariant
<1> QED BY <1>1, <1>2, PTL

(* The check functions let nothing through to the Oracle client that has    *)
(* been closed or whose environment is gone.                                *)
THEOREM OnlyOpenUsed == ASSUME ReleasesCleanly PROVE Spec => []UsesOpen
<1>1. Inv /\ ListInv => UsesOpen BY InvUses
<1>2. Spec => []Inv /\ []ListInv BY Invariant, ListInvariant
<1> QED BY <1>1, <1>2, PTL

(* No field, rowid, list of an open connection or call that is left leads   *)
(* to a freed handle, but that of a statement that is closed with its       *)
(* connection while variables keep it.                                      *)
THEOREM PointersLive == ASSUME ReleasesCleanly PROVE Spec => []PointsToLive
<1>1. Inv /\ ListInv => PointsToLive BY InvPoints
<1>2. Spec => []Inv /\ []ListInv BY Invariant, ListInvariant
<1> QED BY <1>1, <1>2, PTL

(* Nor that one, where no statement is the value of a variable. *)
THEOREM ClosedLive ==
    ASSUME ReleasesCleanly PROVE Spec => [](Allowed("stmtVar") \/ ClosesLive)
<1>1. Inv /\ ListInv => Allowed("stmtVar") \/ ClosesLive BY InvCloses
<1>2. Spec => []Inv /\ []ListInv BY Invariant, ListInvariant
<1> QED BY <1>1, <1>2, PTL
==============================================================================
