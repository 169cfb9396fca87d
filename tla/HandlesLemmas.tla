---------------------------- MODULE HandlesLemmas -----------------------------
(***************************************************************************)
(* What the references between the handles are, and what the steps of      *)
(* module Handles do to them: the inductive invariant Inv, and the lemmas  *)
(* with which HandlesProofs shows that every step keeps it.                *)
(***************************************************************************)
EXTENDS Handles, FiniteSetTheorems, WellFoundedInduction, TLAPS

(* One if x is y: the references that one pointer makes.                    *)
Is(x, y) == IF x = y THEN 1 ELSE 0

(* The parts of Pending and Holding, for any work and any fields.           *)
RefersTo(w, h) == \/ w.do \in {"unref", "give"} /\ w.h = h
                  \/ w.do = "define" /\ w.arg = h
References(w, h) == IF RefersTo(w, h) THEN 1 ELSE 0
PendingIn(works, h) ==
    Cardinality({i \in DOMAIN works : RefersTo(works[i], h)})
PointersIn(fields, h) ==
    Cardinality({p \in UNION {{x} \X DOMAIN fields[x] : x \in Blocks} :
                    fields[p[1]][p[2]] = h})
RowidsIn(rowids, closed, h) ==
    Cardinality({s \in Blocks : rowids[s] = h /\ ~closed[s]})

-----------------------------------------------------------------------------
(* Counting. *)
LEMMA SameSize ==
    ASSUME NEW S, NEW T, IsFiniteSet(S), NEW f \in [S -> T],
           \A a, b \in S : f[a] = f[b] => a = b,
           \A t \in T : \E s \in S : f[s] = t
    PROVE  IsFiniteSet(T) /\ Cardinality(T) = Cardinality(S)
<1>1. f \in Bijection(S, T)
  BY DEF Bijection, Injection, Surjection, IsInjective
<1> QED BY <1>1, FS_Bijection DEF ExistsBijection

LEMMA DisjointSize ==
    ASSUME NEW S, NEW T, IsFiniteSet(S), IsFiniteSet(T), S \cap T = {}
    PROVE  /\ IsFiniteSet(S \cup T)
           /\ Cardinality(S \cup T) = Cardinality(S) + Cardinality(T)
<1> QED BY FS_Union, FS_EmptySet, FS_CardinalityType

LEMMA PendingEmpty == \A h : PendingIn(<<>>, h) = 0
<1> TAKE h
<1>1. {i \in DOMAIN <<>> : RefersTo(<<>>[i], h)} = {} OBVIOUS
<1> QED BY <1>1, FS_EmptySet DEF PendingIn

LEMMA PendingOne ==
    ASSUME NEW w, NEW h
    PROVE  PendingIn(<<w>>, h) = References(w, h)
<1>1. {i \in DOMAIN <<w>> : RefersTo(<<w>>[i], h)} =
          IF RefersTo(w, h) THEN {1} ELSE {}
  OBVIOUS
<1> QED BY <1>1, FS_EmptySet, FS_Singleton DEF PendingIn, References

LEMMA PendingFinite ==
    ASSUME NEW S, NEW a \in Seq(S), NEW h
    PROVE  /\ IsFiniteSet({i \in DOMAIN a : RefersTo(a[i], h)})
           /\ PendingIn(a, h) \in Nat
<1>1. IsFiniteSet(1 .. Len(a)) BY FS_Interval
<1>2. IsFiniteSet({i \in DOMAIN a : RefersTo(a[i], h)}) BY <1>1, FS_Subset
<1> QED BY <1>2, FS_CardinalityType DEF PendingIn

LEMMA PendingConcat ==
    ASSUME NEW S, NEW a \in Seq(S), NEW b \in Seq(S), NEW h
    PROVE  PendingIn(a \o b, h) = PendingIn(a, h) + PendingIn(b, h)
<1> DEFINE A == {i \in DOMAIN a : RefersTo(a[i], h)}
           B == {i \in DOMAIN b : RefersTo(b[i], h)}
           C == {i \in DOMAIN (a \o b) : i > Len(a) /\ RefersTo((a \o b)[i], h)}
           f == [i \in B |-> i + Len(a)]
<1>1. IsFiniteSet(A) /\ IsFiniteSet(B) BY PendingFinite
<1>2. {i \in DOMAIN (a \o b) : RefersTo((a \o b)[i], h)} = A \cup C OBVIOUS
<1>3. A \cap C = {} OBVIOUS
<1>4. IsFiniteSet(C) /\ Cardinality(C) = Cardinality(B)
  <2>1. f \in [B -> C] OBVIOUS
  <2>2. \A i, j \in B : f[i] = f[j] => i = j OBVIOUS
  <2>3. \A j \in C : j - Len(a) \in B /\ f[j - Len(a)] = j OBVIOUS
  <2> HIDE DEF B, C, f
  <2> QED BY <1>1, <2>1, <2>2, <2>3, SameSize
<1>5. Cardinality(A \cup C) = Cardinality(A) + Cardinality(B)
  BY <1>1, <1>3, <1>4, DisjointSize
<1> QED BY <1>2, <1>5 DEF PendingIn

LEMMA PendingPop ==
    ASSUME NEW S, NEW a \in Seq(S), a # <<>>, NEW h
    PROVE  /\ Tail(a) \in Seq(S)
           /\ PendingIn(a, h) = References(Head(a), h)
                                + PendingIn(Tail(a), h)
<1>1. /\ <<Head(a)>> \in Seq(S) /\ Tail(a) \in Seq(S)
      /\ a = <<Head(a)>> \o Tail(a)
  OBVIOUS
<1>2. PendingIn(a, h) = PendingIn(<<Head(a)>>, h) + PendingIn(Tail(a), h)
  <2>1. PICK b, c : b = <<Head(a)>> /\ c = Tail(a) OBVIOUS
  <2>2. b \in Seq(S) /\ c \in Seq(S) /\ a = b \o c BY <1>1, <2>1
  <2>3. PendingIn(b \o c, h) = PendingIn(b, h) + PendingIn(c, h)
    BY <2>2, PendingConcat
  <2> QED BY <2>1, <2>2, <2>3
<1> QED BY <1>1, <1>2, PendingOne

LEMMA PendingSome ==
    ASSUME NEW S, NEW a \in Seq(S), NEW h, NEW i \in DOMAIN a,
           RefersTo(a[i], h)
    PROVE  PendingIn(a, h) >= 1
<1> DEFINE A == {j \in DOMAIN a : RefersTo(a[j], h)}
<1>1. IsFiniteSet(A) /\ {i} \subseteq A BY PendingFinite
<1>2. Cardinality({i}) <= Cardinality(A) /\ Cardinality({i}) = 1
  BY <1>1, FS_Subset, FS_Singleton
<1> QED BY <1>1, <1>2, FS_CardinalityType DEF PendingIn

LEMMA PendingNone ==
    ASSUME NEW a, NEW h, \A i \in DOMAIN a : ~RefersTo(a[i], h)
    PROVE  PendingIn(a, h) = 0
<1>1. {i \in DOMAIN a : RefersTo(a[i], h)} = {} OBVIOUS
<1> QED BY <1>1, FS_EmptySet DEF PendingIn

(* The references that some fields of a handle make. *)
CountOn(f, roles, h) == Cardinality({r \in roles : f[r] = h})

LEMMA CountInsert ==
    ASSUME NEW f, NEW D, IsFiniteSet(D), NEW r, r \notin D, NEW h,
           NEW E, E = D \cup {r}
    PROVE  /\ IsFiniteSet(E)
           /\ CountOn(f, D, h) \in Nat
           /\ CountOn(f, E, h) = CountOn(f, D, h) + Is(f[r], h)
<1> DEFINE A == {s \in D : f[s] = h}
<1>1. IsFiniteSet(E) /\ IsFiniteSet(A) BY FS_AddElement, FS_Subset
<1>2. CountOn(f, D, h) = Cardinality(A) /\ Cardinality(A) \in Nat
  BY <1>1, FS_CardinalityType DEF CountOn
<1>3. CASE f[r] = h
  <2>1. {s \in E : f[s] = h} = A \cup {r} /\ r \notin A BY <1>3
  <2>2. CountOn(f, E, h) = Cardinality(A \cup {r}) BY <2>1 DEF CountOn
  <2> HIDE DEF A
  <2>3. Cardinality(A \cup {r}) = Cardinality(A) + 1
    BY <1>1, <2>1, FS_AddElement
  <2>4. Is(f[r], h) = 1 BY <1>3 DEF Is
  <2> QED BY <1>1, <1>2, <2>2, <2>3, <2>4
<1>4. CASE f[r] # h
  <2>1. {s \in E : f[s] = h} = A BY <1>4
  <2>2. CountOn(f, E, h) = Cardinality(A) BY <2>1 DEF CountOn
  <2>3. Is(f[r], h) = 0 BY <1>4 DEF Is
  <2> HIDE DEF A
  <2> QED BY <1>1, <1>2, <2>2, <2>3
<1> QED BY <1>3, <1>4

LEMMA CountNone ==
    ASSUME NEW f, NEW h, NEW D, D = {}
    PROVE  IsFiniteSet(D) /\ CountOn(f, D, h) = 0
<1>1. {r \in D : f[r] = h} = {} OBVIOUS
<1> QED BY <1>1, FS_EmptySet DEF CountOn

LEMMA CountOne ==
    ASSUME NEW f, NEW a, NEW h, NEW D, D = {a}
    PROVE  IsFiniteSet(D) /\ CountOn(f, D, h) = Is(f[a], h)
<1> DEFINE O == {}
<1>1. D = O \cup {a} /\ a \notin O OBVIOUS
<1>2. IsFiniteSet(O) /\ CountOn(f, O, h) = 0 BY CountNone
<1> HIDE DEF O
<1>3. IsFiniteSet(D) /\ CountOn(f, D, h) = CountOn(f, O, h) + Is(f[a], h)
  BY <1>1, <1>2, CountInsert
<1> QED BY <1>2, <1>3 DEF Is

LEMMA CountTwo ==
    ASSUME NEW f, NEW a, NEW b, a # b, NEW h, NEW D, D = {a, b}
    PROVE  /\ IsFiniteSet(D)
           /\ CountOn(f, D, h) = Is(f[a], h) + Is(f[b], h)
<1> DEFINE O == {a}
<1>1. D = O \cup {b} /\ b \notin O /\ O = {a} OBVIOUS
<1> HIDE DEF O
<1>2. IsFiniteSet(O) /\ CountOn(f, O, h) = Is(f[a], h) BY <1>1, CountOne
<1>3. IsFiniteSet(D) /\ CountOn(f, D, h) = CountOn(f, O, h) + Is(f[b], h)
  BY <1>1, <1>2, CountInsert
<1> QED BY <1>2, <1>3

LEMMA CountThree ==
    ASSUME NEW f, NEW a, NEW b, NEW c, a # b, c \notin {a, b}, NEW h,
           NEW D, D = {a, b, c}
    PROVE  /\ IsFiniteSet(D)
           /\ CountOn(f, D, h) = Is(f[a], h) + Is(f[b], h) + Is(f[c], h)
<1> DEFINE O == {a, b}
<1>1. D = O \cup {c} /\ c \notin O /\ O = {a, b} OBVIOUS
<1> HIDE DEF O
<1>2. IsFiniteSet(O) /\ CountOn(f, O, h) = Is(f[a], h) + Is(f[b], h)
  BY <1>1, CountTwo
<1>3. IsFiniteSet(D) /\ CountOn(f, D, h) = CountOn(f, O, h) + Is(f[c], h)
  BY <1>1, <1>2, CountInsert
<1> QED BY <1>2, <1>3

LEMMA CountFour ==
    ASSUME NEW f, NEW a, NEW b, NEW c, NEW d, a # b, c \notin {a, b},
           d \notin {a, b, c}, NEW h, NEW D, D = {a, b, c, d}
    PROVE  /\ IsFiniteSet(D)
           /\ CountOn(f, D, h) =
                  Is(f[a], h) + Is(f[b], h) + Is(f[c], h) + Is(f[d], h)
<1> DEFINE O == {a, b, c}
<1>1. D = O \cup {d} /\ d \notin O /\ O = {a, b, c} OBVIOUS
<1> HIDE DEF O
<1>2. /\ IsFiniteSet(O)
      /\ CountOn(f, O, h) = Is(f[a], h) + Is(f[b], h) + Is(f[c], h)
  BY <1>1, CountThree
<1>3. IsFiniteSet(D) /\ CountOn(f, D, h) = CountOn(f, O, h) + Is(f[d], h)
  BY <1>1, <1>2, CountInsert
<1> QED BY <1>2, <1>3

LEMMA CountUnion ==
    ASSUME NEW f, NEW A, NEW B, IsFiniteSet(A), IsFiniteSet(B), A \cap B = {},
           NEW h, NEW D, D = A \cup B
    PROVE  /\ IsFiniteSet(D)
           /\ CountOn(f, D, h) = CountOn(f, A, h) + CountOn(f, B, h)
<1> DEFINE X == {r \in A : f[r] = h}
           Y == {r \in B : f[r] = h}
<1>1. IsFiniteSet(D) /\ IsFiniteSet(X) /\ IsFiniteSet(Y) BY FS_Union, FS_Subset
<1>2. X \cap Y = {} /\ {r \in D : f[r] = h} = X \cup Y OBVIOUS
<1>3. /\ CountOn(f, D, h) = Cardinality(X \cup Y)
      /\ CountOn(f, A, h) = Cardinality(X)
      /\ CountOn(f, B, h) = Cardinality(Y)
  BY <1>2 DEF CountOn
<1> HIDE DEF X, Y
<1> QED BY <1>1, <1>2, <1>3, DisjointSize

LEMMA CountExcept ==
    ASSUME NEW f, IsFiniteSet(DOMAIN f), NEW r \in DOMAIN f, NEW y, NEW h
    PROVE  /\ CountOf(f, h) \in Nat
           /\ CountOf([f EXCEPT ![r] = y], h) =
                  CountOf(f, h) - Is(f[r], h) + Is(y, h)
<1> DEFINE D == DOMAIN f \ {r}
           g == [f EXCEPT ![r] = y]
<1>1. IsFiniteSet(D) /\ r \notin D BY FS_Subset
<1>2. DOMAIN f = D \cup {r} /\ DOMAIN g = DOMAIN f /\ g[r] = y OBVIOUS
<1>3. CountOn(g, D, h) = CountOn(f, D, h)
  <2>1. {s \in D : g[s] = h} = {s \in D : f[s] = h} OBVIOUS
  <2> QED BY <2>1 DEF CountOn
<1> HIDE DEF D, g
<1>4. /\ CountOn(f, D, h) \in Nat
      /\ CountOn(f, DOMAIN f, h) = CountOn(f, D, h) + Is(f[r], h)
      /\ CountOn(g, DOMAIN g, h) = CountOn(g, D, h) + Is(g[r], h)
  BY <1>1, <1>2, CountInsert
<1>5. /\ CountOf(f, h) = CountOn(f, DOMAIN f, h)
      /\ CountOf(g, h) = CountOn(g, DOMAIN g, h)
  BY <1>2 DEF CountOf, CountOn
<1>6. Is(f[r], h) \in Nat /\ Is(y, h) \in Nat BY DEF Is
<1>7. CountOf(g, h) = CountOf(f, h) - Is(f[r], h) + Is(y, h)
  BY <1>2, <1>3, <1>4, <1>5, <1>6
<1> QED BY <1>4, <1>5, <1>6, <1>7 DEF g

(* The pointers of all fields. *)
AllPointers(fields) == UNION {{x} \X DOMAIN fields[x] : x \in Blocks}
FiniteFields(fields) == \A x \in Blocks : IsFiniteSet(DOMAIN fields[x])

LEMMA PointersFinite ==
    ASSUME NEW F, FiniteFields(F)
    PROVE  IsFiniteSet(AllPointers(F))
<1> DEFINE T == {{x} \X DOMAIN F[x] : x \in Blocks}
           f == [x \in Blocks |-> {x} \X DOMAIN F[x]]
<1>1. f \in Surjection(Blocks, T) BY DEF Surjection
<1>2. IsFiniteSet(T)
  <2> HIDE DEF f, T
  <2> QED BY <1>1, FS_Surjection, HandleTreeAssumption
<1>3. ASSUME NEW S \in T PROVE IsFiniteSet(S)
  <2>1. PICK x \in Blocks : S = {x} \X DOMAIN F[x] OBVIOUS
  <2>2. IsFiniteSet({x}) /\ IsFiniteSet(DOMAIN F[x])
    BY FS_Singleton DEF FiniteFields
  <2> QED BY <2>1, <2>2, FS_Product
<1>4. IsFiniteSet(UNION T)
  <2> HIDE DEF T
  <2> QED BY <1>2, <1>3, FS_UNION
<1> QED BY <1>4 DEF AllPointers

(* The pointers to h of one handle, and of all others. *)
Elsewhere(fields, x, h) ==
    Cardinality({p \in AllPointers(fields) :
                    p[1] # x /\ fields[p[1]][p[2]] = h})

LEMMA PointersSplit ==
    ASSUME NEW F, FiniteFields(F), NEW x \in Blocks, NEW h
    PROVE  /\ PointersIn(F, h) = Elsewhere(F, x, h) + CountOf(F[x], h)
           /\ Elsewhere(F, x, h) \in Nat /\ CountOf(F[x], h) \in Nat
<1> DEFINE All == {p \in AllPointers(F) : F[p[1]][p[2]] = h}
           A == {p \in AllPointers(F) : p[1] # x /\ F[p[1]][p[2]] = h}
           B == {p \in AllPointers(F) : p[1] = x /\ F[p[1]][p[2]] = h}
           R == {r \in DOMAIN F[x] : F[x][r] = h}
           f == [r \in R |-> <<x, r>>]
<1>1. IsFiniteSet(A) /\ IsFiniteSet(B) BY PointersFinite, FS_Subset
<1>2. IsFiniteSet(R) BY FS_Subset DEF FiniteFields
<1>3. All = A \cup B /\ A \cap B = {} OBVIOUS
<1>4. Cardinality(B) = Cardinality(R)
  <2>1. f \in [R -> B] BY DEF AllPointers
  <2>2. \A r, s \in R : f[r] = f[s] => r = s OBVIOUS
  <2>3. \A p \in B : p[2] \in R /\ f[p[2]] = p BY DEF AllPointers
  <2> HIDE DEF R, B, f
  <2> QED BY <1>2, <2>1, <2>2, <2>3, SameSize
<1>5. /\ PointersIn(F, h) = Cardinality(All)
      /\ Elsewhere(F, x, h) = Cardinality(A)
      /\ CountOf(F[x], h) = Cardinality(R)
  BY DEF PointersIn, Elsewhere, CountOf, AllPointers
<1> HIDE DEF All, A, B, R, f
<1> QED BY <1>1, <1>2, <1>3, <1>4, <1>5, DisjointSize, FS_CardinalityType

LEMMA PointersChange ==
    ASSUME NEW F, FiniteFields(F), NEW G, FiniteFields(G), NEW x \in Blocks,
           \A y \in Blocks \ {x} : G[y] = F[y], NEW h
    PROVE  /\ PointersIn(F, h) \in Nat /\ PointersIn(G, h) \in Nat
           /\ CountOf(F[x], h) \in Nat /\ CountOf(G[x], h) \in Nat
           /\ PointersIn(F, h) >= CountOf(F[x], h)
           /\ PointersIn(G, h) =
                  PointersIn(F, h) - CountOf(F[x], h) + CountOf(G[x], h)
<1>1. {p \in AllPointers(F) : p[1] # x /\ F[p[1]][p[2]] = h} =
      {p \in AllPointers(G) : p[1] # x /\ G[p[1]][p[2]] = h}
  BY DEF AllPointers
<1>2. Elsewhere(F, x, h) = Elsewhere(G, x, h) BY <1>1 DEF Elsewhere
<1> QED BY <1>2, PointersSplit

LEMMA PointersSome ==
    ASSUME NEW F, FiniteFields(F), NEW x \in Blocks, NEW r \in DOMAIN F[x]
    PROVE  PointersIn(F, F[x][r]) >= 1
<1> DEFINE R == {s \in DOMAIN F[x] : F[x][s] = F[x][r]}
<1>1. IsFiniteSet(R) /\ {r} \subseteq R BY FS_Subset DEF FiniteFields
<1>2. Cardinality({r}) = 1 /\ Cardinality({r}) <= Cardinality(R)
  BY <1>1, FS_Subset, FS_Singleton
<1>3. CountOf(F[x], F[x][r]) = Cardinality(R) BY DEF CountOf
<1> QED BY <1>1, <1>2, <1>3, PointersSplit, FS_CardinalityType

(* The last rowid of one statement. *)
RowidOf(rowids, closed, s, h) ==
    IF rowids[s] = h /\ ~closed[s] THEN 1 ELSE 0

RowidsBut(rowids, closed, s, h) ==
    Cardinality({y \in Blocks \ {s} : rowids[y] = h /\ ~closed[y]})

LEMMA RowidsSplit ==
    ASSUME NEW L, NEW C, NEW s \in Blocks, NEW h
    PROVE  /\ RowidsIn(L, C, h) = RowidsBut(L, C, s, h) + RowidOf(L, C, s, h)
           /\ RowidsBut(L, C, s, h) \in Nat
           /\ RowidOf(L, C, s, h) \in Nat
<1> DEFINE A == {y \in Blocks \ {s} : L[y] = h /\ ~C[y]}
<1>1. IsFiniteSet(A) /\ Cardinality(A) \in Nat /\ s \notin A
  BY FS_Subset, FS_CardinalityType, HandleTreeAssumption
<1>2. /\ IsFiniteSet(A \cup {s}) /\ Cardinality(A \cup {s}) = Cardinality(A) + 1
  <2> HIDE DEF A
  <2> QED BY <1>1, FS_AddElement
<1>3. RowidsIn(L, C, h) = Cardinality(A) + RowidOf(L, C, s, h)
  <2>1. CASE L[s] = h /\ ~C[s]
    <3>1. {y \in Blocks : L[y] = h /\ ~C[y]} = A \cup {s} BY <2>1
    <3> QED BY <1>2, <2>1, <3>1 DEF RowidsIn, RowidOf
  <2>2. CASE ~(L[s] = h /\ ~C[s])
    <3>1. {y \in Blocks : L[y] = h /\ ~C[y]} = A BY <2>2
    <3>2. RowidsIn(L, C, h) = Cardinality(A) /\ RowidOf(L, C, s, h) = 0
      BY <2>2, <3>1 DEF RowidsIn, RowidOf
    <3> QED BY <1>1, <3>2
  <2> QED BY <2>1, <2>2
<1>4. RowidOf(L, C, s, h) \in Nat BY DEF RowidOf
<1> QED BY <1>1, <1>3, <1>4 DEF RowidsBut

LEMMA RowidsMove ==
    ASSUME NEW L, NEW C, NEW M, NEW D, NEW s \in Blocks,
           \A y \in Blocks \ {s} : M[y] = L[y] /\ (D[y] <=> C[y]), NEW h
    PROVE  RowidsIn(M, D, h) = RowidsIn(L, C, h) - RowidOf(L, C, s, h)
                               + RowidOf(M, D, s, h)
<1>1. {y \in Blocks \ {s} : L[y] = h /\ ~C[y]} =
      {y \in Blocks \ {s} : M[y] = h /\ ~D[y]}
  OBVIOUS
<1>2. RowidsBut(L, C, s, h) = RowidsBut(M, D, s, h) BY <1>1 DEF RowidsBut
<1> QED BY <1>2, RowidsSplit

-----------------------------------------------------------------------------
(* The fields of each kind of handle, the kinds of what they point to, and  *)
(* those that are never NULL.                                               *)
RolesOf(k) ==
    CASE k \in {"lob", "deqOptions", "enqOptions", "json", "sodaDb"} -> {"conn"}
      [] k = "objectType" -> {"conn", "element"}
      [] k = "objectAttr" -> {"belongsTo", "valueType"}
      [] k = "object" -> {"type", "dependsOn"}
      [] k = "msgProps" -> {"conn", "payloadObj", "payloadJson"}
      [] k \in Queues -> {"conn", "payloadType", "deqOptions", "enqOptions",
                          "first", "second"}
      [] k \in {"sodaColl", "sodaDoc", "sodaCollCursor"} -> {"db"}
      [] k = "sodaDocCursor" -> {"coll"}
      [] k \in StmtKinds -> {"conn", "bind", "column"}
      [] k \in VarKinds -> {"conn", "type", "value", "returned"}
      [] OTHER -> {}

Contents(k) == IF k = "longVar" THEN {"lob"} ELSE ContentKinds[k]
KindsOf(k, r) ==
    CASE r = "conn" -> {"conn"}
      [] r \in {"element", "belongsTo", "valueType", "type", "payloadType"} ->
             {"objectType"}
      [] r \in {"dependsOn", "payloadObj"} -> {"object"}
      [] r = "payloadJson" -> {"json"}
      [] r = "deqOptions" -> {"deqOptions"}
      [] r = "enqOptions" -> {"enqOptions"}
      [] r \in {"first", "second"} -> {"msgProps"}
      [] r = "db" -> {"sodaDb"}
      [] r = "coll" -> {"sodaColl"}
      [] r \in {"bind", "column"} -> VarKinds
      [] r \in {"value", "returned"} -> Contents(k)
Required(k) == {"conn", "belongsTo", "db", "coll"}
               \cup (IF k \in {"object", "objectVar"} THEN {"type"} ELSE {})

(* Kinds of work: freeing a handle, the loops that close a connection,      *)
(* closing a statement, and what a public function does last.               *)
FreeWorks == {"free", "freeStmt", "freeMemory"}
SweepWorks == {"closeObjects", "closeStmts", "closeLobs", "endSession"}
CloseWorks == {"closeStmt", "releaseStmt"}
LastWorks == {"give", "define", "bind", "populate", "dequeue", "lastRowid"}

FreesIn(works, h) ==
    \E i \in DOMAIN works : works[i].do \in FreeWorks /\ works[i].h = h
ForgetsIn(works, h) ==
    \E i \in DOMAIN works : works[i].do = "freeMemory" /\ works[i].h = h
EndsIn(works, s) ==
    \E i \in DOMAIN works : works[i].do = "freeStmt" /\ works[i].h = s
Releases(works, s) ==
    \E i \in DOMAIN works : works[i].do = "releaseStmt" /\ works[i].h = s

(* A handle that is not, or about to be no longer, there; one that still    *)
(* has its fields; and the references that there are to it.                 *)
Dead(h) == mem[h] # "live" \/ FreesIn(todo, h)
KeepsFields(h) == mem[h] = "live" /\ ~ForgetsIn(todo, h)
Forgotten(h) == IF h \in lost THEN 1 ELSE 0
Counted(h) == user[h] + PendingIn(todo, h) + PointersIn(field, h)
              + RowidsIn(lastRowid, closing, h) + Forgotten(h)

-----------------------------------------------------------------------------
(* The inductive invariant. *)
WorkNames == {"unref", "prefetch", "freeEnv", "freeTransaction"}
             \cup FreeWorks \cup SweepWorks \cup CloseWorks \cup LastWorks
Reasons == {"none", "new", "convert", "null", "returned", "fetch"}
Works == [do : WorkNames, h : Blocks, arg : Blocks \cup {NULL}, i : Int,
          why : Reasons, propagate : BOOLEAN]

HandlesTypes ==
    /\ quota \in Scenarios
    /\ mem \in [Blocks -> {"unused", "live", "freed"}]
    /\ kind = [x \in Blocks |-> kind[x]]
    /\ refCount \in [Blocks -> Int]
    /\ field = [x \in Blocks |-> field[x]]
    /\ oci = [x \in Blocks |-> oci[x]]
    /\ closing \in [Blocks -> BOOLEAN]
    /\ lists \in [Lists -> [Slots -> Blocks \cup {NULL}]]
    /\ user \in [Blocks -> Nat]
    /\ todo \in Seq(Works)
    /\ lastRowid \in [Blocks -> Blocks \cup {NULL}]
    /\ lost \subseteq Blocks

(* What the kind of a block says of it. *)
KindOK(h) ==
    /\ kind[h] = "none" <=> mem[h] = "unused"
    /\ kind[h] = "conn" <=> h = Conn
    /\ kind[h] = "stmtVar" => Allowed("stmtVar")
    /\ lastRowid[h] # NULL => kind[h] = "dml" /\ Allowed("rowid")
    /\ lastRowid[h] # NULL => kind[lastRowid[h]] = "rowid"
    /\ h \in lost => IsVar(h)

(* The fields of a block are those of its kind and point to the right       *)
(* kinds of handles; a block that is not in use has none.                   *)
PointerOK(k, r, p) == IF p = NULL THEN r \notin Required(k)
                                  ELSE kind[p] \in KindsOf(k, r)
FieldsOK(x) ==
    IF KeepsFields(x)
    THEN /\ field[x] \in [RolesOf(kind[x]) -> Blocks \cup {NULL}]
         /\ \A r \in RolesOf(kind[x]) : PointerOK(kind[x], r, field[x][r])
         /\ kind[x] \in Queues /\ field[x].first = field[x].second =>
               field[x].first = NULL
    ELSE field[x] = NoFields

(* There is no reference to a dead handle; the count of any other is that   *)
(* of its references.  A message may lose a JSON value.                     *)
CountOK(h) ==
    IF Dead(h) THEN Counted(h) = 0
    ELSE /\ refCount[h] >= 1 /\ refCount[h] >= Counted(h)
         /\ kind[h] # "json" => refCount[h] = Counted(h)

(* The work that is left, a stack.  A handle is freed once.                 *)
FreedOnce(works) ==
    \A i, j \in DOMAIN works :
        i # j /\ works[i].do \in FreeWorks /\ works[j].do \in FreeWorks
        => works[i].h # works[j].h

(* What a public function does last is last, and a value is prefetched      *)
(* after everything that this may free.                                     *)
LastIsLast(works) ==
    \A i \in DOMAIN works : works[i].do \in LastWorks => i = Len(works)
PrefetchLate(works) ==
    \A i, j \in DOMAIN works : i < j /\ works[i].do = "prefetch" =>
        works[j].do \in LastWorks \cup {"prefetch"}
NewFirst(works) ==
    \A i \in DOMAIN works :
        works[i].do = "prefetch" /\ works[i].why = "new" =>
            /\ i = 1 /\ Len(works) = 2
            /\ \/ works[2].do = "give" /\ works[2].h = works[1].h
               \/ works[2].do = "define" /\ works[2].arg = works[1].h
GiveAlone(works) ==
    \A i \in DOMAIN works : works[i].do \in {"give", "define"} =>
        \/ i = 1
        \/ i = 2 /\ works[1].do = "prefetch" /\ works[1].why = "new"

(* Nothing waits for a function that may give up but the rest of the loops  *)
(* that close the connection.                                               *)
GivesUp(w) == w.do \in SweepWorks \cup CloseWorks /\ w.propagate
GivesUpAlone(works) ==
    \A i, j \in DOMAIN works : i < j /\ GivesUp(works[i]) =>
        works[j].do \in SweepWorks /\ works[j].propagate

(* The other loops are part of freeing the connection, and closing a        *)
(* statement is part of freeing it.                                         *)
OfFreeConn(w) == \/ w.do \in SweepWorks /\ ~w.propagate
                 \/ w.do \in {"freeEnv", "freeTransaction"}
ConnForgotten(works) ==
    \A i \in DOMAIN works : OfFreeConn(works[i]) =>
        \E j \in DOMAIN works :
            i < j /\ works[j].do = "freeMemory" /\ works[j].h = Conn
CloseFirst(works) ==
    \A i \in DOMAIN works : works[i].do = "closeStmt" =>
        /\ i = 1
        /\ ~works[1].propagate =>
              /\ 2 \in DOMAIN works
              /\ works[2].do = "freeStmt" /\ works[2].h = works[1].h
ReleaseEnds(works) ==
    \A i \in DOMAIN works : works[i].do = "releaseStmt" /\ ~works[i].propagate =>
        \E j \in DOMAIN works :
            i < j /\ works[j].do = "freeStmt" /\ works[j].h = works[i].h

Shape(works) ==
    /\ FreedOnce(works)
    /\ LastIsLast(works)
    /\ PrefetchLate(works)
    /\ NewFirst(works)
    /\ GiveAlone(works)
    /\ GivesUpAlone(works)
    /\ ConnForgotten(works)
    /\ CloseFirst(works)
    /\ ReleaseEnds(works)

(* A variable that the program holds, or by a statement of its.             *)
Anchored(v) ==
    \/ user[v] > 0
    \/ \E s \in Blocks : /\ user[s] > 0 /\ IsStmt(s)
                         /\ field[s].bind = v \/ field[s].column = v

(* What is known of the handles of a call that is left.                     *)
WorkOK(w) ==
    /\ w.do \in FreeWorks => mem[w.h] = "live"
    /\ w.do \in {"freeStmt", "closeStmt", "releaseStmt"} => IsStmt(w.h)
    /\ w.do = "give" => IsVar(w.h) /\ refCount[w.h] = 1
    /\ w.do = "define" =>
          /\ user[w.h] > 0 /\ IsStmt(w.h) /\ ~closing[w.h]
          /\ w.arg # NULL /\ IsVar(w.arg) /\ refCount[w.arg] = 1
    /\ w.do = "bind" =>
          /\ user[w.h] > 0 /\ IsStmt(w.h) /\ ~closing[w.h]
          /\ field[w.h].bind = NULL
          /\ w.arg # NULL /\ user[w.arg] > 0 /\ IsVar(w.arg)
    /\ w.do \in {"populate", "dequeue"} =>
          user[w.h] > 0 /\ kind[w.h] \in Queues
    /\ w.do = "populate" => w.i \in 1 .. Count(w.propagate)
    /\ w.do = "lastRowid" =>
          /\ user[w.h] > 0 /\ kind[w.h] = "dml" /\ ~closing[w.h]
          /\ lastRowid[w.h] = NULL /\ Allowed("rowid")
    /\ w.do = "prefetch" =>
          /\ IsVar(w.h) /\ kind[w.h] # "bytesVar"
          /\ w.why = "new" =>
                refCount[w.h] = 1 /\ field[w.h].value = NULL
          /\ w.why # "new" => Anchored(w.h)
    /\ w.do \in CloseWorks /\ w.propagate => Allowed("stmtVar") \/ user[w.h] > 0
    /\ w.do = "closeStmt" /\ w.propagate => ~Dead(w.h)
    /\ w.do \in SweepWorks => w.h = Conn
    /\ w.do \in SweepWorks /\ w.propagate => user[Conn] > 0
WorksOK == \A i \in DOMAIN todo : WorkOK(todo[i])

(* A statement that has no fields is closed; a closed one holds nothing,    *)
(* and the end of freeing one comes after closing it.                       *)
StmtOK(s) ==
    /\ mem[s] = "unused" => ~closing[s]
    /\ IsStmt(s) /\ ~KeepsFields(s) => closing[s]
    /\ IsStmt(s) /\ KeepsFields(s) /\ closing[s] =>
          field[s].bind = NULL /\ field[s].column = NULL
    /\ IsStmt(s) /\ closing[s] /\ oci[s] = "open" => Releases(todo, s)
EndOK == \A i \in DOMAIN todo :
    todo[i].do = "freeStmt" =>
        \/ closing[todo[i].h]
        \/ i = 2 /\ todo[1].do = "closeStmt" /\ todo[1].h = todo[2].h

(* What the lists hold and nobody has closed is there.                      *)
ListedOK(l, h) ==
    /\ h # NULL => kind[h] \in Listed[l]
    /\ h # NULL /\ ~closing[h] => KeepsFields(h)
ListsOK == \A l \in Lists : \A i \in Slots : ListedOK(l, lists[l][i])

Inv ==
    /\ HandlesTypes
    /\ \A h \in Blocks : KindOK(h) /\ FieldsOK(h) /\ CountOK(h) /\ StmtOK(h)
    /\ Shape(todo) /\ WorksOK /\ EndOK
    /\ ListsOK

(* A statement that cannot be released stays closed, unless it is one whose *)
(* last rowid would be released twice, or that is the value of a variable.  *)
ReleasesCleanly ==
    \A s \in Scenarios :
        "releaseFails" \in DOMAIN s => {"stmtVar", "rowid"} \cap DOMAIN s = {}

-----------------------------------------------------------------------------
(* What the invariant says of single handles. *)
LEMMA RolesFinite == \A k : IsFiniteSet(RolesOf(k))
<1> TAKE k
<1>0. ASSUME NEW D, D = {} PROVE IsFiniteSet(D) BY <1>0, FS_EmptySet
<1>1. ASSUME NEW a, NEW D, D = {a} PROVE IsFiniteSet(D) BY <1>1, FS_Singleton
<1>2. ASSUME NEW a, NEW b, NEW D, D = {a, b} PROVE IsFiniteSet(D)
  <2>1. D = {a} \cup {b} BY <1>2
  <2> QED BY <1>1, <2>1, FS_Union
<1>3. ASSUME NEW a, NEW b, NEW c, NEW D, D = {a, b, c} PROVE IsFiniteSet(D)
  <2>1. D = {a, b} \cup {c} BY <1>3
  <2> QED BY <1>1, <1>2, <2>1, FS_Union
<1>4. ASSUME NEW D,
             D = {"conn", "payloadType", "deqOptions", "enqOptions", "first",
                  "second"}
      PROVE  IsFiniteSet(D)
  <2>1. D = {"conn", "payloadType", "deqOptions"}
            \cup {"enqOptions", "first", "second"}
    BY <1>4
  <2> QED BY <1>3, <2>1, FS_Union
<1>5. ASSUME NEW D, D = {"conn", "type", "value", "returned"}
      PROVE  IsFiniteSet(D)
  <2>1. D = {"conn", "type"} \cup {"value", "returned"} BY <1>5
  <2> QED BY <1>2, <2>1, FS_Union
<1>6. \/ RolesOf(k) = {}
      \/ RolesOf(k) = {"conn"}
      \/ RolesOf(k) = {"db"}
      \/ RolesOf(k) = {"coll"}
      \/ RolesOf(k) = {"conn", "element"}
      \/ RolesOf(k) = {"belongsTo", "valueType"}
      \/ RolesOf(k) = {"type", "dependsOn"}
      \/ RolesOf(k) = {"conn", "payloadObj", "payloadJson"}
      \/ RolesOf(k) = {"conn", "bind", "column"}
      \/ RolesOf(k) = {"conn", "payloadType", "deqOptions", "enqOptions",
                       "first", "second"}
      \/ RolesOf(k) = {"conn", "type", "value", "returned"}
  BY DEF RolesOf
<1> HIDE DEF RolesOf
<1> QED BY <1>0, <1>1, <1>2, <1>3, <1>4, <1>5, <1>6

LEMMA FieldsFinite == ASSUME Inv PROVE FiniteFields(field)
<1> SUFFICES ASSUME NEW x \in Blocks PROVE IsFiniteSet(DOMAIN field[x])
  BY DEF FiniteFields
<1>1. DOMAIN field[x] = RolesOf(kind[x]) \/ DOMAIN field[x] = {}
  BY DEF Inv, FieldsOK, NoFields
<1> QED BY <1>1, RolesFinite, FS_EmptySet

LEMMA RowidsNat ==
    ASSUME NEW L, NEW C, NEW h PROVE RowidsIn(L, C, h) \in Nat
<1>1. IsFiniteSet({s \in Blocks : L[s] = h /\ ~C[s]})
  BY FS_Subset, HandleTreeAssumption
<1> QED BY <1>1, FS_CardinalityType DEF RowidsIn

LEMMA PointersNat ==
    ASSUME NEW F, FiniteFields(F), NEW h PROVE PointersIn(F, h) \in Nat
<1>1. IsFiniteSet({p \in AllPointers(F) : F[p[1]][p[2]] = h})
  BY PointersFinite, FS_Subset
<1> QED BY <1>1, FS_CardinalityType DEF PointersIn, AllPointers

LEMMA Parts ==
    ASSUME Inv, NEW h \in Blocks
    PROVE  /\ user[h] \in Nat /\ PendingIn(todo, h) \in Nat
           /\ PointersIn(field, h) \in Nat
           /\ RowidsIn(lastRowid, closing, h) \in Nat
           /\ Forgotten(h) \in {0, 1} /\ Forgotten(h) \in Nat
           /\ Counted(h) \in Nat /\ refCount[h] \in Int
<1>1. user[h] \in Nat /\ refCount[h] \in Int /\ todo \in Seq(Works)
  BY DEF Inv, HandlesTypes
<1>2. PendingIn(todo, h) \in Nat BY <1>1, PendingFinite
<1>3. PointersIn(field, h) \in Nat /\ RowidsIn(lastRowid, closing, h) \in Nat
  BY FieldsFinite, PointersNat, RowidsNat
<1>4. Forgotten(h) \in {0, 1} BY DEF Forgotten
<1> QED BY <1>1, <1>2, <1>3, <1>4 DEF Counted

LEMMA DeadUnheld ==
    ASSUME Inv, NEW h \in Blocks, Dead(h)
    PROVE  /\ user[h] = 0 /\ PendingIn(todo, h) = 0 /\ PointersIn(field, h) = 0
           /\ RowidsIn(lastRowid, closing, h) = 0
           /\ Forgotten(h) = 0 /\ h \notin lost
<1>1. Counted(h) = 0 BY DEF Inv, CountOK
<1>2. /\ user[h] = 0 /\ PendingIn(todo, h) = 0 /\ PointersIn(field, h) = 0
      /\ RowidsIn(lastRowid, closing, h) = 0 /\ Forgotten(h) = 0
  BY <1>1, Parts DEF Counted
<1> QED BY <1>2 DEF Forgotten

LEMMA PointedAlive ==
    ASSUME Inv, NEW x \in Blocks, NEW r \in DOMAIN field[x],
           field[x][r] \in Blocks
    PROVE  ~Dead(field[x][r])
<1>1. PointersIn(field, field[x][r]) >= 1 BY FieldsFinite, PointersSome
<1> QED BY <1>1, DeadUnheld

LEMMA UsersAlive ==
    ASSUME Inv, NEW h \in Blocks, user[h] > 0
    PROVE  ~Dead(h) /\ mem[h] = "live" /\ KeepsFields(h)
<1>1. ~Dead(h) BY DeadUnheld
<1> QED BY <1>1 DEF Dead, KeepsFields, FreesIn, ForgetsIn, FreeWorks

LEMMA AliveKeeps ==
    ASSUME NEW h \in Blocks, ~Dead(h)
    PROVE  mem[h] = "live" /\ KeepsFields(h)
<1> QED BY DEF Dead, KeepsFields, FreesIn, ForgetsIn, FreeWorks

LEMMA PendingAlive ==
    ASSUME Inv, NEW h \in Blocks, NEW i \in DOMAIN todo, RefersTo(todo[i], h)
    PROVE  ~Dead(h)
<1>1. PendingIn(todo, h) >= 1 BY PendingSome DEF Inv, HandlesTypes
<1> QED BY <1>1, DeadUnheld

LEMMA RowidAlive ==
    ASSUME Inv, NEW s \in Blocks, lastRowid[s] \in Blocks, ~closing[s]
    PROVE  ~Dead(lastRowid[s])
<1> DEFINE h == lastRowid[s]
<1>1. RowidOf(lastRowid, closing, s, h) = 1 BY DEF RowidOf
<1>2. RowidsIn(lastRowid, closing, h) >= 1 BY <1>1, RowidsSplit
<1> QED BY <1>2, DeadUnheld

-----------------------------------------------------------------------------
(* Calls still to be made: one more, one less.                              *)
LEMMA Push ==
    ASSUME NEW S, NEW w \in S, NEW r \in Seq(S), NEW p, p = <<w>> \o r
    PROVE  /\ p \in Seq(S) /\ p # <<>> /\ Head(p) = w /\ Tail(p) = r
           /\ p[1] = w /\ Len(p) = Len(r) + 1 /\ Len(r) \in Nat
           /\ DOMAIN p = 1 .. Len(p) /\ DOMAIN r = 1 .. Len(r)
           /\ \A i \in DOMAIN r : i + 1 \in DOMAIN p /\ p[i + 1] = r[i]
           /\ \A i \in DOMAIN p : i # 1 => i - 1 \in DOMAIN r /\ p[i] = r[i - 1]
<1> QED OBVIOUS

LEMMA Pop ==
    ASSUME NEW S, NEW p \in Seq(S), p # <<>>
    PROVE  /\ Head(p) \in S /\ Tail(p) \in Seq(S) /\ p = <<Head(p)>> \o Tail(p)
           /\ p[1] = Head(p) /\ Len(p) = Len(Tail(p)) + 1
<1> QED OBVIOUS

LEMMA AmongPushed ==
    ASSUME NEW w \in Works, NEW r \in Seq(Works), NEW p, p = <<w>> \o r, NEW h
    PROVE  /\ FreesIn(p, h) <=> (w.do \in FreeWorks /\ w.h = h) \/ FreesIn(r, h)
           /\ ForgetsIn(p, h) <=>
                 (w.do = "freeMemory" /\ w.h = h) \/ ForgetsIn(r, h)
           /\ EndsIn(p, h) <=> (w.do = "freeStmt" /\ w.h = h) \/ EndsIn(r, h)
           /\ Releases(p, h) <=>
                 (w.do = "releaseStmt" /\ w.h = h) \/ Releases(r, h)
           /\ PendingIn(p, h) = References(w, h) + PendingIn(r, h)
           /\ PendingIn(r, h) \in Nat
<1>1. /\ 1 \in DOMAIN p /\ p[1] = w /\ p \in Seq(Works) /\ p # <<>>
      /\ Head(p) = w /\ Tail(p) = r
      /\ \A i \in DOMAIN r : i + 1 \in DOMAIN p /\ p[i + 1] = r[i]
      /\ \A i \in DOMAIN p : i # 1 => i - 1 \in DOMAIN r /\ p[i] = r[i - 1]
  BY Push
<1>2. FreesIn(p, h) <=> (w.do \in FreeWorks /\ w.h = h) \/ FreesIn(r, h)
  <2>1. ASSUME FreesIn(p, h) PROVE (w.do \in FreeWorks /\ w.h = h) \/ FreesIn(r, h)
    <3>1. PICK i \in DOMAIN p : p[i].do \in FreeWorks /\ p[i].h = h
      BY <2>1 DEF FreesIn
    <3>2. CASE i = 1 BY <1>1, <3>1, <3>2
    <3>3. CASE i # 1
      <4>1. i - 1 \in DOMAIN r /\ p[i] = r[i - 1] BY <1>1, <3>3
      <4> QED BY <3>1, <4>1 DEF FreesIn
    <3> QED BY <3>2, <3>3
  <2>2. ASSUME FreesIn(r, h) PROVE FreesIn(p, h)
    <3>1. PICK i \in DOMAIN r : r[i].do \in FreeWorks /\ r[i].h = h
      BY <2>2 DEF FreesIn
    <3>2. i + 1 \in DOMAIN p /\ p[i + 1] = r[i] BY <1>1
    <3> QED BY <3>1, <3>2 DEF FreesIn
  <2>3. w.do \in FreeWorks /\ w.h = h => FreesIn(p, h) BY <1>1 DEF FreesIn
  <2> QED BY <2>1, <2>2, <2>3
<1>3. ForgetsIn(p, h) <=> (w.do = "freeMemory" /\ w.h = h) \/ ForgetsIn(r, h)
  <2>1. ASSUME ForgetsIn(p, h) PROVE (w.do = "freeMemory" /\ w.h = h) \/ ForgetsIn(r, h)
    <3>1. PICK i \in DOMAIN p : p[i].do = "freeMemory" /\ p[i].h = h
      BY <2>1 DEF ForgetsIn
    <3>2. CASE i = 1 BY <1>1, <3>1, <3>2
    <3>3. CASE i # 1
      <4>1. i - 1 \in DOMAIN r /\ p[i] = r[i - 1] BY <1>1, <3>3
      <4> QED BY <3>1, <4>1 DEF ForgetsIn
    <3> QED BY <3>2, <3>3
  <2>2. ASSUME ForgetsIn(r, h) PROVE ForgetsIn(p, h)
    <3>1. PICK i \in DOMAIN r : r[i].do = "freeMemory" /\ r[i].h = h
      BY <2>2 DEF ForgetsIn
    <3>2. i + 1 \in DOMAIN p /\ p[i + 1] = r[i] BY <1>1
    <3> QED BY <3>1, <3>2 DEF ForgetsIn
  <2>3. w.do = "freeMemory" /\ w.h = h => ForgetsIn(p, h) BY <1>1 DEF ForgetsIn
  <2> QED BY <2>1, <2>2, <2>3
<1>4. EndsIn(p, h) <=> (w.do = "freeStmt" /\ w.h = h) \/ EndsIn(r, h)
  <2>1. ASSUME EndsIn(p, h) PROVE (w.do = "freeStmt" /\ w.h = h) \/ EndsIn(r, h)
    <3>1. PICK i \in DOMAIN p : p[i].do = "freeStmt" /\ p[i].h = h
      BY <2>1 DEF EndsIn
    <3>2. CASE i = 1 BY <1>1, <3>1, <3>2
    <3>3. CASE i # 1
      <4>1. i - 1 \in DOMAIN r /\ p[i] = r[i - 1] BY <1>1, <3>3
      <4> QED BY <3>1, <4>1 DEF EndsIn
    <3> QED BY <3>2, <3>3
  <2>2. ASSUME EndsIn(r, h) PROVE EndsIn(p, h)
    <3>1. PICK i \in DOMAIN r : r[i].do = "freeStmt" /\ r[i].h = h
      BY <2>2 DEF EndsIn
    <3>2. i + 1 \in DOMAIN p /\ p[i + 1] = r[i] BY <1>1
    <3> QED BY <3>1, <3>2 DEF EndsIn
  <2>3. w.do = "freeStmt" /\ w.h = h => EndsIn(p, h) BY <1>1 DEF EndsIn
  <2> QED BY <2>1, <2>2, <2>3
<1>5. Releases(p, h) <=> (w.do = "releaseStmt" /\ w.h = h) \/ Releases(r, h)
  <2>1. ASSUME Releases(p, h) PROVE (w.do = "releaseStmt" /\ w.h = h) \/ Releases(r, h)
    <3>1. PICK i \in DOMAIN p : p[i].do = "releaseStmt" /\ p[i].h = h
      BY <2>1 DEF Releases
    <3>2. CASE i = 1 BY <1>1, <3>1, <3>2
    <3>3. CASE i # 1
      <4>1. i - 1 \in DOMAIN r /\ p[i] = r[i - 1] BY <1>1, <3>3
      <4> QED BY <3>1, <4>1 DEF Releases
    <3> QED BY <3>2, <3>3
  <2>2. ASSUME Releases(r, h) PROVE Releases(p, h)
    <3>1. PICK i \in DOMAIN r : r[i].do = "releaseStmt" /\ r[i].h = h
      BY <2>2 DEF Releases
    <3>2. i + 1 \in DOMAIN p /\ p[i + 1] = r[i] BY <1>1
    <3> QED BY <3>1, <3>2 DEF Releases
  <2>3. w.do = "releaseStmt" /\ w.h = h => Releases(p, h) BY <1>1 DEF Releases
  <2> QED BY <2>1, <2>2, <2>3
<1>6. /\ PendingIn(p, h) = References(w, h) + PendingIn(r, h)
      /\ PendingIn(r, h) \in Nat
  BY <1>1, PendingPop, PendingFinite
<1> QED BY <1>2, <1>3, <1>4, <1>5, <1>6

(* Nothing is among the works of a call that must come next.                *)
Settled(works) ==
    \A i \in DOMAIN works :
        /\ works[i].do \notin {"give", "define", "closeStmt"}
        /\ works[i].do = "prefetch" => works[i].why # "new"
Ended(works) ==
    \A i \in DOMAIN works : works[i].do = "freeStmt" => closing[works[i].h]
GivenUp(works) ==
    \A i \in DOMAIN works : works[i].do \in SweepWorks /\ works[i].propagate

LEMMA ShapePop ==
    ASSUME NEW w \in Works, NEW r \in Seq(Works), NEW p, p = <<w>> \o r,
           Shape(p)
    PROVE  /\ Shape(r)
           /\ ~(w.do = "prefetch" /\ w.why = "new") => Settled(r)
           /\ w.do \in FreeWorks => ~FreesIn(r, w.h)
           /\ w.do \in LastWorks => r = <<>>
           /\ w.do = "prefetch" =>
                 \A i \in DOMAIN r : r[i].do \in LastWorks \cup {"prefetch"}
           /\ GivesUp(w) => GivenUp(r)
           /\ OfFreeConn(w) => ForgetsIn(r, Conn)
           /\ w.do = "closeStmt" /\ ~w.propagate =>
                 1 \in DOMAIN r /\ r[1].do = "freeStmt" /\ r[1].h = w.h
           /\ w.do = "releaseStmt" /\ ~w.propagate => EndsIn(r, w.h)
<1>1. /\ 1 \in DOMAIN p /\ p[1] = w /\ p \in Seq(Works) /\ p # <<>>
      /\ Len(p) = Len(r) + 1 /\ Len(r) \in Nat
      /\ DOMAIN p = 1 .. Len(p) /\ DOMAIN r = 1 .. Len(r)
      /\ \A i \in DOMAIN r : i + 1 \in DOMAIN p /\ p[i + 1] = r[i]
      /\ \A i \in DOMAIN p : i # 1 => i - 1 \in DOMAIN r /\ p[i] = r[i - 1]
  BY Push
<1>2. FreedOnce(r) /\ (w.do \in FreeWorks => ~FreesIn(r, w.h))
  <2>1. FreedOnce(p) BY DEF Shape
  <2>2. ASSUME NEW i \in DOMAIN r, NEW j \in DOMAIN r, i # j,
               r[i].do \in FreeWorks, r[j].do \in FreeWorks
        PROVE  r[i].h # r[j].h
    <3>1. /\ i + 1 \in DOMAIN p /\ p[i + 1] = r[i]
          /\ j + 1 \in DOMAIN p /\ p[j + 1] = r[j] /\ i + 1 # j + 1
      BY <1>1, <2>2
    <3> QED BY <2>1, <2>2, <3>1 DEF FreedOnce
  <2>3. ASSUME w.do \in FreeWorks, FreesIn(r, w.h) PROVE FALSE
    <3>1. PICK i \in DOMAIN r : r[i].do \in FreeWorks /\ r[i].h = w.h
      BY <2>3 DEF FreesIn
    <3>2. i + 1 \in DOMAIN p /\ p[i + 1] = r[i] /\ i + 1 # 1 BY <1>1
    <3> QED BY <1>1, <2>1, <2>3, <3>1, <3>2 DEF FreedOnce
  <2> QED BY <2>2, <2>3 DEF FreedOnce
<1>3. LastIsLast(r) /\ (w.do \in LastWorks => r = <<>>)
  <2>1. LastIsLast(p) BY DEF Shape
  <2>2. w.do \in LastWorks => Len(r) = 0 BY <1>1, <2>1 DEF LastIsLast
  <2>3. ASSUME NEW i \in DOMAIN r, r[i].do \in LastWorks PROVE i = Len(r)
    <3>1. i + 1 \in DOMAIN p /\ p[i + 1] = r[i] /\ i \in Int BY <1>1
    <3>2. i + 1 = Len(p) BY <2>1, <2>3, <3>1 DEF LastIsLast
    <3> QED BY <1>1, <3>1, <3>2
  <2> QED BY <2>2, <2>3 DEF LastIsLast
<1>4. /\ PrefetchLate(r)
      /\ w.do = "prefetch" =>
            \A i \in DOMAIN r : r[i].do \in LastWorks \cup {"prefetch"}
  <2>1. PrefetchLate(p) BY DEF Shape
  <2>2. ASSUME NEW i \in DOMAIN p, NEW j \in DOMAIN r, i <= j,
               p[i].do = "prefetch"
        PROVE  r[j].do \in LastWorks \cup {"prefetch"}
    <3>1. j + 1 \in DOMAIN p /\ p[j + 1] = r[j] /\ i < j + 1 BY <1>1, <2>2
    <3> QED BY <2>1, <2>2, <3>1 DEF PrefetchLate
  <2>3. ASSUME NEW i \in DOMAIN r, NEW j \in DOMAIN r, i < j,
               r[i].do = "prefetch"
        PROVE  r[j].do \in LastWorks \cup {"prefetch"}
    <3>1. i + 1 \in DOMAIN p /\ p[i + 1] = r[i] /\ i + 1 <= j BY <1>1, <2>3
    <3> QED BY <2>2, <2>3, <3>1
  <2>4. \A j \in DOMAIN r : 1 <= j BY <1>1
  <2> QED BY <1>1, <2>2, <2>3, <2>4 DEF PrefetchLate
<1>5. /\ NewFirst(r)
      /\ \A i \in DOMAIN r : ~(r[i].do = "prefetch" /\ r[i].why = "new")
  <2>1. NewFirst(p) BY DEF Shape
  <2>2. \A i \in DOMAIN r : ~(r[i].do = "prefetch" /\ r[i].why = "new")
    <3> SUFFICES ASSUME NEW i \in DOMAIN r, r[i].do = "prefetch",
                        r[i].why = "new"
                 PROVE  FALSE
      OBVIOUS
    <3>1. i + 1 \in DOMAIN p /\ p[i + 1] = r[i] /\ i + 1 # 1 BY <1>1
    <3> QED BY <2>1, <3>1 DEF NewFirst
  <2> QED BY <2>2 DEF NewFirst
<1>6. /\ GiveAlone(r)
      /\ ~(w.do = "prefetch" /\ w.why = "new") =>
            \A i \in DOMAIN r : r[i].do \notin {"give", "define"}
  <2>1. GiveAlone(p) BY DEF Shape
  <2>2. ASSUME NEW i \in DOMAIN r, r[i].do \in {"give", "define"}
        PROVE  i = 1 /\ w.do = "prefetch" /\ w.why = "new"
    <3>1. i + 1 \in DOMAIN p /\ p[i + 1] = r[i] /\ i + 1 # 1 /\ i \in Int
      BY <1>1
    <3>2. i + 1 = 2 /\ p[1].do = "prefetch" /\ p[1].why = "new"
      BY <2>1, <2>2, <3>1 DEF GiveAlone
    <3> QED BY <1>1, <3>1, <3>2
  <2> QED BY <2>2 DEF GiveAlone
<1>7. GivesUpAlone(r) /\ (GivesUp(w) => GivenUp(r))
  <2>1. GivesUpAlone(p) BY DEF Shape
  <2>2. ASSUME NEW i \in DOMAIN p, NEW j \in DOMAIN r, i <= j, GivesUp(p[i])
        PROVE  r[j].do \in SweepWorks /\ r[j].propagate
    <3>1. j + 1 \in DOMAIN p /\ p[j + 1] = r[j] /\ i < j + 1 BY <1>1, <2>2
    <3> QED BY <2>1, <2>2, <3>1 DEF GivesUpAlone
  <2>3. ASSUME NEW i \in DOMAIN r, NEW j \in DOMAIN r, i < j, GivesUp(r[i])
        PROVE  r[j].do \in SweepWorks /\ r[j].propagate
    <3>1. i + 1 \in DOMAIN p /\ p[i + 1] = r[i] /\ i + 1 <= j BY <1>1, <2>3
    <3> QED BY <2>2, <2>3, <3>1
  <2>4. \A j \in DOMAIN r : 1 <= j BY <1>1
  <2>5. GivesUp(w) => GivenUp(r) BY <1>1, <2>2, <2>4 DEF GivenUp
  <2> QED BY <2>3, <2>5 DEF GivesUpAlone
<1>8. ConnForgotten(r) /\ (OfFreeConn(w) => ForgetsIn(r, Conn))
  <2>1. ConnForgotten(p) BY DEF Shape
  <2>2. ASSUME NEW i \in DOMAIN p, OfFreeConn(p[i])
        PROVE  \E j \in DOMAIN r : /\ i <= j /\ r[j].do = "freeMemory"
                                   /\ r[j].h = Conn
    <3>1. PICK j \in DOMAIN p : i < j /\ p[j].do = "freeMemory" /\ p[j].h = Conn
      BY <2>1, <2>2 DEF ConnForgotten
    <3>2. j - 1 \in DOMAIN r /\ i <= j - 1 /\ p[j] = r[j - 1] BY <1>1, <3>1
    <3> QED BY <3>1, <3>2
  <2>3. ASSUME NEW i \in DOMAIN r, OfFreeConn(r[i])
        PROVE  \E j \in DOMAIN r : /\ i < j /\ r[j].do = "freeMemory"
                                   /\ r[j].h = Conn
    <3>1. i + 1 \in DOMAIN p /\ p[i + 1] = r[i] /\ i \in Int BY <1>1
    <3>2. PICK j \in DOMAIN r : /\ i + 1 <= j /\ r[j].do = "freeMemory"
                                /\ r[j].h = Conn
      BY <2>2, <2>3, <3>1
    <3>3. i < j BY <1>1, <3>1, <3>2
    <3> QED BY <3>2, <3>3
  <2>4. OfFreeConn(w) => ForgetsIn(r, Conn) BY <1>1, <2>2 DEF ForgetsIn
  <2> QED BY <2>3, <2>4 DEF ConnForgotten
<1>9. /\ CloseFirst(r)
      /\ \A i \in DOMAIN r : r[i].do # "closeStmt"
      /\ w.do = "closeStmt" /\ ~w.propagate =>
            1 \in DOMAIN r /\ r[1].do = "freeStmt" /\ r[1].h = w.h
  <2>1. CloseFirst(p) BY DEF Shape
  <2>2. \A i \in DOMAIN r : r[i].do # "closeStmt"
    <3> SUFFICES ASSUME NEW i \in DOMAIN r, r[i].do = "closeStmt" PROVE FALSE
      OBVIOUS
    <3>1. i + 1 \in DOMAIN p /\ p[i + 1] = r[i] /\ i + 1 # 1 BY <1>1
    <3> QED BY <2>1, <3>1 DEF CloseFirst
  <2>3. ASSUME w.do = "closeStmt", ~w.propagate
        PROVE  1 \in DOMAIN r /\ r[1].do = "freeStmt" /\ r[1].h = w.h
    <3>1. 2 \in DOMAIN p /\ p[2].do = "freeStmt" /\ p[2].h = p[1].h
      BY <1>1, <2>1, <2>3 DEF CloseFirst
    <3> QED BY <1>1, <3>1
  <2> QED BY <2>2, <2>3 DEF CloseFirst
<1>10. /\ ReleaseEnds(r)
       /\ w.do = "releaseStmt" /\ ~w.propagate => EndsIn(r, w.h)
  <2>1. ReleaseEnds(p) BY DEF Shape
  <2>2. ASSUME NEW i \in DOMAIN p, p[i].do = "releaseStmt", ~p[i].propagate
        PROVE  \E j \in DOMAIN r : /\ i <= j /\ r[j].do = "freeStmt"
                                   /\ r[j].h = p[i].h
    <3>1. PICK j \in DOMAIN p : i < j /\ p[j].do = "freeStmt" /\ p[j].h = p[i].h
      BY <2>1, <2>2 DEF ReleaseEnds
    <3>2. j - 1 \in DOMAIN r /\ i <= j - 1 /\ p[j] = r[j - 1] BY <1>1, <3>1
    <3> QED BY <3>1, <3>2
  <2>3. ASSUME NEW i \in DOMAIN r, r[i].do = "releaseStmt", ~r[i].propagate
        PROVE  \E j \in DOMAIN r : /\ i < j /\ r[j].do = "freeStmt"
                                   /\ r[j].h = r[i].h
    <3>1. i + 1 \in DOMAIN p /\ p[i + 1] = r[i] /\ i \in Int BY <1>1
    <3>2. PICK j \in DOMAIN r : /\ i + 1 <= j /\ r[j].do = "freeStmt"
                                /\ r[j].h = r[i].h
      BY <2>2, <2>3, <3>1
    <3>3. i < j BY <1>1, <3>1, <3>2
    <3> QED BY <3>2, <3>3
  <2>4. w.do = "releaseStmt" /\ ~w.propagate => EndsIn(r, w.h)
    BY <1>1, <2>2 DEF EndsIn
  <2> QED BY <2>3, <2>4 DEF ReleaseEnds
<1>11. Shape(r)
  BY <1>2, <1>3, <1>4, <1>5, <1>6, <1>7, <1>8, <1>9, <1>10 DEF Shape
<1>12. ~(w.do = "prefetch" /\ w.why = "new") => Settled(r)
  BY <1>5, <1>6, <1>9 DEF Settled
<1> QED BY <1>2, <1>3, <1>4, <1>7, <1>8, <1>9, <1>10, <1>11, <1>12

LEMMA ShapePush ==
    ASSUME NEW w \in Works, NEW r \in Seq(Works), NEW p, p = <<w>> \o r,
           Shape(r), Settled(r),
           w.do \in FreeWorks => ~FreesIn(r, w.h),
           w.do \in LastWorks => r = <<>>,
           w.do = "prefetch" =>
               /\ w.why # "new"
               /\ \A i \in DOMAIN r : r[i].do \in LastWorks \cup {"prefetch"},
           GivesUp(w) => GivenUp(r),
           OfFreeConn(w) => ForgetsIn(r, Conn),
           w.do = "closeStmt" /\ ~w.propagate =>
               1 \in DOMAIN r /\ r[1].do = "freeStmt" /\ r[1].h = w.h,
           w.do = "releaseStmt" /\ ~w.propagate => EndsIn(r, w.h)
    PROVE  /\ Shape(p)
           /\ w.do \notin {"give", "define", "closeStmt"} => Settled(p)
<1>1. /\ 1 \in DOMAIN p /\ p[1] = w /\ p \in Seq(Works) /\ p # <<>>
      /\ Len(p) = Len(r) + 1 /\ Len(r) \in Nat
      /\ DOMAIN p = 1 .. Len(p) /\ DOMAIN r = 1 .. Len(r)
      /\ \A i \in DOMAIN r : i + 1 \in DOMAIN p /\ p[i + 1] = r[i]
      /\ \A i \in DOMAIN p : i # 1 => i - 1 \in DOMAIN r /\ p[i] = r[i - 1]
  BY Push
<1>2. ASSUME NEW i \in DOMAIN p
      PROVE  \/ i = 1 /\ p[i] = w
             \/ i # 1 /\ i - 1 \in DOMAIN r /\ p[i] = r[i - 1]
  BY <1>1
<1>3. FreedOnce(p)
  <2> SUFFICES ASSUME NEW i \in DOMAIN p, NEW j \in DOMAIN p, i # j,
                      p[i].do \in FreeWorks, p[j].do \in FreeWorks
               PROVE  p[i].h # p[j].h
    BY DEF FreedOnce
  <2>1. CASE i = 1
    <3>1. j - 1 \in DOMAIN r /\ p[j] = r[j - 1] /\ p[i] = w BY <1>1, <1>2, <2>1
    <3> QED BY <3>1 DEF FreesIn
  <2>2. CASE j = 1
    <3>1. i - 1 \in DOMAIN r /\ p[i] = r[i - 1] /\ p[j] = w BY <1>1, <1>2, <2>2
    <3> QED BY <3>1 DEF FreesIn
  <2>3. CASE i # 1 /\ j # 1
    <3>1. /\ i - 1 \in DOMAIN r /\ p[i] = r[i - 1]
          /\ j - 1 \in DOMAIN r /\ p[j] = r[j - 1] /\ i - 1 # j - 1
      BY <1>1, <1>2, <2>3
    <3> QED BY <3>1 DEF Shape, FreedOnce
  <2> QED BY <2>1, <2>2, <2>3
<1>4. LastIsLast(p)
  <2> SUFFICES ASSUME NEW i \in DOMAIN p, p[i].do \in LastWorks
               PROVE  i = Len(p)
    BY DEF LastIsLast
  <2>1. CASE i = 1 BY <1>1, <2>1
  <2>2. CASE i # 1
    <3>1. i - 1 \in DOMAIN r /\ p[i] = r[i - 1] /\ i \in Int
      BY <1>1, <1>2, <2>2
    <3>2. i - 1 = Len(r) BY <3>1 DEF Shape, LastIsLast
    <3> QED BY <1>1, <3>1, <3>2
  <2> QED BY <2>1, <2>2
<1>5. PrefetchLate(p)
  <2> SUFFICES ASSUME NEW i \in DOMAIN p, NEW j \in DOMAIN p, i < j,
                      p[i].do = "prefetch"
               PROVE  p[j].do \in LastWorks \cup {"prefetch"}
    BY DEF PrefetchLate
  <2>1. j - 1 \in DOMAIN r /\ p[j] = r[j - 1] BY <1>1, <1>2
  <2>2. CASE i = 1 BY <1>1, <2>1, <2>2
  <2>3. CASE i # 1
    <3>1. i - 1 \in DOMAIN r /\ p[i] = r[i - 1] /\ i - 1 < j - 1
      BY <1>1, <1>2, <2>3
    <3> QED BY <2>1, <3>1 DEF Shape, PrefetchLate
  <2> QED BY <2>2, <2>3
<1>6. NewFirst(p)
  <2>1. ASSUME NEW i \in DOMAIN p, p[i].do = "prefetch", p[i].why = "new"
        PROVE  FALSE
    BY <1>1, <1>2, <2>1 DEF Settled
  <2> QED BY <2>1 DEF NewFirst
<1>7. GiveAlone(p)
  <2>1. ASSUME NEW i \in DOMAIN p, p[i].do \in {"give", "define"} PROVE i = 1
    BY <1>1, <1>2, <2>1 DEF Settled
  <2> QED BY <2>1 DEF GiveAlone
<1>8. GivesUpAlone(p)
  <2> SUFFICES ASSUME NEW i \in DOMAIN p, NEW j \in DOMAIN p, i < j,
                      GivesUp(p[i])
               PROVE  p[j].do \in SweepWorks /\ p[j].propagate
    BY DEF GivesUpAlone
  <2>1. j - 1 \in DOMAIN r /\ p[j] = r[j - 1] BY <1>1, <1>2
  <2>2. CASE i = 1 BY <1>1, <2>1, <2>2 DEF GivenUp
  <2>3. CASE i # 1
    <3>1. i - 1 \in DOMAIN r /\ p[i] = r[i - 1] /\ i - 1 < j - 1
      BY <1>1, <1>2, <2>3
    <3> QED BY <2>1, <3>1 DEF Shape, GivesUpAlone
  <2> QED BY <2>2, <2>3
<1>9. ConnForgotten(p)
  <2> SUFFICES ASSUME NEW i \in DOMAIN p, OfFreeConn(p[i])
               PROVE  \E j \in DOMAIN p : /\ i < j /\ p[j].do = "freeMemory"
                                          /\ p[j].h = Conn
    BY DEF ConnForgotten
  <2>1. CASE i = 1
    <3>1. PICK j \in DOMAIN r : r[j].do = "freeMemory" /\ r[j].h = Conn
      BY <1>1, <2>1 DEF ForgetsIn
    <3>2. j + 1 \in DOMAIN p /\ p[j + 1] = r[j] /\ i < j + 1 BY <1>1, <2>1
    <3> QED BY <3>1, <3>2
  <2>2. CASE i # 1
    <3>1. i - 1 \in DOMAIN r /\ p[i] = r[i - 1] /\ i \in Int
      BY <1>1, <1>2, <2>2
    <3>2. PICK j \in DOMAIN r : /\ i - 1 < j /\ r[j].do = "freeMemory"
                                /\ r[j].h = Conn
      BY <3>1 DEF Shape, ConnForgotten
    <3>3. j + 1 \in DOMAIN p /\ p[j + 1] = r[j] /\ i < j + 1
      BY <1>1, <3>1, <3>2
    <3> QED BY <3>2, <3>3
  <2> QED BY <2>1, <2>2
<1>10. CloseFirst(p)
  <2>1. \A i \in DOMAIN p : p[i].do = "closeStmt" => i = 1
    BY <1>1, <1>2 DEF Settled
  <2>2. ASSUME p[1].do = "closeStmt", ~p[1].propagate
        PROVE  2 \in DOMAIN p /\ p[2].do = "freeStmt" /\ p[2].h = p[1].h
    <3>1. 1 + 1 \in DOMAIN p /\ p[1 + 1] = r[1] BY <1>1, <2>2
    <3> QED BY <1>1, <2>2, <3>1
  <2> QED BY <2>1, <2>2 DEF CloseFirst
<1>11. ReleaseEnds(p)
  <2> SUFFICES ASSUME NEW i \in DOMAIN p, p[i].do = "releaseStmt",
                      ~p[i].propagate
               PROVE  \E j \in DOMAIN p : /\ i < j /\ p[j].do = "freeStmt"
                                          /\ p[j].h = p[i].h
    BY DEF ReleaseEnds
  <2>1. CASE i = 1
    <3>1. PICK j \in DOMAIN r : r[j].do = "freeStmt" /\ r[j].h = p[i].h
      BY <1>1, <2>1 DEF EndsIn
    <3>2. j + 1 \in DOMAIN p /\ p[j + 1] = r[j] /\ i < j + 1 BY <1>1, <2>1
    <3> QED BY <3>1, <3>2
  <2>2. CASE i # 1
    <3>1. i - 1 \in DOMAIN r /\ p[i] = r[i - 1] /\ i \in Int
      BY <1>1, <1>2, <2>2
    <3>2. PICK j \in DOMAIN r : /\ i - 1 < j /\ r[j].do = "freeStmt"
                                /\ r[j].h = p[i].h
      BY <3>1 DEF Shape, ReleaseEnds
    <3>3. j + 1 \in DOMAIN p /\ p[j + 1] = r[j] /\ i < j + 1
      BY <1>1, <3>1, <3>2
    <3> QED BY <3>2, <3>3
  <2> QED BY <2>1, <2>2
<1>12. Shape(p)
  BY <1>3, <1>4, <1>5, <1>6, <1>7, <1>8, <1>9, <1>10, <1>11 DEF Shape
<1>13. ASSUME w.do \notin {"give", "define", "closeStmt"}
       PROVE  Settled(p)
  <2> SUFFICES ASSUME NEW i \in DOMAIN p
               PROVE  /\ p[i].do \notin {"give", "define", "closeStmt"}
                      /\ p[i].do = "prefetch" => p[i].why # "new"
    BY DEF Settled
  <2> QED BY <1>1, <1>2, <1>13 DEF Settled
<1> QED BY <1>12, <1>13

LEMMA NoWorkShape ==
    /\ Shape(<<>>) /\ Settled(<<>>) /\ GivenUp(<<>>) /\ <<>> \in Seq(Works)
    /\ \A h : /\ ~FreesIn(<<>>, h) /\ ~ForgetsIn(<<>>, h) /\ ~EndsIn(<<>>, h)
              /\ ~Releases(<<>>, h) /\ PendingIn(<<>>, h) = 0
<1>1. DOMAIN <<>> = {} /\ <<>> \in Seq(Works) OBVIOUS
<1>2. Shape(<<>>)
  BY <1>1 DEF Shape, FreedOnce, LastIsLast, PrefetchLate, NewFirst, GiveAlone,
     GivesUpAlone, ConnForgotten, CloseFirst, ReleaseEnds
<1>3. Settled(<<>>) /\ GivenUp(<<>>) BY <1>1 DEF Settled, GivenUp
<1>4. ASSUME NEW h
      PROVE  /\ ~FreesIn(<<>>, h) /\ ~ForgetsIn(<<>>, h) /\ ~EndsIn(<<>>, h)
             /\ ~Releases(<<>>, h)
  BY <1>1 DEF FreesIn, ForgetsIn, EndsIn, Releases
<1> QED BY <1>1, <1>2, <1>3, <1>4, PendingEmpty

(* References to give back, and nothing else. *)
Unrefs(works) == \A i \in DOMAIN works : works[i].do = "unref"

LEMMA UnrefsPushed ==
    ASSUME NEW u \in Seq(Works), Unrefs(u), NEW r \in Seq(Works),
           NEW p, p = u \o r, Shape(r), Settled(r)
    PROVE  /\ p \in Seq(Works) /\ Shape(p) /\ Settled(p)
           /\ \A h : /\ FreesIn(p, h) <=> FreesIn(r, h)
                     /\ ForgetsIn(p, h) <=> ForgetsIn(r, h)
                     /\ EndsIn(p, h) <=> EndsIn(r, h)
                     /\ Releases(p, h) <=> Releases(r, h)
                     /\ PendingIn(p, h) = PendingIn(u, h) + PendingIn(r, h)
           /\ \A i \in DOMAIN p :
                 \/ p[i].do = "unref"
                 \/ \E j \in DOMAIN r : p[i] = r[j]
<1> DEFINE n == Len(u)
<1>1. /\ p \in Seq(Works) /\ n \in Nat /\ Len(r) \in Nat
      /\ Len(p) = n + Len(r) /\ DOMAIN p = 1 .. Len(p) /\ DOMAIN u = 1 .. n
      /\ DOMAIN r = 1 .. Len(r)
  OBVIOUS
<1>2. \A i \in DOMAIN p : i <= n => i \in DOMAIN u /\ p[i] = u[i] OBVIOUS
<1>3. \A i \in DOMAIN p : ~(i <= n) => i - n \in DOMAIN r /\ p[i] = r[i - n]
  OBVIOUS
<1>4. \A i \in DOMAIN r : i + n \in DOMAIN p /\ p[i + n] = r[i] OBVIOUS
<1>5. \A i \in DOMAIN p : i <= n => p[i].do = "unref" BY <1>2 DEF Unrefs
<1> HIDE DEF n
<1>6. ASSUME NEW i \in DOMAIN p, p[i].do # "unref"
      PROVE  i - n \in DOMAIN r /\ p[i] = r[i - n] /\ i \in Int /\ n \in Nat
  BY <1>1, <1>3, <1>5, <1>6
<1>7. FreedOnce(p)
  <2> SUFFICES ASSUME NEW i \in DOMAIN p, NEW j \in DOMAIN p, i # j,
                      p[i].do \in FreeWorks, p[j].do \in FreeWorks
               PROVE  p[i].h # p[j].h
    BY DEF FreedOnce
  <2>1. i - n \in DOMAIN r /\ p[i] = r[i - n] /\ i \in Int /\ n \in Nat
    BY <1>6 DEF FreeWorks
  <2>2. j - n \in DOMAIN r /\ p[j] = r[j - n] /\ j \in Int
    BY <1>6 DEF FreeWorks
  <2>3. i - n # j - n BY <2>1, <2>2
  <2> QED BY <2>1, <2>2, <2>3 DEF Shape, FreedOnce
<1>8. LastIsLast(p)
  <2> SUFFICES ASSUME NEW i \in DOMAIN p, p[i].do \in LastWorks
               PROVE  i = Len(p)
    BY DEF LastIsLast
  <2>1. i - n \in DOMAIN r /\ p[i] = r[i - n] /\ i \in Int
    BY <1>6 DEF LastWorks
  <2>2. i - n = Len(r) BY <2>1 DEF Shape, LastIsLast
  <2> QED BY <1>1, <2>1, <2>2
<1>9. PrefetchLate(p)
  <2> SUFFICES ASSUME NEW i \in DOMAIN p, NEW j \in DOMAIN p, i < j,
                      p[i].do = "prefetch"
               PROVE  p[j].do \in LastWorks \cup {"prefetch"}
    BY DEF PrefetchLate
  <2>1. i - n \in DOMAIN r /\ p[i] = r[i - n] /\ i \in Int BY <1>6
  <2>2. j - n \in DOMAIN r /\ p[j] = r[j - n] /\ i - n < j - n
    BY <1>1, <1>3, <2>1
  <2> QED BY <2>1, <2>2 DEF Shape, PrefetchLate
<1>10. ASSUME NEW i \in DOMAIN p, p[i].do # "unref"
       PROVE  /\ p[i].do \notin {"give", "define", "closeStmt"}
              /\ p[i].do = "prefetch" => p[i].why # "new"
  <2>1. i - n \in DOMAIN r /\ p[i] = r[i - n] BY <1>6, <1>10
  <2> QED BY <2>1 DEF Settled
<1>11. Settled(p) /\ NewFirst(p) /\ GiveAlone(p) /\ CloseFirst(p)
  BY <1>10 DEF Settled, NewFirst, GiveAlone, CloseFirst
<1>12. GivesUpAlone(p)
  <2> SUFFICES ASSUME NEW i \in DOMAIN p, NEW j \in DOMAIN p, i < j,
                      GivesUp(p[i])
               PROVE  p[j].do \in SweepWorks /\ p[j].propagate
    BY DEF GivesUpAlone
  <2>1. i - n \in DOMAIN r /\ p[i] = r[i - n] /\ i \in Int
    BY <1>6 DEF GivesUp, SweepWorks, CloseWorks
  <2>2. j - n \in DOMAIN r /\ p[j] = r[j - n] /\ i - n < j - n
    BY <1>1, <1>3, <2>1
  <2> QED BY <2>1, <2>2 DEF Shape, GivesUpAlone
<1>13. ConnForgotten(p)
  <2> SUFFICES ASSUME NEW i \in DOMAIN p, OfFreeConn(p[i])
               PROVE  \E j \in DOMAIN p : /\ i < j /\ p[j].do = "freeMemory"
                                          /\ p[j].h = Conn
    BY DEF ConnForgotten
  <2>1. i - n \in DOMAIN r /\ p[i] = r[i - n] /\ i \in Int
    BY <1>6 DEF OfFreeConn, SweepWorks
  <2>2. PICK j \in DOMAIN r : /\ i - n < j /\ r[j].do = "freeMemory"
                              /\ r[j].h = Conn
    BY <2>1 DEF Shape, ConnForgotten
  <2>3. j + n \in DOMAIN p /\ p[j + n] = r[j] /\ i < j + n
    BY <1>1, <1>4, <2>1, <2>2
  <2> QED BY <2>2, <2>3
<1>14. ReleaseEnds(p)
  <2> SUFFICES ASSUME NEW i \in DOMAIN p, p[i].do = "releaseStmt",
                      ~p[i].propagate
               PROVE  \E j \in DOMAIN p : /\ i < j /\ p[j].do = "freeStmt"
                                          /\ p[j].h = p[i].h
    BY DEF ReleaseEnds
  <2>1. i - n \in DOMAIN r /\ p[i] = r[i - n] /\ i \in Int BY <1>6
  <2>2. PICK j \in DOMAIN r : /\ i - n < j /\ r[j].do = "freeStmt"
                              /\ r[j].h = p[i].h
    BY <2>1 DEF Shape, ReleaseEnds
  <2>3. j + n \in DOMAIN p /\ p[j + n] = r[j] /\ i < j + n
    BY <1>1, <1>4, <2>1, <2>2
  <2> QED BY <2>2, <2>3
<1>15. Shape(p) BY <1>7, <1>8, <1>9, <1>11, <1>12, <1>13, <1>14 DEF Shape
<1>16. ASSUME NEW h
       PROVE  /\ FreesIn(p, h) <=> FreesIn(r, h)
              /\ ForgetsIn(p, h) <=> ForgetsIn(r, h)
              /\ EndsIn(p, h) <=> EndsIn(r, h)
              /\ Releases(p, h) <=> Releases(r, h)
  <2>1. FreesIn(p, h) <=> FreesIn(r, h)
    <3>1. ASSUME FreesIn(p, h) PROVE FreesIn(r, h)
      <4>1. PICK i \in DOMAIN p : p[i].do \in FreeWorks /\ p[i].h = h
        BY <3>1 DEF FreesIn
      <4> QED BY <1>6, <4>1 DEF FreesIn, FreeWorks
    <3> QED BY <1>4, <3>1 DEF FreesIn
  <2>2. ForgetsIn(p, h) <=> ForgetsIn(r, h)
    <3>1. ASSUME ForgetsIn(p, h) PROVE ForgetsIn(r, h)
      <4>1. PICK i \in DOMAIN p : p[i].do = "freeMemory" /\ p[i].h = h
        BY <3>1 DEF ForgetsIn
      <4> QED BY <1>6, <4>1 DEF ForgetsIn
    <3> QED BY <1>4, <3>1 DEF ForgetsIn
  <2>3. EndsIn(p, h) <=> EndsIn(r, h)
    <3>1. ASSUME EndsIn(p, h) PROVE EndsIn(r, h)
      <4>1. PICK i \in DOMAIN p : p[i].do = "freeStmt" /\ p[i].h = h
        BY <3>1 DEF EndsIn
      <4> QED BY <1>6, <4>1 DEF EndsIn
    <3> QED BY <1>4, <3>1 DEF EndsIn
  <2>4. Releases(p, h) <=> Releases(r, h)
    <3>1. ASSUME Releases(p, h) PROVE Releases(r, h)
      <4>1. PICK i \in DOMAIN p : p[i].do = "releaseStmt" /\ p[i].h = h
        BY <3>1 DEF Releases
      <4> QED BY <1>6, <4>1 DEF Releases
    <3> QED BY <1>4, <3>1 DEF Releases
  <2> QED BY <2>1, <2>2, <2>3, <2>4
<1>17. \A h : PendingIn(p, h) = PendingIn(u, h) + PendingIn(r, h)
  BY PendingConcat
<1>18. \A i \in DOMAIN p : \/ p[i].do = "unref"
                           \/ \E j \in DOMAIN r : p[i] = r[j]
  BY <1>6
<1> QED BY <1>1, <1>11, <1>15, <1>16, <1>17, <1>18

LEMMA WorkTyped ==
    ASSUME NEW do \in WorkNames, NEW h \in Blocks
    PROVE  /\ WorkOn(do, h) \in Works
           /\ WorkOn(do, h).do = do /\ WorkOn(do, h).h = h
           /\ WorkOn(do, h).arg = NULL /\ WorkOn(do, h).propagate = FALSE
           /\ WorkOn(do, h).i = 0 /\ WorkOn(do, h).why = "none"
<1> QED BY DEF WorkOn, Works, Reasons

LEMMA UnrefOfOne ==
    ASSUME NEW q \in Blocks \cup {NULL}
    PROVE  /\ UnrefOf(q) \in Seq(Works) /\ Unrefs(UnrefOf(q))
           /\ \A h \in Blocks : PendingIn(UnrefOf(q), h) = Is(q, h)
<1>0. NULL \notin Blocks BY HandleTreeAssumption
<1>1. CASE q = NULL
  <2>1. UnrefOf(q) = <<>> BY <1>1 DEF UnrefOf
  <2>2. \A h \in Blocks : Is(q, h) = 0 BY <1>0, <1>1 DEF Is
  <2> QED BY <2>1, <2>2, NoWorkShape DEF Unrefs
<1>2. CASE q # NULL
  <2>1. UnrefOf(q) = <<Unref(q)>> /\ q \in Blocks BY <1>2 DEF UnrefOf
  <2>2. Unref(q) \in Works /\ Unref(q).do = "unref" /\ Unref(q).h = q
    BY <2>1, WorkTyped DEF Unref, WorkNames
  <2>3. <<Unref(q)>> \in Seq(Works) /\ Unrefs(<<Unref(q)>>) BY <2>2 DEF Unrefs
  <2>4. ASSUME NEW h \in Blocks PROVE PendingIn(<<Unref(q)>>, h) = Is(q, h)
    <3>1. RefersTo(Unref(q), h) <=> q = h BY <2>2 DEF RefersTo
    <3> QED BY <3>1, PendingOne DEF Is, References
  <2> QED BY <2>1, <2>3, <2>4
<1> QED BY <1>1, <1>2

LEMMA UnrefsConcat ==
    ASSUME NEW a \in Seq(Works), Unrefs(a), NEW b \in Seq(Works), Unrefs(b)
    PROVE  /\ a \o b \in Seq(Works) /\ Unrefs(a \o b)
           /\ \A h : PendingIn(a \o b, h) = PendingIn(a, h) + PendingIn(b, h)
<1>1. a \o b \in Seq(Works) OBVIOUS
<1>2. ASSUME NEW i \in DOMAIN (a \o b) PROVE (a \o b)[i].do = "unref"
  <2>1. \/ i \in DOMAIN a /\ (a \o b)[i] = a[i]
        \/ i - Len(a) \in DOMAIN b /\ (a \o b)[i] = b[i - Len(a)]
    OBVIOUS
  <2> QED BY <2>1 DEF Unrefs
<1> QED BY <1>1, <1>2, PendingConcat DEF Unrefs

(* What is known when a call is made. *)
LEMMA NextCall ==
    ASSUME Inv, todo # <<>>, NEW w, w = Head(todo), NEW r, r = Tail(todo)
    PROVE  /\ w \in Works /\ r \in Seq(Works) /\ todo = <<w>> \o r
           /\ WorkOK(w) /\ (\A i \in DOMAIN r : WorkOK(r[i]))
           /\ Shape(r)
           /\ w.do # "closeStmt" => Ended(r)
           /\ ~(w.do = "prefetch" /\ w.why = "new") => Settled(r)
           /\ w.do \in FreeWorks => ~FreesIn(r, w.h)
           /\ w.do \in LastWorks => r = <<>>
           /\ w.do = "prefetch" =>
                 \A i \in DOMAIN r : r[i].do \in LastWorks \cup {"prefetch"}
           /\ GivesUp(w) => GivenUp(r)
           /\ OfFreeConn(w) => ForgetsIn(r, Conn)
           /\ w.do = "closeStmt" /\ ~w.propagate =>
                 1 \in DOMAIN r /\ r[1].do = "freeStmt" /\ r[1].h = w.h
           /\ w.do = "releaseStmt" /\ ~w.propagate => EndsIn(r, w.h)
           /\ \A h :
                 /\ FreesIn(todo, h) <=>
                       (w.do \in FreeWorks /\ w.h = h) \/ FreesIn(r, h)
                 /\ ForgetsIn(todo, h) <=>
                       (w.do = "freeMemory" /\ w.h = h) \/ ForgetsIn(r, h)
                 /\ EndsIn(todo, h) <=>
                       (w.do = "freeStmt" /\ w.h = h) \/ EndsIn(r, h)
                 /\ Releases(todo, h) <=>
                       (w.do = "releaseStmt" /\ w.h = h) \/ Releases(r, h)
                 /\ PendingIn(todo, h) = References(w, h) + PendingIn(r, h)
                 /\ PendingIn(r, h) \in Nat
<1>1. /\ w \in Works /\ r \in Seq(Works) /\ todo = <<w>> \o r
  BY Pop DEF Inv, HandlesTypes
<1>2. Shape(todo) BY DEF Inv
<1>3. /\ 1 \in DOMAIN todo /\ todo[1] = w
      /\ \A i \in DOMAIN r : i + 1 \in DOMAIN todo /\ todo[i + 1] = r[i]
  BY <1>1, Push
<1>4. WorkOK(w) /\ \A i \in DOMAIN r : WorkOK(r[i]) BY <1>3 DEF Inv, WorksOK
<1>5. ASSUME w.do # "closeStmt" PROVE Ended(r)
  <2> SUFFICES ASSUME NEW i \in DOMAIN r, r[i].do = "freeStmt"
               PROVE  closing[r[i].h]
    BY DEF Ended
  <2>1. i + 1 \in DOMAIN todo /\ todo[i + 1] = r[i] BY <1>3
  <2> QED BY <1>3, <1>5, <2>1 DEF Inv, EndOK
<1>6. /\ Shape(r)
      /\ ~(w.do = "prefetch" /\ w.why = "new") => Settled(r)
      /\ w.do \in FreeWorks => ~FreesIn(r, w.h)
      /\ w.do \in LastWorks => r = <<>>
      /\ w.do = "prefetch" =>
            \A i \in DOMAIN r : r[i].do \in LastWorks \cup {"prefetch"}
      /\ GivesUp(w) => GivenUp(r)
      /\ OfFreeConn(w) => ForgetsIn(r, Conn)
      /\ w.do = "closeStmt" /\ ~w.propagate =>
            1 \in DOMAIN r /\ r[1].do = "freeStmt" /\ r[1].h = w.h
      /\ w.do = "releaseStmt" /\ ~w.propagate => EndsIn(r, w.h)
  BY <1>1, <1>2, ShapePop
<1>7. ASSUME NEW h
      PROVE  /\ FreesIn(todo, h) <=>
                    (w.do \in FreeWorks /\ w.h = h) \/ FreesIn(r, h)
             /\ ForgetsIn(todo, h) <=>
                    (w.do = "freeMemory" /\ w.h = h) \/ ForgetsIn(r, h)
             /\ EndsIn(todo, h) <=>
                    (w.do = "freeStmt" /\ w.h = h) \/ EndsIn(r, h)
             /\ Releases(todo, h) <=>
                    (w.do = "releaseStmt" /\ w.h = h) \/ Releases(r, h)
             /\ PendingIn(todo, h) = References(w, h) + PendingIn(r, h)
             /\ PendingIn(r, h) \in Nat
  <2>1. FreesIn(todo, h) <=> (w.do \in FreeWorks /\ w.h = h) \/ FreesIn(r, h)
    BY <1>1, AmongPushed
  <2>2. ForgetsIn(todo, h) <=>
            (w.do = "freeMemory" /\ w.h = h) \/ ForgetsIn(r, h)
    BY <1>1, AmongPushed
  <2>3. EndsIn(todo, h) <=> (w.do = "freeStmt" /\ w.h = h) \/ EndsIn(r, h)
    BY <1>1, AmongPushed
  <2>4. Releases(todo, h) <=>
            (w.do = "releaseStmt" /\ w.h = h) \/ Releases(r, h)
    BY <1>1, AmongPushed
  <2>5. PendingIn(r, h) \in Nat BY <1>1, PendingFinite
  <2>6. todo \in Seq(Works) BY <1>1, Push
  <2>7. PendingIn(todo, h) = References(w, h) + PendingIn(r, h)
    BY <2>6, PendingPop
  <2> QED BY <2>1, <2>2, <2>3, <2>4, <2>5, <2>7
<1> QED BY <1>1, <1>4, <1>5, <1>6, <1>7

-----------------------------------------------------------------------------
(* The parts of the invariant that a step leaves alone. *)
LEMMA TheKindKept ==
    ASSUME NEW h \in Blocks, KindOK(h), quota' = quota, kind' = kind,
           lastRowid' = lastRowid, h \in lost' => h \in lost,
           mem'[h] = "unused" <=> mem[h] = "unused"
    PROVE  KindOK(h)'
<1> QED BY DEF KindOK, Allowed, IsVar

LEMMA TheFieldsKept ==
    ASSUME Inv, NEW x \in Blocks, field'[x] = field[x], kind'[x] = kind[x],
           KeepsFields(x)' <=> KeepsFields(x),
           \A p \in Blocks : ~Dead(p) => kind'[p] = kind[p]
    PROVE  FieldsOK(x)'
<1>1. FieldsOK(x) BY DEF Inv
<1>2. CASE ~KeepsFields(x) BY <1>1, <1>2 DEF FieldsOK
<1>3. CASE KeepsFields(x)
  <2>1. /\ field[x] \in [RolesOf(kind[x]) -> Blocks \cup {NULL}]
        /\ \A r \in RolesOf(kind[x]) : PointerOK(kind[x], r, field[x][r])
        /\ kind[x] \in Queues /\ field[x].first = field[x].second =>
              field[x].first = NULL
    BY <1>1, <1>3 DEF FieldsOK
  <2>2. ASSUME NEW r \in RolesOf(kind[x])
        PROVE  PointerOK(kind[x], r, field[x][r])'
    <3>1. CASE field[x][r] = NULL BY <2>1, <3>1 DEF PointerOK
    <3>2. CASE field[x][r] # NULL
      <4>1. field[x][r] \in Blocks /\ r \in DOMAIN field[x] BY <2>1, <3>2
      <4>2. kind'[field[x][r]] = kind[field[x][r]] BY <4>1, PointedAlive
      <4> QED BY <2>1, <3>2, <4>2 DEF PointerOK
    <3> QED BY <3>1, <3>2
  <2> HIDE DEF RolesOf, PointerOK, KeepsFields, Inv
  <2> QED BY <1>3, <2>1, <2>2 DEF FieldsOK
<1> QED BY <1>2, <1>3

LEMMA TheWorkKept ==
    ASSUME NEW w \in Works, WorkOK(w),
           w.do \notin {"give", "define", "closeStmt"},
           w.do = "prefetch" => w.why # "new",
           w.do \in FreeWorks /\ mem[w.h] = "live" => mem'[w.h] = "live",
           quota' = quota, user' = user, kind' = kind, lastRowid' = lastRowid,
           \A s \in Blocks : user[s] > 0 /\ IsStmt(s) =>
               closing'[s] = closing[s] /\ field'[s] = field[s]
    PROVE  WorkOK(w)'
<1>1. w.h \in Blocks BY DEF Works
<1>2. Anchored(w.h) => Anchored(w.h)' BY DEF Anchored, IsStmt
<1>3. /\ w.do \in FreeWorks => mem'[w.h] = "live"
      /\ w.do \in {"freeStmt", "closeStmt", "releaseStmt"} => IsStmt(w.h)'
      /\ w.do \notin {"give", "define", "closeStmt"}
  BY DEF WorkOK, IsStmt
<1>4. ASSUME w.do = "bind"
      PROVE  (/\ user[w.h] > 0 /\ IsStmt(w.h) /\ ~closing[w.h]
              /\ field[w.h].bind = NULL
              /\ w.arg # NULL /\ user[w.arg] > 0 /\ IsVar(w.arg))'
  BY <1>1, <1>4 DEF WorkOK, IsStmt, IsVar
<1>5. /\ w.do \in {"populate", "dequeue"} =>
            (user[w.h] > 0 /\ kind[w.h] \in Queues)'
      /\ w.do = "populate" => w.i \in 1 .. Count(w.propagate)
  BY DEF WorkOK
<1>6. ASSUME w.do = "lastRowid"
      PROVE  (/\ user[w.h] > 0 /\ kind[w.h] = "dml" /\ ~closing[w.h]
              /\ lastRowid[w.h] = NULL /\ Allowed("rowid"))'
  BY <1>1, <1>6 DEF WorkOK, IsStmt, StmtKinds, Allowed
<1>7. w.do = "prefetch" => (/\ IsVar(w.h) /\ kind[w.h] # "bytesVar"
                            /\ w.why # "new" /\ Anchored(w.h))'
  BY <1>2 DEF WorkOK, IsVar
<1>8. /\ w.do \in CloseWorks /\ w.propagate =>
            (Allowed("stmtVar") \/ user[w.h] > 0)'
      /\ w.do \in SweepWorks => w.h = Conn
      /\ w.do \in SweepWorks /\ w.propagate => (user[Conn] > 0)'
  BY DEF WorkOK, Allowed
<1> HIDE DEF IsStmt, IsVar, Anchored, Allowed
<1> QED BY <1>3, <1>4, <1>5, <1>6, <1>7, <1>8 DEF WorkOK

LEMMA TheListsKept ==
    ASSUME ListsOK, kind' = kind,
           \A l \in Lists, i \in Slots : lists'[l][i] \in {lists[l][i], NULL},
           \A h \in Blocks : closing[h] => closing'[h],
           \A h \in Blocks : KeepsFields(h) => KeepsFields(h)' \/ closing'[h],
           lists \in [Lists -> [Slots -> Blocks \cup {NULL}]]
    PROVE  ListsOK'
<1> SUFFICES ASSUME NEW l \in Lists, NEW i \in Slots
             PROVE  ListedOK(l, lists[l][i])'
  BY DEF ListsOK
<1>1. ListedOK(l, lists[l][i]) BY DEF ListsOK
<1>2. lists[l][i] \in Blocks \cup {NULL} /\ lists'[l][i] \in {lists[l][i], NULL}
  OBVIOUS
<1> HIDE DEF KeepsFields
<1> QED BY <1>1, <1>2 DEF ListedOK

-----------------------------------------------------------------------------
(* Steps that change no reference: they call other functions, and close     *)
(* handles other than statements.                                           *)
SameEffects(a, b) ==
    \A h \in Blocks : /\ FreesIn(a, h) <=> FreesIn(b, h)
                      /\ ForgetsIn(a, h) <=> ForgetsIn(b, h)
                      /\ Releases(a, h) <=> Releases(b, h)
                      /\ PendingIn(a, h) = PendingIn(b, h)
ClosingTypes ==
    /\ oci' = [x \in Blocks |-> oci'[x]]
    /\ closing' \in [Blocks -> BOOLEAN]
    /\ lists' \in [Lists -> [Slots -> Blocks \cup {NULL}]]
    /\ \A l \in Lists, i \in Slots : lists'[l][i] \in {lists[l][i], NULL}
    /\ \A h \in Blocks : closing[h] => closing'[h]
    /\ \A h \in Blocks : closing'[h] => closing[h] \/ mem[h] = "live"

LEMMA QuietStep ==
    ASSUME Inv,
           UNCHANGED <<quota, mem, kind, refCount, field, user, lastRowid, lost>>,
           ClosingTypes,
           \A s \in Blocks : IsStmt(s) =>
               closing'[s] = closing[s] /\ oci'[s] = oci[s],
           todo' \in Seq(Works), Shape(todo'), SameEffects(todo', todo),
           \A i \in DOMAIN todo' : WorkOK(todo'[i]),
           EndOK'
    PROVE  Inv'
<1> DEFINE Same == /\ quota' = quota /\ mem' = mem /\ kind' = kind
                   /\ refCount' = refCount /\ field' = field /\ user' = user
                   /\ lastRowid' = lastRowid /\ lost' = lost
<1>1. Same OBVIOUS
<1>2. HandlesTypes' BY <1>1 DEF Inv, HandlesTypes, ClosingTypes
<1>3. ASSUME NEW h \in Blocks
      PROVE  /\ Dead(h)' <=> Dead(h)
             /\ KeepsFields(h)' <=> KeepsFields(h)
             /\ Releases(todo, h)' <=> Releases(todo, h)
             /\ PendingIn(todo, h)' = PendingIn(todo, h)
  BY <1>1 DEF SameEffects, Dead, KeepsFields
<1>4. ASSUME NEW h \in Blocks PROVE KindOK(h)' /\ FieldsOK(h)'
  <2>1. KindOK(h) BY DEF Inv
  <2>2. KindOK(h)' BY <1>1, <2>1, TheKindKept
  <2>3. FieldsOK(h)' BY <1>1, <1>3, TheFieldsKept
  <2> QED BY <2>2, <2>3
<1>5. ASSUME NEW h \in Blocks
      PROVE  RowidsIn(lastRowid, closing, h)' = RowidsIn(lastRowid, closing, h)
  <2>1. ASSUME NEW s \in Blocks, lastRowid[s] = h PROVE closing'[s] = closing[s]
    <3>1. kind[s] = "dml" BY <2>1, HandleTreeAssumption DEF Inv, KindOK
    <3> QED BY <3>1 DEF IsStmt, StmtKinds
  <2>2. {s \in Blocks : lastRowid'[s] = h /\ ~closing'[s]} =
        {s \in Blocks : lastRowid[s] = h /\ ~closing[s]}
    BY <1>1, <2>1
  <2> QED BY <2>2 DEF RowidsIn
<1>6. ASSUME NEW h \in Blocks PROVE CountOK(h)'
  <2>1. Counted(h)' = Counted(h)
    BY <1>1, <1>3, <1>5 DEF Counted, Forgotten, PointersIn
  <2>2. CountOK(h) BY DEF Inv
  <2> HIDE DEF Inv
  <2> QED BY <1>1, <1>3, <2>1, <2>2 DEF CountOK
<1>7. ASSUME NEW s \in Blocks PROVE StmtOK(s)'
  <2>1. StmtOK(s) BY DEF Inv
  <2> HIDE DEF Inv
  <2>2. mem[s] = "unused" => ~closing'[s]
    BY <1>2, <2>1 DEF StmtOK, ClosingTypes
  <2>3. IsStmt(s)' <=> IsStmt(s) BY <1>1 DEF IsStmt
  <2> QED BY <1>1, <1>3, <2>1, <2>2, <2>3 DEF StmtOK
<1>8. WorksOK'
  <2> SUFFICES ASSUME NEW i \in DOMAIN todo' PROVE WorkOK(todo[i])'
    BY DEF WorksOK
  <2>1. todo'[i] \in Works OBVIOUS
  <2>2. ASSUME NEW w \in Works, WorkOK(w) PROVE WorkOK(w)'
    <3>1. w.h \in Blocks BY DEF Works
    <3>2. /\ Anchored(w.h) => Anchored(w.h)'
          /\ Dead(w.h)' <=> Dead(w.h)
          /\ IsStmt(w.h)' <=> IsStmt(w.h)
          /\ IsVar(w.h)' <=> IsVar(w.h)
          /\ IsVar(w.arg)' <=> IsVar(w.arg)
          /\ IsStmt(w.h) => closing'[w.h] = closing[w.h]
          /\ kind[w.h] = "dml" => IsStmt(w.h)
          /\ Allowed("rowid")' <=> Allowed("rowid")
          /\ Allowed("stmtVar")' <=> Allowed("stmtVar")
      BY <1>1, <1>3, <3>1 DEF Anchored, IsStmt, IsVar, StmtKinds, Allowed
    <3> HIDE DEF IsStmt, IsVar, Anchored, Allowed, Dead, Inv
    <3> QED BY <1>1, <2>2, <3>2 DEF WorkOK
  <2> QED BY <2>1, <2>2
<1>9. ListsOK' BY <1>1, <1>3, TheListsKept DEF Inv, HandlesTypes, ClosingTypes
<1> QED BY <1>2, <1>4, <1>6, <1>7, <1>8, <1>9 DEF Inv

LEMMA SilentPushed ==
    ASSUME NEW w \in Works, NEW r \in Seq(Works), NEW p, p = <<w>> \o r,
           w.do \notin FreeWorks \cup {"releaseStmt", "unref", "give", "define"}
    PROVE  SameEffects(p, r)
<1> SUFFICES ASSUME NEW h \in Blocks
             PROVE  /\ FreesIn(p, h) <=> FreesIn(r, h)
                    /\ ForgetsIn(p, h) <=> ForgetsIn(r, h)
                    /\ Releases(p, h) <=> Releases(r, h)
                    /\ PendingIn(p, h) = PendingIn(r, h)
  BY DEF SameEffects
<1>1. ~RefersTo(w, h) BY DEF RefersTo
<1>2. References(w, h) = 0 BY <1>1 DEF References
<1>3. p \in Seq(Works) /\ p # <<>> /\ Head(p) = w /\ Tail(p) = r BY Push
<1>4. PendingIn(p, h) = References(w, h) + PendingIn(r, h) BY <1>3, PendingPop
<1>5. PendingIn(r, h) \in Nat BY PendingFinite
<1>6. PendingIn(p, h) = PendingIn(r, h) BY <1>2, <1>4, <1>5
<1>7. FreesIn(p, h) <=> FreesIn(r, h) BY AmongPushed
<1>8. ForgetsIn(p, h) <=> ForgetsIn(r, h) BY AmongPushed DEF FreeWorks
<1>9. Releases(p, h) <=> Releases(r, h) BY AmongPushed
<1> QED BY <1>6, <1>7, <1>8, <1>9

LEMMA SameTwice ==
    ASSUME NEW a, NEW b, NEW c, SameEffects(a, b), SameEffects(b, c)
    PROVE  SameEffects(a, c)
<1> QED BY DEF SameEffects

LEMMA SameAtAll == \A a : SameEffects(a, a)
<1> QED BY DEF SameEffects

LEMMA AllPushed ==
    ASSUME NEW w \in Works, NEW r \in Seq(Works), NEW p, p = <<w>> \o r,
           WorkOK(w), \A i \in DOMAIN r : WorkOK(r[i])
    PROVE  \A i \in DOMAIN p : WorkOK(p[i])
<1>1. /\ p[1] = w
      /\ \A i \in DOMAIN p : i # 1 => i - 1 \in DOMAIN r /\ p[i] = r[i - 1]
  BY Push
<1> QED BY <1>1

LEMMA EndedPushed ==
    ASSUME NEW w \in Works, NEW r \in Seq(Works), NEW p, p = <<w>> \o r,
           w.do = "freeStmt" => closing[w.h], Ended(r)
    PROVE  Ended(p)
<1>1. /\ p[1] = w
      /\ \A i \in DOMAIN p : i # 1 => i - 1 \in DOMAIN r /\ p[i] = r[i - 1]
  BY Push
<1> QED BY <1>1 DEF Ended

(* The loops that close a connection, and what closing it ends with.        *)
LEMMA LoopStep ==
    ASSUME Inv, todo # <<>>,
           Head(todo).do \in SweepWorks \cup {"freeEnv", "freeTransaction"},
           UNCHANGED <<quota, mem, kind, refCount, field, user, lastRowid, lost>>,
           ClosingTypes,
           \A s \in Blocks : IsStmt(s) =>
               closing'[s] = closing[s] /\ oci'[s] = oci[s],
           \/ todo' = Tail(todo)
           \/ \E n \in Int : todo' = <<[Head(todo) EXCEPT !.i = n]>> \o Tail(todo)
           \/ GivesUp(Head(todo)) /\ todo' = <<>>
    PROVE  Inv'
<1> DEFINE w == Head(todo)
           r == Tail(todo)
<1>1. /\ w \in Works /\ r \in Seq(Works) /\ todo = <<w>> \o r
      /\ WorkOK(w) /\ (\A i \in DOMAIN r : WorkOK(r[i]))
      /\ Shape(r) /\ Ended(r) /\ Settled(r)
      /\ GivesUp(w) => GivenUp(r)
      /\ OfFreeConn(w) => ForgetsIn(r, Conn)
  BY NextCall DEF SweepWorks
<1> HIDE DEF w, r
<1>2. SameEffects(r, todo)
  <2>1. SameEffects(todo, r) BY <1>1, SilentPushed DEF w, SweepWorks, FreeWorks
  <2> QED BY <2>1 DEF SameEffects
<1>3. ASSUME NEW p \in Seq(Works), todo' = p, Shape(p), SameEffects(p, r),
             \A i \in DOMAIN p : WorkOK(p[i]), Ended(p)
      PROVE  Inv'
  <2>1. SameEffects(todo', todo) BY <1>2, <1>3, SameTwice
  <2>2. EndOK'
    <3>1. \A i \in DOMAIN p : p[i].do = "freeStmt" => closing'[p[i].h]
      <4>1. \A i \in DOMAIN p : p[i].h \in Blocks
        <5>1. \A i \in DOMAIN p : p[i] \in Works BY <1>3
        <5> QED BY <5>1 DEF Works
      <4> QED BY <1>3, <4>1 DEF Ended, ClosingTypes
    <3> QED BY <1>3, <3>1 DEF EndOK
  <2> QED BY <1>3, <2>1, <2>2, QuietStep
<1>4. CASE todo' = r BY <1>1, <1>3, <1>4, SameAtAll
<1>5. ASSUME NEW n \in Int, todo' = <<[w EXCEPT !.i = n]>> \o r
      PROVE  Inv'
  <2> DEFINE v == [w EXCEPT !.i = n]
             p == <<v>> \o r
  <2>1. /\ v \in Works /\ v.do = w.do /\ v.h = w.h
        /\ v.propagate = w.propagate /\ v.why = w.why /\ v.arg = w.arg
    BY <1>1 DEF Works
  <2>2. w.do \in SweepWorks \cup {"freeEnv", "freeTransaction"} BY DEF w
  <2>3. WorkOK(v)
    BY <1>1, <2>1, <2>2 DEF WorkOK, SweepWorks, FreeWorks, CloseWorks
  <2> HIDE DEF v
  <2>4. p \in Seq(Works) BY <1>1, <2>1, Push
  <2>5. Shape(p)
    BY <1>1, <2>1, <2>2, ShapePush DEF GivesUp, OfFreeConn, SweepWorks,
       CloseWorks, FreeWorks, LastWorks
  <2>6. SameEffects(p, r)
    BY <1>1, <2>1, <2>2, SilentPushed DEF SweepWorks, FreeWorks
  <2>7. \A i \in DOMAIN p : WorkOK(p[i]) BY <1>1, <2>1, <2>3, AllPushed
  <2>8. Ended(p) BY <1>1, <2>1, <2>2, EndedPushed DEF SweepWorks
  <2>9. todo' = p BY <1>5 DEF v
  <2> HIDE DEF p
  <2> QED BY <1>3, <2>4, <2>5, <2>6, <2>7, <2>8, <2>9
<1>6. CASE GivesUp(w) /\ todo' = <<>>
  <2>1. GivenUp(r) BY <1>1, <1>6
  <2>2. ASSUME NEW h \in Blocks
        PROVE  /\ ~FreesIn(r, h) /\ ~ForgetsIn(r, h) /\ ~Releases(r, h)
               /\ PendingIn(r, h) = 0
    <3>1. \A i \in DOMAIN r : r[i].do \in SweepWorks BY <2>1 DEF GivenUp
    <3>2. \A i \in DOMAIN r : ~RefersTo(r[i], h)
      BY <3>1 DEF RefersTo, SweepWorks
    <3>3. PendingIn(r, h) = 0 BY <3>2, PendingNone
    <3> QED BY <3>1, <3>3 DEF FreesIn, ForgetsIn, Releases, SweepWorks, FreeWorks
  <2>3. SameEffects(<<>>, r) BY <2>2, NoWorkShape DEF SameEffects
  <2>4. \A i \in DOMAIN <<>> : WorkOK(<<>>[i]) OBVIOUS
  <2>5. Ended(<<>>) BY DEF Ended
  <2> QED BY <1>3, <1>6, <2>3, <2>4, <2>5, NoWorkShape
<1> QED BY <1>4, <1>5, <1>6 DEF w, r

LEMMA NothingChanges ==
    ASSUME Inv,
           UNCHANGED <<quota, mem, kind, refCount, field, oci, closing, lists,
                       user, todo, lastRowid, lost>>
    PROVE  Inv'
<1>1. ClosingTypes BY DEF Inv, HandlesTypes, ClosingTypes
<1>2. EndOK' BY DEF Inv, EndOK
<1>3. /\ todo' \in Seq(Works) /\ Shape(todo')
      /\ \A i \in DOMAIN todo' : WorkOK(todo'[i])
  BY DEF Inv, HandlesTypes, WorksOK
<1> QED BY <1>1, <1>2, <1>3, QuietStep, SameAtAll

(* The steps of two-phase commit, and those that end the connection.        *)
LEMMA TransactionKeeps ==
    ASSUME Inv, TransactionStep, UNCHANGED <<numElements, varVars>>
    PROVE  Inv'
<1>1. ASSUME NEW outcomes, Transact(outcomes) PROVE Inv'
  BY <1>1, NothingChanges DEF Transact, blockVars, listVars, varVars
<1>2. CASE FreeTransaction
  <2>1. ClosingTypes
    BY <1>2 DEF FreeTransaction, blockVars, listVars, Inv, HandlesTypes,
       ClosingTypes
  <2>2. /\ todo # <<>> /\ Head(todo).do = "freeTransaction"
        /\ todo' = Tail(todo)
        /\ UNCHANGED <<quota, mem, kind, refCount, field, user, oci, closing,
                       lastRowid, lost>>
    BY <1>2 DEF FreeTransaction, Doing, blockVars, listVars, varVars
  <2> QED BY <2>1, <2>2, LoopStep
<1>3. CASE \/ Commit \/ Rollback \/ TpcBegin
           \/ \E onePhase \in BOOLEAN : TpcCommit(onePhase)
           \/ TpcEnd \/ TpcForget \/ TpcPrepare \/ TpcRollback
  <2> USE <1>1
  <2>1. CASE Commit BY <2>1 DEF Commit
  <2>2. CASE Rollback BY <2>2 DEF Rollback
  <2>3. CASE TpcBegin BY <2>3 DEF TpcBegin
  <2>4. ASSUME NEW onePhase \in BOOLEAN, TpcCommit(onePhase) PROVE Inv'
    BY <2>4 DEF TpcCommit
  <2>5. CASE TpcEnd BY <2>5 DEF TpcEnd
  <2>6. CASE TpcForget BY <2>6 DEF TpcForget
  <2>7. CASE TpcPrepare BY <2>7 DEF TpcPrepare
  <2>8. CASE TpcRollback BY <2>8 DEF TpcRollback
  <2> QED BY <1>3, <2>1, <2>2, <2>3, <2>4, <2>5, <2>6, <2>7, <2>8
<1> QED BY <1>2, <1>3 DEF TransactionStep

LEMMA EndSessionKeeps == ASSUME Inv, EndSession, UNCHANGED varVars PROVE Inv'
<1>1. /\ todo # <<>> /\ Head(todo).do = "endSession"
      /\ UNCHANGED <<quota, mem, kind, refCount, field, user, closing, lists,
                     lastRowid, lost>>
      /\ oci' = oci \/ oci' = [oci EXCEPT ![Conn] = "freed"]
      /\ \/ todo' = Tail(todo)
         \/ Head(todo).propagate /\ todo' = <<>>
  BY DEF EndSession, CloseFails, DetachFails, Doing, listVars, varVars
<1>2. kind[Conn] = "conn" BY HandleTreeAssumption DEF Inv, KindOK
<1>3. ClosingTypes BY <1>1 DEF Inv, HandlesTypes, ClosingTypes
<1>4. \A s \in Blocks : IsStmt(s) => closing'[s] = closing[s] /\ oci'[s] = oci[s]
  BY <1>1, <1>2 DEF Inv, HandlesTypes, IsStmt, StmtKinds, Queries
<1> QED BY <1>1, <1>3, <1>4, LoopStep DEF GivesUp, SweepWorks

LEMMA FreeEnvKeeps == ASSUME Inv, FreeEnv, UNCHANGED varVars PROVE Inv'
<1>1. ClosingTypes
  BY DEF FreeEnv, blockVars, listVars, Inv, HandlesTypes, ClosingTypes
<1>2. /\ todo # <<>> /\ Head(todo).do = "freeEnv" /\ todo' = Tail(todo)
      /\ UNCHANGED <<quota, mem, kind, refCount, field, user, oci, closing,
                     lastRowid, lost>>
  BY DEF FreeEnv, Doing, blockVars, listVars, varVars
<1> QED BY <1>1, <1>2, LoopStep

(* The next slot of a list, if there is one, is in use. *)
LEMMA SomeIsLeast ==
    ASSUME NEW S \in SUBSET Nat, S # {}
    PROVE  \E k \in S : \A j \in S : k <= j
<1>1. PICK k \in S : \A j \in S : <<j, k>> \notin OpToRel(<, Nat)
  BY NatLessThanWellFounded, WFMin, Zenon
<1>2. \A j \in S : ~(j < k) BY <1>1 DEF OpToRel
<1> QED BY <1>2

LEMMA NextSlotUsed ==
    ASSUME NEW do, NEW l \in Lists, NextSlot(do, l) # 0
    PROVE  /\ NextSlot(do, l) \in Slots /\ lists[l][NextSlot(do, l)] # NULL
           /\ NextSlot(do, l) \in Int
<1> DEFINE rest == {i \in Slots : i >= Head(todo).i /\ lists[l][i] # NULL}
           next == CHOOSE i \in rest : \A j \in rest : i <= j
<1>1. rest # {} /\ NextSlot(do, l) = next BY DEF NextSlot
<1>2. Slots \in SUBSET Nat
  BY FS_CardinalityType, HandleTreeAssumption DEF Slots
<1>3. \E i \in rest : \A j \in rest : i <= j
  <2>1. rest \in SUBSET Nat BY <1>2
  <2> HIDE DEF rest
  <2> QED BY <1>1, <2>1, SomeIsLeast
<1>4. next \in rest BY <1>3, Zenon
<1> HIDE DEF next
<1> QED BY <1>1, <1>2, <1>4

LEMMA SlotLeft ==
    ASSUME Inv, NEW l \in Lists, NEW h \in Blocks
    PROVE  /\ RemoveHandle(l, h) \in [Lists -> [Slots -> Blocks \cup {NULL}]]
           /\ \A m \in Lists, i \in Slots :
                 RemoveHandle(l, h)[m][i] \in {lists[m][i], NULL}
<1> QED BY DEF RemoveHandle, Inv, HandlesTypes

LEMMA LobClosedTypes ==
    ASSUME Inv, NEW h \in Blocks, mem[h] = "live",
           LobClosed(h) \/ LobCloseFails(h)
    PROVE  /\ ClosingTypes
           /\ \A s \in Blocks \ {h} :
                 closing'[s] = closing[s] /\ oci'[s] = oci[s]
<1>1. "openLobs" \in Lists BY DEF Lists
<1>2. lists' = lists \/ lists' = RemoveHandle("openLobs", h)
  BY DEF LobClosed, LobCloseFails
<1>3. /\ lists' \in [Lists -> [Slots -> Blocks \cup {NULL}]]
      /\ \A l \in Lists, i \in Slots : lists'[l][i] \in {lists[l][i], NULL}
  BY <1>1, <1>2, SlotLeft DEF Inv, HandlesTypes
<1>4. /\ closing' = closing \/ closing' = [closing EXCEPT ![h] = TRUE]
      /\ \E x : oci' = [oci EXCEPT ![h] = x]
  BY DEF LobClosed, LobCloseFails
<1>5. closing \in [Blocks -> BOOLEAN] /\ oci = [x \in Blocks |-> oci[x]]
  BY DEF Inv, HandlesTypes
<1> QED BY <1>3, <1>4, <1>5 DEF ClosingTypes

LEMMA ObjectClosedTypes ==
    ASSUME Inv, NEW h \in Blocks, mem[h] = "live", ObjectClosed(h)
    PROVE  /\ ClosingTypes
           /\ \A s \in Blocks \ {h} :
                 closing'[s] = closing[s] /\ oci'[s] = oci[s]
<1>1. "objects" \in Lists BY DEF Lists
<1>2. lists' = lists \/ lists' = RemoveHandle("objects", h) BY DEF ObjectClosed
<1>3. /\ lists' \in [Lists -> [Slots -> Blocks \cup {NULL}]]
      /\ \A l \in Lists, i \in Slots : lists'[l][i] \in {lists[l][i], NULL}
  BY <1>1, <1>2, SlotLeft DEF Inv, HandlesTypes
<1>4. /\ closing' = [closing EXCEPT ![h] = TRUE]
      /\ \E x : oci' = [oci EXCEPT ![h] = x]
  BY DEF ObjectClosed
<1>5. closing \in [Blocks -> BOOLEAN] /\ oci = [x \in Blocks |-> oci[x]]
  BY DEF Inv, HandlesTypes
<1> QED BY <1>3, <1>4, <1>5 DEF ClosingTypes

LEMMA ListedLive ==
    ASSUME Inv, NEW l \in Lists, NEW i \in Slots, lists[l][i] # NULL
    PROVE  /\ lists[l][i] \in Blocks /\ kind[lists[l][i]] \in Listed[l]
           /\ ~closing[lists[l][i]] => /\ KeepsFields(lists[l][i])
                                       /\ mem[lists[l][i]] = "live"
<1>1. ListedOK(l, lists[l][i]) /\ lists[l][i] \in Blocks
  BY DEF Inv, ListsOK, HandlesTypes
<1> QED BY <1>1 DEF ListedOK, KeepsFields

LEMMA StaysClosed ==
    ASSUME Inv, UNCHANGED <<oci, closing, lists>>
    PROVE  ClosingTypes
<1> QED BY DEF Inv, HandlesTypes, ClosingTypes

LEMMA CloseEachLobKeeps ==
    ASSUME Inv, CloseEachLob, UNCHANGED varVars PROVE Inv'
<1> DEFINE i == NextSlot("closeLobs", "openLobs")
           h == lists["openLobs"][i]
<1>1. /\ todo # <<>> /\ Head(todo).do = "closeLobs"
      /\ UNCHANGED <<quota, mem, kind, refCount, field, user, lastRowid, lost>>
  BY DEF CloseEachLob, Doing, varVars
<1>2. "openLobs" \in Lists /\ Listed["openLobs"] = {"lob"} BY DEF Lists, Listed
<1>3. ASSUME i # 0, ~closing[h]
      PROVE  h \in Blocks /\ mem[h] = "live" /\ ~IsStmt(h)
  <2>1. h \in Blocks /\ kind[h] \in {"lob"} /\ mem[h] = "live"
    BY <1>2, <1>3, NextSlotUsed, ListedLive
  <2> QED BY <2>1 DEF IsStmt, StmtKinds, Queries
<1>4. \/ /\ i # 0 /\ ~closing[h] /\ (LobClosed(h) \/ LobCloseFails(h))
      \/ UNCHANGED <<oci, closing, lists>>
  BY DEF CloseEachLob
<1>5. \/ LoopOn(i)
      \/ GivesUp(Head(todo)) /\ todo' = <<>>
  BY <1>1 DEF CloseEachLob, CloseFails, GivesUp, SweepWorks
<1>6. \/ todo' = Tail(todo)
      \/ \E n \in Int : todo' = <<[Head(todo) EXCEPT !.i = n]>> \o Tail(todo)
      \/ GivesUp(Head(todo)) /\ todo' = <<>>
  <2>1. i # 0 => i + 1 \in Int BY <1>2, NextSlotUsed
  <2> HIDE DEF i
  <2> QED BY <1>5, <2>1 DEF LoopOn
<1>7. ClosingTypes /\ \A s \in Blocks : IsStmt(s) =>
          closing'[s] = closing[s] /\ oci'[s] = oci[s]
  <2> HIDE DEF i, h
  <2>1. CASE i # 0 /\ ~closing[h] /\ (LobClosed(h) \/ LobCloseFails(h))
    BY <1>3, <2>1, LobClosedTypes
  <2>2. CASE UNCHANGED <<oci, closing, lists>> BY <2>2, StaysClosed
  <2> QED BY <1>4, <2>1, <2>2
<1> HIDE DEF i, h
<1> QED BY <1>1, <1>6, <1>7, LoopStep DEF SweepWorks

LEMMA CloseEachObjectKeeps ==
    ASSUME Inv, CloseEachObject, UNCHANGED varVars PROVE Inv'
<1> DEFINE i == NextSlot("closeObjects", "objects")
           h == lists["objects"][i]
<1>1. /\ todo # <<>> /\ Head(todo).do = "closeObjects"
      /\ UNCHANGED <<quota, mem, kind, refCount, field, user, lastRowid, lost>>
  BY DEF CloseEachObject, Doing, varVars
<1>2. "objects" \in Lists /\ Listed["objects"] = {"object"}
  BY DEF Lists, Listed
<1>3. ASSUME i # 0, ~closing[h]
      PROVE  h \in Blocks /\ mem[h] = "live" /\ ~IsStmt(h)
  <2>1. h \in Blocks /\ kind[h] \in {"object"} /\ mem[h] = "live"
    BY <1>2, <1>3, NextSlotUsed, ListedLive
  <2> QED BY <2>1 DEF IsStmt, StmtKinds, Queries
<1>4. \/ i # 0 /\ ~closing[h] /\ ObjectClosed(h)
      \/ UNCHANGED <<oci, closing, lists>>
  BY DEF CloseEachObject
<1>5. \/ LoopOn(i)
      \/ GivesUp(Head(todo)) /\ todo' = <<>>
  BY <1>1 DEF CloseEachObject, CloseFails, GivesUp, SweepWorks
<1>6. \/ todo' = Tail(todo)
      \/ \E n \in Int : todo' = <<[Head(todo) EXCEPT !.i = n]>> \o Tail(todo)
      \/ GivesUp(Head(todo)) /\ todo' = <<>>
  <2>1. i # 0 => i + 1 \in Int BY <1>2, NextSlotUsed
  <2> HIDE DEF i
  <2> QED BY <1>5, <2>1 DEF LoopOn
<1>7. ClosingTypes /\ \A s \in Blocks : IsStmt(s) =>
          closing'[s] = closing[s] /\ oci'[s] = oci[s]
  <2> HIDE DEF i, h
  <2>1. CASE i # 0 /\ ~closing[h] /\ ObjectClosed(h)
    BY <1>3, <2>1, ObjectClosedTypes
  <2>2. CASE UNCHANGED <<oci, closing, lists>> BY <2>2, StaysClosed
  <2> QED BY <1>4, <2>1, <2>2
<1> HIDE DEF i, h
<1> QED BY <1>1, <1>6, <1>7, LoopStep DEF SweepWorks

(* A handle is closed by the program. *)
LEMMA ClosedByProgram ==
    ASSUME Inv, ClosingTypes,
           \A s \in Blocks : IsStmt(s) =>
               closing'[s] = closing[s] /\ oci'[s] = oci[s],
           UNCHANGED <<quota, mem, kind, refCount, field, user, todo, lastRowid,
                       lost>>
    PROVE  Inv'
<1>1. EndOK'
  <2>1. \A i \in DOMAIN todo : todo[i].h \in Blocks
    <3>1. \A i \in DOMAIN todo : todo[i] \in Works BY DEF Inv, HandlesTypes
    <3> QED BY <3>1 DEF Works
  <2> QED BY <2>1 DEF Inv, EndOK, ClosingTypes
<1>2. /\ todo' \in Seq(Works) /\ Shape(todo')
      /\ \A i \in DOMAIN todo' : WorkOK(todo'[i])
  BY DEF Inv, HandlesTypes, WorksOK
<1> QED BY <1>1, <1>2, QuietStep, SameAtAll

LEMMA CloseLobKeeps ==
    ASSUME Inv, NEW h \in Blocks, CloseLob(h), UNCHANGED varVars PROVE Inv'
<1>1. /\ kind[h] = "lob" /\ mem[h] = "live"
      /\ UNCHANGED <<quota, mem, kind, refCount, field, user, todo, lastRowid,
                     lost>>
      /\ UNCHANGED <<oci, closing, lists>> \/ LobClosed(h) \/ LobCloseFails(h)
  BY UsersAlive DEF CloseLob, LobCheck, Has, varVars
<1>2. ~IsStmt(h) BY <1>1 DEF IsStmt, StmtKinds, Queries
<1>3. ClosingTypes /\ \A s \in Blocks \ {h} :
          closing'[s] = closing[s] /\ oci'[s] = oci[s]
  BY <1>1, LobClosedTypes, StaysClosed
<1> QED BY <1>1, <1>2, <1>3, ClosedByProgram

LEMMA CloseCursorKeeps ==
    ASSUME Inv, NEW c \in Blocks, CloseCursor(c), UNCHANGED varVars PROVE Inv'
<1>1. /\ kind[c] \in {"sodaCollCursor", "sodaDocCursor"}
      /\ oci' = [oci EXCEPT ![c] = "freed"]
      /\ UNCHANGED <<quota, mem, kind, refCount, field, user, todo, lastRowid,
                     lost, closing, lists>>
  BY DEF CloseCursor, SodaCollCursorCheck, SodaDocCursorCheck, Has, varVars,
     listVars
<1>2. ~IsStmt(c) BY <1>1 DEF IsStmt, StmtKinds, Queries
<1>3. ClosingTypes /\ \A s \in Blocks \ {c} :
          closing'[s] = closing[s] /\ oci'[s] = oci[s]
  BY <1>1 DEF ClosingTypes, Inv, HandlesTypes
<1> QED BY <1>1, <1>2, <1>3, ClosedByProgram

(* Calls that are made after those of the step, with what is known of them. *)
Fine(works) ==
    /\ works \in Seq(Works) /\ Shape(works) /\ Settled(works) /\ Ended(works)
    /\ \A i \in DOMAIN works : WorkOK(works[i])

LEMMA FinePushed ==
    ASSUME NEW w \in Works, NEW r, Fine(r), NEW p, p = <<w>> \o r, WorkOK(w),
           w.do \notin {"give", "define", "closeStmt"},
           w.do \in FreeWorks => ~FreesIn(r, w.h),
           w.do \in LastWorks => r = <<>>,
           w.do = "prefetch" =>
               /\ w.why # "new"
               /\ \A i \in DOMAIN r : r[i].do \in LastWorks \cup {"prefetch"},
           GivesUp(w) => GivenUp(r),
           OfFreeConn(w) => ForgetsIn(r, Conn),
           w.do = "releaseStmt" /\ ~w.propagate => EndsIn(r, w.h),
           w.do = "freeStmt" => closing[w.h]
    PROVE  Fine(p)
<1>1. /\ r \in Seq(Works) /\ Shape(r) /\ Settled(r) /\ Ended(r)
      /\ \A i \in DOMAIN r : WorkOK(r[i])
  BY DEF Fine
<1>2. p \in Seq(Works) BY <1>1, Push
<1>3. Shape(p) /\ Settled(p) BY <1>1, ShapePush
<1>4. Ended(p) BY <1>1, EndedPushed
<1>5. \A i \in DOMAIN p : WorkOK(p[i]) BY <1>1, AllPushed
<1> QED BY <1>2, <1>3, <1>4, <1>5 DEF Fine

LEMMA FineNone == Fine(<<>>)
<1> QED BY NoWorkShape DEF Fine, Ended

LEMMA CallsOthers ==
    ASSUME Inv,
           UNCHANGED <<quota, mem, kind, refCount, field, oci, closing, lists,
                       user, lastRowid, lost>>,
           Fine(todo'), SameEffects(todo', todo)
    PROVE  Inv'
<1>1. ClosingTypes BY StaysClosed
<1>2. EndOK' BY DEF Fine, Ended, EndOK
<1>3. /\ todo' \in Seq(Works) /\ Shape(todo')
      /\ \A i \in DOMAIN todo' : WorkOK(todo'[i])
  BY DEF Fine
<1> QED BY <1>1, <1>2, <1>3, QuietStep

LEMMA Pair ==
    ASSUME NEW S, NEW e \in S, NEW f \in S
    PROVE  <<e>> \o <<f>> = <<e, f>>
<1> DEFINE a == <<e>> \o <<f>>
           b == <<e, f>>
<1>1. a \in Seq(S) /\ Len(a) = 2 /\ a[1] = e /\ a[2] = f OBVIOUS
<1>2. b \in Seq(S) /\ Len(b) = 2 /\ b[1] = e /\ b[2] = f OBVIOUS
<1> HIDE DEF a, b
<1>3. \A s \in Seq(S) : DOMAIN s = 1 .. Len(s) /\ s = [i \in DOMAIN s |-> s[i]]
  OBVIOUS
<1>4. \A i \in 1 .. 2 : i = 1 \/ i = 2 OBVIOUS
<1>5. DOMAIN a = 1 .. 2 /\ DOMAIN b = 1 .. 2 BY <1>1, <1>2, <1>3
<1>6. \A i \in 1 .. 2 : a[i] = b[i] BY <1>1, <1>2, <1>4
<1>7. a = b BY <1>1, <1>2, <1>3, <1>5, <1>6
<1> QED BY <1>7 DEF a, b

LEMMA Triple ==
    ASSUME NEW S, NEW e \in S, NEW f \in S, NEW g \in S
    PROVE  <<e>> \o <<f, g>> = <<e, f, g>>
<1>1. <<e, f, g>> = <<e>> \o <<f, g>> OBVIOUS
<1> QED BY <1>1

LEMMA Quadruple ==
    ASSUME NEW S, NEW e \in S, NEW f \in S, NEW g \in S, NEW h \in S
    PROVE  <<e>> \o <<f, g, h>> = <<e, f, g, h>>
<1>1. <<e, f, g, h>> = <<e>> \o <<f, g, h>> OBVIOUS
<1> QED BY <1>1

LEMMA Associative ==
    ASSUME NEW S, NEW x \in Seq(S), NEW y \in Seq(S), NEW z \in Seq(S)
    PROVE  (x \o y) \o z = x \o (y \o z)
<1> QED OBVIOUS

One(e) == <<e>>
Two(e, f) == <<e, f>>
Three(e, f, g) == <<e, f, g>>
Four(e, f, g, h) == <<e, f, g, h>>
Onto(w, r) == <<w>> \o r
Before(p, r) == p \o r

LEMMA OneByOne ==
    ASSUME NEW S, NEW r \in Seq(S), NEW e \in S, NEW f \in S, NEW g \in S,
           NEW h \in S
    PROVE  /\ Before(Two(e, f), r) = Onto(e, Onto(f, r))
           /\ Before(Three(e, f, g), r) = Onto(e, Onto(f, Onto(g, r)))
           /\ Before(Four(e, f, g, h), r) =
                  Onto(e, Onto(f, Onto(g, Onto(h, r))))
<1> DEFINE a == One(e)
           b == One(f)
           c == One(g)
           d == One(h)
           ab == Two(e, f)
           bc == Two(f, g)
           cd == Two(g, h)
           abc == Three(e, f, g)
           bcd == Three(f, g, h)
           abcd == Four(e, f, g, h)
<1>1. /\ a \in Seq(S) /\ b \in Seq(S) /\ c \in Seq(S) /\ d \in Seq(S)
      /\ bc \in Seq(S) /\ cd \in Seq(S) /\ bcd \in Seq(S)
  BY DEF One, Two, Three
<1>2. ab = a \o b /\ bc = b \o c /\ cd = c \o d BY Pair DEF One, Two
<1>3. abc = a \o bc /\ bcd = b \o cd BY Triple DEF One, Two, Three
<1>4. abcd = a \o bcd BY Quadruple DEF One, Three, Four
<1> HIDE DEF a, b, c, d, ab, bc, cd, abc, bcd, abcd
<1>5. \A x, y \in Seq(S) : (x \o y) \o r = x \o (y \o r) BY Associative
<1>6. /\ (a \o b) \o r = a \o (b \o r)
      /\ (b \o c) \o r = b \o (c \o r)
      /\ (c \o d) \o r = c \o (d \o r)
  BY <1>1, <1>5
<1>7. /\ (a \o bc) \o r = a \o (bc \o r)
      /\ (b \o cd) \o r = b \o (cd \o r)
      /\ (a \o bcd) \o r = a \o (bcd \o r)
  BY <1>1, <1>5
<1>8. /\ ab \o r = a \o (b \o r) /\ abc \o r = a \o (b \o (c \o r))
      /\ abcd \o r = a \o (b \o (c \o (d \o r)))
  BY <1>2, <1>3, <1>4, <1>6, <1>7
<1>9. /\ Onto(e, Onto(f, r)) = a \o (b \o r)
      /\ Onto(e, Onto(f, Onto(g, r))) = a \o (b \o (c \o r))
      /\ Onto(e, Onto(f, Onto(g, Onto(h, r)))) =
             a \o (b \o (c \o (d \o r)))
  BY DEF Onto, One, a, b, c, d
<1>10. /\ ab \o r = Onto(e, Onto(f, r))
       /\ abc \o r = Onto(e, Onto(f, Onto(g, r)))
       /\ abcd \o r = Onto(e, Onto(f, Onto(g, Onto(h, r))))
  BY <1>8, <1>9
<1> QED BY <1>10 DEF ab, abc, abcd, Before

LEMMA LoopsPushed ==
    ASSUME NEW r, Fine(r), NEW propagate \in BOOLEAN,
           propagate => GivenUp(r) /\ user[Conn] > 0,
           ~propagate => ForgetsIn(r, Conn)
    PROVE  /\ Fine(CloseWork(propagate) \o r)
           /\ SameEffects(CloseWork(propagate) \o r, r)
<1>1. ASSUME NEW do \in SweepWorks, NEW i \in Int
      PROVE  /\ Work(do, i, propagate) \in Works
             /\ Work(do, i, propagate).do = do
             /\ Work(do, i, propagate).h = Conn
             /\ Work(do, i, propagate).propagate = propagate
  BY HandleTreeAssumption DEF Work, WorkOn, Works, Reasons, WorkNames
<1>2. ASSUME NEW s, Fine(s), SameEffects(s, r),
             propagate => GivenUp(s) /\ user[Conn] > 0,
             NEW do \in SweepWorks, NEW i \in Int
      PROVE  /\ Fine(<<Work(do, i, propagate)>> \o s)
             /\ SameEffects(<<Work(do, i, propagate)>> \o s, r)
             /\ propagate => GivenUp(<<Work(do, i, propagate)>> \o s)
  <2> DEFINE w == Work(do, i, propagate)
             p == <<w>> \o s
  <2>1. w \in Works /\ w.do = do /\ w.h = Conn /\ w.propagate = propagate
    BY <1>1
  <2>2. s \in Seq(Works) BY <1>2 DEF Fine
  <2> HIDE DEF w
  <2>3. WorkOK(w) BY <1>2, <2>1 DEF WorkOK, SweepWorks, FreeWorks, CloseWorks
  <2>4. ~propagate => ForgetsIn(s, Conn)
    BY <1>2, HandleTreeAssumption DEF SameEffects
  <2>5. Fine(p)
    BY <1>2, <2>1, <2>3, <2>4, FinePushed DEF GivesUp, OfFreeConn, SweepWorks,
       CloseWorks, FreeWorks, LastWorks
  <2>6. SameEffects(p, r)
    <3>1. SameEffects(p, s)
      BY <2>1, <2>2, SilentPushed DEF SweepWorks, FreeWorks
    <3> QED BY <1>2, <3>1, SameTwice
  <2>7. propagate => GivenUp(p)
    <3>1. /\ p[1] = w
          /\ \A j \in DOMAIN p : j # 1 => j - 1 \in DOMAIN s /\ p[j] = s[j - 1]
      BY <2>1, <2>2, Push
    <3> QED BY <1>2, <2>1, <3>1 DEF GivenUp
  <2> QED BY <2>5, <2>6, <2>7 DEF w
<1> DEFINE a == <<Work("endSession", 0, propagate)>> \o r
           b == <<Work("closeLobs", 1, propagate)>> \o a
           c == <<Work("closeStmts", 1, propagate)>> \o b
           d == <<Work("closeObjects", 1, propagate)>> \o c
<1>3. /\ "endSession" \in SweepWorks /\ "closeLobs" \in SweepWorks
      /\ "closeStmts" \in SweepWorks /\ "closeObjects" \in SweepWorks
      /\ 0 \in Int /\ 1 \in Int
  BY DEF SweepWorks
<1>4. CloseWork(propagate) \o r = d
  <2> DEFINE e == Work("closeObjects", 1, propagate)
             f == Work("closeStmts", 1, propagate)
             g == Work("closeLobs", 1, propagate)
             h == Work("endSession", 0, propagate)
  <2>1. r \in Seq(Works) BY DEF Fine
  <2>2. e \in Works /\ f \in Works /\ g \in Works /\ h \in Works BY <1>1, <1>3
  <2>3. CloseWork(propagate) = Four(e, f, g, h) BY DEF CloseWork, Four
  <2>4. d = Onto(e, Onto(f, Onto(g, Onto(h, r)))) BY DEF Onto
  <2> HIDE DEF d, e, f, g, h
  <2>5. Before(Four(e, f, g, h), r) = Onto(e, Onto(f, Onto(g, Onto(h, r))))
    BY <2>1, <2>2, OneByOne
  <2> QED BY <2>3, <2>4, <2>5 DEF Before
<1>5. SameEffects(r, r) BY SameAtAll
<1>6. Fine(a) /\ SameEffects(a, r) /\ (propagate => GivenUp(a))
  BY <1>2, <1>3, <1>5
<1> HIDE DEF a
<1>7. Fine(b) /\ SameEffects(b, r) /\ (propagate => GivenUp(b))
  BY <1>2, <1>3, <1>6
<1> HIDE DEF b
<1>8. Fine(c) /\ SameEffects(c, r) /\ (propagate => GivenUp(c))
  BY <1>2, <1>3, <1>7
<1> HIDE DEF c
<1>9. Fine(d) /\ SameEffects(d, r) BY <1>2, <1>3, <1>8
<1> HIDE DEF d
<1> QED BY <1>4, <1>9

LEMMA CloseConnKeeps == ASSUME Inv, CloseConn, UNCHANGED varVars PROVE Inv'
<1>1. /\ todo = <<>> /\ todo' = CloseWork(TRUE) /\ user[Conn] > 0
      /\ UNCHANGED <<quota, mem, kind, refCount, field, oci, closing, lists,
                     user, lastRowid, lost>>
  BY DEF CloseConn, Has, Idle, blockVars, listVars, varVars
<1>2. Fine(CloseWork(TRUE) \o <<>>) /\ SameEffects(CloseWork(TRUE) \o <<>>, <<>>)
  BY <1>1, FineNone, NoWorkShape, LoopsPushed
<1>3. CloseWork(TRUE) \o <<>> = CloseWork(TRUE) BY DEF CloseWork
<1> QED BY <1>1, <1>2, <1>3, CallsOthers

-----------------------------------------------------------------------------
(* Steps that move references.                                              *)

(* A variable of bytes may become one of LOBs.                              *)
SameKind(h) == \/ kind'[h] = kind[h]
               \/ kind[h] = "bytesVar" /\ kind'[h] = "longVar"

(* The fields that a block has after the step. *)
FieldsFit(k, f) ==
    /\ f \in [RolesOf(k) -> Blocks \cup {NULL}]
    /\ \A r \in RolesOf(k) : PointerOK(k, r, f[r])
    /\ k \in Queues /\ f.first = f.second => f.first = NULL

LEMMA LobsForBytes ==
    /\ RolesOf("longVar") = RolesOf("bytesVar")
    /\ \A r : KindsOf("bytesVar", r) \subseteq KindsOf("longVar", r)
    /\ \A k, r : r \in RolesOf(k) /\ "bytesVar" \in KindsOf(k, r) =>
                     "longVar" \in KindsOf(k, r)
    /\ Required("longVar") = Required("bytesVar")
<1>1. RolesOf("longVar") = RolesOf("bytesVar")
  BY DEF RolesOf, Queues, StmtKinds, Queries, VarKinds
<1>2. \A r : KindsOf("bytesVar", r) \subseteq KindsOf("longVar", r)
  BY DEF KindsOf, Contents, ContentKinds
<1>3. ASSUME NEW k, NEW r, r \in RolesOf(k), "bytesVar" \in KindsOf(k, r)
      PROVE  "longVar" \in KindsOf(k, r)
  <2>1. CASE r \in {"value", "returned"}
    <3>1. k \in VarKinds BY <1>3, <2>1 DEF RolesOf
    <3>2. "bytesVar" \in Contents(k) BY <1>3, <2>1 DEF KindsOf
    <3>3. Contents(k) \in {{"lob"}, StmtKinds, {"rowid"}, {"object"}, {}}
      BY <3>1 DEF Contents, ContentKinds, VarKinds
    <3> QED BY <3>2, <3>3 DEF StmtKinds, Queries
  <2>2. CASE r \notin {"value", "returned"}
    BY <1>3, <2>2 DEF KindsOf, VarKinds, RolesOf
  <2> QED BY <2>1, <2>2
<1>4. Required("longVar") = Required("bytesVar") BY DEF Required
<1> QED BY <1>1, <1>2, <1>3, <1>4

LEMMA SameKindSays ==
    ASSUME NEW h, SameKind(h)
    PROVE  /\ IsStmt(h)' <=> IsStmt(h)
           /\ IsVar(h)' <=> IsVar(h)
           /\ kind[h] \notin {"bytesVar", "longVar"} => kind'[h] = kind[h]
           /\ kind[h] \in {"bytesVar", "longVar"} =>
                 kind'[h] \in {"bytesVar", "longVar"}
           /\ RolesOf(kind'[h]) = RolesOf(kind[h])
           /\ Required(kind'[h]) = Required(kind[h])
           /\ kind'[h] \in Queues <=> kind[h] \in Queues
           /\ IsStmt(h) => kind'[h] = kind[h]
<1>1. CASE kind'[h] = kind[h] BY <1>1 DEF IsStmt, IsVar
<1>2. CASE kind[h] = "bytesVar" /\ kind'[h] = "longVar"
  BY <1>2, LobsForBytes DEF IsStmt, IsVar, StmtKinds, Queries, VarKinds, Queues
<1> QED BY <1>1, <1>2 DEF SameKind

LEMMA SamePointer ==
    ASSUME NEW x \in Blocks, SameKind(x), NEW r \in RolesOf(kind[x]),
           NEW p, p # NULL => SameKind(p), PointerOK(kind[x], r, p)
    PROVE  PointerOK(kind[x], r, p)'
<1>1. r \in RolesOf(kind'[x]) /\ Required(kind'[x]) = Required(kind[x])
  BY SameKindSays
<1>2. CASE p = NULL BY <1>1, <1>2 DEF PointerOK
<1>3. CASE p # NULL
  <2>1. kind[p] \in KindsOf(kind[x], r) BY <1>3 DEF PointerOK
  <2>2. kind'[p] \in KindsOf(kind[x], r)
    BY <1>3, <2>1, LobsForBytes DEF SameKind
  <2>3. kind'[p] \in KindsOf(kind'[x], r) BY <2>2, LobsForBytes DEF SameKind
  <2> QED BY <1>3, <2>3 DEF PointerOK
<1> QED BY <1>2, <1>3

LEMMA MoveStep ==
    ASSUME Inv,
           UNCHANGED <<quota, mem, oci, closing, lists>>,
           kind' = [h \in Blocks |-> kind'[h]],
           \A h \in Blocks : SameKind(h),
           refCount' \in [Blocks -> Int], user' \in [Blocks -> Nat],
           lastRowid' \in [Blocks -> Blocks \cup {NULL}],
           \A s \in Blocks : lastRowid'[s] \in {lastRowid[s], NULL},
           lost' \subseteq Blocks, \A h \in lost' : h \in lost \/ IsVar(h),
           field' = [x \in Blocks |-> field'[x]],
           \A x \in Blocks :
               \/ field'[x] = field[x]
               \/ /\ KeepsFields(x) /\ FieldsFit(kind[x], field'[x])
                  /\ \A r \in RolesOf(kind[x]) :
                        field'[x][r] # NULL => SameKind(field'[x][r])
                  /\ IsStmt(x) /\ closing[x] =>
                        field'[x].bind = NULL /\ field'[x].column = NULL,
           todo' \in Seq(Works), Shape(todo'), EndOK', WorksOK',
           \A h \in Blocks : /\ FreesIn(todo', h) <=> FreesIn(todo, h)
                             /\ ForgetsIn(todo', h) <=> ForgetsIn(todo, h)
                             /\ Releases(todo, h) => Releases(todo', h),
           \A h \in Blocks :
               /\ refCount'[h] >= refCount[h] /\ Counted(h)' \in Int
               /\ refCount'[h] - Counted(h)' = refCount[h] - Counted(h)
               /\ Dead(h) => refCount'[h] = refCount[h]
    PROVE  Inv'
<1>1. /\ quota' = quota /\ mem' = mem /\ closing' = closing /\ lists' = lists
      /\ oci' = oci
  OBVIOUS
<1>2. HandlesTypes' BY <1>1 DEF Inv, HandlesTypes
<1>3. ASSUME NEW h \in Blocks
      PROVE  /\ Dead(h)' <=> Dead(h)
             /\ KeepsFields(h)' <=> KeepsFields(h)
             /\ Releases(todo, h) => Releases(todo, h)'
  BY <1>1 DEF Dead, KeepsFields
<1>4. ASSUME NEW h \in Blocks
      PROVE  /\ IsStmt(h)' <=> IsStmt(h)
             /\ IsVar(h)' <=> IsVar(h)
             /\ kind[h] \notin {"bytesVar", "longVar"} => kind'[h] = kind[h]
             /\ kind[h] \in {"bytesVar", "longVar"} =>
                   kind'[h] \in {"bytesVar", "longVar"}
             /\ RolesOf(kind'[h]) = RolesOf(kind[h])
             /\ kind'[h] \in Queues <=> kind[h] \in Queues
  BY SameKindSays
<1>5. ASSUME NEW h \in Blocks PROVE KindOK(h)'
  <2>1. KindOK(h) BY DEF Inv
  <2>2. lastRowid'[h] # NULL =>
            /\ lastRowid'[h] = lastRowid[h] /\ lastRowid[h] \in Blocks
            /\ kind[lastRowid[h]] = "rowid" => kind'[lastRowid[h]] = "rowid"
    <3>1. lastRowid[h] \in Blocks \cup {NULL} BY DEF Inv, HandlesTypes
    <3> HIDE DEF Inv
    <3> QED BY <1>4, <3>1
  <2> HIDE DEF Inv
  <2>3. /\ kind'[h] = "none" <=> kind[h] = "none"
        /\ kind'[h] = "conn" <=> kind[h] = "conn"
        /\ kind'[h] = "stmtVar" <=> kind[h] = "stmtVar"
        /\ kind'[h] = "dml" <=> kind[h] = "dml"
    BY <1>4
  <2> QED BY <1>1, <1>4, <2>1, <2>2, <2>3 DEF KindOK, Allowed
<1>6. ASSUME NEW x \in Blocks PROVE FieldsOK(x)'
  <2>1. CASE ~KeepsFields(x)
    <3>1. FieldsOK(x) /\ field'[x] = field[x] BY <2>1 DEF Inv
    <3> QED BY <1>3, <2>1, <3>1 DEF FieldsOK
  <2>2. CASE KeepsFields(x)
    <3>1. FieldsFit(kind[x], field[x]) BY <2>2 DEF Inv, FieldsOK, FieldsFit
    <3>2. /\ FieldsFit(kind[x], field'[x])
          /\ \A r \in RolesOf(kind[x]) :
                field'[x][r] # NULL => SameKind(field'[x][r])
      <4>1. CASE field'[x] = field[x]
        <5>1. \A r \in RolesOf(kind[x]) :
                  field'[x][r] # NULL => SameKind(field'[x][r])
          BY <3>1, <4>1 DEF FieldsFit
        <5> QED BY <3>1, <4>1, <5>1
      <4> QED BY <4>1
    <3>3. ASSUME NEW r \in RolesOf(kind[x])
          PROVE  PointerOK(kind[x], r, field[x][r])'
      <4>1. PICK p : p = field'[x][r] OBVIOUS
      <4>2. PointerOK(kind[x], r, p) /\ (p # NULL => SameKind(p))
        BY <3>2, <4>1 DEF FieldsFit
      <4>3. PointerOK(kind[x], r, p)' BY <4>2, SamePointer
      <4> QED BY <4>1, <4>3 DEF PointerOK
    <3>5. /\ field'[x] \in [RolesOf(kind'[x]) -> Blocks \cup {NULL}]
          /\ \A r \in RolesOf(kind'[x]) : PointerOK(kind[x], r, field[x][r])'
      BY <1>4, <3>2, <3>3 DEF FieldsFit
    <3>6. kind'[x] \in Queues /\ field'[x].first = field'[x].second =>
              field'[x].first = NULL
      BY <1>4, <3>2 DEF FieldsFit
    <3> HIDE DEF RolesOf, PointerOK, KeepsFields, Inv, Queues
    <3> QED BY <1>3, <2>2, <3>5, <3>6 DEF FieldsOK
  <2> QED BY <2>1, <2>2
<1>7. ASSUME NEW h \in Blocks PROVE CountOK(h)'
  <2>1. CountOK(h) /\ refCount[h] \in Int /\ Counted(h) \in Nat
    BY Parts DEF Inv
  <2>2. refCount'[h] \in Int /\ Counted(h)' \in Int OBVIOUS
  <2>3. kind'[h] = "json" <=> kind[h] = "json" BY <1>4
  <2>4. CASE Dead(h)
    <3>1. Counted(h)' = 0 BY <2>1, <2>2, <2>4 DEF CountOK
    <3> QED BY <1>3, <2>4, <3>1 DEF CountOK
  <2>5. CASE ~Dead(h)
    <3>1. /\ refCount'[h] >= 1 /\ refCount'[h] >= Counted(h)'
          /\ kind[h] # "json" => refCount'[h] = Counted(h)'
      BY <2>1, <2>2, <2>5 DEF CountOK
    <3> QED BY <1>3, <2>3, <2>5, <3>1 DEF CountOK
  <2> QED BY <2>4, <2>5
<1>8. ASSUME NEW s \in Blocks PROVE StmtOK(s)'
  <2>1. StmtOK(s) BY DEF Inv
  <2>2. IsStmt(s) /\ KeepsFields(s) /\ closing[s] =>
            field'[s].bind = NULL /\ field'[s].column = NULL
    BY <2>1 DEF StmtOK
  <2>3. IsStmt(s)' <=> IsStmt(s) BY <1>4
  <2>4. /\ KeepsFields(s)' <=> KeepsFields(s)
        /\ Releases(todo, s) => Releases(todo, s)'
    BY <1>3
  <2> HIDE DEF Inv, KeepsFields, IsStmt, Releases
  <2> QED BY <1>1, <2>1, <2>2, <2>3, <2>4 DEF StmtOK
<1>9. ListsOK'
  <2> SUFFICES ASSUME NEW l \in Lists, NEW i \in Slots
               PROVE  ListedOK(l, lists[l][i])'
    BY DEF ListsOK
  <2>1. ListedOK(l, lists[l][i]) /\ lists[l][i] \in Blocks \cup {NULL}
    BY DEF Inv, ListsOK, HandlesTypes
  <2>2. Listed[l] \subseteq StmtKinds \cup {"lob", "object"}
    BY DEF Listed, Lists
  <2>3. lists'[l][i] = lists[l][i] BY <1>1
  <2>4. lists[l][i] # NULL => (kind'[lists[l][i]] \in Listed[l])
    BY <1>4, <2>1, <2>2 DEF ListedOK, StmtKinds, Queries
  <2> HIDE DEF KeepsFields
  <2> QED BY <1>1, <1>3, <2>1, <2>3, <2>4 DEF ListedOK
<1> QED BY <1>2, <1>5, <1>6, <1>7, <1>8, <1>9 DEF Inv

(* The references that there are after the fields of one block, the last    *)
(* rowid of one, and what else may change, have changed.                    *)
TypedAfter == user' \in [Blocks -> Nat] /\ todo' \in Seq(Works)
LEMMA CountedAfter ==
    ASSUME Inv, closing' = closing, TypedAfter, NEW x \in Blocks,
           \A y \in Blocks \ {x} : field'[y] = field[y],
           IsFiniteSet(DOMAIN field'[x]), NEW s \in Blocks,
           \A y \in Blocks \ {s} : lastRowid'[y] = lastRowid[y],
           NEW h \in Blocks
    PROVE  /\ Counted(h)' \in Nat
           /\ Counted(h)' - Counted(h) =
                  (user'[h] - user[h])
                  + (PendingIn(todo', h) - PendingIn(todo, h))
                  + (CountOf(field'[x], h) - CountOf(field[x], h))
                  + (RowidOf(lastRowid', closing, s, h)
                         - RowidOf(lastRowid, closing, s, h))
                  + (Forgotten(h)' - Forgotten(h))
<1>1. FiniteFields(field) /\ FiniteFields(field')
  BY FieldsFinite DEF FiniteFields
<1>2. PointersIn(field, h) \in Nat /\ PointersIn(field', h) \in Nat
  BY <1>1, PointersNat
<1>3. CountOf(field[x], h) \in Nat BY <1>1, PointersSplit
<1>4. CountOf(field'[x], h) \in Nat BY <1>1, PointersSplit
<1>5. PointersIn(field', h) =
          PointersIn(field, h) - CountOf(field[x], h) + CountOf(field'[x], h)
  BY <1>1, PointersChange
<1>6. /\ RowidsIn(lastRowid, closing, h) \in Nat
      /\ RowidsIn(lastRowid', closing, h) \in Nat
  BY RowidsNat
<1>7. /\ PendingIn(todo', h) \in Nat /\ Forgotten(h)' \in Nat
      /\ RowidOf(lastRowid, closing, s, h) \in Nat
      /\ RowidOf(lastRowid', closing, s, h) \in Nat
  BY PendingFinite DEF Forgotten, RowidOf, TypedAfter
<1>8. RowidsIn(lastRowid', closing, h) =
          RowidsIn(lastRowid, closing, h) - RowidOf(lastRowid, closing, s, h)
          + RowidOf(lastRowid', closing, s, h)
  <2>1. {y \in Blocks \ {s} : lastRowid[y] = h /\ ~closing[y]} =
        {y \in Blocks \ {s} : lastRowid'[y] = h /\ ~closing[y]}
    OBVIOUS
  <2>2. RowidsBut(lastRowid, closing, s, h) = RowidsBut(lastRowid', closing, s, h)
    BY <2>1 DEF RowidsBut
  <2> QED BY <2>2, RowidsSplit
<1>9. /\ user[h] \in Nat /\ PendingIn(todo, h) \in Nat /\ user'[h] \in Nat
      /\ Forgotten(h) \in Nat
  BY Parts DEF TypedAfter
<1>10. Counted(h)' = user'[h] + PendingIn(todo', h) + PointersIn(field', h)
                     + RowidsIn(lastRowid', closing, h) + Forgotten(h)'
  BY DEF Counted
<1>11. Counted(h) = user[h] + PendingIn(todo, h) + PointersIn(field, h)
                    + RowidsIn(lastRowid, closing, h) + Forgotten(h)
  BY DEF Counted
<1> DEFINE a == user[h]
           aa == user'[h]
           b == PendingIn(todo, h)
           bb == PendingIn(todo', h)
           c == PointersIn(field, h)
           cc == PointersIn(field', h)
           d == RowidsIn(lastRowid, closing, h)
           dd == RowidsIn(lastRowid', closing, h)
           e == Forgotten(h)
           ee == Forgotten(h)'
           f == CountOf(field[x], h)
           ff == CountOf(field'[x], h)
           g == RowidOf(lastRowid, closing, s, h)
           gg == RowidOf(lastRowid', closing, s, h)
<1>12. /\ a \in Nat /\ aa \in Nat /\ b \in Nat /\ bb \in Nat /\ c \in Nat
       /\ cc \in Nat /\ d \in Nat /\ dd \in Nat /\ e \in Nat /\ ee \in Nat
       /\ f \in Nat /\ ff \in Nat /\ g \in Nat /\ gg \in Nat
       /\ cc = c - f + ff /\ dd = d - g + gg
  BY <1>2, <1>3, <1>4, <1>5, <1>6, <1>7, <1>8, <1>9
<1> HIDE DEF a, aa, b, bb, c, cc, d, dd, e, ee, f, ff, g, gg
<1>13. /\ aa + bb + cc + dd + ee \in Nat
       /\ (aa + bb + cc + dd + ee) - (a + b + c + d + e) =
              (aa - a) + (bb - b) + (ff - f) + (gg - g) + (ee - e)
  BY <1>12
<1> QED BY <1>10, <1>11, <1>13 DEF a, aa, b, bb, c, cc, d, dd, e, ee, f, ff, g, gg

(* References are given back before something else is done. *)
LEMMA UnrefOK ==
    ASSUME NEW w \in Works, w.do = "unref" PROVE WorkOK(w) /\ WorkOK(w)'
<1> QED BY DEF WorkOK, FreeWorks, CloseWorks, SweepWorks

RestOK(r) ==
    \A i \in DOMAIN r : /\ WorkOK(r[i])'
                        /\ r[i].do = "freeStmt" => closing'[r[i].h]
LEMMA UnrefsThen ==
    ASSUME NEW u \in Seq(Works), Unrefs(u), NEW r \in Seq(Works), Shape(r),
           Settled(r), todo' = u \o r, RestOK(r)
    PROVE  /\ todo' \in Seq(Works) /\ Shape(todo') /\ WorksOK' /\ EndOK'
           /\ \A h : /\ FreesIn(todo', h) <=> FreesIn(r, h)
                     /\ ForgetsIn(todo', h) <=> ForgetsIn(r, h)
                     /\ Releases(todo', h) <=> Releases(r, h)
                     /\ PendingIn(todo', h) = PendingIn(u, h) + PendingIn(r, h)
<1> PICK p : p = todo' OBVIOUS
<1>1. p \in Seq(Works) /\ Shape(p) BY UnrefsPushed
<1>2. \A i \in DOMAIN p : p[i].do = "unref" \/ \E j \in DOMAIN r : p[i] = r[j]
  <2> SUFFICES ASSUME NEW i \in DOMAIN p
               PROVE  p[i].do = "unref" \/ \E j \in DOMAIN r : p[i] = r[j]
    OBVIOUS
  <2>1. \/ i \in DOMAIN u /\ p[i] = u[i]
        \/ i - Len(u) \in DOMAIN r /\ p[i] = r[i - Len(u)]
    OBVIOUS
  <2> QED BY <2>1 DEF Unrefs
<1>3. ASSUME NEW h
      PROVE  /\ FreesIn(p, h) <=> FreesIn(r, h)
             /\ ForgetsIn(p, h) <=> ForgetsIn(r, h)
             /\ Releases(p, h) <=> Releases(r, h)
             /\ PendingIn(p, h) = PendingIn(u, h) + PendingIn(r, h)
  <2>1. FreesIn(p, h) <=> FreesIn(r, h) BY UnrefsPushed
  <2>2. ForgetsIn(p, h) <=> ForgetsIn(r, h) BY UnrefsPushed
  <2>3. Releases(p, h) <=> Releases(r, h) BY UnrefsPushed
  <2>4. PendingIn(p, h) = PendingIn(u, h) + PendingIn(r, h) BY PendingConcat
  <2> QED BY <2>1, <2>2, <2>3, <2>4
<1>4. ASSUME NEW i \in DOMAIN p PROVE WorkOK(p[i])'
  <2>1. p[i] \in Works BY <1>1
  <2>2. CASE p[i].do = "unref" BY <2>1, <2>2, UnrefOK
  <2>3. ASSUME NEW j \in DOMAIN r, p[i] = r[j] PROVE WorkOK(p[i])'
    BY <2>3 DEF RestOK
  <2> QED BY <1>2, <2>2, <2>3
<1>5. WorksOK' BY <1>4 DEF WorksOK
<1>6. EndOK' BY <1>2 DEF EndOK, RestOK
<1> QED BY <1>1, <1>3, <1>5, <1>6

LEMMA HoldsFields ==
    ASSUME Inv, NEW x \in Blocks, KeepsFields(x)
    PROVE  /\ FieldsFit(kind[x], field[x])
           /\ DOMAIN field[x] = RolesOf(kind[x])
           /\ IsFiniteSet(DOMAIN field[x])
           /\ \A r \in RolesOf(kind[x]) : field[x][r] \in Blocks \cup {NULL}
<1>1. FieldsFit(kind[x], field[x]) BY DEF Inv, FieldsOK, FieldsFit
<1>2. DOMAIN field[x] = RolesOf(kind[x]) BY <1>1 DEF FieldsFit
<1>3. IsFiniteSet(DOMAIN field[x]) BY <1>2, RolesFinite
<1>4. \A r \in RolesOf(kind[x]) : field[x][r] \in Blocks \cup {NULL}
  BY <1>1 DEF FieldsFit
<1> QED BY <1>1, <1>2, <1>3, <1>4

LEMMA CountChanged ==
    ASSUME NEW f, IsFiniteSet(DOMAIN f), NEW r \in DOMAIN f,
           NEW g, DOMAIN g = DOMAIN f,
           \A z \in DOMAIN f : z # r => g[z] = f[z], NEW h
    PROVE  CountOf(g, h) = CountOf(f, h) - Is(f[r], h) + Is(g[r], h)
<1> DEFINE D == DOMAIN f \ {r}
<1>1. IsFiniteSet(D) /\ r \notin D /\ DOMAIN f = D \cup {r} BY FS_RemoveElement
<1>2. CountOn(f, D, h) = CountOn(g, D, h)
  <2>1. {z \in D : f[z] = h} = {z \in D : g[z] = h} OBVIOUS
  <2> QED BY <2>1 DEF CountOn
<1> HIDE DEF D
<1> PICK E : E = DOMAIN f OBVIOUS
<1>3. CountOn(f, E, h) = CountOn(f, D, h) + Is(f[r], h) /\ CountOn(f, D, h) \in Nat
  BY <1>1, CountInsert
<1>4. CountOn(g, E, h) = CountOn(g, D, h) + Is(g[r], h) BY <1>1, CountInsert
<1>5. CountOf(f, h) = CountOn(f, E, h) /\ CountOf(g, h) = CountOn(g, E, h)
  BY DEF CountOf, CountOn
<1> QED BY <1>2, <1>3, <1>4, <1>5 DEF Is

(* One field of a handle gets another value, and the one before is given    *)
(* back.                                                                    *)
RestFrees(rest) ==
    \A h \in Blocks : /\ FreesIn(rest, h) <=> FreesIn(todo, h)
                      /\ ForgetsIn(rest, h) <=> ForgetsIn(todo, h)
                      /\ Releases(todo, h) => Releases(rest, h)
RestBalances(rest, y) ==
    /\ refCount' \in [Blocks -> Int]
    /\ \A h \in Blocks :
           /\ refCount'[h] >= refCount[h]
           /\ Dead(h) => refCount'[h] = refCount[h]
           /\ refCount'[h] - refCount[h] =
                  Is(y, h) + (PendingIn(rest, h) - PendingIn(todo, h))
                  + (Forgotten(h)' - Forgotten(h))
Losing == lost' \subseteq Blocks /\ \A h \in lost' : h \in lost \/ IsVar(h)
Rekinded ==
    kind' = [h \in Blocks |-> kind'[h]] /\ \A h \in Blocks : SameKind(h)
Then(unrefs, rest) ==
    /\ rest \in Seq(Works) /\ Settled(rest) /\ Shape(rest)
    /\ RestOK(rest) /\ RestFrees(rest)
    /\ todo' = unrefs \o rest
SetField(x, r, y) == field' = [field EXCEPT ![x] = [@ EXCEPT ![r] = y]]
LEMMA SwapStep ==
    ASSUME Inv, UNCHANGED <<quota, mem, oci, closing, lists, user, lastRowid>>,
           Rekinded,
           NEW x \in Blocks, KeepsFields(x), NEW r \in RolesOf(kind[x]),
           NEW y \in Blocks \cup {NULL}, PointerOK(kind[x], r, y),
           kind[x] \in Queues => r \notin {"first", "second"},
           IsStmt(x) => ~closing[x],
           SetField(x, r, y),
           NEW rest, Then(UnrefOf(field[x][r]), rest), Losing,
           RestBalances(rest, y)
    PROVE  Inv'
<1>1. /\ FieldsFit(kind[x], field[x]) /\ DOMAIN field[x] = RolesOf(kind[x])
      /\ IsFiniteSet(DOMAIN field[x])
      /\ field[x][r] \in Blocks \cup {NULL}
  BY HoldsFields
<1>2. field = [z \in Blocks |-> field[z]] BY DEF Inv, HandlesTypes
<1>3. /\ field' = [z \in Blocks |-> field'[z]]
      /\ field'[x] = [field[x] EXCEPT ![r] = y]
      /\ \A z \in Blocks \ {x} : field'[z] = field[z]
  BY <1>2 DEF SetField
<1>4. FieldsFit(kind[x], field'[x])
  <2>1. field'[x] \in [RolesOf(kind[x]) -> Blocks \cup {NULL}]
    BY <1>1, <1>3 DEF FieldsFit
  <2>2. \A z \in RolesOf(kind[x]) : PointerOK(kind[x], z, field'[x][z])
    BY <1>1, <1>3 DEF FieldsFit
  <2>3. kind[x] \in Queues => /\ "first" \in DOMAIN field[x]
                              /\ "second" \in DOMAIN field[x]
    BY <1>1 DEF RolesOf, Queues, StmtKinds, Queries, VarKinds
  <2>4. kind[x] \in Queues /\ field'[x].first = field'[x].second =>
            field'[x].first = NULL
    BY <1>1, <1>3, <2>3 DEF FieldsFit
  <2> HIDE DEF RolesOf, PointerOK, Queues
  <2> QED BY <2>1, <2>2, <2>4 DEF FieldsFit
<1>5. /\ todo' \in Seq(Works) /\ Shape(todo') /\ WorksOK' /\ EndOK'
      /\ \A h : /\ FreesIn(todo', h) <=> FreesIn(rest, h)
                /\ ForgetsIn(todo', h) <=> ForgetsIn(rest, h)
                /\ Releases(todo', h) <=> Releases(rest, h)
                /\ PendingIn(todo', h) =
                       PendingIn(UnrefOf(field[x][r]), h) + PendingIn(rest, h)
  <2> DEFINE u == UnrefOf(field[x][r])
  <2>1. /\ u \in Seq(Works) /\ Unrefs(u) /\ todo' = u \o rest
        /\ rest \in Seq(Works) /\ Settled(rest) /\ Shape(rest) /\ RestOK(rest)
    BY <1>1, UnrefOfOne DEF Then
  <2> HIDE DEF u
  <2>2. todo' \in Seq(Works) BY <2>1, UnrefsThen
  <2>3. Shape(todo') BY <2>1, UnrefsThen
  <2>4. WorksOK' BY <2>1, UnrefsThen
  <2>5. EndOK' BY <2>1, UnrefsThen
  <2>6. \A h : /\ FreesIn(todo', h) <=> FreesIn(rest, h)
               /\ ForgetsIn(todo', h) <=> ForgetsIn(rest, h)
               /\ Releases(todo', h) <=> Releases(rest, h)
               /\ PendingIn(todo', h) = PendingIn(u, h) + PendingIn(rest, h)
    BY <2>1, UnrefsThen
  <2> QED BY <2>2, <2>3, <2>4, <2>5, <2>6 DEF u
<1>6. TypedAfter /\ closing' = closing
  BY <1>5 DEF TypedAfter, Inv, HandlesTypes
<1>7. ASSUME NEW h \in Blocks
      PROVE  /\ Counted(h)' \in Int
             /\ refCount'[h] - Counted(h)' = refCount[h] - Counted(h)
  <2>1. /\ IsFiniteSet(DOMAIN field'[x])
        /\ CountOf(field[x], h) \in Nat
        /\ CountOf(field'[x], h) =
               CountOf(field[x], h) - Is(field[x][r], h) + Is(y, h)
    <3> PICK f : f = field[x] OBVIOUS
    <3>1. IsFiniteSet(DOMAIN f) /\ r \in DOMAIN f BY <1>1
    <3>2. CountOf(f, h) \in Nat BY <3>1, CountExcept
    <3> PICK g : g = field'[x] OBVIOUS
    <3>3. /\ DOMAIN g = DOMAIN f /\ g[r] = y
          /\ \A z \in DOMAIN f : z # r => g[z] = f[z]
      BY <1>3, <3>1
    <3>4. CountOf(g, h) = CountOf(f, h) - Is(f[r], h) + Is(g[r], h)
      BY <3>1, <3>3, CountChanged
    <3> QED BY <3>1, <3>2, <3>3, <3>4
  <2>2. /\ Counted(h)' \in Nat
        /\ Counted(h)' - Counted(h) =
               (user'[h] - user[h])
               + (PendingIn(todo', h) - PendingIn(todo, h))
               + (CountOf(field'[x], h) - CountOf(field[x], h))
               + (RowidOf(lastRowid', closing, x, h)
                      - RowidOf(lastRowid, closing, x, h))
               + (Forgotten(h)' - Forgotten(h))
    <3>1. \A z \in Blocks \ {x} : lastRowid'[z] = lastRowid[z] OBVIOUS
    <3>2. IsFiniteSet(DOMAIN field'[x]) BY <2>1
    <3>3. \A z \in Blocks \ {x} : field'[z] = field[z] BY <1>3
    <3> HIDE DEF Inv, Counted
    <3>4. Counted(h)' \in Nat BY <1>6, <3>1, <3>2, <3>3, CountedAfter
    <3>5. Counted(h)' - Counted(h) =
               (user'[h] - user[h])
               + (PendingIn(todo', h) - PendingIn(todo, h))
               + (CountOf(field'[x], h) - CountOf(field[x], h))
               + (RowidOf(lastRowid', closing, x, h)
                      - RowidOf(lastRowid, closing, x, h))
               + (Forgotten(h)' - Forgotten(h))
      BY <1>6, <3>1, <3>2, <3>3, CountedAfter
    <3> QED BY <3>4, <3>5
  <2>3. PendingIn(todo', h) = Is(field[x][r], h) + PendingIn(rest, h)
    BY <1>1, <1>5, UnrefOfOne
  <2>4. user'[h] - user[h] = 0 /\ RowidOf(lastRowid', closing, x, h)
                      - RowidOf(lastRowid, closing, x, h) = 0
    <3>1. user[h] \in Nat /\ user'[h] = user[h] BY Parts
    <3> QED BY <3>1 DEF RowidOf
  <2>5. /\ PendingIn(todo, h) \in Nat /\ PendingIn(rest, h) \in Nat
        /\ Counted(h) \in Nat /\ refCount[h] \in Int /\ refCount'[h] \in Int
        /\ Is(y, h) \in Nat /\ Is(field[x][r], h) \in Nat
        /\ Forgotten(h) \in Nat /\ Forgotten(h)' \in Nat
    BY Parts, PendingFinite DEF Is, Forgotten, Then, RestBalances
  <2>6. refCount'[h] - refCount[h] =
            Is(y, h) + (PendingIn(rest, h) - PendingIn(todo, h))
            + (Forgotten(h)' - Forgotten(h))
    BY DEF RestBalances
  <2> DEFINE a == PendingIn(todo, h)
             b == PendingIn(rest, h)
             c == PendingIn(todo', h)
             d == Is(y, h)
             e == Is(field[x][r], h)
             f == CountOf(field[x], h)
             g == CountOf(field'[x], h)
             m == Counted(h)
             n == Counted(h)'
             p == Forgotten(h)
             q == Forgotten(h)'
             v == refCount'[h]
             w == refCount[h]
             s == user'[h] - user[h]
             t == RowidOf(lastRowid', closing, x, h)
                      - RowidOf(lastRowid, closing, x, h)
  <2>7. /\ n \in Nat /\ n - m = s + (c - a) + (g - f) + t + (q - p)
        /\ c = e + b /\ g = f - e + d /\ f \in Nat /\ s = 0 /\ t = 0
        /\ a \in Nat /\ b \in Nat /\ m \in Nat /\ d \in Nat /\ e \in Nat
        /\ p \in Nat /\ q \in Nat
        /\ v - w = d + (b - a) + (q - p) /\ v \in Int /\ w \in Int
    BY <2>1, <2>2, <2>3, <2>4, <2>5, <2>6
  <2> HIDE DEF a, b, c, d, e, f, g, m, n, p, q, s, t, v, w
  <2>8. n - m = v - w
    <3>1. c - a = e + (b - a) /\ g - f = d - e BY <2>7
    <3>2. c - a \in Int /\ g - f \in Int /\ q - p \in Int /\ b - a \in Int
      BY <2>7
    <3>3. n - m = (c - a) + (g - f) + (q - p) BY <2>7, <3>2
    <3>4. n - m = e + (b - a) + (d - e) + (q - p) BY <3>1, <3>3
    <3> QED BY <2>7, <3>2, <3>4
  <2>9. n \in Int /\ v - n = w - m BY <2>7, <2>8
  <2> QED BY <2>9 DEF m, n, v, w
<1>8. ASSUME NEW z \in Blocks
      PROVE  \/ field'[z] = field[z]
             \/ /\ KeepsFields(z) /\ FieldsFit(kind[z], field'[z])
                /\ \A q \in RolesOf(kind[z]) :
                      field'[z][q] # NULL => SameKind(field'[z][q])
                /\ IsStmt(z) /\ closing[z] =>
                      field'[z].bind = NULL /\ field'[z].column = NULL
  <2>1. CASE z = x
    <3>1. \A q \in RolesOf(kind[x]) : field'[x][q] \in Blocks \cup {NULL}
      BY <1>4 DEF FieldsFit
    <3> QED BY <1>4, <2>1, <3>1 DEF Rekinded
  <2>2. CASE z # x BY <1>3, <2>2
  <2> QED BY <2>1, <2>2
<1>9. /\ user' \in [Blocks -> Nat] /\ user' = user
      /\ lastRowid' \in [Blocks -> Blocks \cup {NULL}]
      /\ \A s \in Blocks : lastRowid'[s] \in {lastRowid[s], NULL}
  BY DEF Inv, HandlesTypes
<1>10. \A h \in Blocks : /\ FreesIn(todo', h) <=> FreesIn(todo, h)
                         /\ ForgetsIn(todo', h) <=> ForgetsIn(todo, h)
                         /\ Releases(todo, h) => Releases(todo', h)
  BY <1>5 DEF RestFrees, Then
<1>11. \A h \in Blocks : /\ refCount'[h] >= refCount[h] /\ Counted(h)' \in Int
                         /\ refCount'[h] - Counted(h)' = refCount[h] - Counted(h)
                         /\ Dead(h) => refCount'[h] = refCount[h]
  BY <1>7 DEF RestBalances
<1>12. /\ todo' \in Seq(Works) /\ Shape(todo') /\ EndOK' /\ WorksOK'
       /\ UNCHANGED <<quota, mem, oci, closing, lists>>
       /\ \A h \in Blocks : SameKind(h)
  BY <1>5 DEF Rekinded
<1>13. /\ lost' \subseteq Blocks /\ \A h \in lost' : h \in lost \/ IsVar(h)
       /\ kind' = [h \in Blocks |-> kind'[h]] /\ refCount' \in [Blocks -> Int]
  BY DEF Losing, Rekinded, RestBalances
<1> HIDE DEF FieldsFit, SameKind, PointerOK
<1> QED BY <1>3, <1>8, <1>9, <1>10, <1>11, <1>12, <1>13, MoveStep

(* Between calls of the program nothing else is left to be done.            *)
LEMMA IdleThen ==
    ASSUME Idle, NEW u \in Seq(Works), todo' = u
    PROVE  Then(u, <<>>)
<1>1. u \o <<>> = u OBVIOUS
<1>2. /\ <<>> \in Seq(Works) /\ Settled(<<>>) /\ Shape(<<>>)
      /\ RestFrees(<<>>) /\ RestOK(<<>>)
  BY NoWorkShape DEF Idle, RestFrees, RestOK
<1> QED BY <1>1, <1>2 DEF Then

(* The new value of a field is held with another reference.                 *)
LEMMA TakesOne ==
    ASSUME Inv, NEW y \in Blocks, ~Dead(y), NEW rest,
           refCount' = [refCount EXCEPT ![y] = @ + 1], lost' = lost,
           \A h \in Blocks : PendingIn(rest, h) = PendingIn(todo, h)
    PROVE  RestBalances(rest, y)
<1>1. refCount \in [Blocks -> Int] BY DEF Inv, HandlesTypes
<1>2. refCount' \in [Blocks -> Int] BY <1>1
<1>3. ASSUME NEW h \in Blocks
      PROVE  /\ refCount'[h] >= refCount[h]
             /\ Dead(h) => refCount'[h] = refCount[h]
             /\ refCount'[h] - refCount[h] =
                    Is(y, h) + (PendingIn(rest, h) - PendingIn(todo, h))
                    + (Forgotten(h)' - Forgotten(h))
  <2>1. Forgotten(h)' = Forgotten(h) /\ Forgotten(h) \in Nat BY DEF Forgotten
  <2>2. PendingIn(rest, h) = PendingIn(todo, h) /\ PendingIn(todo, h) \in Nat
    BY Parts
  <2>3. refCount[h] \in Int /\ refCount'[h] = refCount[h] + Is(y, h)
    BY <1>1 DEF Is
  <2>4. Dead(h) => h # y OBVIOUS
  <2>5. Is(y, h) \in {0, 1} /\ (h # y => Is(y, h) = 0) BY DEF Is
  <2> HIDE DEF Inv, Dead, Is
  <2> QED BY <2>1, <2>2, <2>3, <2>4, <2>5
<1> QED BY <1>2, <1>3 DEF RestBalances

LEMMA KindsUnchanged == ASSUME Inv, kind' = kind PROVE Rekinded
<1> QED BY DEF Inv, HandlesTypes, Rekinded, SameKind

LEMMA OpenNotClosing ==
    ASSUME Inv, Idle, NEW s \in Blocks, IsStmt(s), oci[s] = "open"
    PROVE  ~closing[s]
<1>1. StmtOK(s) BY DEF Inv
<1>2. ~Releases(todo, s) BY DEF Idle, Releases
<1> QED BY <1>1, <1>2 DEF StmtOK

LEMMA PartsOfQueue ==
    \A k \in StmtKinds \cup VarKinds \cup {"msgProps"} : k \notin Queues
<1> QED BY DEF StmtKinds, VarKinds, Queries, Queues

LEMMA RolesAre ==
    /\ \A k \in {"lob", "deqOptions", "enqOptions", "json", "sodaDb"} :
          RolesOf(k) = {"conn"}
    /\ RolesOf("objectType") = {"conn", "element"}
    /\ RolesOf("objectAttr") = {"belongsTo", "valueType"}
    /\ RolesOf("object") = {"type", "dependsOn"}
    /\ RolesOf("msgProps") = {"conn", "payloadObj", "payloadJson"}
    /\ \A k \in Queues :
          RolesOf(k) = {"conn", "payloadType", "deqOptions", "enqOptions",
                        "first", "second"}
    /\ \A k \in {"sodaColl", "sodaDoc", "sodaCollCursor"} : RolesOf(k) = {"db"}
    /\ RolesOf("sodaDocCursor") = {"coll"}
    /\ \A k \in StmtKinds : RolesOf(k) = {"conn", "bind", "column"}
    /\ \A k \in VarKinds : RolesOf(k) = {"conn", "type", "value", "returned"}
    /\ RolesOf("rowid") = {} /\ RolesOf("conn") = {}
<1>1. ASSUME NEW k \in {"lob", "deqOptions", "enqOptions", "json", "sodaDb"}
      PROVE  RolesOf(k) = {"conn"}
  BY DEF RolesOf, Queues, StmtKinds, Queries, VarKinds
<1>2. RolesOf("objectType") = {"conn", "element"}
  BY DEF RolesOf, Queues, StmtKinds, Queries, VarKinds
<1>3. RolesOf("objectAttr") = {"belongsTo", "valueType"}
  BY DEF RolesOf, Queues, StmtKinds, Queries, VarKinds
<1>4. RolesOf("object") = {"type", "dependsOn"}
  BY DEF RolesOf, Queues, StmtKinds, Queries, VarKinds
<1>5. RolesOf("msgProps") = {"conn", "payloadObj", "payloadJson"}
  BY DEF RolesOf, Queues, StmtKinds, Queries, VarKinds
<1>6. ASSUME NEW k \in Queues
      PROVE  RolesOf(k) = {"conn", "payloadType", "deqOptions", "enqOptions",
                           "first", "second"}
  BY DEF RolesOf, Queues, StmtKinds, Queries, VarKinds
<1>7. ASSUME NEW k \in {"sodaColl", "sodaDoc", "sodaCollCursor"}
      PROVE  RolesOf(k) = {"db"}
  BY DEF RolesOf, Queues, StmtKinds, Queries, VarKinds
<1>8. RolesOf("sodaDocCursor") = {"coll"}
  BY DEF RolesOf, Queues, StmtKinds, Queries, VarKinds
<1>9. ASSUME NEW k \in StmtKinds PROVE RolesOf(k) = {"conn", "bind", "column"}
  BY DEF RolesOf, Queues, StmtKinds, Queries, VarKinds
<1>10. ASSUME NEW k \in VarKinds
       PROVE  RolesOf(k) = {"conn", "type", "value", "returned"}
  BY DEF RolesOf, Queues, StmtKinds, Queries, VarKinds
<1>11. RolesOf("rowid") = {}
  BY DEF RolesOf, Queues, StmtKinds, Queries, VarKinds
<1>12. RolesOf("conn") = {}
  BY DEF RolesOf, Queues, StmtKinds, Queries, VarKinds
<1> QED BY <1>1, <1>2, <1>3, <1>4, <1>5, <1>6, <1>7, <1>8, <1>9, <1>10,
           <1>11, <1>12

LEMMA SetPayloadKeeps ==
    ASSUME Inv, NEW p \in Blocks, NEW x \in Blocks,
           SetPayloadObject(p, x) \/ SetPayloadJson(p, x), UNCHANGED varVars
    PROVE  Inv'
<1>1. PICK role \in {"payloadObj", "payloadJson"} :
          SetPayload(p, role, x) /\ kind[x] \in KindsOf("msgProps", role)
  BY DEF SetPayloadObject, SetPayloadJson, KindsOf
<1>2. /\ kind[p] = "msgProps" /\ Idle /\ KeepsFields(p) /\ ~Dead(x)
      /\ role \in RolesOf("msgProps") /\ x # NULL
  <2>1. kind[p] = "msgProps" /\ Idle /\ user[p] > 0 /\ user[x] > 0
    BY <1>1 DEF SetPayload, Has
  <2>2. KeepsFields(p) /\ ~Dead(x) BY <2>1, UsersAlive
  <2>3. role \in RolesOf("msgProps") BY <1>1, RolesAre
  <2>4. x # NULL BY HandleTreeAssumption
  <2> QED BY <2>1, <2>2, <2>3, <2>4
<1>3. field[p][role] \in Blocks \cup {NULL} BY <1>2, HoldsFields
<1>4. Then(UnrefOf(field[p][role]), <<>>)
  <2>1. UnrefOf(field[p][role]) \in Seq(Works) BY <1>3, UnrefOfOne
  <2> QED BY <1>1, <1>2, <2>1, IdleThen DEF SetPayload
<1>5. RestBalances(<<>>, x)
  BY <1>1, <1>2, TakesOne DEF SetPayload, Idle, varVars
<1>6. Rekinded BY <1>1, KindsUnchanged DEF SetPayload
<1>7. Losing BY DEF Losing, varVars, Inv, HandlesTypes
<1>8. /\ PointerOK(kind[p], role, x) /\ SetField(p, role, x)
      /\ kind[p] \notin Queues /\ ~IsStmt(p)
      /\ UNCHANGED <<quota, mem, oci, closing, lists, user, lastRowid>>
  <2>1. PointerOK(kind[p], role, x) BY <1>1, <1>2 DEF PointerOK
  <2>2. kind[p] \notin Queues /\ ~IsStmt(p)
    BY <1>2 DEF IsStmt, StmtKinds, Queries, Queues
  <2> QED BY <1>1, <2>1, <2>2 DEF SetPayload, SetField, listVars, varVars
<1> QED BY <1>2, <1>4, <1>5, <1>6, <1>7, <1>8, SwapStep

LEMMA Contained ==
    \A k \in VarKinds : \A x : x \in ContentKinds[k] => x \in Contents(k)
<1> QED BY DEF VarKinds, ContentKinds, Contents

LEMMA HoldValueKeeps ==
    ASSUME Inv, NEW v \in Blocks, NEW x \in Blocks,
           SetFromHandle(v, x) \/ CopyData(v, x), UNCHANGED <<tpc, numElements>>
    PROVE  Inv'
<1>1. PICK y \in Blocks : HoldValue(v, y) /\ HasVar(v) /\ ~Dead(y)
  <2>1. CASE SetFromHandle(v, x)
    <3>1. user[x] > 0 /\ HoldValue(v, x) /\ HasVar(v) BY <2>1 DEF SetFromHandle
    <3>2. ~Dead(x) BY <3>1, UsersAlive
    <3> QED BY <3>1, <3>2
  <2>2. CASE CopyData(v, x)
    <3>1. /\ HasVar(v) /\ HasVar(x) /\ field[x].value # NULL
          /\ HoldValue(v, field[x].value)
      BY <2>2 DEF CopyData
    <3>2. KeepsFields(x) /\ kind[x] \in VarKinds
      BY <3>1, UsersAlive DEF HasVar, IsVar
    <3>3. "value" \in RolesOf(kind[x]) BY <3>2, RolesAre
    <3>4. "value" \in DOMAIN field[x] /\ field[x].value \in Blocks
      BY <3>1, <3>2, <3>3, HoldsFields
    <3>5. ~Dead(field[x].value) BY <3>4, PointedAlive
    <3> QED BY <3>1, <3>4, <3>5
  <2> QED BY <2>1, <2>2
<1>2. /\ kind[v] \in VarKinds /\ Idle /\ KeepsFields(v) /\ y # NULL
      /\ "value" \in RolesOf(kind[v])
  <2>1. kind[v] \in VarKinds /\ Idle /\ user[v] > 0 BY <1>1 DEF HasVar, IsVar
  <2>2. KeepsFields(v) BY <2>1, UsersAlive
  <2>3. "value" \in RolesOf(kind[v]) BY <2>1, RolesAre
  <2>4. y # NULL BY HandleTreeAssumption
  <2> QED BY <2>1, <2>2, <2>3, <2>4
<1>3. field[v].value \in Blocks \cup {NULL} BY <1>2, HoldsFields
<1>4. Then(UnrefOf(field[v].value), <<>>)
  <2>1. UnrefOf(field[v].value) \in Seq(Works) BY <1>3, UnrefOfOne
  <2> QED BY <1>1, <1>2, <2>1, IdleThen DEF HoldValue
<1>5. RestBalances(<<>>, y)
  BY <1>1, <1>2, TakesOne DEF HoldValue, Idle, varVars
<1>6. Rekinded BY <1>1, KindsUnchanged DEF HoldValue
<1>7. Losing BY <1>1 DEF HoldValue, Losing, varVars, Inv, HandlesTypes
<1>8. PointerOK(kind[v], "value", y)
  <2>1. kind[y] \in Contents(kind[v])
    BY <1>1, <1>2, Contained DEF HoldValue, Fits
  <2> QED BY <1>2, <2>1 DEF PointerOK, KindsOf
<1>9. /\ kind[v] \notin Queues /\ ~IsStmt(v)
  BY <1>2 DEF IsStmt, StmtKinds, Queries, Queues, VarKinds
<1>10. /\ SetField(v, "value", y)
       /\ UNCHANGED <<quota, mem, oci, closing, lists, user, lastRowid>>
  BY <1>1 DEF HoldValue, SetField, listVars, varVars
<1> QED BY <1>2, <1>4, <1>5, <1>6, <1>7, <1>8, <1>9, <1>10, SwapStep

(* A statement is given a variable for its bind or its column.              *)
LEMMA VariableSet ==
    ASSUME Inv, NEW s \in Blocks, NEW v \in Blocks, StmtCheck(s), HasVar(v),
           NEW role \in {"bind", "column"}, SetField(s, role, v),
           refCount' = [refCount EXCEPT ![v] = @ + 1],
           todo' = UnrefOf(field[s][role]),
           UNCHANGED <<quota, mem, kind, oci, listVars, user, lastRowid, lost>>
    PROVE  Inv'
<1>1. /\ Idle /\ IsStmt(s) /\ kind[s] \in StmtKinds /\ ~closing[s]
      /\ KeepsFields(s) /\ ~Dead(v) /\ kind[v] \in VarKinds /\ v # NULL
  <2>1. /\ Idle /\ IsStmt(s) /\ oci[s] = "open" /\ user[s] > 0 /\ user[v] > 0
        /\ IsVar(v)
    BY DEF StmtCheck, HasStmt, HasVar
  <2>2. KeepsFields(s) /\ ~Dead(v) BY <2>1, UsersAlive
  <2>3. ~closing[s] BY <2>1, OpenNotClosing
  <2> QED BY <2>1, <2>2, <2>3, HandleTreeAssumption DEF IsStmt, IsVar
<1>2. role \in RolesOf(kind[s]) /\ kind[s] \notin Queues
  BY <1>1, RolesAre, PartsOfQueue
<1>3. PointerOK(kind[s], role, v) BY <1>1 DEF PointerOK, KindsOf
<1>4. Then(UnrefOf(field[s][role]), <<>>)
  <2>1. field[s][role] \in Blocks \cup {NULL} BY <1>1, <1>2, HoldsFields
  <2>2. UnrefOf(field[s][role]) \in Seq(Works) BY <2>1, UnrefOfOne
  <2> QED BY <1>1, <2>2, IdleThen
<1>5. RestBalances(<<>>, v) BY <1>1, TakesOne DEF Idle
<1>6. Rekinded BY KindsUnchanged
<1>7. Losing BY DEF Losing, Inv, HandlesTypes
<1>8. UNCHANGED <<quota, mem, oci, closing, lists, user, lastRowid>>
  BY DEF listVars
<1> QED BY <1>1, <1>2, <1>3, <1>4, <1>5, <1>6, <1>7, <1>8, SwapStep

LEMMA BindKeeps ==
    ASSUME Inv, NEW s \in Blocks, NEW v \in Blocks, Bind(s, v) PROVE Inv'
<1>1. UnrefOf(field[s].bind) \o <<>> = UnrefOf(field[s].bind) BY DEF UnrefOf
<1>2. /\ StmtCheck(s) /\ HasVar(v) /\ SetField(s, "bind", v)
      /\ refCount' = [refCount EXCEPT ![v] = @ + 1]
      /\ todo' = UnrefOf(field[s].bind)
      /\ UNCHANGED <<quota, mem, kind, oci, listVars, user, lastRowid, lost>>
  BY <1>1 DEF Bind, Attach, SetField
<1> QED BY <1>2, VariableSet

LEMMA DefineKeeps ==
    ASSUME Inv, NEW s \in Blocks, NEW v \in Blocks, Define(s, v) PROVE Inv'
<1>1. /\ StmtCheck(s) /\ HasVar(v) /\ SetField(s, "column", v)
      /\ refCount' = [refCount EXCEPT ![v] = @ + 1]
      /\ todo' = UnrefOf(field[s].column)
      /\ UNCHANGED <<quota, mem, kind, oci, listVars, user, lastRowid, lost>>
  BY DEF Define, SetColumn, SetField, varVars
<1> QED BY <1>1, VariableSet

-----------------------------------------------------------------------------
(* Steps after which the fields are as before.                              *)
KeptBalance(u, rest, s) ==
    /\ refCount' \in [Blocks -> Int]
    /\ \A h \in Blocks :
           /\ refCount'[h] >= refCount[h]
           /\ Dead(h) => refCount'[h] = refCount[h]
           /\ refCount'[h] - refCount[h] =
                  (user'[h] - user[h])
                  + (PendingIn(u, h) + PendingIn(rest, h) - PendingIn(todo, h))
                  + (RowidOf(lastRowid', closing, s, h)
                         - RowidOf(lastRowid, closing, s, h))
                  + (Forgotten(h)' - Forgotten(h))
RowidLeft(s) ==
    /\ lastRowid' \in [Blocks -> Blocks \cup {NULL}]
    /\ lastRowid'[s] \in {lastRowid[s], NULL}
    /\ \A y \in Blocks \ {s} : lastRowid'[y] = lastRowid[y]
UserTyped == user' \in [Blocks -> Nat]
LEMMA KeepStep ==
    ASSUME Inv, UNCHANGED <<quota, mem, kind, field, oci, closing, lists>>,
           UserTyped, NEW s \in Blocks, RowidLeft(s), Losing,
           NEW u \in Seq(Works), Unrefs(u), NEW rest, Then(u, rest),
           KeptBalance(u, rest, s)
    PROVE  Inv'
<1>5. /\ todo' \in Seq(Works) /\ Shape(todo') /\ WorksOK' /\ EndOK'
      /\ \A h : /\ FreesIn(todo', h) <=> FreesIn(rest, h)
                /\ ForgetsIn(todo', h) <=> ForgetsIn(rest, h)
                /\ Releases(todo', h) <=> Releases(rest, h)
                /\ PendingIn(todo', h) = PendingIn(u, h) + PendingIn(rest, h)
  <2>1. /\ u \in Seq(Works) /\ Unrefs(u) /\ todo' = u \o rest
        /\ rest \in Seq(Works) /\ Settled(rest) /\ Shape(rest) /\ RestOK(rest)
    BY DEF Then
  <2>2. todo' \in Seq(Works) BY <2>1, UnrefsThen
  <2>3. Shape(todo') BY <2>1, UnrefsThen
  <2>4. WorksOK' BY <2>1, UnrefsThen
  <2>5. EndOK' BY <2>1, UnrefsThen
  <2>6. \A h : /\ FreesIn(todo', h) <=> FreesIn(rest, h)
               /\ ForgetsIn(todo', h) <=> ForgetsIn(rest, h)
               /\ Releases(todo', h) <=> Releases(rest, h)
               /\ PendingIn(todo', h) = PendingIn(u, h) + PendingIn(rest, h)
    BY <2>1, UnrefsThen
  <2> QED BY <2>2, <2>3, <2>4, <2>5, <2>6
<1>6. TypedAfter /\ closing' = closing BY <1>5 DEF TypedAfter, UserTyped
<1>7. ASSUME NEW h \in Blocks
      PROVE  /\ Counted(h)' \in Int
             /\ refCount'[h] - Counted(h)' = refCount[h] - Counted(h)
  <2>1. /\ IsFiniteSet(DOMAIN field'[s]) /\ CountOf(field[s], h) \in Nat
        /\ CountOf(field'[s], h) = CountOf(field[s], h)
    <3>1. FiniteFields(field) /\ field' = field BY FieldsFinite
    <3>2. CountOf(field[s], h) \in Nat BY <3>1, PointersSplit
    <3> QED BY <3>1, <3>2 DEF FiniteFields
  <2>2. /\ Counted(h)' \in Nat
        /\ Counted(h)' - Counted(h) =
               (user'[h] - user[h])
               + (PendingIn(todo', h) - PendingIn(todo, h))
               + (CountOf(field'[s], h) - CountOf(field[s], h))
               + (RowidOf(lastRowid', closing, s, h)
                      - RowidOf(lastRowid, closing, s, h))
               + (Forgotten(h)' - Forgotten(h))
    <3>1. \A z \in Blocks \ {s} : lastRowid'[z] = lastRowid[z] BY DEF RowidLeft
    <3>2. \A z \in Blocks \ {s} : field'[z] = field[z] OBVIOUS
    <3> HIDE DEF Inv, Counted
    <3>4. Counted(h)' \in Nat BY <1>6, <2>1, <3>1, <3>2, CountedAfter
    <3>5. Counted(h)' - Counted(h) =
               (user'[h] - user[h])
               + (PendingIn(todo', h) - PendingIn(todo, h))
               + (CountOf(field'[s], h) - CountOf(field[s], h))
               + (RowidOf(lastRowid', closing, s, h)
                      - RowidOf(lastRowid, closing, s, h))
               + (Forgotten(h)' - Forgotten(h))
      BY <1>6, <2>1, <3>1, <3>2, CountedAfter
    <3> QED BY <3>4, <3>5
  <2>3. PendingIn(todo', h) = PendingIn(u, h) + PendingIn(rest, h) BY <1>5
  <2>5. /\ PendingIn(todo, h) \in Nat /\ PendingIn(rest, h) \in Nat
        /\ PendingIn(u, h) \in Nat
        /\ Counted(h) \in Nat /\ refCount[h] \in Int /\ refCount'[h] \in Int
        /\ Forgotten(h) \in Nat /\ Forgotten(h)' \in Nat
        /\ user[h] \in Nat /\ user'[h] \in Nat
    BY Parts, PendingFinite DEF Forgotten, Then, KeptBalance, UserTyped
  <2>6. refCount'[h] - refCount[h] =
            (user'[h] - user[h])
            + (PendingIn(u, h) + PendingIn(rest, h) - PendingIn(todo, h))
            + (RowidOf(lastRowid', closing, s, h)
                   - RowidOf(lastRowid, closing, s, h))
            + (Forgotten(h)' - Forgotten(h))
    BY DEF KeptBalance
  <2>7. /\ RowidOf(lastRowid', closing, s, h) \in Nat
        /\ RowidOf(lastRowid, closing, s, h) \in Nat
    BY DEF RowidOf
  <2> DEFINE a == PendingIn(todo, h)
             b == PendingIn(rest, h)
             c == PendingIn(todo', h)
             d == PendingIn(u, h)
             f == CountOf(field[s], h)
             g == CountOf(field'[s], h)
             m == Counted(h)
             n == Counted(h)'
             p == Forgotten(h)
             q == Forgotten(h)'
             v == refCount'[h]
             w == refCount[h]
             i == user[h]
             j == user'[h]
             k == RowidOf(lastRowid', closing, s, h)
             l == RowidOf(lastRowid, closing, s, h)
  <2>8. /\ n \in Nat /\ n - m = (j - i) + (c - a) + (g - f) + (k - l) + (q - p)
        /\ c = d + b /\ g = f /\ f \in Nat /\ i \in Nat /\ j \in Nat
        /\ a \in Nat /\ b \in Nat /\ m \in Nat /\ d \in Nat /\ k \in Nat
        /\ p \in Nat /\ q \in Nat /\ l \in Nat
        /\ v - w = (j - i) + (d + b - a) + (k - l) + (q - p)
        /\ v \in Int /\ w \in Int
    BY <2>1, <2>2, <2>3, <2>5, <2>6, <2>7
  <2> HIDE DEF a, b, c, d, f, g, m, n, p, q, v, w, i, j, k, l
  <2>9. n \in Int /\ v - n = w - m BY <2>8
  <2> QED BY <2>9 DEF m, n, v, w
<1>8. \A z \in Blocks : SameKind(z) /\ field'[z] = field[z] BY DEF SameKind
<1>9. /\ user' \in [Blocks -> Nat]
      /\ lastRowid' \in [Blocks -> Blocks \cup {NULL}]
      /\ \A z \in Blocks : lastRowid'[z] \in {lastRowid[z], NULL}
      /\ lost' \subseteq Blocks /\ \A h \in lost' : h \in lost \/ IsVar(h)
      /\ kind' = [h \in Blocks |-> kind'[h]]
      /\ field' = [x \in Blocks |-> field'[x]]
      /\ refCount' \in [Blocks -> Int]
  BY DEF Inv, HandlesTypes, RowidLeft, UserTyped, Losing, KeptBalance
<1>10. \A h \in Blocks : /\ FreesIn(todo', h) <=> FreesIn(todo, h)
                         /\ ForgetsIn(todo', h) <=> ForgetsIn(todo, h)
                         /\ Releases(todo, h) => Releases(todo', h)
  BY <1>5 DEF RestFrees, Then
<1>11. \A h \in Blocks : /\ refCount'[h] >= refCount[h] /\ Counted(h)' \in Int
                         /\ refCount'[h] - Counted(h)' = refCount[h] - Counted(h)
                         /\ Dead(h) => refCount'[h] = refCount[h]
  BY <1>7 DEF KeptBalance
<1> HIDE DEF FieldsFit, SameKind, PointerOK
<1> QED BY <1>5, <1>8, <1>9, <1>10, <1>11, MoveStep

LEMMA SameRowids == ASSUME Inv, lastRowid' = lastRowid PROVE RowidLeft(Conn)
<1> QED BY DEF Inv, HandlesTypes, RowidLeft

LEMMA SameLost == ASSUME Inv, lost' = lost PROVE Losing
<1> QED BY DEF Inv, HandlesTypes, Losing

LEMMA NoneFirst ==
    /\ <<>> \in Seq(Works) /\ Unrefs(<<>>)
    /\ \A h : PendingIn(<<>>, h) = 0
<1> QED BY PendingEmpty DEF Unrefs

LEMMA ConnIsBlock == Conn \in Blocks
<1> QED BY HandleTreeAssumption

(* The balance of a step that only the program's references, the work and   *)
(* one reference count take part in.                                        *)
LEMMA SimpleBalance ==
    ASSUME Inv, UserTyped, refCount' \in [Blocks -> Int], lost' = lost,
           lastRowid' = lastRowid, NEW u \in Seq(Works), NEW rest \in Seq(Works),
           \A h \in Blocks :
               /\ refCount'[h] >= refCount[h]
               /\ Dead(h) => refCount'[h] = refCount[h]
               /\ refCount'[h] - refCount[h] =
                      (user'[h] - user[h])
                      + (PendingIn(u, h) + PendingIn(rest, h)
                             - PendingIn(todo, h))
    PROVE  KeptBalance(u, rest, Conn)
<1>1. ASSUME NEW h \in Blocks
      PROVE  refCount'[h] - refCount[h] =
                  (user'[h] - user[h])
                  + (PendingIn(u, h) + PendingIn(rest, h) - PendingIn(todo, h))
                  + (RowidOf(lastRowid', closing, Conn, h)
                         - RowidOf(lastRowid, closing, Conn, h))
                  + (Forgotten(h)' - Forgotten(h))
  <2>1. /\ RowidOf(lastRowid', closing, Conn, h)
               - RowidOf(lastRowid, closing, Conn, h) = 0
        /\ Forgotten(h)' - Forgotten(h) = 0
    BY DEF RowidOf, Forgotten
  <2>2. user[h] \in Nat /\ user'[h] \in Nat BY DEF Inv, HandlesTypes, UserTyped
  <2>3. /\ PendingIn(u, h) \in Nat /\ PendingIn(rest, h) \in Nat
        /\ PendingIn(todo, h) \in Nat
    BY Parts, PendingFinite
  <2>4. refCount'[h] - refCount[h] =
            (user'[h] - user[h])
            + (PendingIn(u, h) + PendingIn(rest, h) - PendingIn(todo, h))
    OBVIOUS
  <2> HIDE DEF Inv
  <2> QED BY <2>1, <2>2, <2>3, <2>4
<1> QED BY <1>1 DEF KeptBalance

LEMMA AddRefKeeps ==
    ASSUME Inv, NEW x \in Blocks, AddRef(x), UNCHANGED varVars PROVE Inv'
<1>1. /\ Idle /\ ~Dead(x) /\ user \in [Blocks -> Nat]
      /\ refCount \in [Blocks -> Int]
  <2>1. Idle /\ user[x] > 0 BY DEF AddRef
  <2> QED BY <2>1, UsersAlive DEF Inv, HandlesTypes
<1>2. /\ user' = [user EXCEPT ![x] = @ + 1]
      /\ refCount' = [refCount EXCEPT ![x] = @ + 1]
      /\ UNCHANGED <<quota, mem, kind, field, oci, closing, lists, lastRowid,
                     lost, todo>>
  BY DEF AddRef, listVars, varVars
<1>3. UserTyped /\ refCount' \in [Blocks -> Int] BY <1>1, <1>2 DEF UserTyped
<1>4. ASSUME NEW h \in Blocks
      PROVE  /\ refCount'[h] >= refCount[h]
             /\ Dead(h) => refCount'[h] = refCount[h]
             /\ refCount'[h] - refCount[h] =
                    (user'[h] - user[h])
                    + (PendingIn(<<>>, h) + PendingIn(<<>>, h)
                           - PendingIn(todo, h))
  <2>1. PendingIn(<<>>, h) = 0 /\ PendingIn(todo, h) = 0
    BY <1>1, NoneFirst DEF Idle
  <2>2. refCount[h] \in Int /\ user[h] \in Nat BY <1>1
  <2>3. Dead(h) => h # x BY <1>1
  <2>4. /\ refCount'[h] = IF h = x THEN refCount[h] + 1 ELSE refCount[h]
        /\ user'[h] = IF h = x THEN user[h] + 1 ELSE user[h]
    BY <1>1, <1>2
  <2> HIDE DEF Inv, Dead
  <2> QED BY <2>1, <2>2, <2>3, <2>4
<1>5. Then(<<>>, <<>>) BY <1>1, <1>2, NoneFirst, IdleThen DEF Idle
<1>6. KeptBalance(<<>>, <<>>, Conn)
  BY <1>2, <1>3, <1>4, NoneFirst, SimpleBalance
<1> QED BY <1>2, <1>3, <1>5, <1>6, NoneFirst, SameRowids, SameLost,
    ConnIsBlock, KeepStep

LEMMA ReleaseKeeps ==
    ASSUME Inv, NEW x \in Blocks, Release(x), UNCHANGED varVars PROVE Inv'
<1>1. /\ Idle /\ user[x] > 0 /\ user \in [Blocks -> Nat]
      /\ refCount \in [Blocks -> Int]
  BY DEF Release, Inv, HandlesTypes
<1>2. /\ user' = [user EXCEPT ![x] = @ - 1] /\ todo' = <<Unref(x)>>
      /\ UNCHANGED <<quota, mem, kind, refCount, field, oci, closing, lists,
                     lastRowid, lost>>
  BY DEF Release, blockVars, listVars, varVars
<1>3. UserTyped /\ refCount' \in [Blocks -> Int] BY <1>1, <1>2 DEF UserTyped
<1> DEFINE u == UnrefOf(x)
<1>4. u \in Seq(Works) /\ Unrefs(u) /\ todo' = u
  <2>1. x # NULL BY HandleTreeAssumption
  <2> QED BY <1>2, <2>1, UnrefOfOne DEF UnrefOf
<1>5. \A h \in Blocks : PendingIn(u, h) = Is(x, h) BY UnrefOfOne
<1> HIDE DEF u
<1>6. ASSUME NEW h \in Blocks
      PROVE  /\ refCount'[h] >= refCount[h]
             /\ Dead(h) => refCount'[h] = refCount[h]
             /\ refCount'[h] - refCount[h] =
                    (user'[h] - user[h])
                    + (PendingIn(u, h) + PendingIn(<<>>, h)
                           - PendingIn(todo, h))
  <2>1. PendingIn(<<>>, h) = 0 /\ PendingIn(todo, h) = 0
    BY <1>1, NoneFirst DEF Idle
  <2>2. refCount[h] \in Int /\ user[h] \in Nat BY <1>1
  <2>3. /\ refCount'[h] = refCount[h]
        /\ user'[h] = user[h] - Is(x, h) /\ Is(x, h) \in {0, 1}
    BY <1>1, <1>2 DEF Is
  <2> HIDE DEF Inv, Dead
  <2> QED BY <1>5, <2>1, <2>2, <2>3
<1>7. Then(u, <<>>) BY <1>1, <1>4, IdleThen
<1>8. KeptBalance(u, <<>>, Conn)
  BY <1>2, <1>3, <1>4, <1>6, NoneFirst, SimpleBalance
<1> QED BY <1>2, <1>3, <1>4, <1>7, <1>8, SameRowids, SameLost, ConnIsBlock,
    KeepStep

LEMMA KeepValueKeeps ==
    ASSUME Inv, NEW v \in Blocks, KeepValue(v) PROVE Inv'
<1>1. Idle /\ kind[v] \in VarKinds /\ KeepsFields(v)
  <2>1. CASE HasVar(v) BY <2>1, UsersAlive DEF HasVar, IsVar
  <2>2. CASE \E s \in Blocks : HasStmt(s) /\ field[s].column = v
    <3>1. PICK s \in Blocks : HasStmt(s) /\ field[s].column = v BY <2>2
    <3>2. /\ Idle /\ KeepsFields(s) /\ "column" \in RolesOf(kind[s])
          /\ "column" \in DOMAIN field[s]
      BY <3>1, UsersAlive, RolesAre, HoldsFields DEF HasStmt, IsStmt
    <3>3. KeepsFields(v)
      <4>1. ~Dead(v) BY <3>1, <3>2, PointedAlive
      <4> QED BY <4>1, AliveKeeps
    <3>4. kind[v] \in VarKinds
      <4>1. PointerOK(kind[s], "column", v) /\ v # NULL
        BY <3>1, <3>2, HoldsFields, HandleTreeAssumption DEF FieldsFit
      <4> QED BY <4>1 DEF PointerOK, KindsOf
    <3> QED BY <3>2, <3>3, <3>4
  <2> QED BY <2>1, <2>2 DEF KeepValue
<1>2. PICK x \in {field[v].value, field[v].returned} \ {NULL} :
          /\ user[x] = 0 /\ user' = [user EXCEPT ![x] = 1]
          /\ refCount' = [refCount EXCEPT ![x] = @ + 1]
  BY DEF KeepValue
<1>3. UNCHANGED <<quota, mem, kind, field, oci, closing, lists, lastRowid,
                  lost, todo>>
  BY DEF KeepValue, listVars, varVars
<1>4. x \in Blocks /\ ~Dead(x)
  <2>1. /\ "value" \in DOMAIN field[v] /\ "returned" \in DOMAIN field[v]
        /\ field[v].value \in Blocks \cup {NULL}
        /\ field[v].returned \in Blocks \cup {NULL}
    BY <1>1, RolesAre, HoldsFields
  <2> QED BY <2>1, PointedAlive
<1>5. user \in [Blocks -> Nat] /\ refCount \in [Blocks -> Int]
  BY DEF Inv, HandlesTypes
<1>6. UserTyped /\ refCount' \in [Blocks -> Int]
  BY <1>2, <1>4, <1>5 DEF UserTyped
<1>7. ASSUME NEW h \in Blocks
      PROVE  /\ refCount'[h] >= refCount[h]
             /\ Dead(h) => refCount'[h] = refCount[h]
             /\ refCount'[h] - refCount[h] =
                    (user'[h] - user[h])
                    + (PendingIn(<<>>, h) + PendingIn(<<>>, h)
                           - PendingIn(todo, h))
  <2>1. PendingIn(<<>>, h) = 0 /\ PendingIn(todo, h) = 0
    BY <1>1, NoneFirst DEF Idle
  <2>2. refCount[h] \in Int /\ user[h] \in Nat BY <1>5
  <2>3. Dead(h) => h # x BY <1>4
  <2>4. /\ refCount'[h] = IF h = x THEN refCount[h] + 1 ELSE refCount[h]
        /\ user'[h] = IF h = x THEN user[h] + 1 ELSE user[h]
    BY <1>2, <1>4, <1>5
  <2> HIDE DEF Inv, Dead
  <2> QED BY <2>1, <2>2, <2>3, <2>4
<1>8. Then(<<>>, <<>>) BY <1>1, <1>3, NoneFirst, IdleThen DEF Idle
<1>9. KeptBalance(<<>>, <<>>, Conn)
  BY <1>3, <1>6, <1>7, NoneFirst, SimpleBalance
<1> QED BY <1>3, <1>6, <1>8, <1>9, NoneFirst, SameRowids, SameLost,
    ConnIsBlock, KeepStep

LEMMA LastCall ==
    ASSUME Inv, NEW do \in LastWorks, Doing(do), NEW w, w = Head(todo)
    PROVE  /\ w \in Works /\ w.do = do /\ WorkOK(w) /\ Tail(todo) = <<>>
           /\ \A h : PendingIn(todo, h) = References(w, h)
           /\ \A h : /\ ~FreesIn(todo, h) /\ ~ForgetsIn(todo, h)
                     /\ ~Releases(todo, h)
<1> PICK r : r = Tail(todo) OBVIOUS
<1>1. todo # <<>> /\ w.do = do BY DEF Doing
<1>2. /\ w \in Works /\ WorkOK(w) /\ (w.do \in LastWorks => r = <<>>)
  BY <1>1, NextCall
<1>3. r = <<>> BY <1>1, <1>2
<1>4. ASSUME NEW h PROVE PendingIn(todo, h) = References(w, h)
  <2>1. todo = <<w>> \o r BY <1>1, NextCall
  <2>2. todo = <<w>> BY <1>3, <2>1
  <2> QED BY <2>2, PendingOne
<1>5. ASSUME NEW h PROVE ~FreesIn(todo, h)
  <2>1. FreesIn(todo, h) <=> (w.do \in FreeWorks /\ w.h = h) \/ FreesIn(r, h)
    BY <1>1, NextCall
  <2> QED BY <1>1, <1>3, <2>1, NoWorkShape DEF LastWorks, FreeWorks
<1>6. ASSUME NEW h PROVE ~ForgetsIn(todo, h)
  <2>1. ForgetsIn(todo, h) <=>
            (w.do = "freeMemory" /\ w.h = h) \/ ForgetsIn(r, h)
    BY <1>1, NextCall
  <2> QED BY <1>1, <1>3, <2>1, NoWorkShape DEF LastWorks
<1>7. ASSUME NEW h PROVE ~Releases(todo, h)
  <2>1. Releases(todo, h) <=>
            (w.do = "releaseStmt" /\ w.h = h) \/ Releases(r, h)
    BY <1>1, NextCall
  <2> QED BY <1>1, <1>3, <2>1, NoWorkShape DEF LastWorks
<1> QED BY <1>1, <1>2, <1>3, <1>4, <1>5, <1>6, <1>7

(* After the last call there is nothing to do but to give back references.  *)
LEMMA LastThen ==
    ASSUME Inv, NEW do \in LastWorks, Doing(do), NEW u \in Seq(Works), todo' = u
    PROVE  Then(u, <<>>)
<1>1. u \o <<>> = u OBVIOUS
<1>2. RestFrees(<<>>) BY LastCall, NoWorkShape DEF RestFrees
<1>3. /\ <<>> \in Seq(Works) /\ Settled(<<>>) /\ Shape(<<>>)
      /\ RestOK(<<>>)
  BY NoWorkShape DEF RestOK
<1> QED BY <1>1, <1>2, <1>3 DEF Then

LEMMA GiveVarKeeps == ASSUME Inv, GiveVar PROVE Inv'
<1> DEFINE x == Subject
           w == Head(todo)
<1>0. Doing("give") /\ "give" \in LastWorks BY DEF GiveVar, LastWorks
<1>1. /\ w \in Works /\ w.do = "give" /\ Tail(todo) = <<>> /\ w.h = x
      /\ \A h : PendingIn(todo, h) = References(w, h)
  <2>1. w \in Works /\ w.do = "give" /\ Tail(todo) = <<>> BY <1>0, LastCall
  <2>2. \A h : PendingIn(todo, h) = References(w, h) BY <1>0, LastCall
  <2> QED BY <2>1, <2>2 DEF Subject
<1>2. x \in Blocks BY <1>1 DEF Works
<1>3. \A h : PendingIn(todo, h) = Is(x, h) BY <1>1 DEF References, RefersTo, Is
<1>4. /\ user' = [user EXCEPT ![x] = @ + 1] /\ todo' = <<>>
      /\ UNCHANGED <<quota, mem, kind, refCount, field, oci, closing, lists,
                     lastRowid, lost>>
  BY <1>1 DEF GiveVar, blockVars, listVars, varVars
<1> HIDE DEF x
<1>5. user \in [Blocks -> Nat] /\ refCount \in [Blocks -> Int]
  BY DEF Inv, HandlesTypes
<1>6. UserTyped /\ refCount' \in [Blocks -> Int]
  BY <1>2, <1>4, <1>5 DEF UserTyped
<1>7. ASSUME NEW h \in Blocks
      PROVE  /\ refCount'[h] >= refCount[h]
             /\ Dead(h) => refCount'[h] = refCount[h]
             /\ refCount'[h] - refCount[h] =
                    (user'[h] - user[h])
                    + (PendingIn(<<>>, h) + PendingIn(<<>>, h)
                           - PendingIn(todo, h))
  <2>1. PendingIn(<<>>, h) = 0 /\ PendingIn(todo, h) = Is(x, h)
    BY <1>3, NoneFirst
  <2>2. refCount[h] \in Int /\ user[h] \in Nat BY <1>5
  <2>3. /\ refCount'[h] = refCount[h]
        /\ user'[h] = user[h] + Is(x, h) /\ Is(x, h) \in {0, 1}
    BY <1>2, <1>4, <1>5 DEF Is
  <2> HIDE DEF Inv, Dead
  <2> QED BY <2>1, <2>2, <2>3
<1>8. Then(<<>>, <<>>) BY <1>4, NoneFirst, LastThen DEF GiveVar, LastWorks
<1>9. KeptBalance(<<>>, <<>>, Conn)
  BY <1>4, <1>6, <1>7, NoneFirst, SimpleBalance
<1> QED BY <1>4, <1>6, <1>8, <1>9, NoneFirst, SameRowids, SameLost,
    ConnIsBlock, KeepStep

(* The variable that a failed call forgets was not forgotten before.        *)
LEMMA DefineNewVarKeeps == ASSUME Inv, DefineNewVar PROVE Inv'
<1> DEFINE q == Subject
           w == Head(todo)
           v == Head(todo).arg
<1>0. Doing("define") /\ "define" \in LastWorks BY DEF DefineNewVar, LastWorks
<1>1. /\ w \in Works /\ w.do = "define" /\ Tail(todo) = <<>> /\ w.h = q
      /\ WorkOK(w) /\ \A h : PendingIn(todo, h) = References(w, h)
  <2>1. w \in Works /\ w.do = "define" /\ Tail(todo) = <<>> /\ WorkOK(w)
    BY <1>0, LastCall
  <2>2. \A h : PendingIn(todo, h) = References(w, h) BY <1>0, LastCall
  <2> QED BY <2>1, <2>2 DEF Subject
<1>2. /\ q \in Blocks /\ v \in Blocks /\ user[q] > 0 /\ IsStmt(q) /\ ~closing[q]
      /\ IsVar(v) /\ kind[v] \in VarKinds /\ refCount[v] = 1
  BY <1>1 DEF Works, WorkOK, IsVar
<1>3. \A h : PendingIn(todo, h) = Is(v, h) BY <1>1 DEF References, RefersTo, Is
<1>4. UNCHANGED <<quota, mem, kind, refCount, oci, closing, lists, user,
                  lastRowid>>
  BY DEF DefineNewVar, listVars
<1>5. user \in [Blocks -> Nat] /\ refCount \in [Blocks -> Int]
  BY DEF Inv, HandlesTypes
<1>6. Doing("define") /\ "define" \in LastWorks BY DEF DefineNewVar, LastWorks
<1> HIDE DEF q, v
<1>7. CASE /\ todo' = UnrefOf(field[q].column) \o Tail(todo)
           /\ field' = [field EXCEPT ![q].column = v]
           /\ UNCHANGED lost
  <2>1. /\ KeepsFields(q) /\ "column" \in RolesOf(kind[q])
        /\ kind[q] \notin Queues
    BY <1>2, UsersAlive, RolesAre, PartsOfQueue DEF IsStmt
  <2>2. field[q].column \in Blocks \cup {NULL} BY <1>2, <2>1, HoldsFields
  <2>3. Then(UnrefOf(field[q].column), <<>>)
    <3>1. UnrefOf(field[q].column) \in Seq(Works) BY <2>2, UnrefOfOne
    <3>2. todo' = UnrefOf(field[q].column)
      <4> PICK u : u = UnrefOf(field[q].column) OBVIOUS
      <4>1. u \in Seq(Works) /\ todo' = u \o <<>> BY <1>1, <1>7, <3>1
      <4>2. u \o <<>> = u BY <4>1
      <4> QED BY <4>1, <4>2
    <3> QED BY <1>6, <3>1, <3>2, LastThen
  <2>4. RestBalances(<<>>, v)
    <3>1. ASSUME NEW h \in Blocks
          PROVE  /\ refCount'[h] >= refCount[h]
                 /\ refCount'[h] = refCount[h]
                 /\ refCount'[h] - refCount[h] =
                        Is(v, h) + (PendingIn(<<>>, h) - PendingIn(todo, h))
                        + (Forgotten(h)' - Forgotten(h))
      <4>1. Forgotten(h)' = Forgotten(h) /\ Forgotten(h) \in Nat
        BY <1>7 DEF Forgotten
      <4>2. PendingIn(<<>>, h) = 0 /\ PendingIn(todo, h) = Is(v, h)
        BY <1>3, NoneFirst
      <4>3. Is(v, h) \in {0, 1} /\ refCount[h] \in Int BY <1>5 DEF Is
      <4> HIDE DEF Inv
      <4> QED BY <1>4, <4>1, <4>2, <4>3
    <3> QED BY <1>4, <1>5, <3>1 DEF RestBalances
  <2>5. PointerOK(kind[q], "column", v)
    BY <1>2, HandleTreeAssumption DEF PointerOK, KindsOf
  <2>6. Rekinded /\ Losing /\ SetField(q, "column", v)
    BY <1>4, <1>7, KindsUnchanged, SameLost DEF SetField
  <2> QED BY <1>2, <1>4, <2>1, <2>3, <2>4, <2>5, <2>6, SwapStep
<1>8. CASE lost' = lost \cup {v} /\ todo' = <<>> /\ UNCHANGED field
  <2>1. v \notin lost
    <3>1. ~Dead(v)
      <4>1. RefersTo(todo[1], v) /\ 1 \in DOMAIN todo
        <5>1. todo # <<>> /\ todo \in Seq(Works)
          BY <1>6 DEF Doing, Inv, HandlesTypes
        <5> QED BY <1>1, <5>1 DEF RefersTo, v
      <4> QED BY <1>2, <4>1, PendingAlive
    <3>2. CountOK(v) BY <1>2 DEF Inv
    <3>3. refCount[v] >= Counted(v) BY <3>1, <3>2 DEF CountOK
    <3>4. PendingIn(todo, v) = 1 BY <1>3 DEF Is
    <3>5. Counted(v) = user[v] + PendingIn(todo, v) + PointersIn(field, v)
                       + RowidsIn(lastRowid, closing, v) + Forgotten(v)
      BY DEF Counted
    <3>6. /\ user[v] \in Nat /\ PointersIn(field, v) \in Nat
          /\ RowidsIn(lastRowid, closing, v) \in Nat /\ Forgotten(v) \in Nat
      BY <1>2, Parts
    <3>7. Forgotten(v) = 0 BY <1>2, <3>3, <3>4, <3>5, <3>6
    <3> QED BY <3>7 DEF Forgotten
  <2>2. Losing BY <1>2, <1>8 DEF Losing, Inv, HandlesTypes
  <2>3. Then(<<>>, <<>>) BY <1>6, <1>8, NoneFirst, LastThen
  <2>4. KeptBalance(<<>>, <<>>, Conn)
    <3>1. ASSUME NEW h \in Blocks
          PROVE  /\ refCount'[h] >= refCount[h]
                 /\ refCount'[h] = refCount[h]
                 /\ refCount'[h] - refCount[h] =
                        (user'[h] - user[h])
                        + (PendingIn(<<>>, h) + PendingIn(<<>>, h)
                               - PendingIn(todo, h))
                        + (RowidOf(lastRowid', closing, Conn, h)
                               - RowidOf(lastRowid, closing, Conn, h))
                        + (Forgotten(h)' - Forgotten(h))
      <4>1. Forgotten(h)' = Forgotten(h) + Is(v, h) /\ Forgotten(h) \in {0, 1}
        BY <1>8, <2>1 DEF Forgotten, Is
      <4>2. PendingIn(<<>>, h) = 0 /\ PendingIn(todo, h) = Is(v, h)
        BY <1>3, NoneFirst
      <4>3. Is(v, h) \in {0, 1} /\ refCount[h] \in Int /\ user[h] \in Nat
        BY <1>5 DEF Is
      <4>4. RowidOf(lastRowid', closing, Conn, h)
                - RowidOf(lastRowid, closing, Conn, h) = 0
        BY <1>4 DEF RowidOf
      <4> HIDE DEF Inv
      <4> QED BY <1>4, <4>1, <4>2, <4>3, <4>4
    <3> QED BY <1>4, <1>5, <3>1 DEF KeptBalance
  <2>5. UserTyped /\ RowidLeft(Conn) BY <1>4, <1>5, SameRowids DEF UserTyped
  <2> QED BY <1>4, <1>8, <2>2, <2>3, <2>4, <2>5, NoneFirst, ConnIsBlock, KeepStep
<1> QED BY <1>7, <1>8 DEF DefineNewVar, q, v

LEMMA NothingPending ==
    ASSUME Inv, NEW do \in LastWorks \ {"give", "define"}, Doing(do)
    PROVE  \A h : PendingIn(todo, h) = 0
<1> PICK w : w = Head(todo) OBVIOUS
<1>1. w.do = do BY LastCall
<1>2. \A h : PendingIn(todo, h) = References(w, h) BY LastCall
<1> QED BY <1>1, <1>2 DEF References, RefersTo, LastWorks

LEMMA BindConvertedKeeps == ASSUME Inv, BindConverted PROVE Inv'
<1> DEFINE s == Subject
           w == Head(todo)
           v == Head(todo).arg
<1>0. Doing("bind") /\ "bind" \in LastWorks \ {"give", "define"}
  BY DEF BindConverted, LastWorks
<1>1. /\ w \in Works /\ w.do = "bind" /\ Tail(todo) = <<>> /\ w.h = s
      /\ WorkOK(w)
  BY <1>0, LastCall DEF Subject
<1>2. \A h : PendingIn(todo, h) = 0 BY <1>0, NothingPending
<1>3. /\ s \in Blocks /\ v \in Blocks /\ user[s] > 0 /\ IsStmt(s) /\ ~closing[s]
      /\ IsVar(v) /\ kind[v] \in VarKinds /\ user[v] > 0 /\ field[s].bind = NULL
  BY <1>1 DEF Works, WorkOK, IsVar
<1>4. /\ UNCHANGED <<quota, mem, kind, oci, closing, lists, user, lastRowid, lost>>
      /\ todo' = <<>>
  BY <1>1 DEF BindConverted, listVars, varVars
<1>5. user \in [Blocks -> Nat] /\ refCount \in [Blocks -> Int]
  BY DEF Inv, HandlesTypes
<1>6. Then(<<>>, <<>>) BY <1>0, <1>4, NoneFirst, LastThen
<1> HIDE DEF s, v
<1>7. CASE /\ field' = [field EXCEPT ![s].bind = v]
           /\ refCount' = [refCount EXCEPT ![v] = @ + 1]
  <2>1. /\ KeepsFields(s) /\ "bind" \in RolesOf(kind[s]) /\ ~Dead(v)
        /\ kind[s] \notin Queues
    BY <1>3, UsersAlive, RolesAre, PartsOfQueue DEF IsStmt
  <2>2. UnrefOf(field[s].bind) = <<>> BY <1>3 DEF UnrefOf
  <2>3. Then(UnrefOf(field[s].bind), <<>>) BY <1>6, <2>2
  <2>4. RestBalances(<<>>, v)
    BY <1>2, <1>3, <1>4, <1>7, <2>1, NoneFirst, TakesOne
  <2>5. PointerOK(kind[s], "bind", v)
    BY <1>3, HandleTreeAssumption DEF PointerOK, KindsOf
  <2>6. Rekinded /\ Losing /\ SetField(s, "bind", v)
    BY <1>4, <1>7, KindsUnchanged, SameLost DEF SetField
  <2> QED BY <1>3, <1>4, <2>1, <2>3, <2>4, <2>5, <2>6, SwapStep
<1>8. CASE UNCHANGED <<field, refCount>>
  <2>1. UserTyped /\ refCount' \in [Blocks -> Int]
    BY <1>4, <1>5, <1>8 DEF UserTyped
  <2>2. KeptBalance(<<>>, <<>>, Conn)
    <3>1. ASSUME NEW h \in Blocks
          PROVE  /\ refCount'[h] >= refCount[h]
                 /\ Dead(h) => refCount'[h] = refCount[h]
                 /\ refCount'[h] - refCount[h] =
                        (user'[h] - user[h])
                        + (PendingIn(<<>>, h) + PendingIn(<<>>, h)
                               - PendingIn(todo, h))
      <4>1. PendingIn(<<>>, h) = 0 /\ PendingIn(todo, h) = 0 BY <1>2, NoneFirst
      <4>2. refCount[h] \in Int /\ user[h] \in Nat BY <1>5
      <4> HIDE DEF Inv, Dead
      <4> QED BY <1>4, <1>8, <4>1, <4>2
    <3> QED BY <1>4, <2>1, <3>1, NoneFirst, SimpleBalance
  <2> QED BY <1>4, <1>6, <1>8, <2>1, <2>2, NoneFirst, SameRowids, SameLost,
      ConnIsBlock, KeepStep
<1> QED BY <1>7, <1>8 DEF BindConverted, s, v

(* A single call that is left, and one before which a value is prefetched.  *)
LEMMA LastAlone ==
    ASSUME NEW w \in Works, w.do \in LastWorks \ {"give", "define"}
    PROVE  /\ <<w>> \in Seq(Works) /\ Shape(<<w>>) /\ Settled(<<w>>)
           /\ \A h : /\ ~FreesIn(<<w>>, h) /\ ~ForgetsIn(<<w>>, h)
                     /\ ~Releases(<<w>>, h) /\ PendingIn(<<w>>, h) = 0
<1> PICK p : p = <<w>> OBVIOUS
<1>1. p = <<w>> \o <<>> /\ <<>> \in Seq(Works) OBVIOUS
<1>2. /\ w.do \notin FreeWorks /\ ~GivesUp(w) /\ ~OfFreeConn(w)
      /\ w.do \notin {"give", "define", "closeStmt", "releaseStmt", "prefetch",
                      "freeMemory", "unref"}
  BY DEF LastWorks, FreeWorks, GivesUp, OfFreeConn, SweepWorks, CloseWorks
<1>3. Shape(p) BY <1>1, <1>2, NoWorkShape, ShapePush
<1>4. Settled(p) BY <1>1, <1>2, NoWorkShape, ShapePush
<1>5. \A h : ~FreesIn(p, h) BY <1>2 DEF FreesIn
<1>6. \A h : ~ForgetsIn(p, h) BY <1>2 DEF ForgetsIn
<1>7. \A h : ~Releases(p, h) BY <1>2 DEF Releases
<1>8. \A h : PendingIn(p, h) = 0 BY <1>2, PendingOne DEF References, RefersTo
<1> QED BY <1>1, <1>3, <1>4, <1>5, <1>6, <1>7, <1>8

LEMMA LastAfterPrefetch ==
    ASSUME NEW x \in Works, x.do = "prefetch", x.why # "new",
           NEW w \in Works, w.do \in LastWorks \ {"give", "define"},
           NEW p, p = <<x, w>>
    PROVE  /\ p \in Seq(Works) /\ Shape(p) /\ Settled(p)
           /\ \A h : /\ ~FreesIn(p, h) /\ ~ForgetsIn(p, h)
                     /\ ~Releases(p, h) /\ PendingIn(p, h) = 0
<1> PICK r : r = <<w>> OBVIOUS
<1>1. p = <<x>> \o r /\ p \in Seq(Works) OBVIOUS
<1>2. r \in Seq(Works) /\ Shape(r) /\ Settled(r) BY LastAlone
<1>3. \A h : /\ ~FreesIn(r, h) /\ ~ForgetsIn(r, h)
             /\ ~Releases(r, h) /\ PendingIn(r, h) = 0
  BY LastAlone
<1>4. /\ x.do \notin FreeWorks /\ ~GivesUp(x) /\ ~OfFreeConn(x)
      /\ x.do \notin LastWorks
      /\ \A i \in DOMAIN r : r[i].do \in LastWorks \cup {"prefetch"}
  BY DEF LastWorks, FreeWorks, GivesUp, OfFreeConn, SweepWorks, CloseWorks
<1>5. Shape(p) BY <1>1, <1>2, <1>4, ShapePush
<1>6. Settled(p) BY <1>1, <1>2, <1>4, ShapePush
<1>7. \A h : ~FreesIn(p, h)
  <2>1. \A i \in DOMAIN p : p[i] \in {x, w} OBVIOUS
  <2> QED BY <2>1 DEF FreesIn, FreeWorks, LastWorks
<1>8. \A h : ~ForgetsIn(p, h) BY <1>1, <1>2, <1>3, AmongPushed
<1>9. \A h : ~Releases(p, h) BY <1>1, <1>2, <1>3, AmongPushed
<1>10. ASSUME NEW h PROVE PendingIn(p, h) = 0
  <2>1. \A i \in DOMAIN p : p[i] \in {x, w} OBVIOUS
  <2>2. \A i \in DOMAIN p : ~RefersTo(p[i], h) BY <2>1 DEF RefersTo, LastWorks
  <2> QED BY <2>2, PendingNone
<1> QED BY <1>1, <1>5, <1>6, <1>7, <1>8, <1>9, <1>10

LEMMA PrefetchTyped ==
    ASSUME NEW v \in Blocks, NEW why \in Reasons
    PROVE  /\ Prefetch(v, why) \in Works
           /\ Prefetch(v, why).do = "prefetch" /\ Prefetch(v, why).h = v
           /\ Prefetch(v, why).why = why /\ Prefetch(v, why).i = 0
           /\ Prefetch(v, why).propagate = FALSE
<1> PICK x : x = WorkOn("prefetch", v) OBVIOUS
<1>1. /\ x \in Works /\ x.do = "prefetch" /\ x.h = v /\ x.i = 0
      /\ x.propagate = FALSE
  BY WorkTyped DEF WorkNames
<1>2. [x EXCEPT !.why = why] \in Works BY <1>1 DEF Works
<1>3. Prefetch(v, why) = [x EXCEPT !.why = why] BY DEF Prefetch
<1> QED BY <1>1, <1>2, <1>3 DEF Works

LEMMA ArgTyped ==
    ASSUME NEW do \in WorkNames, NEW s \in Blocks, NEW v \in Blocks
    PROVE  /\ [WorkOn(do, s) EXCEPT !.arg = v] \in Works
           /\ [WorkOn(do, s) EXCEPT !.arg = v].do = do
           /\ [WorkOn(do, s) EXCEPT !.arg = v].h = s
           /\ [WorkOn(do, s) EXCEPT !.arg = v].arg = v
<1> PICK x : x = WorkOn(do, s) OBVIOUS
<1>1. x \in Works /\ x.do = do /\ x.h = s BY WorkTyped
<1>2. [x EXCEPT !.arg = v] \in Works BY <1>1 DEF Works
<1>3. /\ [x EXCEPT !.arg = v].do = do /\ [x EXCEPT !.arg = v].h = s
      /\ [x EXCEPT !.arg = v].arg = v
  BY <1>1 DEF Works
<1> QED BY <1>2, <1>3

LEMMA BindConvertsKeeps ==
    ASSUME Inv, NEW s \in Blocks, NEW v \in Blocks, BindConverts(s, v)
    PROVE  Inv'
<1>1. /\ Idle /\ IsStmt(s) /\ kind[s] \in StmtKinds /\ ~closing[s]
      /\ user[s] > 0 /\ KeepsFields(s)
      /\ user[v] > 0 /\ kind[v] = "bytesVar" /\ v # NULL
  <2>1. /\ Idle /\ IsStmt(s) /\ oci[s] = "open" /\ user[s] > 0 /\ user[v] > 0
        /\ kind[v] = "bytesVar"
    BY DEF BindConverts, StmtCheck, HasStmt, HasVar, IsDynamicForPlSql
  <2>2. KeepsFields(s) BY <2>1, UsersAlive
  <2>3. ~closing[s] BY <2>1, OpenNotClosing
  <2> QED BY <2>1, <2>2, <2>3, HandleTreeAssumption DEF IsStmt
<1>2. "bind" \in RolesOf(kind[s]) /\ kind[s] \notin Queues
  BY <1>1, RolesAre, PartsOfQueue
<1> DEFINE x == Prefetch(v, "convert")
           w == [WorkOn("bind", s) EXCEPT !.arg = v]
           p == <<x, w>>
<1>3. /\ x \in Works /\ x.do = "prefetch" /\ x.why = "convert" /\ x.h = v
      /\ w \in Works /\ w.do = "bind" /\ w.h = s /\ w.arg = v
  <2>1. /\ x \in Works /\ x.do = "prefetch" /\ x.why = "convert" /\ x.h = v
    <3>1. "convert" \in Reasons BY DEF Reasons
    <3> QED BY <3>1, PrefetchTyped
  <2>2. w \in Works /\ w.do = "bind" /\ w.h = s /\ w.arg = v
    BY ArgTyped DEF WorkNames, LastWorks
  <2> QED BY <2>1, <2>2
<1>4. /\ UNCHANGED <<quota, mem, refCount, oci, closing, lists, user, lastRowid,
                     lost>>
      /\ kind' = [kind EXCEPT ![v] = "longVar"]
      /\ SetField(s, "bind", NULL)
      /\ todo' = UnrefOf(field[s].bind) \o p
  BY DEF BindConverts, listVars, SetField
<1> HIDE DEF x, w
<1>5. p \in Seq(Works) /\ Shape(p) /\ Settled(p)
  BY <1>3, LastAfterPrefetch DEF LastWorks
<1>6. \A h : /\ ~FreesIn(p, h) /\ ~ForgetsIn(p, h)
             /\ ~Releases(p, h) /\ PendingIn(p, h) = 0
  BY <1>3, LastAfterPrefetch DEF LastWorks
<1>7. Rekinded BY <1>1, <1>4 DEF Inv, HandlesTypes, Rekinded, SameKind
<1>8. RestOK(p)
  <2>1. v # s /\ IsStmt(s)' /\ IsVar(v)' /\ kind'[v] = "longVar"
    BY <1>1, <1>4 DEF Inv, HandlesTypes, IsStmt, IsVar, StmtKinds, Queries, VarKinds
  <2>2. WorkOK(x)'
    BY <1>1, <1>3, <1>4, <2>1 DEF WorkOK, FreeWorks, CloseWorks, SweepWorks,
       Anchored
  <2>3. "bind" \in DOMAIN field[s] /\ field = [z \in Blocks |-> field[z]]
    BY <1>1, <1>2, HoldsFields DEF Inv, HandlesTypes
  <2>4. field'[s].bind = NULL BY <1>4, <2>3 DEF SetField
  <2>5. WorkOK(w)'
    BY <1>1, <1>3, <1>4, <2>1, <2>4 DEF WorkOK, FreeWorks, CloseWorks, SweepWorks
  <2>6. \A i \in DOMAIN p : p[i] \in {x, w} OBVIOUS
  <2>7. \A i \in DOMAIN p : WorkOK(p[i])' BY <2>2, <2>5, <2>6
  <2>8. \A i \in DOMAIN p : p[i].do # "freeStmt" BY <1>3, <2>6
  <2> HIDE DEF p
  <2> QED BY <2>7, <2>8 DEF RestOK
<1> HIDE DEF p
<1>9. Then(UnrefOf(field[s].bind), p)
  <2>1. RestFrees(p) BY <1>1, <1>6, NoWorkShape DEF RestFrees, Idle
  <2> QED BY <1>4, <1>5, <1>8, <2>1 DEF Then
<1>10. RestBalances(p, NULL)
  <2>1. refCount \in [Blocks -> Int] BY DEF Inv, HandlesTypes
  <2>2. ASSUME NEW h \in Blocks
        PROVE  /\ refCount'[h] >= refCount[h] /\ refCount'[h] = refCount[h]
               /\ refCount'[h] - refCount[h] =
                      Is(NULL, h) + (PendingIn(p, h) - PendingIn(todo, h))
                      + (Forgotten(h)' - Forgotten(h))
    <3>1. PendingIn(p, h) = 0 /\ PendingIn(todo, h) = 0
      BY <1>1, <1>6, NoneFirst DEF Idle
    <3>2. Is(NULL, h) = 0 BY HandleTreeAssumption DEF Is
    <3>3. Forgotten(h)' = Forgotten(h) /\ Forgotten(h) \in Nat
      BY <1>4 DEF Forgotten
    <3>4. refCount[h] \in Int BY <2>1
    <3> HIDE DEF Inv
    <3> QED BY <1>4, <3>1, <3>2, <3>3, <3>4
  <2> QED BY <1>4, <2>1, <2>2 DEF RestBalances
<1>11. PointerOK(kind[s], "bind", NULL)
  BY <1>1 DEF PointerOK, Required, StmtKinds, Queries
<1>12. Losing BY <1>4, SameLost
<1> QED BY <1>1, <1>2, <1>4, <1>7, <1>9, <1>10, <1>11, <1>12, SwapStep

LEMMA ReExecuteKeeps ==
    ASSUME Inv, NEW s \in Blocks, ReExecute(s) PROVE Inv'
<1> DEFINE v == field[s].bind
<1>1. /\ Idle /\ IsStmt(s) /\ kind[s] \in StmtKinds /\ ~closing[s]
      /\ KeepsFields(s) /\ v # NULL /\ v \notin lost
  <2>1. Idle /\ IsStmt(s) /\ oci[s] = "open" /\ user[s] > 0
    BY DEF ReExecute, Executable, StmtCheck, HasStmt
  <2>2. KeepsFields(s) BY <2>1, UsersAlive
  <2>3. ~closing[s] BY <2>1, OpenNotClosing
  <2>4. v # NULL /\ v \notin lost BY DEF ReExecute
  <2> QED BY <2>1, <2>2, <2>3, <2>4 DEF IsStmt
<1>2. /\ "column" \in RolesOf(kind[s]) /\ "bind" \in RolesOf(kind[s])
      /\ kind[s] \notin Queues
  BY <1>1, RolesAre, PartsOfQueue
<1>3. /\ "bind" \in DOMAIN field[s] /\ v \in Blocks
      /\ field[s].column \in Blocks \cup {NULL} /\ FieldsFit(kind[s], field[s])
  BY <1>1, <1>2, HoldsFields
<1>4. ~Dead(v) /\ IsVar(v)
  <2>1. ~Dead(v) BY <1>3, PointedAlive
  <2>2. PointerOK(kind[s], "bind", v) BY <1>2, <1>3 DEF FieldsFit
  <2>3. kind[v] \in VarKinds BY <1>1, <2>2 DEF PointerOK, KindsOf
  <2> QED BY <2>1, <2>3 DEF IsVar
<1>5. /\ UNCHANGED <<quota, mem, kind, oci, closing, lists, user, lastRowid>>
      /\ refCount' = [refCount EXCEPT ![v] = @ + 1]
      /\ lost' = lost \cup {v}
      /\ SetField(s, "column", NULL)
      /\ todo' = UnrefOf(field[s].column)
  BY DEF ReExecute, listVars, SetField
<1> HIDE DEF v
<1>6. Then(UnrefOf(field[s].column), <<>>)
  <2>1. UnrefOf(field[s].column) \in Seq(Works) BY <1>3, UnrefOfOne
  <2> QED BY <1>1, <1>5, <2>1, IdleThen
<1>7. RestBalances(<<>>, NULL)
  <2>1. refCount \in [Blocks -> Int] /\ refCount' \in [Blocks -> Int]
    BY <1>3, <1>5 DEF Inv, HandlesTypes
  <2>2. ASSUME NEW h \in Blocks
        PROVE  /\ refCount'[h] >= refCount[h]
               /\ Dead(h) => refCount'[h] = refCount[h]
               /\ refCount'[h] - refCount[h] =
                      Is(NULL, h) + (PendingIn(<<>>, h) - PendingIn(todo, h))
                      + (Forgotten(h)' - Forgotten(h))
    <3>1. PendingIn(<<>>, h) = 0 /\ PendingIn(todo, h) = 0
      BY <1>1, NoneFirst DEF Idle
    <3>2. Is(NULL, h) = 0 BY HandleTreeAssumption DEF Is
    <3>3. Forgotten(h)' = Forgotten(h) + Is(v, h) /\ Forgotten(h) \in {0, 1}
      BY <1>1, <1>5 DEF Forgotten, Is
    <3>4. /\ refCount[h] \in Int /\ refCount'[h] = refCount[h] + Is(v, h)
          /\ Is(v, h) \in {0, 1}
      BY <1>5, <2>1 DEF Is
    <3>5. Dead(h) => Is(v, h) = 0 BY <1>4 DEF Is
    <3> HIDE DEF Inv, Dead
    <3> QED BY <3>1, <3>2, <3>3, <3>4, <3>5
  <2> QED BY <2>1, <2>2 DEF RestBalances
<1>8. PointerOK(kind[s], "column", NULL)
  BY <1>1 DEF PointerOK, Required, StmtKinds, Queries
<1>9. Rekinded /\ Losing
  <2>1. Rekinded BY <1>5, KindsUnchanged
  <2>2. Losing BY <1>3, <1>4, <1>5 DEF Losing, Inv, HandlesTypes
  <2> QED BY <2>1, <2>2
<1> QED BY <1>1, <1>2, <1>5, <1>6, <1>7, <1>8, <1>9, SwapStep

LEMMA GetLastRowidKeeps ==
    ASSUME Inv, NEW s \in Blocks, GetLastRowid(s) PROVE Inv'
<1>1. /\ Idle /\ IsStmt(s) /\ kind[s] = "dml" /\ ~closing[s] /\ user[s] > 0
      /\ Allowed("rowid")
  <2>1. Idle /\ IsStmt(s) /\ oci[s] = "open" /\ user[s] > 0
    BY DEF GetLastRowid, StmtCheck, HasStmt
  <2>2. ~closing[s] BY <2>1, OpenNotClosing
  <2> QED BY <2>1, <2>2 DEF GetLastRowid
<1>2. /\ user \in [Blocks -> Nat] /\ refCount \in [Blocks -> Int]
      /\ lastRowid \in [Blocks -> Blocks \cup {NULL}]
  BY DEF Inv, HandlesTypes
<1> DEFINE w == WorkOn("lastRowid", s)
           p == <<w>>
           u == UnrefOf(lastRowid[s])
<1>3. /\ UNCHANGED <<quota, mem, kind, refCount, field, oci, closing, lists,
                     user, lost>>
      /\ lastRowid' = [lastRowid EXCEPT ![s] = NULL]
      /\ todo' = u \o p
  BY DEF GetLastRowid, blockVars, listVars
<1>4. w \in Works /\ w.do = "lastRowid" /\ w.h = s
  BY WorkTyped DEF WorkNames, LastWorks
<1> HIDE DEF w
<1>5. p \in Seq(Works) /\ Shape(p) /\ Settled(p)
  BY <1>4, LastAlone DEF LastWorks
<1>6. \A h : /\ ~FreesIn(p, h) /\ ~ForgetsIn(p, h)
             /\ ~Releases(p, h) /\ PendingIn(p, h) = 0
  BY <1>4, LastAlone DEF LastWorks
<1>7. RestOK(p)
  <2>1. lastRowid'[s] = NULL BY <1>2, <1>3
  <2>2. WorkOK(w)'
    BY <1>1, <1>3, <1>4, <2>1 DEF WorkOK, FreeWorks, CloseWorks, SweepWorks,
       Allowed
  <2>3. \A i \in DOMAIN p : p[i] = w OBVIOUS
  <2> HIDE DEF p
  <2> QED BY <1>4, <2>2, <2>3 DEF RestOK
<1>8. u \in Seq(Works) /\ Unrefs(u) /\ \A h \in Blocks : PendingIn(u, h) = Is(lastRowid[s], h)
  <2>1. lastRowid[s] \in Blocks \cup {NULL} BY <1>2
  <2>2. u \in Seq(Works) /\ Unrefs(u) BY <2>1, UnrefOfOne
  <2>3. \A h \in Blocks : PendingIn(u, h) = Is(lastRowid[s], h)
    BY <2>1, UnrefOfOne
  <2> QED BY <2>2, <2>3
<1> HIDE DEF p, u
<1>9. Then(u, p)
  <2>1. RestFrees(p) BY <1>1, <1>6, NoWorkShape DEF RestFrees, Idle
  <2> QED BY <1>3, <1>5, <1>7, <2>1 DEF Then
<1>10. KeptBalance(u, p, s)
  <2>1. ASSUME NEW h \in Blocks
        PROVE  /\ refCount'[h] >= refCount[h]
               /\ refCount'[h] = refCount[h]
               /\ refCount'[h] - refCount[h] =
                      (user'[h] - user[h])
                      + (PendingIn(u, h) + PendingIn(p, h)
                             - PendingIn(todo, h))
                      + (RowidOf(lastRowid', closing, s, h)
                             - RowidOf(lastRowid, closing, s, h))
                      + (Forgotten(h)' - Forgotten(h))
    <3>1. Forgotten(h)' = Forgotten(h) /\ Forgotten(h) \in {0, 1}
      BY <1>3 DEF Forgotten
    <3>2. /\ PendingIn(p, h) = 0 /\ PendingIn(todo, h) = 0
          /\ PendingIn(u, h) = Is(lastRowid[s], h)
      BY <1>1, <1>6, <1>8, NoneFirst DEF Idle
    <3>3. /\ Is(lastRowid[s], h) \in {0, 1} /\ refCount[h] \in Int
          /\ user[h] \in Nat
      BY <1>2 DEF Is
    <3>4. h # NULL BY HandleTreeAssumption
    <3>5. RowidOf(lastRowid', closing, s, h) = 0
      BY <1>2, <1>3, <3>4 DEF RowidOf
    <3>6. RowidOf(lastRowid, closing, s, h) = Is(lastRowid[s], h)
      BY <1>1 DEF RowidOf, Is
    <3> HIDE DEF Inv
    <3> QED BY <1>3, <3>1, <3>2, <3>3, <3>5, <3>6
  <2> QED BY <1>2, <1>3, <2>1 DEF KeptBalance
<1>11. RowidLeft(s) /\ UserTyped /\ Losing
  BY <1>2, <1>3, SameLost DEF RowidLeft, UserTyped
<1> QED BY <1>3, <1>8, <1>9, <1>10, <1>11, KeepStep

(* The value before is released, and what is left to do stays.              *)
LEMMA PrefetchReleaseKeeps == ASSUME Inv, PrefetchRelease PROVE Inv'
<1> DEFINE v == Subject
           w == Head(todo)
           r == Tail(todo)
<1> PICK t : t = todo OBVIOUS
<1>0. t = todo OBVIOUS
<1>1. /\ todo # <<>> /\ w.do = "prefetch" /\ Content # NULL
      /\ todo' = <<Unref(Content)>> \o todo
      /\ SetField(v, Place, NULL)
      /\ UNCHANGED <<quota, mem, kind, refCount, oci, closing, lists, user,
                     lastRowid, lost>>
  BY DEF PrefetchRelease, Doing, listVars, varVars, SetField
<1>2. /\ w \in Works /\ WorkOK(w) /\ Shape(todo) /\ WorksOK /\ w.h = v
      /\ todo \in Seq(Works)
  BY <1>1, NextCall DEF Subject, Inv, HandlesTypes
<1>3. v \in Blocks /\ kind[v] \in VarKinds /\ IsVar(v)
  BY <1>1, <1>2 DEF Works, WorkOK, IsVar
<1>4. Place \in {"value", "returned"} /\ (Place = "value" \/ w.why = "returned")
  BY DEF Place
<1>5. Place \in RolesOf(kind[v]) BY <1>3, <1>4, RolesAre
<1>6. w.why # "new"
  <2>1. w.why = "new" => field[v].value = NULL BY <1>1, <1>2 DEF WorkOK
  <2>2. w.why = "new" => Place = "value" BY DEF Place
  <2> QED BY <1>1, <2>1, <2>2 DEF Content
<1>7. KeepsFields(v)
  <2>1. Anchored(v) BY <1>1, <1>2, <1>6 DEF WorkOK
  <2>2. CASE user[v] > 0 BY <1>3, <2>2, UsersAlive
  <2>3. CASE \E s \in Blocks : /\ user[s] > 0 /\ IsStmt(s)
                               /\ field[s].bind = v \/ field[s].column = v
    <3>1. PICK s \in Blocks : /\ user[s] > 0 /\ IsStmt(s)
                              /\ field[s].bind = v \/ field[s].column = v
      BY <2>3
    <3>2. /\ KeepsFields(s) /\ "bind" \in RolesOf(kind[s])
          /\ "column" \in RolesOf(kind[s])
      BY <3>1, UsersAlive, RolesAre DEF IsStmt
    <3>3. "bind" \in DOMAIN field[s] /\ "column" \in DOMAIN field[s]
      BY <3>2, HoldsFields
    <3>4. ~Dead(v) BY <1>3, <3>1, <3>3, PointedAlive
    <3> QED BY <1>3, <3>4, AliveKeeps
  <2> QED BY <2>1, <2>2, <2>3 DEF Anchored
<1>8. Content \in Blocks
  <2>1. field[v][Place] \in Blocks \cup {NULL} BY <1>3, <1>5, <1>7, HoldsFields
  <2> QED BY <1>1, <2>1 DEF Content
<1>9. Then(UnrefOf(field[v][Place]), t)
  <2>1. UnrefOf(field[v][Place]) = <<Unref(Content)>>
    BY <1>1 DEF UnrefOf, Content
  <2>2. Settled(todo)
    <3>1. todo = <<w>> \o r /\ r \in Seq(Works) /\ Shape(r) /\ Settled(r)
      BY <1>1, <1>6, NextCall
    <3>2. \A i \in DOMAIN r : r[i].do \in LastWorks \cup {"prefetch"}
      BY <1>1, NextCall
    <3>3. /\ w.do \notin FreeWorks /\ w.do \notin LastWorks /\ ~GivesUp(w)
          /\ ~OfFreeConn(w)
          /\ w.do \notin {"give", "define", "closeStmt", "releaseStmt"}
      BY <1>1 DEF FreeWorks, LastWorks, GivesUp, OfFreeConn, SweepWorks, CloseWorks
    <3> QED BY <1>2, <1>6, <3>1, <3>2, <3>3, ShapePush
  <2>3. RestOK(t)
    <3>1. ASSUME NEW i \in DOMAIN t
          PROVE  WorkOK(t[i])' /\ t[i].do # "freeStmt"
      <4>1. \/ t[i] = w
            \/ i - 1 \in DOMAIN r /\ t[i] = r[i - 1]
        BY <1>0, <1>1, <1>2
      <4>2. \A j \in DOMAIN r : r[j].do \in LastWorks \cup {"prefetch"}
        BY <1>1, NextCall
      <4>3. /\ t[i].do \notin {"give", "define"}
            /\ t[i].do = "prefetch" => t[i].why # "new"
        BY <1>0, <2>2 DEF Settled
      <4>4. t[i] \in Works /\ WorkOK(t[i]) BY <1>0, <1>2 DEF WorksOK
      <4>5. \A s \in Blocks : user[s] > 0 /\ IsStmt(s) =>
                closing'[s] = closing[s] /\ field'[s] = field[s]
        BY <1>1, <1>3 DEF SetField, Inv, HandlesTypes, IsStmt, StmtKinds,
           Queries, VarKinds
      <4>6. t[i].do \notin FreeWorks \cup {"closeStmt", "freeStmt"}
        BY <1>1, <4>1, <4>2 DEF LastWorks, FreeWorks
      <4> PICK e : e = t[i] OBVIOUS
      <4> HIDE DEF r, w, v
      <4>7. WorkOK(e)' BY <1>1, <4>3, <4>4, <4>5, <4>6, TheWorkKept
      <4> QED BY <4>6, <4>7
    <3> QED BY <3>1 DEF RestOK
  <2>4. RestFrees(t) BY <1>0 DEF RestFrees
  <2> QED BY <1>0, <1>1, <1>2, <2>1, <2>2, <2>3, <2>4 DEF Then
<1>10. RestBalances(t, NULL)
  <2>1. refCount \in [Blocks -> Int] BY DEF Inv, HandlesTypes
  <2>2. ASSUME NEW h \in Blocks
        PROVE  /\ refCount'[h] >= refCount[h] /\ refCount'[h] = refCount[h]
               /\ refCount'[h] - refCount[h] =
                      Is(NULL, h) + (PendingIn(t, h) - PendingIn(todo, h))
                      + (Forgotten(h)' - Forgotten(h))
    <3>1. PendingIn(todo, h) \in Nat /\ t = todo BY <1>0, Parts
    <3>2. Is(NULL, h) = 0 BY HandleTreeAssumption DEF Is
    <3>3. Forgotten(h)' = Forgotten(h) /\ Forgotten(h) \in {0, 1}
      BY <1>1 DEF Forgotten
    <3>4. refCount[h] \in Int BY <2>1
    <3> HIDE DEF Inv
    <3> QED BY <1>1, <3>1, <3>2, <3>3, <3>4
  <2> QED BY <1>1, <2>1, <2>2 DEF RestBalances
<1>11. PointerOK(kind[v], Place, NULL) BY <1>4 DEF PointerOK, Required
<1>12. Rekinded /\ Losing BY <1>1, KindsUnchanged, SameLost
<1>13. kind[v] \notin Queues /\ ~IsStmt(v)
  BY <1>3 DEF IsStmt, StmtKinds, Queries, Queues, VarKinds
<1> HIDE DEF v, w, r
<1> QED BY <1>1, <1>3, <1>5, <1>7, <1>9, <1>10, <1>11, <1>12, <1>13, SwapStep

-----------------------------------------------------------------------------
(* Steps of queues: the places of the buffer are emptied or stay as they    *)
(* are.                                                                     *)
PlacesSet(q, a, b) ==
    /\ field' = [x \in Blocks |-> field'[x]]
    /\ \A z \in Blocks \ {q} : field'[z] = field[z]
    /\ DOMAIN field'[q] = DOMAIN field[q]
    /\ field'[q] = [r \in DOMAIN field'[q] |-> field'[q][r]]
    /\ field'[q].first = a /\ field'[q].second = b
    /\ \A r \in DOMAIN field[q] :
           r \notin {"first", "second"} => field'[q][r] = field[q][r]
Emptied(q, a, b, h) ==
    (Is(field[q].first, h) - Is(a, h)) + (Is(field[q].second, h) - Is(b, h))

LEMMA TwoChanged ==
    ASSUME NEW f, IsFiniteSet(DOMAIN f), "first" \in DOMAIN f,
           "second" \in DOMAIN f, NEW g, DOMAIN g = DOMAIN f,
           \A z \in DOMAIN f : z \notin {"first", "second"} => g[z] = f[z], NEW h
    PROVE  CountOf(g, h) = CountOf(f, h)
               - (Is(f.first, h) - Is(g.first, h))
               - (Is(f.second, h) - Is(g.second, h))
<1> PICK q : q = "first" OBVIOUS
<1> PICK r : r = "second" OBVIOUS
<1>0. PICK k : k = [f EXCEPT ![q] = g[q]] OBVIOUS
<1>1. /\ DOMAIN k = DOMAIN f /\ k[q] = g[q] /\ q \in DOMAIN f /\ r \in DOMAIN k
      /\ \A z \in DOMAIN f : z # q => k[z] = f[z]
      /\ \A z \in DOMAIN k : z # r => g[z] = k[z]
      /\ k[r] = f[r] /\ DOMAIN g = DOMAIN k /\ IsFiniteSet(DOMAIN k)
  BY <1>0
<1>2. CountOf(k, h) = CountOf(f, h) - Is(f[q], h) + Is(k[q], h)
  BY <1>1, CountChanged
<1>3. CountOf(g, h) = CountOf(k, h) - Is(k[r], h) + Is(g[r], h)
  BY <1>1, CountChanged
<1>4. CountOf(f, h) \in Nat BY FS_Subset, FS_CardinalityType DEF CountOf
<1> PICK a : a = CountOf(f, h) OBVIOUS
<1> PICK b : b = CountOf(k, h) OBVIOUS
<1> PICK c : c = CountOf(g, h) OBVIOUS
<1>5. /\ b = a - Is(f.first, h) + Is(g.first, h)
      /\ c = b - Is(f.second, h) + Is(g.second, h) /\ a \in Nat
  BY <1>1, <1>2, <1>3, <1>4
<1> QED BY <1>5 DEF Is

QueueBalance(q, a, b, u, rest) ==
    \A h \in Blocks :
        (user'[h] - user[h])
        + (PendingIn(u, h) + PendingIn(rest, h) - PendingIn(todo, h))
        - Emptied(q, a, b, h) = 0

LEMMA QueueStep ==
    ASSUME Inv,
           UNCHANGED <<quota, mem, kind, refCount, oci, closing, lists,
                       lastRowid, lost>>,
           UserTyped, NEW q \in Blocks, kind[q] \in Queues, KeepsFields(q),
           NEW a \in {field[q].first, NULL}, NEW b \in {field[q].second, NULL},
           PlacesSet(q, a, b),
           NEW u \in Seq(Works), Unrefs(u), NEW rest, Then(u, rest),
           QueueBalance(q, a, b, u, rest)
    PROVE  Inv'
<1>1. /\ FieldsFit(kind[q], field[q]) /\ DOMAIN field[q] = RolesOf(kind[q])
      /\ IsFiniteSet(DOMAIN field[q])
      /\ "first" \in DOMAIN field[q] /\ "second" \in DOMAIN field[q]
      /\ a \in Blocks \cup {NULL} /\ b \in Blocks \cup {NULL}
  <2>1. RolesOf(kind[q]) = {"conn", "payloadType", "deqOptions", "enqOptions",
                            "first", "second"}
    BY RolesAre
  <2>2. /\ FieldsFit(kind[q], field[q]) /\ DOMAIN field[q] = RolesOf(kind[q])
        /\ IsFiniteSet(DOMAIN field[q])
    BY HoldsFields
  <2>3. \A r \in RolesOf(kind[q]) : field[q][r] \in Blocks \cup {NULL}
    BY HoldsFields
  <2> QED BY <2>1, <2>2, <2>3
<1>2. FieldsFit(kind[q], field'[q])
  <2>1. field'[q] \in [RolesOf(kind[q]) -> Blocks \cup {NULL}]
    BY <1>1 DEF FieldsFit, PlacesSet
  <2>2. ASSUME NEW z \in RolesOf(kind[q])
        PROVE  PointerOK(kind[q], z, field'[q][z])
    <3>1. PointerOK(kind[q], z, field[q][z]) BY <1>1 DEF FieldsFit
    <3>2. field'[q][z] \in {field[q][z], NULL} BY <1>1 DEF PlacesSet
    <3>3. field'[q][z] = NULL /\ field[q][z] # NULL => z \in {"first", "second"}
      BY <1>1 DEF PlacesSet
    <3>4. z \in {"first", "second"} => z \notin Required(kind[q])
      BY DEF Required
    <3> HIDE DEF Required
    <3> QED BY <3>1, <3>2, <3>3, <3>4 DEF PointerOK
  <2>3. kind[q] \in Queues /\ field'[q].first = field'[q].second =>
            field'[q].first = NULL
    BY <1>1 DEF FieldsFit, PlacesSet
  <2> HIDE DEF RolesOf, PointerOK, Queues
  <2> QED BY <2>1, <2>2, <2>3 DEF FieldsFit
<1>5. /\ todo' \in Seq(Works) /\ Shape(todo') /\ WorksOK' /\ EndOK'
      /\ \A h : /\ FreesIn(todo', h) <=> FreesIn(rest, h)
                /\ ForgetsIn(todo', h) <=> ForgetsIn(rest, h)
                /\ Releases(todo', h) <=> Releases(rest, h)
                /\ PendingIn(todo', h) = PendingIn(u, h) + PendingIn(rest, h)
  <2>1. /\ u \in Seq(Works) /\ Unrefs(u) /\ todo' = u \o rest
        /\ rest \in Seq(Works) /\ Settled(rest) /\ Shape(rest) /\ RestOK(rest)
    BY DEF Then
  <2>2. todo' \in Seq(Works) BY <2>1, UnrefsThen
  <2>3. Shape(todo') BY <2>1, UnrefsThen
  <2>4. WorksOK' BY <2>1, UnrefsThen
  <2>5. EndOK' BY <2>1, UnrefsThen
  <2>6. \A h : /\ FreesIn(todo', h) <=> FreesIn(rest, h)
               /\ ForgetsIn(todo', h) <=> ForgetsIn(rest, h)
               /\ Releases(todo', h) <=> Releases(rest, h)
               /\ PendingIn(todo', h) = PendingIn(u, h) + PendingIn(rest, h)
    BY <2>1, UnrefsThen
  <2> QED BY <2>2, <2>3, <2>4, <2>5, <2>6
<1>6. TypedAfter /\ closing' = closing BY <1>5 DEF TypedAfter, UserTyped
<1>7. ASSUME NEW h \in Blocks
      PROVE  /\ Counted(h)' \in Int
             /\ refCount'[h] - Counted(h)' = refCount[h] - Counted(h)
  <2>1. /\ IsFiniteSet(DOMAIN field'[q])
        /\ CountOf(field'[q], h) = CountOf(field[q], h) - Emptied(q, a, b, h)
    <3> PICK f : f = field[q] OBVIOUS
    <3> PICK g : g = field'[q] OBVIOUS
    <3>1. /\ IsFiniteSet(DOMAIN f) /\ "first" \in DOMAIN f
          /\ "second" \in DOMAIN f /\ DOMAIN g = DOMAIN f
          /\ g.first = a /\ g.second = b
          /\ \A z \in DOMAIN f : z \notin {"first", "second"} => g[z] = f[z]
      BY <1>1 DEF PlacesSet
    <3>2. CountOf(g, h) = CountOf(f, h)
               - (Is(f.first, h) - Is(g.first, h))
               - (Is(f.second, h) - Is(g.second, h))
      BY <3>1, TwoChanged
    <3>3. CountOf(f, h) \in Nat
      BY <3>1, FS_Subset, FS_CardinalityType DEF CountOf
    <3> PICK x : x = CountOf(f, h) OBVIOUS
    <3> PICK y : y = CountOf(g, h) OBVIOUS
    <3>4. y = x - (Is(f.first, h) - Is(a, h)) - (Is(f.second, h) - Is(b, h))
      BY <3>1, <3>2
    <3>5. y = x - ((Is(f.first, h) - Is(a, h)) + (Is(f.second, h) - Is(b, h)))
      BY <3>3, <3>4 DEF Is
    <3> QED BY <3>1, <3>5 DEF Emptied
  <2>2. /\ Counted(h)' \in Nat
        /\ Counted(h)' - Counted(h) =
               (user'[h] - user[h])
               + (PendingIn(todo', h) - PendingIn(todo, h))
               + (CountOf(field'[q], h) - CountOf(field[q], h))
               + (RowidOf(lastRowid', closing, q, h)
                      - RowidOf(lastRowid, closing, q, h))
               + (Forgotten(h)' - Forgotten(h))
    <3>1. \A z \in Blocks \ {q} : lastRowid'[z] = lastRowid[z] OBVIOUS
    <3>2. \A z \in Blocks \ {q} : field'[z] = field[z] BY DEF PlacesSet
    <3> HIDE DEF Inv, Counted
    <3>4. Counted(h)' \in Nat BY <1>6, <2>1, <3>1, <3>2, CountedAfter
    <3>5. Counted(h)' - Counted(h) =
               (user'[h] - user[h])
               + (PendingIn(todo', h) - PendingIn(todo, h))
               + (CountOf(field'[q], h) - CountOf(field[q], h))
               + (RowidOf(lastRowid', closing, q, h)
                      - RowidOf(lastRowid, closing, q, h))
               + (Forgotten(h)' - Forgotten(h))
      BY <1>6, <2>1, <3>1, <3>2, CountedAfter
    <3> QED BY <3>4, <3>5
  <2>3. PendingIn(todo', h) = PendingIn(u, h) + PendingIn(rest, h) BY <1>5
  <2>4. CountOf(field[q], h) \in Nat
    BY <1>1, FS_Subset, FS_CardinalityType DEF CountOf
  <2>5. /\ PendingIn(todo, h) \in Nat /\ PendingIn(rest, h) \in Nat
        /\ PendingIn(u, h) \in Nat
        /\ Counted(h) \in Nat /\ refCount[h] \in Int /\ refCount'[h] = refCount[h]
        /\ user[h] \in Nat /\ user'[h] \in Nat /\ Emptied(q, a, b, h) \in Int
    <3>1. /\ PendingIn(todo, h) \in Nat /\ Counted(h) \in Nat
          /\ refCount[h] \in Int /\ user[h] \in Nat
      BY Parts
    <3>2. rest \in Seq(Works) BY DEF Then
    <3>3. PendingIn(rest, h) \in Nat /\ PendingIn(u, h) \in Nat
      BY <3>2, PendingFinite
    <3>4. user'[h] \in Nat BY DEF UserTyped
    <3>5. Emptied(q, a, b, h) \in Int BY DEF Emptied, Is
    <3> QED BY <3>1, <3>3, <3>4, <3>5
  <2>6. (user'[h] - user[h])
        + (PendingIn(u, h) + PendingIn(rest, h) - PendingIn(todo, h))
        - Emptied(q, a, b, h) = 0
    BY DEF QueueBalance
  <2>7. /\ RowidOf(lastRowid', closing, q, h)
               - RowidOf(lastRowid, closing, q, h) = 0
        /\ Forgotten(h)' - Forgotten(h) = 0
    BY DEF RowidOf, Forgotten
  <2> DEFINE aa == PendingIn(todo, h)
             bb == PendingIn(rest, h)
             c == PendingIn(todo', h)
             d == PendingIn(u, h)
             e == Emptied(q, a, b, h)
             f == CountOf(field[q], h)
             g == CountOf(field'[q], h)
             m == Counted(h)
             n == Counted(h)'
             w == refCount[h]
             i == user[h]
             j == user'[h]
             k == RowidOf(lastRowid', closing, q, h)
                      - RowidOf(lastRowid, closing, q, h)
             l == Forgotten(h)' - Forgotten(h)
  <2>8. /\ n \in Nat /\ n - m = (j - i) + (c - aa) + (g - f) + k + l
        /\ c = d + bb /\ g = f - e /\ f \in Nat /\ i \in Nat /\ j \in Nat
        /\ aa \in Nat /\ bb \in Nat /\ m \in Nat /\ d \in Nat /\ k = 0 /\ l = 0
        /\ (j - i) + (d + bb - aa) - e = 0 /\ e \in Int /\ w \in Int
    BY <2>1, <2>2, <2>3, <2>4, <2>5, <2>6, <2>7
  <2> HIDE DEF aa, bb, c, d, f, g, m, n, w, i, j, k, l, e
  <2>9. n \in Int /\ w - n = w - m
    <3>1. g - f = -e BY <2>8
    <3>2. n - m = (j - i) + (d + bb - aa) - e BY <2>8, <3>1
    <3>3. n - m = 0 BY <2>8, <3>2
    <3> QED BY <2>8, <3>3
  <2> QED BY <2>5, <2>9 DEF m, n, w
<1>8. ASSUME NEW z \in Blocks
      PROVE  \/ field'[z] = field[z]
             \/ /\ KeepsFields(z) /\ FieldsFit(kind[z], field'[z])
                /\ \A r \in RolesOf(kind[z]) :
                      field'[z][r] # NULL => SameKind(field'[z][r])
                /\ IsStmt(z) /\ closing[z] =>
                      field'[z].bind = NULL /\ field'[z].column = NULL
  <2>1. CASE z = q
    <3>1. ~IsStmt(q) BY PartsOfQueue DEF IsStmt
    <3>2. \A r : SameKind(r) BY DEF SameKind
    <3> QED BY <1>2, <2>1, <3>1, <3>2
  <2>2. CASE z # q BY <2>2 DEF PlacesSet
  <2> QED BY <2>1, <2>2
<1>9. /\ user' \in [Blocks -> Nat]
      /\ lastRowid' \in [Blocks -> Blocks \cup {NULL}]
      /\ \A z \in Blocks : lastRowid'[z] \in {lastRowid[z], NULL}
      /\ lost' \subseteq Blocks /\ \A h \in lost' : h \in lost \/ IsVar(h)
      /\ kind' = [h \in Blocks |-> kind'[h]]
      /\ field' = [x \in Blocks |-> field'[x]]
      /\ refCount' \in [Blocks -> Int]
  BY DEF Inv, HandlesTypes, UserTyped, PlacesSet
<1>10. \A h \in Blocks : /\ FreesIn(todo', h) <=> FreesIn(todo, h)
                         /\ ForgetsIn(todo', h) <=> ForgetsIn(todo, h)
                         /\ Releases(todo, h) => Releases(todo', h)
  BY <1>5 DEF RestFrees, Then
<1>11. \A h \in Blocks : /\ refCount'[h] >= refCount[h] /\ Counted(h)' \in Int
                         /\ refCount'[h] - Counted(h)' = refCount[h] - Counted(h)
                         /\ Dead(h) => refCount'[h] = refCount[h]
  BY <1>7 DEF Inv, HandlesTypes
<1>12. \A h \in Blocks : SameKind(h) BY DEF SameKind
<1> HIDE DEF FieldsFit, SameKind, PointerOK
<1> QED BY <1>5, <1>8, <1>9, <1>10, <1>11, <1>12, MoveStep

LEMMA BufferKeeps ==
    ASSUME Inv, Idle, NEW q \in Blocks, kind[q] \in Queues, user[q] > 0,
           NEW many, NEW then \in Seq(Works), Shape(then), Settled(then),
           \A h : /\ ~FreesIn(then, h) /\ ~ForgetsIn(then, h)
                  /\ ~Releases(then, h) /\ PendingIn(then, h) = 0,
           RestOK(then), AllocateBuffer(q, many, then),
           UNCHANGED <<quota, mem, kind, refCount, oci, closing, lists, user,
                       lastRowid, lost>>
    PROVE  Inv'
<1>1. KeepsFields(q) BY UsersAlive
<1>2. /\ DOMAIN field[q] = RolesOf(kind[q])
      /\ field = [x \in Blocks |-> field[x]]
      /\ field[q] = [r \in DOMAIN field[q] |-> field[q][r]]
      /\ field[q].first \in Blocks \cup {NULL}
      /\ field[q].second \in Blocks \cup {NULL}
      /\ "first" \in DOMAIN field[q] /\ "second" \in DOMAIN field[q]
  <2>1. RolesOf(kind[q]) = {"conn", "payloadType", "deqOptions", "enqOptions",
                            "first", "second"}
    BY RolesAre
  <2>2. /\ FieldsFit(kind[q], field[q]) /\ DOMAIN field[q] = RolesOf(kind[q])
    BY <1>1, HoldsFields
  <2>3. \A r \in RolesOf(kind[q]) : field[q][r] \in Blocks \cup {NULL}
    BY <1>1, HoldsFields
  <2> QED BY <2>1, <2>2, <2>3 DEF FieldsFit, Inv, HandlesTypes
<1>3. UserTyped BY DEF UserTyped, Inv, HandlesTypes
<1>4. /\ todo = <<>>
      /\ \A h : ~FreesIn(todo, h) /\ ~ForgetsIn(todo, h) /\ ~Releases(todo, h)
      /\ \A h : PendingIn(todo, h) = 0
  BY NoWorkShape DEF Idle
<1>5. RestFrees(then) BY <1>4 DEF RestFrees
<1>6. ASSUME NEW u \in Seq(Works), todo' = u \o then PROVE Then(u, then)
  BY <1>5, <1>6 DEF Then
<1>7. \A h \in Blocks : user[h] \in Nat BY DEF Inv, HandlesTypes
<1>8. CASE numElements[q] < Count(many)
  <2> DEFINE v == UnrefOf(field[q].first)
             w == UnrefOf(field[q].second)
             u == v \o w
  <2>1. /\ v \in Seq(Works) /\ Unrefs(v)
        /\ \A h \in Blocks : PendingIn(v, h) = Is(field[q].first, h)
    BY <1>2, UnrefOfOne
  <2>2. /\ w \in Seq(Works) /\ Unrefs(w)
        /\ \A h \in Blocks : PendingIn(w, h) = Is(field[q].second, h)
    BY <1>2, UnrefOfOne
  <2>3. /\ todo' = u \o then
        /\ field' = [field EXCEPT ![q].first = NULL, ![q].second = NULL]
    BY <1>8 DEF AllocateBuffer
  <2>4. PlacesSet(q, NULL, NULL) BY <1>2, <2>3 DEF PlacesSet
  <2> HIDE DEF v, w
  <2>5. u \in Seq(Works) /\ Unrefs(u) BY <2>1, <2>2, UnrefsConcat
  <2>6. \A h \in Blocks : PendingIn(u, h) = PendingIn(v, h) + PendingIn(w, h)
    BY <2>1, <2>2, UnrefsConcat
  <2> HIDE DEF u
  <2>7. Then(u, then) BY <1>6, <2>3, <2>5
  <2>8. QueueBalance(q, NULL, NULL, u, then)
    <3> SUFFICES ASSUME NEW h \in Blocks
                 PROVE  (user'[h] - user[h])
                        + (PendingIn(u, h) + PendingIn(then, h)
                               - PendingIn(todo, h))
                        - Emptied(q, NULL, NULL, h) = 0
      BY DEF QueueBalance
    <3>1. user'[h] = user[h] /\ user[h] \in Nat BY <1>7
    <3>2. PendingIn(then, h) = 0 /\ PendingIn(todo, h) = 0 BY <1>4
    <3>3. Is(NULL, h) = 0 BY HandleTreeAssumption DEF Is
    <3>4. PendingIn(u, h) = Is(field[q].first, h) + Is(field[q].second, h)
      BY <2>1, <2>2, <2>6
    <3>5. Is(field[q].first, h) \in Nat /\ Is(field[q].second, h) \in Nat
      BY DEF Is
    <3> QED BY <3>1, <3>2, <3>3, <3>4, <3>5 DEF Emptied
  <2> HIDE DEF Inv
  <2> QED BY <1>1, <1>3, <2>4, <2>5, <2>7, <2>8, QueueStep
<1>9. CASE ~(numElements[q] < Count(many))
  <2>1. todo' = then /\ field' = field BY <1>9 DEF AllocateBuffer
  <2> PICK u \in Seq(Works) : u = <<>> BY NoWorkShape
  <2>2. Unrefs(u) /\ \A h : PendingIn(u, h) = 0 BY NoneFirst
  <2>3. Then(u, then)
    <3>1. u \o then = then OBVIOUS
    <3> QED BY <1>6, <2>1, <3>1
  <2> PICK a : a = field[q].first OBVIOUS
  <2> PICK b : b = field[q].second OBVIOUS
  <2>4. PlacesSet(q, a, b) BY <1>2, <2>1 DEF PlacesSet
  <2>5. QueueBalance(q, a, b, u, then)
    <3> SUFFICES ASSUME NEW h \in Blocks
                 PROVE  (user'[h] - user[h])
                        + (PendingIn(u, h) + PendingIn(then, h)
                               - PendingIn(todo, h))
                        - Emptied(q, a, b, h) = 0
      BY DEF QueueBalance
    <3>1. user'[h] = user[h] /\ user[h] \in Nat BY <1>7
    <3>2. PendingIn(then, h) = 0 /\ PendingIn(todo, h) = 0 /\ PendingIn(u, h) = 0
      BY <1>4, <2>2
    <3>3. Emptied(q, a, b, h) = 0 BY DEF Emptied, Is
    <3> QED BY <3>1, <3>2, <3>3
  <2> HIDE DEF Inv
  <2> QED BY <1>1, <1>3, <2>2, <2>3, <2>4, <2>5, QueueStep
<1> QED BY <1>8, <1>9

LEMMA EnqKeeps ==
    ASSUME Inv, NEW q \in Blocks, NEW p \in Blocks, NEW r \in Blocks,
           Enq(q, p, r), UNCHANGED varVars
    PROVE  Inv'
<1> DEFINE many == p # r
           then == <<>>
<1>1. /\ Idle /\ kind[q] \in Queues /\ user[q] > 0
      /\ AllocateBuffer(q, many, then)
      /\ UNCHANGED <<quota, mem, kind, refCount, oci, closing, lists, user,
                     lastRowid, lost>>
  BY DEF Enq, QueueCheck, listVars, varVars
<1>2. /\ then \in Seq(Works) /\ Shape(then) /\ Settled(then)
      /\ \A h : /\ ~FreesIn(then, h) /\ ~ForgetsIn(then, h)
                /\ ~Releases(then, h) /\ PendingIn(then, h) = 0
  BY NoWorkShape
<1>3. RestOK(then) BY DEF RestOK
<1> HIDE DEF many, then, Inv
<1> QED BY <1>1, <1>2, <1>3, BufferKeeps

LEMMA QueueWorkTyped ==
    ASSUME NEW do \in WorkNames, NEW q \in Blocks, NEW i \in Int,
           NEW many \in BOOLEAN
    PROVE  /\ QueueWork(do, q, i, many) \in Works
           /\ QueueWork(do, q, i, many).do = do
           /\ QueueWork(do, q, i, many).h = q
           /\ QueueWork(do, q, i, many).i = i
           /\ QueueWork(do, q, i, many).propagate = many
<1> PICK x : x = WorkOn(do, q) OBVIOUS
<1>1. x \in Works /\ x.do = do /\ x.h = q BY WorkTyped
<1> PICK y : y = [x EXCEPT !.i = i] OBVIOUS
<1>2. y \in Works /\ y.do = do /\ y.h = q /\ y.i = i BY <1>1 DEF Works
<1> PICK z : z = [y EXCEPT !.propagate = many] OBVIOUS
<1>3. z \in Works /\ z.do = do /\ z.h = q /\ z.i = i /\ z.propagate = many
  BY <1>2 DEF Works
<1>4. QueueWork(do, q, i, many) = z BY DEF QueueWork
<1> QED BY <1>3, <1>4

LEMMA DeqKeeps ==
    ASSUME Inv, NEW q \in Blocks, NEW many \in BOOLEAN,
           Deq(q, many), UNCHANGED varVars
    PROVE  Inv'
<1> DEFINE w == QueueWork("populate", q, 1, many)
           then == <<w>>
<1>1. /\ Idle /\ kind[q] \in Queues /\ user[q] > 0
      /\ AllocateBuffer(q, many, then)
      /\ UNCHANGED <<quota, mem, kind, refCount, oci, closing, lists, user,
                     lastRowid, lost>>
  BY DEF Deq, QueueCheck, listVars, varVars
<1>2. /\ w \in Works /\ w.do = "populate" /\ w.h = q /\ w.i = 1
      /\ w.propagate = many
  BY QueueWorkTyped DEF WorkNames, LastWorks
<1>3. Count(many) \in {1, 2} BY DEF Count
<1>4. WorkOK(w)'
  BY <1>1, <1>2, <1>3 DEF WorkOK, FreeWorks, CloseWorks, SweepWorks, Queues
<1> HIDE DEF w
<1>5. w.do \in LastWorks \ {"give", "define"} BY <1>2 DEF LastWorks
<1>6. /\ then \in Seq(Works) /\ Shape(then) /\ Settled(then)
      /\ \A h : /\ ~FreesIn(then, h) /\ ~ForgetsIn(then, h)
                /\ ~Releases(then, h) /\ PendingIn(then, h) = 0
  BY <1>2, <1>5, LastAlone
<1>7. RestOK(then)
  <2>1. \A i \in DOMAIN then : then[i] = w OBVIOUS
  <2> HIDE DEF then
  <2> QED BY <1>2, <1>4, <2>1 DEF RestOK
<1> HIDE DEF then, Inv
<1> QED BY <1>1, <1>6, <1>7, BufferKeeps

(* The messages that were dequeued go to the program.                       *)
LEMMA DequeueKeeps == ASSUME Inv, Dequeue, UNCHANGED varVars PROVE Inv'
<1> DEFINE q == Subject
           w == Head(todo)
<1>1. Doing("dequeue") /\ "dequeue" \in LastWorks BY DEF Dequeue, LastWorks
<1>2. w \in Works /\ w.do = "dequeue" /\ WorkOK(w) /\ q = w.h
  BY <1>1, LastCall DEF Subject
<1>3. q \in Blocks /\ user[q] > 0 /\ kind[q] \in Queues /\ KeepsFields(q)
  BY <1>2, UsersAlive DEF Works, WorkOK
<1>4. Count(w.propagate) \in {1, 2} BY DEF Count
<1>5. PICK n \in 0 .. Count(w.propagate) :
          /\ user' = [x \in Blocks |->
                IF \E i \in 1 .. n : field[q][Places[i]] = x
                THEN user[x] + 1 ELSE user[x]]
          /\ field' = [field EXCEPT ![q] =
                [r \in DOMAIN @ |->
                    IF \E i \in 1 .. n : Places[i] = r THEN NULL ELSE @[r]]]
  BY DEF Dequeue
<1>6. n \in {0, 1, 2} /\ Places[1] = "first" /\ Places[2] = "second"
  BY <1>4 DEF Places
<1>7. /\ DOMAIN field[q] = RolesOf(kind[q])
      /\ field = [x \in Blocks |-> field[x]]
      /\ field[q].first \in Blocks \cup {NULL}
      /\ field[q].second \in Blocks \cup {NULL}
      /\ "first" \in DOMAIN field[q] /\ "second" \in DOMAIN field[q]
      /\ field[q].first = field[q].second => field[q].first = NULL
  <2>1. RolesOf(kind[q]) = {"conn", "payloadType", "deqOptions", "enqOptions",
                            "first", "second"}
    BY <1>3, RolesAre
  <2>2. /\ FieldsFit(kind[q], field[q]) /\ DOMAIN field[q] = RolesOf(kind[q])
    BY <1>3, HoldsFields
  <2>3. \A r \in RolesOf(kind[q]) : field[q][r] \in Blocks \cup {NULL}
    BY <1>3, HoldsFields
  <2> HIDE DEF q
  <2> QED BY <1>3, <2>1, <2>2, <2>3 DEF FieldsFit, Inv, HandlesTypes
<1> DEFINE a == IF n = 0 THEN field[q].first ELSE NULL
           b == IF n = 2 THEN NULL ELSE field[q].second
<1>8. /\ \A i \in 1 .. n : i = 1 \/ (i = 2 /\ n = 2)
      /\ n # 0 => 1 \in 1 .. n
      /\ n = 2 => 2 \in 1 .. n
  BY <1>6
<1>9. \A r : /\ (\E i \in 1 .. n : Places[i] = r) <=>
                    (n # 0 /\ r = "first") \/ (n = 2 /\ r = "second")
             /\ (\E i \in 1 .. n : field[q][Places[i]] = r) <=>
                    \/ n # 0 /\ field[q].first = r
                    \/ n = 2 /\ field[q].second = r
  BY <1>6, <1>8
<1>10. PlacesSet(q, a, b)
  <2>1. field'[q] = [r \in DOMAIN field[q] |->
                        IF \E i \in 1 .. n : Places[i] = r THEN NULL
                        ELSE field[q][r]]
    BY <1>3, <1>5, <1>7
  <2>2. /\ DOMAIN field'[q] = DOMAIN field[q]
        /\ field'[q] = [r \in DOMAIN field'[q] |-> field'[q][r]]
    BY <2>1
  <2>3. \A r \in DOMAIN field[q] :
            field'[q][r] = IF (n # 0 /\ r = "first") \/ (n = 2 /\ r = "second")
                           THEN NULL ELSE field[q][r]
    BY <1>9, <2>1
  <2>4. field' = [x \in Blocks |-> field'[x]] BY <1>5, <1>7
  <2>5. \A z \in Blocks \ {q} : field'[z] = field[z] BY <1>5, <1>7
  <2>6. field'[q].first = a BY <1>6, <1>7, <2>3
  <2>7. field'[q].second = b BY <1>6, <1>7, <2>3
  <2> HIDE DEF a, b, q
  <2> QED BY <1>7, <2>2, <2>3, <2>4, <2>5, <2>6, <2>7 DEF PlacesSet
<1>11. PICK u \in Seq(Works) : u = <<>> BY NoWorkShape
<1>12. Unrefs(u) /\ \A h : PendingIn(u, h) = 0 BY <1>11, NoneFirst
<1>13. Then(u, <<>>)
  <2>1. todo' = u BY <1>11 DEF Dequeue
  <2> HIDE DEF Inv
  <2> QED BY <1>1, <2>1, LastThen
<1>14. \A h \in Blocks : user[h] \in Nat BY DEF Inv, HandlesTypes
<1>15. UserTyped BY <1>5, <1>14 DEF UserTyped
<1>16. \A h : PendingIn(todo, h) = 0
  <2>1. "dequeue" \in LastWorks \ {"give", "define"} BY DEF LastWorks
  <2> QED BY <1>1, <2>1, NothingPending
<1>17. QueueBalance(q, a, b, u, <<>>)
  <2> SUFFICES ASSUME NEW h \in Blocks
               PROVE  (user'[h] - user[h])
                      + (PendingIn(u, h) + PendingIn(<<>>, h)
                             - PendingIn(todo, h))
                      - Emptied(q, a, b, h) = 0
    BY DEF QueueBalance
  <2>1. PendingIn(<<>>, h) = 0 /\ PendingIn(todo, h) = 0 /\ PendingIn(u, h) = 0
    BY <1>12, <1>16, NoneFirst
  <2>2. user'[h] = IF (n # 0 /\ field[q].first = h)
                      \/ (n = 2 /\ field[q].second = h)
                   THEN user[h] + 1 ELSE user[h]
    BY <1>5, <1>9
  <2>3. h # NULL /\ user[h] \in Nat BY <1>14, HandleTreeAssumption
  <2>4. user'[h] - user[h] = Emptied(q, a, b, h)
    BY <1>6, <1>7, <2>2, <2>3 DEF Emptied, Is
  <2>5. Emptied(q, a, b, h) \in Int BY DEF Emptied, Is
  <2> HIDE DEF a, b, q
  <2> QED BY <2>1, <2>4, <2>5
<1>18. /\ a \in {field[q].first, NULL} /\ b \in {field[q].second, NULL}
       /\ UNCHANGED <<quota, mem, kind, refCount, oci, closing, lists,
                      lastRowid, lost>>
  BY DEF Dequeue, listVars, varVars
<1> HIDE DEF a, b, q, Inv
<1> QED BY <1>3, <1>10, <1>12, <1>13, <1>15, <1>17, <1>18, QueueStep

-----------------------------------------------------------------------------
(* Steps that only call other functions.                                    *)
Prefetches(works) == \A i \in DOMAIN works : works[i].do = "prefetch"

LEMMA PrefetchPushed ==
    ASSUME NEW v \in Blocks, IsVar(v), kind[v] # "bytesVar", Anchored(v),
           NEW why \in Reasons \ {"new"}, NEW r, Fine(r), Prefetches(r),
           NEW p, p = <<Prefetch(v, why)>> \o r
    PROVE  Fine(p) /\ Prefetches(p) /\ SameEffects(p, r)
<1> PICK w : w = Prefetch(v, why) OBVIOUS
<1>1. w \in Works /\ w.do = "prefetch" /\ w.h = v /\ w.why = why
  BY PrefetchTyped
<1>2. r \in Seq(Works) /\ p = <<w>> \o r BY DEF Fine
<1>3. WorkOK(w) BY <1>1 DEF WorkOK, FreeWorks, CloseWorks, SweepWorks
<1>4. Fine(p)
  BY <1>1, <1>2, <1>3, FinePushed DEF Prefetches, FreeWorks, LastWorks,
     GivesUp, OfFreeConn, SweepWorks, CloseWorks
<1>5. Prefetches(p)
  <2>1. /\ p[1] = w
        /\ \A j \in DOMAIN p : j # 1 => j - 1 \in DOMAIN r /\ p[j] = r[j - 1]
    BY <1>1, <1>2, Push
  <2> QED BY <1>1, <2>1 DEF Prefetches
<1>6. SameEffects(p, r) BY <1>1, <1>2, SilentPushed DEF FreeWorks
<1> QED BY <1>4, <1>5, <1>6

LEMMA StmtHolds ==
    ASSUME Inv, NEW s \in Blocks, user[s] > 0, IsStmt(s),
           NEW role \in {"bind", "column"}, field[s][role] # NULL
    PROVE  /\ field[s][role] \in Blocks /\ IsVar(field[s][role])
           /\ Anchored(field[s][role])
<1>1. KeepsFields(s) BY UsersAlive
<1>2. role \in RolesOf(kind[s]) BY RolesAre DEF IsStmt
<1>3. /\ FieldsFit(kind[s], field[s])
      /\ field[s][role] \in Blocks \cup {NULL}
  BY <1>1, <1>2, HoldsFields
<1>4. kind[field[s][role]] \in KindsOf(kind[s], role)
  BY <1>2, <1>3 DEF FieldsFit, PointerOK
<1>5. KindsOf(kind[s], role) = VarKinds BY DEF KindsOf
<1> QED BY <1>3, <1>4, <1>5 DEF IsVar, Anchored

LEMMA StartsCalls ==
    ASSUME Inv, Idle,
           UNCHANGED <<quota, mem, kind, refCount, field, oci, closing, lists,
                       user, lastRowid, lost>>,
           Fine(todo'), SameEffects(todo', <<>>)
    PROVE  Inv'
<1>1. todo = <<>> BY DEF Idle
<1> QED BY <1>1, CallsOthers

LEMMA ExecuteKeeps ==
    ASSUME Inv, NEW s \in Blocks, Execute(s) PROVE Inv'
<1> DEFINE v == field[s].bind
<1>1. /\ Idle /\ IsStmt(s) /\ user[s] > 0 /\ v # NULL
      /\ UNCHANGED <<quota, mem, kind, refCount, field, oci, closing, lists,
                     user, lastRowid, lost>>
  BY DEF Execute, Executable, StmtCheck, HasStmt, blockVars, listVars, varVars
<1>2. PICK grows \in BOOLEAN :
          /\ grows => kind[s] = "dml" /\ kind[v] \notin {"stmtVar", "bytesVar"}
          /\ todo' = ExecuteWork(s, v, grows)
  BY DEF Execute
<1>3. v \in Blocks /\ IsVar(v) /\ Anchored(v) BY <1>1, StmtHolds
<1> HIDE DEF v
<1> PICK a : a = <<Prefetch(v, "null")>> OBVIOUS
<1> PICK b : b = <<Prefetch(v, "returned")>> OBVIOUS
<1> PICK e : e = <<>> OBVIOUS
<1>4. Fine(e) /\ Prefetches(e) /\ SameEffects(e, e)
  BY FineNone, SameAtAll DEF Prefetches
<1>5. "null" \in Reasons \ {"new"} /\ "returned" \in Reasons \ {"new"}
  BY DEF Reasons
<1>6. kind[v] # "bytesVar" =>
          Fine(b \o e) /\ Prefetches(b \o e) /\ SameEffects(b \o e, e)
  BY <1>3, <1>4, <1>5, PrefetchPushed
<1>7. kind[v] # "bytesVar" =>
          Fine(a \o e) /\ SameEffects(a \o e, e)
  BY <1>3, <1>4, <1>5, PrefetchPushed
<1>8. b \o e = b /\ a \o e = a /\ e \o e = e OBVIOUS
<1>9. kind[v] # "bytesVar" => Fine(a \o b) /\ SameEffects(a \o b, b)
  BY <1>3, <1>5, <1>6, <1>8, PrefetchPushed
<1>10. kind[v] # "bytesVar" => SameEffects(a \o b, e)
  BY <1>6, <1>8, <1>9, SameTwice
<1>11. \/ todo' = e
       \/ kind[v] # "bytesVar" /\ todo' \in {a, b, a \o b}
  <2>1. todo' = (IF kind[v] = "objectVar" /\ field[v].value = NULL THEN a ELSE e)
                \o (IF grows THEN b ELSE e)
    BY <1>2 DEF ExecuteWork
  <2>2. todo' \in {e \o e, a \o e, e \o b, a \o b} BY <2>1
  <2>3. e \o b = b OBVIOUS
  <2>4. kind[v] = "bytesVar" => todo' = e BY <1>2, <1>8, <2>1
  <2> QED BY <1>8, <2>2, <2>3, <2>4
<1>12. Fine(todo') /\ SameEffects(todo', e)
  BY <1>4, <1>6, <1>7, <1>8, <1>9, <1>10, <1>11
<1> HIDE DEF Inv
<1> QED BY <1>1, <1>12, StartsCalls

LEMMA FetchKeeps ==
    ASSUME Inv, NEW q \in Blocks, Fetch(q) PROVE Inv'
<1> DEFINE v == field[q].column
<1>1. /\ Idle /\ IsStmt(q) /\ user[q] > 0 /\ v # NULL
      /\ UNCHANGED <<quota, mem, kind, refCount, field, oci, closing, lists,
                     user, lastRowid, lost>>
      /\ \/ todo' = <<>>
         \/ kind[v] # "bytesVar" /\ todo' = <<Prefetch(v, "fetch")>>
  BY DEF Fetch, StmtCheck, HasStmt, blockVars, listVars
<1>2. v \in Blocks /\ IsVar(v) /\ Anchored(v) BY <1>1, StmtHolds
<1>3. Fine(<<>>) /\ Prefetches(<<>>) /\ SameEffects(<<>>, <<>>)
  BY FineNone, SameAtAll DEF Prefetches
<1>4. "fetch" \in Reasons \ {"new"} BY DEF Reasons
<1> HIDE DEF v, Inv
<1>5. CASE todo' = <<>> BY <1>1, <1>3, <1>5, StartsCalls
<1>6. CASE kind[v] # "bytesVar" /\ todo' = <<Prefetch(v, "fetch")>>
  <2>1. todo' = <<Prefetch(v, "fetch")>> \o <<>> BY <1>6
  <2>2. Fine(todo') /\ SameEffects(todo', <<>>)
    BY <1>2, <1>3, <1>4, <1>6, <2>1, PrefetchPushed
  <2> QED BY <1>1, <2>2, StartsCalls
<1> QED BY <1>1, <1>5, <1>6

LEMMA PrefetchNullKeeps == ASSUME Inv, PrefetchNull PROVE Inv'
<1> PICK w : w = Head(todo) OBVIOUS
<1> PICK r : r = Tail(todo) OBVIOUS
<1>1. /\ todo # <<>> /\ w.do = "prefetch" /\ w.why = "fetch"
      /\ todo' = r
      /\ UNCHANGED <<quota, mem, kind, refCount, field, oci, closing, lists,
                     user, lastRowid, lost>>
  BY DEF PrefetchNull, Doing, blockVars, listVars, varVars
<1>2. /\ w \in Works /\ r \in Seq(Works) /\ todo = <<w>> \o r
      /\ Shape(r) /\ Settled(r) /\ Ended(r)
      /\ \A i \in DOMAIN r : WorkOK(r[i])
  BY <1>1, NextCall
<1>3. Fine(r) BY <1>2 DEF Fine
<1>4. SameEffects(todo, r) BY <1>1, <1>2, SilentPushed DEF FreeWorks
<1>5. SameEffects(todo', todo) BY <1>1, <1>4 DEF SameEffects
<1> HIDE DEF Inv
<1> QED BY <1>1, <1>3, <1>5, CallsOthers

LEMMA CloseWorkTyped ==
    ASSUME NEW s \in Blocks, NEW propagate \in BOOLEAN
    PROVE  /\ CloseWorkOn(s, propagate) \in Works
           /\ CloseWorkOn(s, propagate).do = "closeStmt"
           /\ CloseWorkOn(s, propagate).h = s
           /\ CloseWorkOn(s, propagate).propagate = propagate
<1> PICK x : x = WorkOn("closeStmt", s) OBVIOUS
<1>1. x \in Works /\ x.do = "closeStmt" /\ x.h = s
  BY WorkTyped DEF WorkNames, CloseWorks
<1> PICK y : y = [x EXCEPT !.propagate = propagate] OBVIOUS
<1>2. y \in Works /\ y.do = "closeStmt" /\ y.h = s /\ y.propagate = propagate
  BY <1>1 DEF Works
<1>3. CloseWorkOn(s, propagate) = y BY DEF CloseWorkOn
<1> QED BY <1>2, <1>3

LEMMA CloseStmtKeeps ==
    ASSUME Inv, NEW s \in Blocks, CloseStmt(s) PROVE Inv'
<1> PICK w : w = CloseWorkOn(s, TRUE) OBVIOUS
<1> PICK r : r = <<>> OBVIOUS
<1>1. /\ todo = r /\ IsStmt(s) /\ user[s] > 0
      /\ todo' = <<w>>
      /\ UNCHANGED <<quota, mem, kind, refCount, field, oci, closing, lists,
                     user, lastRowid, lost>>
  BY DEF CloseStmt, StmtCheck, HasStmt, Idle, blockVars, listVars, varVars
<1>2. /\ w \in Works /\ w.do = "closeStmt" /\ w.h = s /\ w.propagate = TRUE
  BY CloseWorkTyped
<1> PICK p : p = <<w>> \o r OBVIOUS
<1>3. todo' = p BY <1>1
<1>4. /\ r \in Seq(Works) /\ Shape(r) /\ Settled(r) /\ GivenUp(r)
      /\ \A i \in DOMAIN r : WorkOK(r[i])
  BY NoWorkShape
<1>5. p \in Seq(Works) BY <1>2, <1>4, Push
<1>6. Shape(p)
  BY <1>2, <1>4, ShapePush DEF FreeWorks, LastWorks, OfFreeConn, SweepWorks
<1>7. SameEffects(p, r) BY <1>2, <1>4, SilentPushed DEF FreeWorks
<1>8. ~Dead(s) BY <1>1, UsersAlive
<1>9. WorkOK(w) BY <1>1, <1>2, <1>8 DEF WorkOK, FreeWorks, SweepWorks
<1>10. \A i \in DOMAIN p : WorkOK(p[i]) BY <1>2, <1>4, <1>9, AllPushed
<1>11. EndOK'
  <2>1. \A i \in DOMAIN p : p[i] = w
    <3>1. /\ p[1] = w
          /\ \A i \in DOMAIN p : i # 1 => i - 1 \in DOMAIN r /\ p[i] = r[i - 1]
      BY <1>2, <1>4, Push
    <3>2. DOMAIN r = {} OBVIOUS
    <3> QED BY <3>1, <3>2
  <2> QED BY <1>2, <1>3, <2>1 DEF EndOK
<1>12. ClosingTypes BY <1>1, StaysClosed
<1> HIDE DEF Inv
<1> QED BY <1>1, <1>3, <1>5, <1>6, <1>7, <1>10, <1>11, <1>12, QuietStep

(* A pointer to a statement is the value of a variable for cursors.         *)
LEMMA StmtHeldByVar ==
    ASSUME Inv, NEW s \in Blocks, IsStmt(s), PointersIn(field, s) # 0
    PROVE  Allowed("stmtVar")
<1>0. PICK x \in Blocks : \E r \in DOMAIN field[x] : field[x][r] = s
  <2> DEFINE P == {p \in UNION {{x} \X DOMAIN field[x] : x \in Blocks} :
                       field[p[1]][p[2]] = s}
  <2>1. P # {} BY FS_EmptySet DEF PointersIn
  <2>2. PICK p \in P : TRUE BY <2>1
  <2>3. PICK x \in Blocks : p \in {x} \X DOMAIN field[x] BY <2>2
  <2>4. p[1] = x /\ p[2] \in DOMAIN field[x] /\ field[p[1]][p[2]] = s
    BY <2>2, <2>3
  <2>5. \E q \in DOMAIN field[x] : field[x][q] = s BY <2>4
  <2> HIDE DEF P
  <2> QED BY <2>5
<1>1. PICK r \in DOMAIN field[x] : field[x][r] = s BY <1>0
<1>2. KeepsFields(x)
  <2>1. FieldsOK(x) BY DEF Inv
  <2> QED BY <1>1, <2>1 DEF FieldsOK, NoFields
<1>3. /\ r \in RolesOf(kind[x]) /\ FieldsFit(kind[x], field[x])
  BY <1>1, <1>2, HoldsFields
<1>4. kind[s] \in KindsOf(kind[x], r)
  BY <1>1, <1>3, HandleTreeAssumption DEF FieldsFit, PointerOK
<1>5. kind[s] \in StmtKinds BY DEF IsStmt
<1>6. r \in {"value", "returned"} /\ kind[s] \in Contents(kind[x])
  <2>1. kind[s] \notin {"conn", "objectType", "object", "json", "deqOptions",
                        "enqOptions", "msgProps", "sodaDb", "sodaColl"} \cup VarKinds
    BY <1>5 DEF StmtKinds, Queries, VarKinds
  <2>2. r \in {"conn", "element", "belongsTo", "valueType", "type",
               "payloadType", "dependsOn", "payloadObj", "payloadJson",
               "deqOptions", "enqOptions", "first", "second", "db", "coll",
               "bind", "column", "value", "returned"}
    BY <1>3 DEF RolesOf
  <2> QED BY <1>4, <2>1, <2>2 DEF KindsOf
<1>7. kind[x] \in VarKinds BY <1>3, <1>6 DEF RolesOf
<1>8. kind[x] = "stmtVar"
  BY <1>5, <1>6, <1>7 DEF Contents, ContentKinds, VarKinds, StmtKinds, Queries
<1> QED BY <1>8 DEF Inv, KindOK

LEMMA StmtHeld ==
    ASSUME Inv, NEW s \in Blocks, IsStmt(s), ~Dead(s), PendingIn(todo, s) = 0
    PROVE  Allowed("stmtVar") \/ user[s] > 0
<1> SUFFICES ASSUME ~(user[s] > 0) PROVE Allowed("stmtVar") OBVIOUS
<1>1. kind[s] \in StmtKinds /\ kind[s] # "json" /\ kind[s] # "rowid" /\ ~IsVar(s)
  BY DEF IsStmt, IsVar, StmtKinds, Queries, VarKinds
<1>2. CountOK(s) /\ KindOK(s) BY DEF Inv
<1>3. refCount[s] >= 1 /\ refCount[s] = Counted(s) BY <1>1, <1>2 DEF CountOK
<1>4. RowidsIn(lastRowid, closing, s) = 0
  <2>1. \A q \in Blocks : lastRowid[q] # s
    BY <1>1, HandleTreeAssumption DEF Inv, KindOK
  <2>2. {q \in Blocks : lastRowid[q] = s /\ ~closing[q]} = {} BY <2>1
  <2> QED BY <2>2, FS_EmptySet DEF RowidsIn
<1>5. Forgotten(s) = 0 BY <1>1, <1>2 DEF KindOK, Forgotten
<1>6. user[s] = 0 /\ PointersIn(field, s) \in Nat /\ user[s] \in Nat BY Parts
<1>7. PointersIn(field, s) # 0 BY <1>3, <1>4, <1>5, <1>6 DEF Counted
<1> HIDE DEF Inv
<1> QED BY <1>7, StmtHeldByVar

LEMMA CloseEachStmtKeeps == ASSUME Inv, CloseEachStmt PROVE Inv'
<1> PICK w : w = Head(todo) OBVIOUS
<1> PICK r : r = Tail(todo) OBVIOUS
<1> DEFINE i == NextSlot("closeStmts", "openStmts")
           s == lists["openStmts"][i]
           after == [w EXCEPT !.i = i + 1]
<1>1. /\ todo # <<>> /\ w.do = "closeStmts"
      /\ todo' = IF i = 0 THEN r
                 ELSE IF closing[s] THEN <<after>> \o r
                 ELSE <<CloseWorkOn(s, w.propagate), after>> \o r
      /\ UNCHANGED <<quota, mem, kind, refCount, field, oci, closing, lists,
                     user, lastRowid, lost>>
  BY DEF CloseEachStmt, Doing, blockVars, listVars, varVars
<1>2. ClosingTypes BY <1>1, StaysClosed
<1>3. CASE i = 0 \/ closing[s]
  <2>1. \/ todo' = Tail(todo)
        \/ \E n \in Int : todo' = <<[Head(todo) EXCEPT !.i = n]>> \o Tail(todo)
    <3>1. CASE i = 0 BY <1>1, <3>1
    <3>2. CASE i # 0
      <4>1. i + 1 \in Int BY <3>2, NextSlotUsed DEF Lists
      <4>2. todo' = <<[Head(todo) EXCEPT !.i = i + 1]>> \o Tail(todo)
        BY <1>1, <1>3, <3>2
      <4> HIDE DEF i
      <4> QED BY <4>1, <4>2
    <3> QED BY <3>1, <3>2
  <2>2. Head(todo).do \in SweepWorks BY <1>1 DEF SweepWorks
  <2> HIDE DEF Inv, i, s
  <2> QED BY <1>1, <1>2, <2>1, <2>2, LoopStep
<1>4. CASE i # 0 /\ ~closing[s]
  <2>1. /\ w \in Works /\ r \in Seq(Works) /\ todo = <<w>> \o r
        /\ WorkOK(w) /\ (\A j \in DOMAIN r : WorkOK(r[j]))
        /\ Shape(r) /\ Ended(r) /\ Settled(r)
        /\ GivesUp(w) => GivenUp(r)
        /\ OfFreeConn(w) => ForgetsIn(r, Conn)
    BY <1>1, NextCall
  <2>2. /\ i \in Slots /\ i \in Int /\ s # NULL /\ "openStmts" \in Lists
    BY <1>4, NextSlotUsed DEF Lists
  <2>3. s \in Blocks /\ kind[s] \in Listed["openStmts"] /\ KeepsFields(s)
    BY <1>4, <2>2, ListedLive
  <2>4. IsStmt(s) BY <2>3 DEF IsStmt, Listed
  <2> HIDE DEF i, s
  <2>5. /\ after \in Works /\ after.do = "closeStmts" /\ after.h = w.h
        /\ after.propagate = w.propagate /\ w.propagate \in BOOLEAN
    <3>1. i + 1 \in Int BY <2>2
    <3> QED BY <1>1, <2>1, <3>1 DEF Works
  <2> PICK c : c = CloseWorkOn(s, w.propagate) OBVIOUS
  <2>6. /\ c \in Works /\ c.do = "closeStmt" /\ c.h = s
        /\ c.propagate = w.propagate
    BY <2>3, <2>5, CloseWorkTyped
  <2> HIDE DEF after
  <2>7. Fine(r) /\ WorkOK(after)
    BY <1>1, <2>1, <2>5 DEF Fine, WorkOK, FreeWorks, CloseWorks, SweepWorks
  <2> PICK q : q = <<after>> \o r OBVIOUS
  <2>8. Fine(q)
    BY <1>1, <2>1, <2>5, <2>7, FinePushed DEF FreeWorks, LastWorks, GivesUp,
       OfFreeConn, SweepWorks, CloseWorks
  <2>9. SameEffects(q, r) /\ SameEffects(todo, r)
    BY <1>1, <2>1, <2>5, SilentPushed DEF FreeWorks
  <2>10. w.propagate = TRUE
    <3> SUFFICES ASSUME w.propagate = FALSE PROVE FALSE BY <2>5
    <3>1. ForgetsIn(r, Conn) BY <1>1, <2>1 DEF OfFreeConn, SweepWorks
    <3>2. Dead(Conn)
      BY <2>9, <3>1, ConnIsBlock DEF SameEffects, Dead, ForgetsIn, FreesIn,
         FreeWorks
    <3>3. "conn" \in RolesOf(kind[s]) BY <2>4, RolesAre DEF IsStmt
    <3>4. /\ FieldsFit(kind[s], field[s]) /\ "conn" \in DOMAIN field[s]
          /\ field[s]["conn"] \in Blocks \cup {NULL}
      BY <2>3, <3>3, HoldsFields
    <3>5. field[s]["conn"] # NULL /\ kind[field[s]["conn"]] \in {"conn"}
      <4>1. PointerOK(kind[s], "conn", field[s]["conn"])
        BY <3>3, <3>4 DEF FieldsFit
      <4>2. "conn" \in Required(kind[s]) /\ KindsOf(kind[s], "conn") = {"conn"}
        BY DEF Required, KindsOf
      <4> HIDE DEF Required, KindsOf
      <4> QED BY <4>1, <4>2 DEF PointerOK
    <3>6. field[s]["conn"] = Conn BY <3>4, <3>5 DEF Inv, KindOK
    <3>7. field[s]["conn"] \in Blocks BY <3>4, <3>5
    <3>8. ~Dead(Conn) BY <2>3, <3>4, <3>6, <3>7, PointedAlive
    <3> QED BY <3>2, <3>8
  <2>11. GivenUp(r) BY <1>1, <2>1, <2>10 DEF GivesUp, SweepWorks
  <2>12. GivenUp(q)
    <3>1. /\ q[1] = after
          /\ \A j \in DOMAIN q : j # 1 => j - 1 \in DOMAIN r /\ q[j] = r[j - 1]
      BY <2>1, <2>5, Push
    <3> QED BY <2>5, <2>10, <2>11, <3>1 DEF GivenUp, SweepWorks
  <2>13. ~Dead(s) /\ PendingIn(todo, s) = 0
    <3>1. ~FreesIn(r, s) BY <2>11 DEF GivenUp, FreesIn, SweepWorks, FreeWorks
    <3>2. PendingIn(r, s) = 0
      <4>1. \A j \in DOMAIN r : ~RefersTo(r[j], s)
        BY <2>11 DEF GivenUp, SweepWorks, RefersTo
      <4> QED BY <4>1, PendingNone
    <3> QED BY <2>3, <2>9, <3>1, <3>2 DEF SameEffects, Dead, KeepsFields
  <2>14. WorkOK(c)
    <3>1. Allowed("stmtVar") \/ user[s] > 0 BY <2>3, <2>4, <2>13, StmtHeld
    <3> QED BY <2>4, <2>6, <2>13, <3>1 DEF WorkOK, FreeWorks, SweepWorks
  <2> PICK p : p = <<c>> \o q OBVIOUS
  <2>15. todo' = p
    <3>1. todo' = <<c, after>> \o r BY <1>1, <1>4
    <3>2. <<c>> \o <<after>> = <<c, after>> BY <2>5, <2>6, Pair
    <3>3. (<<c>> \o <<after>>) \o r = <<c>> \o (<<after>> \o r)
      BY <2>1, <2>5, <2>6, Associative
    <3> QED BY <3>1, <3>2, <3>3
  <2>16. q \in Seq(Works) /\ Shape(q) /\ Settled(q) /\ Ended(q)
         /\ \A j \in DOMAIN q : WorkOK(q[j])
    BY <2>8 DEF Fine
  <2>17. Shape(p)
    BY <2>6, <2>10, <2>12, <2>16, ShapePush DEF FreeWorks, LastWorks,
       OfFreeConn, SweepWorks
  <2>18. p \in Seq(Works) BY <2>6, <2>16, Push
  <2>19. \A j \in DOMAIN p : WorkOK(p[j]) BY <2>6, <2>14, <2>16, AllPushed
  <2>20. Ended(p) BY <2>6, <2>16, EndedPushed
  <2>21. SameEffects(p, todo)
    <3>1. SameEffects(p, q) BY <2>6, <2>16, SilentPushed DEF FreeWorks
    <3>2. SameEffects(p, r) BY <2>9, <3>1, SameTwice
    <3> QED BY <2>9, <3>2 DEF SameEffects
  <2>22. EndOK' BY <1>1, <2>15, <2>20 DEF EndOK, Ended
  <2> HIDE DEF Inv
  <2> QED BY <1>1, <1>2, <2>15, <2>17, <2>18, <2>19, <2>21, <2>22, QuietStep
<1> QED BY <1>3, <1>4

LEMMA FreeStmtKeeps == ASSUME Inv, FreeStmt PROVE Inv'
<1> PICK w : w = Head(todo) OBVIOUS
<1> PICK r : r = Tail(todo) OBVIOUS
<1> PICK s : s = Subject OBVIOUS
<1>1. /\ todo # <<>> /\ w.do = "free" /\ w.h = s /\ IsStmt(s)
      /\ todo' = <<CloseWorkOn(s, FALSE), WorkOn("freeStmt", s)>> \o r
      /\ UNCHANGED <<quota, mem, kind, refCount, field, oci, closing, lists,
                     user, lastRowid, lost>>
  BY DEF FreeStmt, Doing, Subject, blockVars, listVars, varVars
<1>2. /\ w \in Works /\ r \in Seq(Works) /\ todo = <<w>> \o r
      /\ WorkOK(w) /\ (\A j \in DOMAIN r : WorkOK(r[j]))
      /\ Shape(r) /\ Ended(r) /\ Settled(r) /\ ~FreesIn(r, s)
  BY <1>1, NextCall DEF FreeWorks
<1>3. s \in Blocks BY <1>1, <1>2 DEF Works
<1>20. PICK e : e = WorkOn("freeStmt", s) OBVIOUS
<1>4. e \in Works /\ e.do = "freeStmt" /\ e.h = s
  BY <1>3, <1>20, WorkTyped DEF WorkNames, FreeWorks
<1>21. PICK c : c = CloseWorkOn(s, FALSE) OBVIOUS
<1>5. c \in Works /\ c.do = "closeStmt" /\ c.h = s /\ c.propagate = FALSE
  BY <1>3, <1>21, CloseWorkTyped
<1>6. WorkOK(e) /\ WorkOK(c)
  BY <1>1, <1>2, <1>4, <1>5 DEF WorkOK, FreeWorks, CloseWorks, SweepWorks
<1>22. PICK q : q = <<e>> \o r OBVIOUS
<1>23. PICK p : p = <<c>> \o q OBVIOUS
<1>7. todo' = p
  <2>1. <<c>> \o <<e>> = <<c, e>> BY <1>4, <1>5, Pair
  <2>2. (<<c>> \o <<e>>) \o r = <<c>> \o (<<e>> \o r)
    BY <1>2, <1>4, <1>5, Associative
  <2>3. todo' = <<c, e>> \o r BY <1>1, <1>20, <1>21
  <2> QED BY <1>22, <1>23, <2>1, <2>2, <2>3
<1>8. /\ q \in Seq(Works) /\ q[1] = e /\ 1 \in DOMAIN q
      /\ \A j \in DOMAIN q : j # 1 => j - 1 \in DOMAIN r /\ q[j] = r[j - 1]
  <2>1. /\ q \in Seq(Works) /\ q[1] = e /\ Len(q) = Len(r) + 1 /\ Len(r) \in Nat
        /\ DOMAIN q = 1 .. Len(q)
        /\ \A j \in DOMAIN q : j # 1 => j - 1 \in DOMAIN r /\ q[j] = r[j - 1]
    BY <1>2, <1>4, <1>22, <1>23, Push
  <2> QED BY <2>1
<1>9. Shape(q)
  BY <1>2, <1>4, <1>22, <1>23, ShapePush DEF FreeWorks, LastWorks, GivesUp,
     OfFreeConn, SweepWorks, CloseWorks
<1>10. Settled(q)
  BY <1>2, <1>4, <1>22, <1>23, ShapePush DEF FreeWorks, LastWorks, GivesUp,
     OfFreeConn, SweepWorks, CloseWorks
<1>11. Shape(p)
  BY <1>4, <1>5, <1>8, <1>9, <1>10, <1>22, <1>23, ShapePush DEF FreeWorks,
     LastWorks, GivesUp, OfFreeConn, SweepWorks
<1>12. /\ p \in Seq(Works) /\ p[1] = c
       /\ \A j \in DOMAIN p : j # 1 => j - 1 \in DOMAIN q /\ p[j] = q[j - 1]
  <2>1. q \in Seq(Works) /\ c \in Works BY <1>5, <1>8
  <2>2. p \in Seq(Works) /\ p[1] = c BY <2>1, <1>22, <1>23, Push
  <2>3. \A j \in DOMAIN p : j # 1 => j - 1 \in DOMAIN q /\ p[j] = q[j - 1]
    BY <2>1, <1>22, <1>23, Push
  <2> QED BY <2>2, <2>3
<1>13. \A j \in DOMAIN p : WorkOK(p[j])
  <2>1. \A j \in DOMAIN q : WorkOK(q[j])
    BY <1>2, <1>4, <1>6, <1>22, <1>23, AllPushed
  <2>2. q \in Seq(Works) /\ c \in Works /\ WorkOK(c) BY <1>5, <1>6, <1>8
  <2> QED BY <2>1, <2>2, <1>22, <1>23, AllPushed
<1>14. SameEffects(p, todo)
  <2>1. SameEffects(p, q) BY <1>5, <1>8, <1>23, SilentPushed DEF FreeWorks
  <2> SUFFICES ASSUME NEW h \in Blocks
               PROVE  /\ FreesIn(q, h) <=> FreesIn(todo, h)
                      /\ ForgetsIn(q, h) <=> ForgetsIn(todo, h)
                      /\ Releases(q, h) <=> Releases(todo, h)
                      /\ PendingIn(q, h) = PendingIn(todo, h)
    BY <2>1 DEF SameEffects
  <2>2. References(e, h) = 0 /\ References(w, h) = 0
    BY <1>1, <1>4 DEF References, RefersTo
  <2>3. FreesIn(q, h) <=> FreesIn(todo, h)
    <3>1. FreesIn(q, h) <=> (e.do \in FreeWorks /\ e.h = h) \/ FreesIn(r, h)
      BY <1>2, <1>4, <1>22, AmongPushed
    <3>2. FreesIn(todo, h) <=> (w.do \in FreeWorks /\ w.h = h) \/ FreesIn(r, h)
      BY <1>2, <1>22, AmongPushed
    <3> QED BY <1>1, <1>4, <3>1, <3>2 DEF FreeWorks
  <2>4. ForgetsIn(q, h) <=> ForgetsIn(todo, h)
    <3>1. ForgetsIn(q, h) <=> (e.do = "freeMemory" /\ e.h = h) \/ ForgetsIn(r, h)
      BY <1>2, <1>4, <1>22, AmongPushed
    <3>2. ForgetsIn(todo, h) <=>
              (w.do = "freeMemory" /\ w.h = h) \/ ForgetsIn(r, h)
      BY <1>2, <1>22, AmongPushed
    <3> QED BY <1>1, <1>4, <3>1, <3>2
  <2>5. Releases(q, h) <=> Releases(todo, h)
    <3>1. Releases(q, h) <=> (e.do = "releaseStmt" /\ e.h = h) \/ Releases(r, h)
      BY <1>2, <1>4, <1>22, AmongPushed
    <3>2. Releases(todo, h) <=>
              (w.do = "releaseStmt" /\ w.h = h) \/ Releases(r, h)
      BY <1>2, <1>22, AmongPushed
    <3> QED BY <1>1, <1>4, <3>1, <3>2
  <2>6. PendingIn(q, h) = PendingIn(todo, h)
    <3>1. q # <<>> /\ Head(q) = e /\ Tail(q) = r /\ q \in Seq(Works)
      BY <1>2, <1>4, <1>22, <1>23, Push
    <3>2. PendingIn(q, h) = References(e, h) + PendingIn(r, h)
      BY <3>1, PendingPop
    <3>3. PendingIn(todo, h) = References(w, h) + PendingIn(r, h)
      <4>1. todo \in Seq(Works) /\ todo # <<>> BY <1>1 DEF Inv, HandlesTypes
      <4>2. PendingIn(todo, h) = References(Head(todo), h)
                                     + PendingIn(Tail(todo), h)
        BY <4>1, PendingPop
      <4> QED BY <4>2
    <3> QED BY <2>2, <3>2, <3>3
  <2> QED BY <2>3, <2>4, <2>5, <2>6
<1>15. EndOK'
  <2> SUFFICES ASSUME NEW i \in DOMAIN p, p[i].do = "freeStmt"
               PROVE  \/ closing[p[i].h]
                      \/ i = 2 /\ p[1].do = "closeStmt" /\ p[1].h = p[2].h
    BY <1>1, <1>7 DEF EndOK
  <2>1. i # 1 /\ i - 1 \in DOMAIN q /\ p[i] = q[i - 1] BY <1>5, <1>12
  <2>2. CASE i = 2
    <3>1. p[2] = e BY <1>8, <2>1, <2>2
    <3> QED BY <1>4, <1>5, <1>12, <2>2, <3>1
  <2>3. CASE i # 2
    <3>1. DOMAIN p = 1 .. Len(p) BY <1>12
    <3>2. i - 1 # 1 BY <2>1, <2>3, <3>1
    <3>3. (i - 1) - 1 \in DOMAIN r /\ p[i] = r[(i - 1) - 1] BY <1>8, <2>1, <3>2
    <3> QED BY <1>2, <3>3 DEF Ended
  <2> QED BY <2>2, <2>3
<1>16. ClosingTypes BY <1>1, StaysClosed
<1>17. /\ todo' \in Seq(Works) /\ Shape(todo') /\ SameEffects(todo', todo)
       /\ \A i \in DOMAIN todo' : WorkOK(todo'[i])
  <2>1. p \in Seq(Works) /\ Shape(p) /\ SameEffects(p, todo)
        /\ \A i \in DOMAIN p : WorkOK(p[i])
    BY <1>11, <1>12, <1>13, <1>14
  <2> QED BY <1>7, <2>1
<1> HIDE DEF Inv
<1> QED BY <1>1, <1>15, <1>16, <1>17, QuietStep

LEMMA ConnHasNone == ASSUME Inv PROVE field[Conn] = NoFields
<1>1. FieldsOK(Conn) /\ kind[Conn] = "conn" BY ConnIsBlock DEF Inv, KindOK
<1>2. RolesOf("conn") = {} BY RolesAre
<1>3. CASE KeepsFields(Conn) BY <1>1, <1>2, <1>3 DEF FieldsOK, NoFields
<1>4. CASE ~KeepsFields(Conn) BY <1>1, <1>4 DEF FieldsOK
<1> QED BY <1>3, <1>4

(* The connection's memory is to be freed: it has no fields.                *)
ConnGoing(a, b) ==
    \A h \in Blocks : /\ FreesIn(a, h) <=> FreesIn(b, h)
                      /\ ForgetsIn(a, h) <=> ForgetsIn(b, h) \/ h = Conn
                      /\ Releases(a, h) <=> Releases(b, h)
                      /\ PendingIn(a, h) = PendingIn(b, h)
LEMMA ConnGoes ==
    ASSUME Inv,
           UNCHANGED <<quota, mem, kind, refCount, field, oci, closing, lists,
                       user, lastRowid, lost>>,
           Fine(todo'), ConnGoing(todo', todo)
    PROVE  Inv'
<1>1. HandlesTypes' BY DEF Inv, HandlesTypes, Fine
<1>2. ASSUME NEW h \in Blocks
      PROVE  /\ Dead(h)' <=> Dead(h)
             /\ h # Conn => (KeepsFields(h)' <=> KeepsFields(h))
             /\ ~KeepsFields(Conn)'
             /\ Releases(todo, h)' <=> Releases(todo, h)
             /\ PendingIn(todo, h)' = PendingIn(todo, h)
  BY ConnIsBlock DEF ConnGoing, Dead, KeepsFields
<1>3. ASSUME NEW h \in Blocks PROVE KindOK(h)' /\ FieldsOK(h)'
  <2>1. KindOK(h) BY DEF Inv
  <2>2. KindOK(h)' BY <2>1, TheKindKept
  <2>3. CASE h # Conn
    <3>1. FieldsOK(h)' BY <1>2, <2>3, TheFieldsKept
    <3> QED BY <2>2, <3>1
  <2>4. CASE h = Conn
    <3>1. field'[Conn] = NoFields BY ConnHasNone
    <3>2. FieldsOK(Conn)' BY <1>2, <3>1, ConnIsBlock DEF FieldsOK, NoFields
    <3> QED BY <2>2, <2>4, <3>2
  <2> QED BY <2>3, <2>4
<1>4. ASSUME NEW h \in Blocks PROVE CountOK(h)'
  <2>1. Counted(h)' = Counted(h)
    BY <1>2 DEF Counted, Forgotten, PointersIn, RowidsIn
  <2>2. CountOK(h) BY DEF Inv
  <2> HIDE DEF Inv
  <2> QED BY <1>2, <2>1, <2>2 DEF CountOK
<1>5. ASSUME NEW s \in Blocks PROVE StmtOK(s)'
  <2>1. StmtOK(s) BY DEF Inv
  <2>2. IsStmt(s)' <=> IsStmt(s) BY DEF IsStmt
  <2>3. IsStmt(s) => s # Conn
    BY ConnIsBlock DEF Inv, KindOK, IsStmt, StmtKinds, Queries
  <2> HIDE DEF Inv
  <2> QED BY <1>2, <2>1, <2>2, <2>3 DEF StmtOK
<1>6. WorksOK'
  <2> SUFFICES ASSUME NEW i \in DOMAIN todo' PROVE WorkOK(todo[i])'
    BY DEF WorksOK
  <2>1. /\ todo'[i] \in Works /\ WorkOK(todo'[i])
        /\ todo'[i].do \notin {"give", "define", "closeStmt"}
        /\ todo'[i].do = "prefetch" => todo'[i].why # "new"
    BY DEF Fine, Settled
  <2> PICK w : w = todo'[i] OBVIOUS
  <2>2. WorkOK(w)' BY <2>1, TheWorkKept
  <2> QED BY <2>2
<1>7. ListsOK'
  <2>1. \A l \in Lists, i \in Slots : lists[l][i] # NULL => lists[l][i] # Conn
    BY ConnIsBlock DEF Inv, ListsOK, ListedOK, KindOK, Listed, Lists,
       StmtKinds, Queries
  <2>2. ASSUME NEW l \in Lists, NEW i \in Slots PROVE ListedOK(l, lists[l][i])'
    <3>1. ListedOK(l, lists[l][i]) /\ lists[l][i] \in Blocks \cup {NULL}
      BY DEF Inv, ListsOK, HandlesTypes
    <3> HIDE DEF Inv
    <3> QED BY <1>2, <2>1, <3>1 DEF ListedOK
  <2> QED BY <2>2 DEF ListsOK
<1>8. EndOK' BY DEF Fine, Ended, EndOK
<1>9. Shape(todo') BY DEF Fine
<1> QED BY <1>1, <1>3, <1>4, <1>5, <1>6, <1>7, <1>8, <1>9 DEF Inv

LEMMA EnvWorkTyped ==
    ASSUME NEW do \in {"freeEnv", "freeTransaction"}
    PROVE  /\ Work(do, 0, FALSE) \in Works /\ Work(do, 0, FALSE).do = do
           /\ Work(do, 0, FALSE).h = Conn /\ Work(do, 0, FALSE).propagate = FALSE
<1>1. do \in WorkNames BY DEF WorkNames
<1>2. PICK x : x = WorkOn(do, Conn) OBVIOUS
<1>3. x \in Works /\ x.do = do /\ x.h = Conn
  BY <1>1, <1>2, ConnIsBlock, WorkTyped
<1>4. PICK y : y = [x EXCEPT !.i = 0] OBVIOUS
<1>5. y \in Works /\ y.do = do /\ y.h = Conn BY <1>3, <1>4 DEF Works
<1>6. PICK z : z = [y EXCEPT !.propagate = FALSE] OBVIOUS
<1>7. z \in Works /\ z.do = do /\ z.h = Conn /\ z.propagate = FALSE
  BY <1>5, <1>6 DEF Works
<1>8. Work(do, 0, FALSE) = z BY <1>2, <1>4, <1>6 DEF Work
<1> QED BY <1>7, <1>8

LEMMA FreeConnKeeps == ASSUME Inv, FreeConn, UNCHANGED varVars PROVE Inv'
<1>1. PICK w : w = Head(todo) OBVIOUS
<1>2. PICK r : r = Tail(todo) OBVIOUS
<1>3. PICK m : m = FreeMemory(Conn) OBVIOUS
<1>4. PICK t : t = Work("freeTransaction", 0, FALSE) OBVIOUS
<1>5. PICK e : e = Work("freeEnv", 0, FALSE) OBVIOUS
<1>6. /\ todo # <<>> /\ w.do = "free" /\ w.h = Conn
      /\ todo' = (IF conn.handle THEN CloseWork(FALSE) ELSE <<>>)
                 \o <<e, t, m>> \o r
      /\ UNCHANGED <<quota, mem, kind, refCount, field, oci, closing, lists,
                     user, lastRowid, lost>>
  BY <1>1, <1>2, <1>3, <1>4, <1>5 DEF FreeConn, Doing, Subject, blockVars,
     listVars, varVars
<1>7. /\ w \in Works /\ r \in Seq(Works) /\ todo = <<w>> \o r
      /\ WorkOK(w) /\ (\A j \in DOMAIN r : WorkOK(r[j]))
      /\ Shape(r) /\ Ended(r) /\ Settled(r) /\ ~FreesIn(r, Conn)
  BY <1>1, <1>2, <1>6, NextCall DEF FreeWorks
<1>8. /\ m \in Works /\ m.do = "freeMemory" /\ m.h = Conn
  BY <1>3, ConnIsBlock, WorkTyped DEF FreeMemory, WorkNames, FreeWorks
<1>9. /\ t \in Works /\ t.do = "freeTransaction" /\ t.h = Conn
      /\ t.propagate = FALSE
  BY <1>4, EnvWorkTyped
<1>10. e \in Works /\ e.do = "freeEnv" /\ e.h = Conn /\ e.propagate = FALSE
  BY <1>5, EnvWorkTyped
<1>11. WorkOK(m) /\ WorkOK(t) /\ WorkOK(e)
  BY <1>6, <1>7, <1>8, <1>9, <1>10 DEF WorkOK, FreeWorks, CloseWorks,
     SweepWorks
<1>12. PICK x : x = <<m>> \o r OBVIOUS
<1>13. PICK y : y = <<t>> \o x OBVIOUS
<1>14. PICK z : z = <<e>> \o y OBVIOUS
<1>15. Fine(r) BY <1>7 DEF Fine
<1>16. Fine(x)
  BY <1>7, <1>8, <1>11, <1>12, <1>15, FinePushed DEF FreeWorks, LastWorks,
     GivesUp, OfFreeConn, SweepWorks, CloseWorks
<1>17. x \in Seq(Works) BY <1>16 DEF Fine
<1>18. ForgetsIn(x, Conn)
  <2>1. ForgetsIn(x, Conn) <=>
            (m.do = "freeMemory" /\ m.h = Conn) \/ ForgetsIn(r, Conn)
    BY <1>7, <1>8, <1>12, AmongPushed
  <2> QED BY <1>8, <2>1
<1>19. Fine(y)
  BY <1>9, <1>11, <1>13, <1>16, <1>18, FinePushed DEF FreeWorks, LastWorks,
     GivesUp, OfFreeConn, SweepWorks, CloseWorks
<1>20. SameEffects(y, x) BY <1>9, <1>13, <1>17, SilentPushed DEF FreeWorks
<1>21. ForgetsIn(y, Conn) BY <1>18, <1>20, ConnIsBlock DEF SameEffects
<1>22. Fine(z)
  BY <1>10, <1>11, <1>14, <1>19, <1>21, FinePushed DEF FreeWorks, LastWorks,
     GivesUp, OfFreeConn, SweepWorks, CloseWorks
<1>23. SameEffects(z, x)
  <2>1. y \in Seq(Works) BY <1>19 DEF Fine
  <2>2. SameEffects(z, y) BY <1>10, <1>14, <2>1, SilentPushed DEF FreeWorks
  <2> QED BY <1>20, <2>2, SameTwice
<1>24. ForgetsIn(z, Conn) BY <1>18, <1>23, ConnIsBlock DEF SameEffects
<1>25. PICK v : v = CloseWork(FALSE) \o z OBVIOUS
<1>26. Fine(v) /\ SameEffects(v, z) BY <1>22, <1>24, <1>25, LoopsPushed
<1>27. SameEffects(v, x) BY <1>23, <1>26, SameTwice
<1>28. todo' \in {v, z}
  <2>1. z = <<e, t, m>> \o r
    <3>1. Before(Three(e, t, m), r) = Onto(e, Onto(t, Onto(m, r)))
      BY <1>7, <1>8, <1>9, <1>10, OneByOne
    <3> QED BY <1>12, <1>13, <1>14, <3>1 DEF Before, Three, Onto
  <2>2. <<e, t, m>> \in Seq(Works) BY <1>8, <1>9, <1>10
  <2>3. PICK q : q = <<e, t, m>> OBVIOUS
  <2>4. CASE conn.handle
    <3>1. CloseWork(FALSE) \in Seq(Works)
      <4>1. ASSUME NEW do \in SweepWorks, NEW i \in Int
            PROVE  Work(do, i, FALSE) \in Works
        BY HandleTreeAssumption DEF Work, WorkOn, Works, Reasons, WorkNames
      <4>2. /\ "endSession" \in SweepWorks /\ "closeLobs" \in SweepWorks
            /\ "closeStmts" \in SweepWorks /\ "closeObjects" \in SweepWorks
            /\ 0 \in Int /\ 1 \in Int
        BY DEF SweepWorks
      <4>3. /\ Work("endSession", 0, FALSE) \in Works
            /\ Work("closeLobs", 1, FALSE) \in Works
            /\ Work("closeStmts", 1, FALSE) \in Works
            /\ Work("closeObjects", 1, FALSE) \in Works
        BY <4>1, <4>2
      <4>4. ASSUME NEW a \in Works, NEW b \in Works, NEW c \in Works,
                   NEW d \in Works
            PROVE  <<a, b, c, d>> \in Seq(Works)
        OBVIOUS
      <4> QED BY <4>3, <4>4 DEF CloseWork
    <3>2. PICK c : c = CloseWork(FALSE) OBVIOUS
    <3>3. todo' = (c \o q) \o r BY <1>6, <2>3, <2>4, <3>2
    <3>4. c \in Seq(Works) /\ q \in Seq(Works) BY <2>2, <2>3, <3>1, <3>2
    <3>5. (c \o q) \o r = c \o (q \o r) BY <1>7, <3>4, Associative
    <3> QED BY <1>25, <2>1, <2>3, <3>2, <3>3, <3>5
  <2>5. CASE ~conn.handle
    <3>1. todo' = (<<>> \o q) \o r BY <1>6, <2>3, <2>5
    <3>2. <<>> \o q = q BY <2>2, <2>3
    <3> QED BY <2>1, <2>3, <3>1, <3>2
  <2> QED BY <2>4, <2>5
<1>29. Fine(todo') /\ SameEffects(todo', x)
  BY <1>22, <1>23, <1>26, <1>27, <1>28
<1>30. ConnGoing(x, todo)
  <2> SUFFICES ASSUME NEW h \in Blocks
               PROVE  /\ FreesIn(x, h) <=> FreesIn(todo, h)
                      /\ ForgetsIn(x, h) <=> ForgetsIn(todo, h) \/ h = Conn
                      /\ Releases(x, h) <=> Releases(todo, h)
                      /\ PendingIn(x, h) = PendingIn(todo, h)
    BY DEF ConnGoing
  <2>1. References(m, h) = 0 /\ References(w, h) = 0
    BY <1>6, <1>8 DEF References, RefersTo
  <2>2. FreesIn(x, h) <=> (m.do \in FreeWorks /\ m.h = h) \/ FreesIn(r, h)
    BY <1>7, <1>8, <1>12, AmongPushed
  <2>3. FreesIn(todo, h) <=> (w.do \in FreeWorks /\ w.h = h) \/ FreesIn(r, h)
    BY <1>7, AmongPushed
  <2>4. ForgetsIn(x, h) <=> (m.do = "freeMemory" /\ m.h = h) \/ ForgetsIn(r, h)
    BY <1>7, <1>8, <1>12, AmongPushed
  <2>5. ForgetsIn(todo, h) <=> (w.do = "freeMemory" /\ w.h = h) \/ ForgetsIn(r, h)
    BY <1>7, AmongPushed
  <2>6. Releases(x, h) <=> (m.do = "releaseStmt" /\ m.h = h) \/ Releases(r, h)
    BY <1>7, <1>8, <1>12, AmongPushed
  <2>7. Releases(todo, h) <=> (w.do = "releaseStmt" /\ w.h = h) \/ Releases(r, h)
    BY <1>7, AmongPushed
  <2>8. PendingIn(x, h) = References(m, h) + PendingIn(r, h)
    <3>1. x # <<>> /\ Head(x) = m /\ Tail(x) = r BY <1>7, <1>8, <1>12, Push
    <3> QED BY <1>17, <3>1, PendingPop
  <2>9. PendingIn(todo, h) = References(w, h) + PendingIn(r, h)
    <3>1. todo \in Seq(Works) /\ todo # <<>> BY <1>6 DEF Inv, HandlesTypes
    <3> QED BY <1>1, <1>2, <3>1, PendingPop
  <2> HIDE DEF FreesIn, ForgetsIn, Releases
  <2> QED BY <1>6, <1>8, <2>1, <2>2, <2>3, <2>4, <2>5, <2>6, <2>7, <2>8, <2>9
      DEF FreeWorks
<1>31. ConnGoing(todo', todo) BY <1>29, <1>30 DEF SameEffects, ConnGoing
<1> HIDE DEF Inv
<1> QED BY <1>6, <1>29, <1>31, ConnGoes

-----------------------------------------------------------------------------
(* Steps that end the life of a handle.                                     *)
LEMMA PendingHead ==
    ASSUME Inv, todo # <<>>, NEW w, w = Head(todo), NEW r, r = Tail(todo), NEW h
    PROVE  /\ PendingIn(todo, h) = References(w, h) + PendingIn(r, h)
           /\ PendingIn(r, h) \in Nat
<1>1. todo \in Seq(Works) BY DEF Inv, HandlesTypes
<1>2. PendingIn(todo, h) = References(w, h) + PendingIn(r, h)
  BY <1>1, PendingPop
<1>3. r \in Seq(Works) BY <1>1
<1>4. PendingIn(r, h) \in Nat BY <1>3, PendingFinite
<1> QED BY <1>2, <1>4

LEMMA PendingPushed ==
    ASSUME NEW w \in Works, NEW r \in Seq(Works), NEW p, p = <<w>> \o r, NEW h
    PROVE  PendingIn(p, h) = References(w, h) + PendingIn(r, h)
<1>1. p # <<>> /\ Head(p) = w /\ Tail(p) = r /\ p \in Seq(Works) BY Push
<1> QED BY <1>1, PendingPop

(* The work that stays when one of the calls before it is made.             *)
LEMMA RestStays ==
    ASSUME NEW r \in Seq(Works), Settled(r), \A i \in DOMAIN r : WorkOK(r[i]),
           \A i \in DOMAIN r : r[i].do \in FreeWorks /\ mem[r[i].h] = "live" =>
               mem'[r[i].h] = "live",
           UNCHANGED <<quota, user, kind, lastRowid>>,
           \A s \in Blocks : user[s] > 0 /\ IsStmt(s) =>
               closing'[s] = closing[s] /\ field'[s] = field[s]
    PROVE  \A i \in DOMAIN r : WorkOK(r[i])'
<1> SUFFICES ASSUME NEW i \in DOMAIN r PROVE WorkOK(r[i])' OBVIOUS
<1>1. PICK w : w = r[i] OBVIOUS
<1>2. /\ w \in Works /\ WorkOK(w)
      /\ w.do \notin {"give", "define", "closeStmt"}
      /\ w.do = "prefetch" => w.why # "new"
      /\ w.do \in FreeWorks /\ mem[w.h] = "live" => mem'[w.h] = "live"
  BY <1>1 DEF Settled
<1>3. WorkOK(w)' BY <1>2, TheWorkKept
<1> QED BY <1>1, <1>3

LEMMA SetRefCountKeeps == ASSUME Inv, SetRefCount, UNCHANGED varVars PROVE Inv'
<1>1. PICK w : w = Head(todo) OBVIOUS
<1>2. PICK r : r = Tail(todo) OBVIOUS
<1>3. PICK x : x = Subject OBVIOUS
<1>4. /\ todo # <<>> /\ w.do = "unref" /\ w.h = x
      /\ refCount' = [refCount EXCEPT ![x] = @ - 1]
      /\ todo' = IF refCount[x] = 1 THEN <<Free(x)>> \o r ELSE r
      /\ UNCHANGED <<quota, mem, kind, field, oci, closing, lists, user,
                     lastRowid, lost>>
  BY <1>1, <1>2, <1>3 DEF SetRefCount, Doing, Subject, listVars, varVars
<1>5. /\ w \in Works /\ r \in Seq(Works) /\ todo = <<w>> \o r
      /\ Shape(r) /\ Ended(r) /\ Settled(r)
      /\ \A i \in DOMAIN r : WorkOK(r[i])
  BY <1>1, <1>2, <1>4, NextCall
<1>6. x \in Blocks BY <1>4, <1>5 DEF Works
<1>7. ASSUME NEW h \in Blocks
      PROVE  /\ FreesIn(todo, h) <=> FreesIn(r, h)
             /\ ForgetsIn(todo, h) <=> ForgetsIn(r, h)
             /\ Releases(todo, h) <=> Releases(r, h)
  <2>1. FreesIn(todo, h) <=> FreesIn(r, h)
    BY <1>4, <1>5, AmongPushed DEF FreeWorks
  <2>2. ForgetsIn(todo, h) <=> ForgetsIn(r, h) BY <1>4, <1>5, AmongPushed
  <2>3. Releases(todo, h) <=> Releases(r, h) BY <1>4, <1>5, AmongPushed
  <2> QED BY <2>1, <2>2, <2>3
<1>8. ASSUME NEW h \in Blocks
      PROVE  /\ PendingIn(todo, h) = Is(x, h) + PendingIn(r, h)
             /\ PendingIn(r, h) \in Nat
  <2>1. References(w, h) = Is(x, h) BY <1>4 DEF References, RefersTo, Is
  <2>2. PendingIn(todo, h) = References(w, h) + PendingIn(r, h)
    BY <1>1, <1>2, <1>4, PendingHead
  <2>3. PendingIn(r, h) \in Nat BY <1>5, PendingFinite
  <2> QED BY <2>1, <2>2, <2>3
<1>9. ~Dead(x)
  <2>1. 1 \in DOMAIN todo /\ todo[1] = w BY <1>5
  <2>2. RefersTo(w, x) BY <1>4 DEF RefersTo
  <2> QED BY <1>6, <2>1, <2>2, PendingAlive
<1>10. mem[x] = "live" /\ ~FreesIn(r, x) BY <1>6, <1>7, <1>9 DEF Dead
<1>11. PICK f : f = Free(x) OBVIOUS
<1>12. f \in Works /\ f.do = "free" /\ f.h = x
  BY <1>6, <1>11, WorkTyped DEF Free, WorkNames, FreeWorks
<1>13. PICK p : p = <<f>> \o r OBVIOUS
<1>14. Fine(r) BY <1>5 DEF Fine
<1>15. WorkOK(f) BY <1>10, <1>12 DEF WorkOK, FreeWorks, CloseWorks, SweepWorks
<1>16. Fine(p)
  BY <1>10, <1>12, <1>13, <1>14, <1>15, FinePushed DEF LastWorks, GivesUp,
     OfFreeConn, SweepWorks, CloseWorks
<1>17. todo' = IF refCount[x] = 1 THEN p ELSE r BY <1>4, <1>11, <1>13
<1>18. Fine(todo') BY <1>14, <1>16, <1>17
<1>19. ASSUME NEW h \in Blocks
       PROVE  /\ FreesIn(todo', h) <=>
                     FreesIn(todo, h) \/ (h = x /\ refCount[x] = 1)
              /\ ForgetsIn(todo', h) <=> ForgetsIn(todo, h)
              /\ Releases(todo', h) <=> Releases(todo, h)
              /\ PendingIn(todo', h) = PendingIn(r, h)
  <2>1. FreesIn(p, h) <=> FreesIn(r, h) \/ h = x
    <3>1. FreesIn(p, h) <=> (f.do \in FreeWorks /\ f.h = h) \/ FreesIn(r, h)
      BY <1>5, <1>12, <1>13, AmongPushed
    <3> QED BY <1>12, <3>1 DEF FreeWorks
  <2>2. ForgetsIn(p, h) <=> ForgetsIn(r, h) BY <1>5, <1>12, <1>13, AmongPushed
  <2>3. Releases(p, h) <=> Releases(r, h) BY <1>5, <1>12, <1>13, AmongPushed
  <2>4. PendingIn(p, h) = PendingIn(r, h)
    <3>1. References(f, h) = 0 BY <1>12 DEF References, RefersTo
    <3>2. PendingIn(p, h) = References(f, h) + PendingIn(r, h)
      <4>1. p # <<>> /\ Head(p) = f /\ Tail(p) = r /\ p \in Seq(Works)
        BY <1>5, <1>12, <1>13, Push
      <4> QED BY <4>1, PendingPop
    <3> QED BY <1>8, <3>1, <3>2
  <2> QED BY <1>7, <1>17, <2>1, <2>2, <2>3, <2>4
<1>20. HandlesTypes'
  <2>1. todo' \in Seq(Works) BY <1>18 DEF Fine
  <2>2. refCount' \in [Blocks -> Int] BY <1>4, <1>6 DEF Inv, HandlesTypes
  <2> QED BY <1>4, <2>1, <2>2 DEF Inv, HandlesTypes
<1>21. ASSUME NEW h \in Blocks
       PROVE  /\ KeepsFields(h)' <=> KeepsFields(h)
              /\ Dead(h)' <=> Dead(h) \/ (h = x /\ refCount[x] = 1)
              /\ Dead(h) => h # x
  BY <1>4, <1>9, <1>19 DEF KeepsFields, Dead
<1>22. ASSUME NEW h \in Blocks PROVE KindOK(h)' /\ FieldsOK(h)'
  <2>1. KindOK(h) BY DEF Inv
  <2>2. KindOK(h)' BY <1>4, <2>1, TheKindKept
  <2>3. FieldsOK(h)' BY <1>4, <1>21, TheFieldsKept
  <2> QED BY <2>2, <2>3
<1>23. ASSUME NEW h \in Blocks PROVE CountOK(h)'
  <2>1. Counted(h)' = Counted(h) - Is(x, h)
    <3>1. /\ user[h] \in Nat /\ PendingIn(todo, h) \in Nat
          /\ PointersIn(field, h) \in Nat
          /\ RowidsIn(lastRowid, closing, h) \in Nat
          /\ Forgotten(h) \in Nat
      BY Parts
    <3>2. /\ user'[h] = user[h] /\ PointersIn(field', h) = PointersIn(field, h)
          /\ RowidsIn(lastRowid', closing', h) = RowidsIn(lastRowid, closing, h)
          /\ Forgotten(h)' = Forgotten(h)
      BY <1>4 DEF Forgotten
    <3>3. /\ PendingIn(todo, h) = Is(x, h) + PendingIn(r, h)
          /\ PendingIn(r, h) \in Nat /\ Is(x, h) \in {0, 1}
          /\ PendingIn(todo', h) = PendingIn(r, h)
      BY <1>8, <1>19 DEF Is
    <3>4. /\ Counted(h)' = user'[h] + PendingIn(todo', h)
                           + PointersIn(field', h)
                           + RowidsIn(lastRowid', closing', h) + Forgotten(h)'
          /\ Counted(h) = user[h] + PendingIn(todo, h) + PointersIn(field, h)
                          + RowidsIn(lastRowid, closing, h) + Forgotten(h)
      BY DEF Counted
    <3> HIDE DEF Inv
    <3> QED BY <3>1, <3>2, <3>3, <3>4
  <2>2. CountOK(h) /\ Counted(h) \in Nat /\ refCount[h] \in Int
    BY Parts DEF Inv
  <2>3. CASE h = x
    <3>1. Is(x, h) = 1 /\ refCount'[h] = refCount[h] - 1
      BY <1>4, <1>6, <2>3 DEF Is, Inv, HandlesTypes
    <3>2. Counted(h) >= 1
      <4>1. PendingIn(todo, h) >= 1 BY <1>8, <3>1
      <4> QED BY <4>1, Parts DEF Counted
    <3>3. /\ refCount[h] >= 1 /\ refCount[h] >= Counted(h)
          /\ kind[h] # "json" => refCount[h] = Counted(h)
      BY <1>9, <2>2, <2>3 DEF CountOK
    <3> HIDE DEF Inv
    <3> PICK a : a = Counted(h) OBVIOUS
    <3> PICK b : b = refCount[h] OBVIOUS
    <3>4. Counted(h)' = a - 1 /\ refCount'[h] = b - 1 BY <2>1, <3>1
    <3>5. /\ a \in Nat /\ b \in Int /\ a >= 1 /\ b >= 1 /\ b >= a
          /\ kind'[h] # "json" => b = a
      BY <1>4, <2>2, <3>2, <3>3
    <3>6. b = 1 => a - 1 = 0 BY <3>5
    <3>7. b # 1 => b - 1 >= 1 /\ b - 1 >= a - 1
                   /\ (kind'[h] # "json" => b - 1 = a - 1)
      BY <3>5
    <3>8. Dead(h)' <=> b = 1 BY <1>9, <1>21, <2>3
    <3> QED BY <3>4, <3>6, <3>7, <3>8 DEF CountOK
  <2>4. CASE h # x
    <3>1. Counted(h)' = Counted(h) BY <2>1, <2>2, <2>4 DEF Is
    <3>2. refCount'[h] = refCount[h] /\ kind'[h] = kind[h]
      BY <1>4, <2>4 DEF Inv, HandlesTypes
    <3>3. Dead(h)' <=> Dead(h) BY <1>21, <2>4
    <3> HIDE DEF Inv
    <3> QED BY <2>2, <3>1, <3>2, <3>3 DEF CountOK
  <2> QED BY <2>3, <2>4
<1>24. ASSUME NEW s \in Blocks PROVE StmtOK(s)'
  <2>1. StmtOK(s) BY DEF Inv
  <2>2. IsStmt(s)' <=> IsStmt(s) BY <1>4 DEF IsStmt
  <2>3. Releases(todo, s)' <=> Releases(todo, s) BY <1>19
  <2> HIDE DEF Inv
  <2> QED BY <1>4, <1>21, <2>1, <2>2, <2>3 DEF StmtOK
<1>25. WorksOK'
  <2>1. \A i \in DOMAIN r : WorkOK(r[i])' BY <1>4, <1>5, RestStays
  <2>2. WorkOK(f)'
    BY <1>4, <1>10, <1>12 DEF WorkOK, FreeWorks, CloseWorks, SweepWorks
  <2>3. ASSUME NEW i \in DOMAIN p PROVE WorkOK(p[i])'
    <3>1. /\ p[1] = f
          /\ \A j \in DOMAIN p : j # 1 => j - 1 \in DOMAIN r /\ p[j] = r[j - 1]
      BY <1>5, <1>12, <1>13, Push
    <3>2. i = 1 \/ \E j \in DOMAIN r : p[i] = r[j] BY <3>1
    <3> QED BY <2>1, <2>2, <3>1, <3>2
  <2>4. \/ todo' = p
        \/ todo' = r
    BY <1>17
  <2>5. CASE todo' = p BY <2>3, <2>5 DEF WorksOK
  <2>6. CASE todo' = r BY <2>1, <2>6 DEF WorksOK
  <2> QED BY <2>4, <2>5, <2>6
<1>26. EndOK' BY <1>4, <1>18 DEF Fine, Ended, EndOK
<1>27. ListsOK' BY <1>4, <1>21, TheListsKept DEF Inv, HandlesTypes
<1>28. Shape(todo') BY <1>18 DEF Fine
<1> QED BY <1>20, <1>22, <1>23, <1>24, <1>25, <1>26, <1>27, <1>28 DEF Inv

LEMMA DoFreeMemoryKeeps == ASSUME Inv, DoFreeMemory, UNCHANGED varVars PROVE Inv'
<1>1. PICK w : w = Head(todo) OBVIOUS
<1>2. PICK r : r = Tail(todo) OBVIOUS
<1>3. PICK x : x = Subject OBVIOUS
<1>4. /\ todo # <<>> /\ w.do = "freeMemory" /\ w.h = x
      /\ mem' = [mem EXCEPT ![x] = "freed"]
      /\ todo' = r
      /\ UNCHANGED <<quota, kind, refCount, field, oci, closing, lists, user,
                     lastRowid, lost>>
  BY <1>1, <1>2, <1>3 DEF DoFreeMemory, Doing, Subject, listVars, varVars
<1>5. /\ w \in Works /\ r \in Seq(Works) /\ todo = <<w>> \o r
      /\ Shape(r) /\ Ended(r) /\ Settled(r) /\ ~FreesIn(r, x) /\ WorkOK(w)
      /\ \A i \in DOMAIN r : WorkOK(r[i])
  BY <1>1, <1>2, <1>4, NextCall DEF FreeWorks
<1>6. x \in Blocks /\ mem[x] = "live"
  BY <1>4, <1>5 DEF Works, WorkOK, FreeWorks
<1>7. ASSUME NEW h \in Blocks
      PROVE  /\ FreesIn(todo, h) <=> FreesIn(r, h) \/ h = x
             /\ ForgetsIn(todo, h) <=> ForgetsIn(r, h) \/ h = x
             /\ Releases(todo, h) <=> Releases(r, h)
             /\ PendingIn(todo, h) = PendingIn(r, h)
  <2>1. FreesIn(todo, h) <=> FreesIn(r, h) \/ h = x
    <3>1. FreesIn(todo, h) <=> (w.do \in FreeWorks /\ w.h = h) \/ FreesIn(r, h)
      BY <1>5, AmongPushed
    <3> QED BY <1>4, <3>1 DEF FreeWorks
  <2>2. ForgetsIn(todo, h) <=> ForgetsIn(r, h) \/ h = x
    <3>1. ForgetsIn(todo, h) <=>
              (w.do = "freeMemory" /\ w.h = h) \/ ForgetsIn(r, h)
      BY <1>5, AmongPushed
    <3> QED BY <1>4, <3>1
  <2>3. Releases(todo, h) <=> Releases(r, h) BY <1>4, <1>5, AmongPushed
  <2>4. PendingIn(todo, h) = PendingIn(r, h)
    <3>1. References(w, h) = 0 BY <1>4 DEF References, RefersTo
    <3>2. PendingIn(todo, h) = References(w, h) + PendingIn(r, h)
      BY <1>1, <1>2, <1>4, PendingHead
    <3>3. PendingIn(r, h) \in Nat BY <1>5, PendingFinite
    <3> QED BY <3>1, <3>2, <3>3
  <2> QED BY <2>1, <2>2, <2>3, <2>4
<1>8. \A h \in Blocks : /\ h # x => mem'[h] = mem[h]
                        /\ h = x => mem'[h] = "freed"
  BY <1>4, <1>6 DEF Inv, HandlesTypes
<1>9. HandlesTypes'
  <2>1. mem' \in [Blocks -> {"unused", "live", "freed"}]
    BY <1>4, <1>6 DEF Inv, HandlesTypes
  <2> QED BY <1>4, <1>5, <2>1 DEF Inv, HandlesTypes
<1>10. ASSUME NEW h \in Blocks
       PROVE  /\ KeepsFields(h)' <=> KeepsFields(h)
              /\ Dead(h)' <=> Dead(h)
              /\ mem'[h] = "unused" <=> mem[h] = "unused"
              /\ Releases(todo, h)' <=> Releases(todo, h)
              /\ PendingIn(todo, h)' = PendingIn(todo, h)
  BY <1>4, <1>6, <1>7, <1>8 DEF KeepsFields, Dead
<1>11. ASSUME NEW h \in Blocks PROVE KindOK(h)' /\ FieldsOK(h)'
  <2>1. KindOK(h) BY DEF Inv
  <2>2. KindOK(h)' BY <1>4, <1>10, <2>1, TheKindKept
  <2>3. FieldsOK(h)' BY <1>4, <1>10, TheFieldsKept
  <2> QED BY <2>2, <2>3
<1>12. ASSUME NEW h \in Blocks PROVE CountOK(h)'
  <2>1. Counted(h)' = Counted(h)
    BY <1>4, <1>10 DEF Counted, Forgotten, PointersIn
  <2>2. CountOK(h) BY DEF Inv
  <2> HIDE DEF Inv
  <2> QED BY <1>4, <1>10, <2>1, <2>2 DEF CountOK
<1>13. ASSUME NEW s \in Blocks PROVE StmtOK(s)'
  <2>1. StmtOK(s) BY DEF Inv
  <2>2. IsStmt(s)' <=> IsStmt(s) BY <1>4 DEF IsStmt
  <2> HIDE DEF Inv
  <2> QED BY <1>4, <1>10, <2>1, <2>2 DEF StmtOK
<1>14. WorksOK'
  <2>1. \A i \in DOMAIN r : r[i].do \in FreeWorks => r[i].h # x
    BY <1>5 DEF FreesIn
  <2>2. \A i \in DOMAIN r : r[i].h \in Blocks
    <3>1. \A i \in DOMAIN r : r[i] \in Works BY <1>5
    <3>2. \A e \in Works : e.h \in Blocks BY DEF Works
    <3> QED BY <3>1, <3>2
  <2>3. \A i \in DOMAIN r : WorkOK(r[i])'
    BY <1>4, <1>5, <1>8, <2>1, <2>2, RestStays
  <2> QED BY <1>4, <2>3 DEF WorksOK
<1>15. EndOK' BY <1>4, <1>5 DEF Ended, EndOK
<1>16. ListsOK' BY <1>4, <1>10, TheListsKept DEF Inv, HandlesTypes
<1> QED BY <1>4, <1>5, <1>9, <1>11, <1>12, <1>13, <1>14, <1>15, <1>16 DEF Inv

LEMMA StmtKeepsFields ==
    ASSUME Inv, NEW s \in Blocks, IsStmt(s), ~closing[s]
    PROVE  /\ KeepsFields(s) /\ FieldsFit(kind[s], field[s])
           /\ DOMAIN field[s] = {"conn", "bind", "column"}
           /\ RolesOf(kind[s]) = {"conn", "bind", "column"}
           /\ field[s].bind \in Blocks \cup {NULL}
           /\ field[s].column \in Blocks \cup {NULL}
<1>1. KeepsFields(s) BY DEF Inv, StmtOK
<1>2. RolesOf(kind[s]) = {"conn", "bind", "column"} BY RolesAre DEF IsStmt
<1>3. /\ FieldsFit(kind[s], field[s]) /\ DOMAIN field[s] = RolesOf(kind[s])
  BY <1>1, HoldsFields
<1>4. \A q \in RolesOf(kind[s]) : field[s][q] \in Blocks \cup {NULL}
  BY <1>1, HoldsFields
<1> QED BY <1>1, <1>2, <1>3, <1>4

StmtEmptied(s) ==
    field' = [field EXCEPT ![s].bind = NULL, ![s].column = NULL]
LEMMA StmtEmptiedCount ==
    ASSUME Inv, NEW s \in Blocks, IsStmt(s), ~closing[s], StmtEmptied(s),
           NEW h \in Blocks
    PROVE  /\ FieldsFit(kind[s], field'[s])
           /\ field'[s].bind = NULL /\ field'[s].column = NULL
           /\ field' = [x \in Blocks |-> field'[x]]
           /\ \A x \in Blocks \ {s} : field'[x] = field[x]
           /\ PointersIn(field', h) =
                  PointersIn(field, h) - Is(field[s].bind, h)
                  - Is(field[s].column, h)
           /\ PointersIn(field', h) \in Nat
<1>1. /\ KeepsFields(s) /\ FieldsFit(kind[s], field[s])
      /\ DOMAIN field[s] = {"conn", "bind", "column"}
      /\ RolesOf(kind[s]) = {"conn", "bind", "column"}
  BY StmtKeepsFields
<1>2. PICK b : b = "bind" OBVIOUS
<1>3. PICK c : c = "column" OBVIOUS
<1>4. PICK f : f = field[s] OBVIOUS
<1>5. PICK k : k = [f EXCEPT ![b] = NULL] OBVIOUS
<1>6. PICK g : g = [k EXCEPT ![c] = NULL] OBVIOUS
<1>7. field = [x \in Blocks |-> field[x]] BY DEF Inv, HandlesTypes
<1>8. field' = [field EXCEPT ![s] = g]
  BY <1>2, <1>3, <1>4, <1>5, <1>6, <1>7 DEF StmtEmptied
<1>9. /\ field' = [x \in Blocks |-> field'[x]] /\ field'[s] = g
      /\ \A x \in Blocks \ {s} : field'[x] = field[x]
  BY <1>7, <1>8
<1>10. IsFiniteSet(DOMAIN f) BY <1>1, <1>4, HoldsFields
<1>11. /\ DOMAIN k = DOMAIN f /\ DOMAIN g = DOMAIN k /\ b \in DOMAIN f
       /\ c \in DOMAIN k /\ k[b] = NULL /\ g[c] = NULL /\ g[b] = NULL
       /\ k[c] = f[c]
       /\ \A z \in DOMAIN f : z # b => k[z] = f[z]
       /\ \A z \in DOMAIN k : z # c => g[z] = k[z]
  BY <1>1, <1>2, <1>3, <1>4, <1>5, <1>6
<1>12. CountOf(k, h) = CountOf(f, h) - Is(f[b], h) + Is(k[b], h)
  BY <1>10, <1>11, CountChanged
<1>13. CountOf(g, h) = CountOf(k, h) - Is(k[c], h) + Is(g[c], h)
  BY <1>10, <1>11, CountChanged
<1>14. CountOf(f, h) \in Nat
  BY <1>10, FS_Subset, FS_CardinalityType DEF CountOf
<1>15. Is(NULL, h) = 0 BY HandleTreeAssumption DEF Is
<1>16. Is(f[b], h) \in Nat /\ Is(f[c], h) \in Nat BY DEF Is
<1>17. CountOf(g, h) = CountOf(f, h) - Is(f[b], h) - Is(f[c], h)
  <2>1. PICK x : x = CountOf(f, h) OBVIOUS
  <2>2. PICK y : y = CountOf(k, h) OBVIOUS
  <2>3. PICK z : z = CountOf(g, h) OBVIOUS
  <2>4. PICK i : i = Is(f[b], h) OBVIOUS
  <2>5. PICK j : j = Is(f[c], h) OBVIOUS
  <2>6. y = x - i + 0 /\ z = y - j + 0 /\ x \in Nat /\ i \in Nat /\ j \in Nat
    BY <1>11, <1>12, <1>13, <1>14, <1>15, <1>16, <2>1, <2>2, <2>3, <2>4, <2>5
  <2>7. z = x - i - j BY <2>6
  <2> QED BY <2>1, <2>3, <2>4, <2>5, <2>7
<1>18. FiniteFields(field) /\ FiniteFields(field')
  <2>1. FiniteFields(field) BY FieldsFinite
  <2>2. IsFiniteSet(DOMAIN g) BY <1>10, <1>11
  <2> QED BY <1>9, <2>1, <2>2 DEF FiniteFields
<1>19. PICK F : F = field OBVIOUS
<1>20. PICK G : G = field' OBVIOUS
<1>21. /\ FiniteFields(F) /\ FiniteFields(G)
       /\ \A y \in Blocks \ {s} : G[y] = F[y]
  BY <1>9, <1>18, <1>19, <1>20
<1>22. PointersIn(G, h) = PointersIn(F, h) - CountOf(F[s], h) + CountOf(G[s], h)
  BY <1>21, PointersChange
<1>23. PointersIn(G, h) \in Nat /\ PointersIn(F, h) \in Nat
  BY <1>21, PointersNat
<1>24. PointersIn(field', h) = PointersIn(field, h) - Is(field[s].bind, h)
                               - Is(field[s].column, h)
  <2>1. PICK x : x = CountOf(f, h) OBVIOUS
  <2>2. PICK z : z = CountOf(g, h) OBVIOUS
  <2>3. PICK i : i = Is(f[b], h) OBVIOUS
  <2>4. PICK j : j = Is(f[c], h) OBVIOUS
  <2>5. PICK m : m = PointersIn(F, h) OBVIOUS
  <2>6. PICK n : n = PointersIn(G, h) OBVIOUS
  <2>7. /\ n = m - x + z /\ z = x - i - j /\ x \in Nat /\ m \in Nat
        /\ i \in Nat /\ j \in Nat
    BY <1>4, <1>9, <1>14, <1>16, <1>17, <1>19, <1>20, <1>22, <1>23,
       <2>1, <2>2, <2>3, <2>4, <2>5, <2>6
  <2>8. n = m - i - j BY <2>7
  <2> QED BY <1>2, <1>3, <1>4, <1>19, <1>20, <2>3, <2>4, <2>5, <2>6, <2>8
<1>25. FieldsFit(kind[s], g)
  <2>1. g \in [RolesOf(kind[s]) -> Blocks \cup {NULL}]
    BY <1>1, <1>4, <1>5, <1>6 DEF FieldsFit
  <2>2. ASSUME NEW q \in RolesOf(kind[s]) PROVE PointerOK(kind[s], q, g[q])
    <3>1. PointerOK(kind[s], q, f[q]) BY <1>1, <1>4 DEF FieldsFit
    <3>2. g[q] = f[q] \/ (q \in {"bind", "column"} /\ g[q] = NULL)
      BY <1>1, <1>2, <1>3, <1>4, <1>11
    <3>3. q \in {"bind", "column"} => q \notin Required(kind[s])
      BY DEF Required
    <3> QED BY <3>1, <3>2, <3>3 DEF PointerOK
  <2>3. kind[s] \notin Queues BY PartsOfQueue DEF IsStmt
  <2> QED BY <2>1, <2>2, <2>3 DEF FieldsFit
<1> QED BY <1>2, <1>3, <1>9, <1>11, <1>20, <1>23, <1>24, <1>25

-----------------------------------------------------------------------------
(* Closing a statement. *)
LEMMA SweepsKept ==
    ASSUME NEW r, GivenUp(r), \A i \in DOMAIN r : WorkOK(r[i]), user' = user
    PROVE  \A i \in DOMAIN r : WorkOK(r[i])'
<1> SUFFICES ASSUME NEW i \in DOMAIN r PROVE WorkOK(r[i])' OBVIOUS
<1>1. PICK w : w = r[i] OBVIOUS
<1>2. w.do \in SweepWorks /\ WorkOK(w) BY <1>1 DEF GivenUp
<1>3. WorkOK(w)' BY <1>2 DEF WorkOK, SweepWorks, FreeWorks, CloseWorks
<1> QED BY <1>1, <1>3

(* The rest of the work when a statement is closed. *)
LEMMA RestAfterClosing ==
    ASSUME Inv, Doing("closeStmt"), NEW w, w = Head(todo), NEW r, r = Tail(todo),
           NEW s, s = w.h, UNCHANGED <<quota, mem, kind, user, lastRowid>>,
           \A x \in Blocks \ {s} : closing'[x] = closing[x] /\ field'[x] = field[x],
           closing'[s]
    PROVE  RestOK(r)
<1>1. todo # <<>> /\ w.do = "closeStmt" BY DEF Doing
<1>2. /\ w \in Works /\ r \in Seq(Works) /\ todo = <<w>> \o r /\ WorkOK(w)
      /\ Settled(r) /\ (\A i \in DOMAIN r : WorkOK(r[i]))
      /\ GivesUp(w) => GivenUp(r)
      /\ ~w.propagate => 1 \in DOMAIN r /\ r[1].do = "freeStmt" /\ r[1].h = s
  BY <1>1, NextCall
<1>4. s \in Blocks BY <1>2 DEF Works
<1>3. FreesIn(r, s) => FreesIn(todo, s)
  <2>1. \A i \in DOMAIN r : i + 1 \in DOMAIN todo /\ todo[i + 1] = r[i]
    BY <1>2, Push
  <2> QED BY <2>1 DEF FreesIn
<1>5. \A i \in DOMAIN r : WorkOK(r[i])'
  <2>1. CASE w.propagate
    <3>1. GivenUp(r) BY <1>1, <1>2, <2>1 DEF GivesUp, CloseWorks
    <3> QED BY <1>2, <3>1, SweepsKept
  <2>2. CASE ~w.propagate
    <3>1. FreesIn(r, s) BY <1>2, <2>2 DEF FreesIn, FreeWorks
    <3>2. user[s] = 0 BY <1>3, <1>4, <3>1, DeadUnheld DEF Dead
    <3>3. \A x \in Blocks : user[x] > 0 /\ IsStmt(x) =>
              closing'[x] = closing[x] /\ field'[x] = field[x]
      BY <3>2
    <3> QED BY <1>2, <3>3, RestStays
  <2> QED BY <2>1, <2>2
<1>6. ASSUME NEW i \in DOMAIN r, r[i].do = "freeStmt" PROVE closing'[r[i].h]
  <2>1. i + 1 \in DOMAIN todo /\ todo[i + 1] = r[i] /\ todo[1] = w
    BY <1>2, Push
  <2>2. \/ closing[r[i].h]
        \/ r[i].h = s /\ i + 1 = 2
    <3>1. EndOK BY DEF Inv
    <3>2. \/ closing[todo[i + 1].h]
          \/ i + 1 = 2 /\ todo[1].h = todo[2].h
      BY <1>6, <2>1, <3>1 DEF EndOK
    <3> QED BY <2>1, <3>2
  <2>3. r[i].h \in Blocks
    <3>1. r[i] \in Works BY <1>2
    <3>2. \A e \in Works : e.h \in Blocks BY DEF Works
    <3> QED BY <3>1, <3>2
  <2> QED BY <2>2, <2>3
<1> QED BY <1>5, <1>6 DEF RestOK

LEMMA ClosedStmtKeeps ==
    ASSUME Inv, StmtMarkClosing, closing[Subject] PROVE Inv'
<1>1. PICK w : w = Head(todo) OBVIOUS
<1>2. PICK r : r = Tail(todo) OBVIOUS
<1>3. PICK s : s = Subject OBVIOUS
<1>4. /\ todo # <<>> /\ w.do = "closeStmt" /\ w.h = s /\ closing[s]
      /\ closing' = [closing EXCEPT ![s] = TRUE] /\ todo' = r
      /\ UNCHANGED <<quota, mem, kind, refCount, field, oci, lists, user,
                     lastRowid, lost>>
  BY <1>1, <1>2, <1>3 DEF StmtMarkClosing, Doing, Subject
<1>5. /\ w \in Works /\ r \in Seq(Works) /\ todo = <<w>> \o r /\ Shape(r)
      /\ \A i \in DOMAIN r : WorkOK(r[i])
  BY <1>1, <1>2, <1>4, NextCall
<1>6. closing' = closing BY <1>4 DEF Inv, HandlesTypes
<1>7. SameEffects(todo', todo)
  <2>1. SameEffects(todo, r) BY <1>4, <1>5, SilentPushed DEF FreeWorks
  <2> QED BY <1>4, <2>1 DEF SameEffects
<1>8. RestOK(r) BY <1>1, <1>2, <1>4, <1>6, RestAfterClosing DEF Doing
<1>9. EndOK' BY <1>4, <1>8 DEF RestOK, EndOK
<1>10. ClosingTypes BY <1>4, <1>6, StaysClosed
<1> QED BY <1>4, <1>5, <1>6, <1>7, <1>9, <1>10, QuietStep

GivenBack(u, a, b, c, h) == PendingIn(u, h) = Is(a, h) + Is(b, h) + Is(c, h)
LEMMA LetGo ==
    ASSUME NEW a \in Blocks \cup {NULL}, NEW b \in Blocks \cup {NULL},
           NEW c \in Blocks \cup {NULL},
           NEW u, u = UnrefOf(a) \o UnrefOf(b) \o UnrefOf(c), NEW h \in Blocks
    PROVE  /\ u \in Seq(Works) /\ Unrefs(u)
           /\ GivenBack(u, a, b, c, h)
<1>1. PICK A : A = UnrefOf(a) OBVIOUS
<1>2. PICK B : B = UnrefOf(b) OBVIOUS
<1>3. PICK C : C = UnrefOf(c) OBVIOUS
<1>4. A \in Seq(Works) /\ Unrefs(A) /\ PendingIn(A, h) = Is(a, h)
  BY <1>1, UnrefOfOne
<1>5. B \in Seq(Works) /\ Unrefs(B) /\ PendingIn(B, h) = Is(b, h)
  BY <1>2, UnrefOfOne
<1>6. C \in Seq(Works) /\ Unrefs(C) /\ PendingIn(C, h) = Is(c, h)
  BY <1>3, UnrefOfOne
<1>7. PICK d : d = A \o B OBVIOUS
<1>8. /\ d \in Seq(Works) /\ Unrefs(d)
      /\ PendingIn(d, h) = PendingIn(A, h) + PendingIn(B, h)
  BY <1>4, <1>5, <1>7, UnrefsConcat
<1>9. u = d \o C BY <1>1, <1>2, <1>3, <1>7
<1>10. /\ u \in Seq(Works) /\ Unrefs(u)
       /\ PendingIn(u, h) = PendingIn(d, h) + PendingIn(C, h)
  BY <1>6, <1>8, <1>9, UnrefsConcat
<1> QED BY <1>4, <1>5, <1>6, <1>8, <1>10 DEF GivenBack

LEMMA ReleaseTyped ==
    ASSUME NEW w \in Works, NEW x, x = [w EXCEPT !.do = "releaseStmt"]
    PROVE  /\ x \in Works /\ x.do = "releaseStmt" /\ x.h = w.h
           /\ x.propagate = w.propagate
BY DEF Works, WorkNames, CloseWorks

LEMMA RowidsClosed ==
    ASSUME NEW L, NEW C, NEW D, NEW s \in Blocks,
           \A y \in Blocks \ {s} : D[y] <=> C[y], NEW h
    PROVE  RowidsIn(L, D, h) = RowidsIn(L, C, h) - RowidOf(L, C, s, h)
                               + RowidOf(L, D, s, h)
<1>1. \A y \in Blocks \ {s} : L[y] = L[y] /\ (D[y] <=> C[y]) OBVIOUS
<1> QED BY <1>1, RowidsMove

(* What is left after a statement has given back what it held.              *)
LEMMA MarkedThen ==
    ASSUME Inv, StmtMarkClosing, NEW s, s = Subject, ~closing[s]
    PROVE  /\ s \in Blocks /\ IsStmt(s)
           /\ closing' = [closing EXCEPT ![s] = TRUE] /\ StmtEmptied(s)
           /\ UNCHANGED <<quota, mem, kind, refCount, oci, lists, user,
                          lastRowid, lost>>
           /\ todo' \in Seq(Works) /\ Shape(todo') /\ WorksOK' /\ EndOK'
           /\ \A h \in Blocks :
                 /\ FreesIn(todo', h) <=> FreesIn(todo, h)
                 /\ ForgetsIn(todo', h) <=> ForgetsIn(todo, h)
                 /\ Releases(todo', h) <=> Releases(todo, h) \/ h = s
                 /\ PendingIn(todo', h) =
                        Is(field[s].bind, h) + Is(field[s].column, h)
                        + Is(lastRowid[s], h) + PendingIn(todo, h)
<1>1. PICK w : w = Head(todo) OBVIOUS
<1>2. PICK r : r = Tail(todo) OBVIOUS
<1>3. PICK x : x = [w EXCEPT !.do = "releaseStmt"] OBVIOUS
<1>4. PICK u : u = UnrefOf(field[s].bind) \o UnrefOf(field[s].column)
                   \o UnrefOf(lastRowid[s])
  OBVIOUS
<1>5. /\ todo # <<>> /\ w.do = "closeStmt" /\ w.h = s
      /\ closing' = [closing EXCEPT ![s] = TRUE] /\ todo' = u \o <<x>> \o r
      /\ field' = [field EXCEPT ![s].bind = NULL, ![s].column = NULL]
      /\ UNCHANGED <<quota, mem, kind, refCount, oci, lists, user, lastRowid,
                     lost>>
  BY <1>1, <1>2, <1>3, <1>4 DEF StmtMarkClosing, Doing, Subject
<1>6. /\ w \in Works /\ r \in Seq(Works) /\ todo = <<w>> \o r /\ WorkOK(w)
      /\ Shape(r) /\ Settled(r) /\ (\A i \in DOMAIN r : WorkOK(r[i]))
      /\ GivesUp(w) => GivenUp(r)
      /\ ~w.propagate => 1 \in DOMAIN r /\ r[1].do = "freeStmt" /\ r[1].h = s
  BY <1>1, <1>2, <1>5, NextCall
<1>7. s \in Blocks /\ IsStmt(s) BY <1>5, <1>6 DEF Works, WorkOK
<1>8. /\ field[s].bind \in Blocks \cup {NULL}
      /\ field[s].column \in Blocks \cup {NULL}
      /\ lastRowid[s] \in Blocks \cup {NULL}
  BY <1>7, StmtKeepsFields DEF Inv, HandlesTypes
<1>9. /\ x \in Works /\ x.do = "releaseStmt" /\ x.h = s
      /\ x.propagate = w.propagate
  BY <1>3, <1>5, <1>6, ReleaseTyped
<1>10. PICK p : p = <<x>> \o r OBVIOUS
<1>11. /\ u \in Seq(Works) /\ Unrefs(u) /\ todo' = u \o p
       /\ \A h \in Blocks : PendingIn(u, h) = Is(field[s].bind, h)
              + Is(field[s].column, h) + Is(lastRowid[s], h)
  <2>1. PICK a : a = field[s].bind OBVIOUS
  <2>2. PICK b : b = field[s].column OBVIOUS
  <2>3. PICK c : c = lastRowid[s] OBVIOUS
  <2>4. /\ a \in Blocks \cup {NULL} /\ b \in Blocks \cup {NULL}
        /\ c \in Blocks \cup {NULL} /\ u = UnrefOf(a) \o UnrefOf(b) \o UnrefOf(c)
    BY <1>4, <1>8, <2>1, <2>2, <2>3
  <2>5. /\ u \in Seq(Works) /\ Unrefs(u) /\ u \o <<x>> \o r = u \o (<<x>> \o r)
        /\ \A h \in Blocks : PendingIn(u, h) = Is(a, h) + Is(b, h) + Is(c, h)
    <3>1. x \in Works /\ r \in Seq(Works) BY <1>6, <1>9
    <3>2. u \in Seq(Works) /\ Unrefs(u) BY <2>4, LetGo, ConnIsBlock
    <3>3. u \o <<x>> \o r = u \o (<<x>> \o r) BY <3>1, <3>2, Associative
    <3>4. ASSUME NEW h \in Blocks
          PROVE  PendingIn(u, h) = Is(a, h) + Is(b, h) + Is(c, h)
      <4>1. GivenBack(u, a, b, c, h) BY <2>4, LetGo
      <4> QED BY <4>1 DEF GivenBack
    <3> QED BY <3>2, <3>3, <3>4
  <2>6. todo' = u \o p BY <1>5, <1>10, <2>5
  <2> QED BY <2>1, <2>2, <2>3, <2>5, <2>6
<1>12. p \in Seq(Works) BY <1>6, <1>9, <1>10
<1>13. Shape(p) /\ Settled(p)
  <2>1. GivesUp(x) => GivenUp(r) BY <1>5, <1>6, <1>9 DEF GivesUp, CloseWorks
  <2>2. ~x.propagate => EndsIn(r, x.h) BY <1>6, <1>9 DEF EndsIn
  <2>3. ~OfFreeConn(x) BY <1>9 DEF OfFreeConn, SweepWorks
  <2>4. x.do \notin FreeWorks \cup LastWorks \cup {"prefetch", "closeStmt"}
    BY <1>9 DEF FreeWorks, LastWorks
  <2>5. x.do \notin {"give", "define", "closeStmt"} BY <1>9
  <2> QED BY <1>6, <1>9, <1>10, <2>1, <2>2, <2>3, <2>4, <2>5, ShapePush
<1>14. field = [y \in Blocks |-> field[y]] /\ closing \in [Blocks -> BOOLEAN]
  BY DEF Inv, HandlesTypes
<1>15. /\ \A y \in Blocks \ {s} : closing'[y] = closing[y] /\ field'[y] = field[y]
       /\ closing'[s]
  <2>1. \A y \in Blocks \ {s} : field'[y] = field[y] BY <1>5, <1>14
  <2> QED BY <1>5, <1>7, <1>14, <2>1
<1>16. RestOK(r) BY <1>1, <1>2, <1>5, <1>15, RestAfterClosing DEF Doing
<1>17. RestOK(p)
  <2>1. WorkOK(x)'
    <3>1. x.propagate => Allowed("stmtVar") \/ user[s] > 0
      BY <1>5, <1>6, <1>9 DEF WorkOK, CloseWorks
    <3>2. IsStmt(s)' /\ (Allowed("stmtVar")' <=> Allowed("stmtVar"))
      BY <1>5, <1>7 DEF IsStmt, Allowed
    <3> QED BY <1>5, <1>9, <3>1, <3>2 DEF WorkOK, FreeWorks, SweepWorks, CloseWorks
  <2>2. /\ p[1] = x
        /\ \A j \in DOMAIN p : j # 1 => j - 1 \in DOMAIN r /\ p[j] = r[j - 1]
    BY <1>6, <1>9, <1>10, Push
  <2>3. ASSUME NEW i \in DOMAIN p
        PROVE  WorkOK(p[i])' /\ (p[i].do = "freeStmt" => closing'[p[i].h])
    <3>1. CASE i = 1 BY <1>9, <2>1, <2>2, <3>1
    <3>2. CASE i # 1
      <4>1. i - 1 \in DOMAIN r /\ p[i] = r[i - 1] BY <2>2, <3>2
      <4> QED BY <1>16, <4>1 DEF RestOK
    <3> QED BY <3>1, <3>2
  <2> QED BY <2>3 DEF RestOK
<1>18. /\ todo' \in Seq(Works) /\ Shape(todo') /\ WorksOK' /\ EndOK'
       /\ \A h : /\ FreesIn(todo', h) <=> FreesIn(p, h)
                 /\ ForgetsIn(todo', h) <=> ForgetsIn(p, h)
                 /\ Releases(todo', h) <=> Releases(p, h)
                 /\ PendingIn(todo', h) = PendingIn(u, h) + PendingIn(p, h)
  BY <1>11, <1>12, <1>13, <1>17, UnrefsThen
<1>19. SameEffects(todo, r) BY <1>5, <1>6, SilentPushed DEF FreeWorks
<1>20. ASSUME NEW h \in Blocks
       PROVE  /\ FreesIn(p, h) <=> FreesIn(r, h)
              /\ ForgetsIn(p, h) <=> ForgetsIn(r, h)
              /\ Releases(p, h) <=> Releases(r, h) \/ h = s
              /\ PendingIn(p, h) = PendingIn(r, h)
              /\ PendingIn(r, h) \in Nat
  <2>1. FreesIn(p, h) <=> FreesIn(r, h)
    BY <1>6, <1>9, <1>10, AmongPushed DEF FreeWorks
  <2>2. ForgetsIn(p, h) <=> ForgetsIn(r, h) BY <1>6, <1>9, <1>10, AmongPushed
  <2>3. Releases(p, h) <=> Releases(r, h) \/ h = s
    BY <1>6, <1>9, <1>10, AmongPushed
  <2>4. References(x, h) = 0 BY <1>9 DEF References, RefersTo
  <2>5. PendingIn(p, h) = References(x, h) + PendingIn(r, h)
    BY <1>6, <1>9, <1>10, PendingPushed
  <2>6. PendingIn(r, h) \in Nat BY <1>6, PendingFinite
  <2> QED BY <2>1, <2>2, <2>3, <2>4, <2>5, <2>6
<1>21. ASSUME NEW h \in Blocks
       PROVE  /\ FreesIn(todo', h) <=> FreesIn(todo, h)
              /\ ForgetsIn(todo', h) <=> ForgetsIn(todo, h)
              /\ Releases(todo', h) <=> Releases(todo, h) \/ h = s
              /\ PendingIn(todo', h) =
                     Is(field[s].bind, h) + Is(field[s].column, h)
                     + Is(lastRowid[s], h) + PendingIn(todo, h)
  BY <1>11, <1>18, <1>19, <1>20 DEF SameEffects
<1>22. StmtEmptied(s) BY <1>5 DEF StmtEmptied
<1> QED BY <1>5, <1>7, <1>18, <1>21, <1>22

LEMMA OpenStmtClosedKeeps ==
    ASSUME Inv, StmtMarkClosing, ~closing[Subject] PROVE Inv'
<1>1. PICK s : s = Subject OBVIOUS
<1>2. /\ s \in Blocks /\ IsStmt(s) /\ ~closing[s]
      /\ closing' = [closing EXCEPT ![s] = TRUE] /\ StmtEmptied(s)
      /\ UNCHANGED <<quota, mem, kind, refCount, oci, lists, user, lastRowid,
                     lost>>
      /\ todo' \in Seq(Works) /\ Shape(todo') /\ WorksOK' /\ EndOK'
      /\ \A h \in Blocks :
            /\ FreesIn(todo', h) <=> FreesIn(todo, h)
            /\ ForgetsIn(todo', h) <=> ForgetsIn(todo, h)
            /\ Releases(todo', h) <=> Releases(todo, h) \/ h = s
            /\ PendingIn(todo', h) =
                   Is(field[s].bind, h) + Is(field[s].column, h)
                   + Is(lastRowid[s], h) + PendingIn(todo, h)
  BY <1>1, MarkedThen
<1>3. closing \in [Blocks -> BOOLEAN] BY DEF Inv, HandlesTypes
<1>4. /\ \A y \in Blocks \ {s} : closing'[y] = closing[y]
      /\ closing'[s] /\ closing' \in [Blocks -> BOOLEAN]
  BY <1>2, <1>3
<1>5. ASSUME NEW h \in Blocks
      PROVE  /\ FieldsFit(kind[s], field'[s])
             /\ field'[s].bind = NULL /\ field'[s].column = NULL
             /\ field' = [x \in Blocks |-> field'[x]]
             /\ \A x \in Blocks \ {s} : field'[x] = field[x]
             /\ PointersIn(field', h) =
                    PointersIn(field, h) - Is(field[s].bind, h)
                    - Is(field[s].column, h)
             /\ PointersIn(field', h) \in Nat
  BY <1>2, StmtEmptiedCount
<1>6. /\ FieldsFit(kind[s], field'[s])
      /\ field'[s].bind = NULL /\ field'[s].column = NULL
      /\ field' = [x \in Blocks |-> field'[x]]
      /\ \A x \in Blocks \ {s} : field'[x] = field[x]
  BY <1>5, ConnIsBlock
<1>7. HandlesTypes' BY <1>2, <1>4, <1>6 DEF Inv, HandlesTypes
<1>8. ASSUME NEW h \in Blocks
      PROVE  /\ KeepsFields(h)' <=> KeepsFields(h)
             /\ Dead(h)' <=> Dead(h)
  BY <1>2 DEF KeepsFields, Dead
<1>9. ASSUME NEW h \in Blocks PROVE KindOK(h)'
  <2>1. KindOK(h) BY DEF Inv
  <2> QED BY <1>2, <2>1, TheKindKept
<1>10. ASSUME NEW x \in Blocks PROVE FieldsOK(x)'
  <2>1. CASE x = s
    <3>1. KeepsFields(s) /\ kind[s] \notin Queues
      BY <1>2, StmtKeepsFields, PartsOfQueue DEF IsStmt
    <3>2. KeepsFields(x)' /\ kind' = kind BY <1>2, <1>8, <2>1, <3>1
    <3>3. \A q, p : PointerOK(kind[s], q, p)' <=> PointerOK(kind[s], q, p)
      BY <1>2 DEF PointerOK
    <3> QED BY <1>6, <2>1, <3>1, <3>2, <3>3 DEF FieldsFit, FieldsOK
  <2>2. CASE x # s BY <1>2, <1>6, <1>8, <2>2, TheFieldsKept
  <2> QED BY <2>1, <2>2
<1>11. ASSUME NEW h \in Blocks PROVE CountOK(h)'
  <2>1. RowidsIn(lastRowid', closing', h) =
            RowidsIn(lastRowid, closing, h) - Is(lastRowid[s], h)
    <3>1. PICK L : L = lastRowid OBVIOUS
    <3>2. PICK C : C = closing OBVIOUS
    <3>3. PICK D : D = closing' OBVIOUS
    <3>4. s \in Blocks /\ \A y \in Blocks \ {s} : D[y] <=> C[y]
      BY <1>2, <1>4, <3>2, <3>3
    <3>5. RowidsIn(L, D, h) = RowidsIn(L, C, h) - RowidOf(L, C, s, h)
                              + RowidOf(L, D, s, h)
      BY <3>4, RowidsClosed
    <3>6. RowidOf(L, C, s, h) = Is(L[s], h) /\ RowidOf(L, D, s, h) = 0
      BY <1>2, <1>4, <3>2, <3>3 DEF RowidOf, Is
    <3>7. RowidsIn(L, C, h) \in Nat BY RowidsNat
    <3>8. Is(L[s], h) \in Nat BY DEF Is
    <3>9. RowidsIn(L, D, h) = RowidsIn(L, C, h) - Is(L[s], h)
      BY <3>5, <3>6, <3>7, <3>8
    <3> QED BY <1>2, <3>1, <3>2, <3>3, <3>9
  <2>2. Counted(h)' = Counted(h)
    <3>1. /\ user[h] \in Nat /\ PendingIn(todo, h) \in Nat
          /\ PointersIn(field, h) \in Nat
          /\ RowidsIn(lastRowid, closing, h) \in Nat
          /\ Forgotten(h) \in Nat
      BY Parts
    <3>2. /\ user'[h] = user[h] /\ Forgotten(h)' = Forgotten(h)
      BY <1>2 DEF Forgotten
    <3>3. /\ PendingIn(todo', h) =
                 Is(field[s].bind, h) + Is(field[s].column, h)
                 + Is(lastRowid[s], h) + PendingIn(todo, h)
          /\ PointersIn(field', h) =
                 PointersIn(field, h) - Is(field[s].bind, h)
                 - Is(field[s].column, h)
      BY <1>2, <1>5
    <3>4. \A a, b : Is(a, b) \in Nat BY DEF Is
    <3>5. PICK i : i = Is(field[s].bind, h) OBVIOUS
    <3>6. PICK j : j = Is(field[s].column, h) OBVIOUS
    <3>7. PICK k : k = Is(lastRowid[s], h) OBVIOUS
    <3>8. i \in Nat /\ j \in Nat /\ k \in Nat BY <3>4, <3>5, <3>6, <3>7
    <3>9. /\ Counted(h)' = user'[h] + PendingIn(todo', h)
                           + PointersIn(field', h)
                           + RowidsIn(lastRowid', closing', h) + Forgotten(h)'
          /\ Counted(h) = user[h] + PendingIn(todo, h) + PointersIn(field, h)
                          + RowidsIn(lastRowid, closing, h) + Forgotten(h)
      BY DEF Counted
    <3>10. /\ PendingIn(todo', h) = i + j + k + PendingIn(todo, h)
           /\ PointersIn(field', h) = PointersIn(field, h) - i - j
           /\ RowidsIn(lastRowid', closing', h) =
                  RowidsIn(lastRowid, closing, h) - k
      BY <2>1, <3>3, <3>5, <3>6, <3>7
    <3> HIDE DEF Inv
    <3> QED BY <3>1, <3>2, <3>8, <3>9, <3>10
  <2>3. CountOK(h) BY DEF Inv
  <2> HIDE DEF Inv
  <2> QED BY <1>2, <1>8, <2>2, <2>3 DEF CountOK
<1>12. ASSUME NEW x \in Blocks PROVE StmtOK(x)'
  <2>1. StmtOK(x) /\ KindOK(s) BY <1>2 DEF Inv
  <2>2. IsStmt(x)' <=> IsStmt(x) BY <1>2 DEF IsStmt
  <2>3. mem[s] # "unused" BY <1>2, <2>1 DEF KindOK, IsStmt, StmtKinds, Queries
  <2>4. /\ Releases(todo, x) => Releases(todo, x)'
        /\ x = s => Releases(todo, x)'
    BY <1>2
  <2> HIDE DEF Inv
  <2>5. CASE x = s BY <1>2, <1>4, <1>6, <2>3, <2>4, <2>5 DEF StmtOK
  <2>6. CASE x # s BY <1>2, <1>4, <1>6, <1>8, <2>1, <2>2, <2>4, <2>6 DEF StmtOK
  <2> QED BY <2>5, <2>6
<1>13. ListsOK'
  <2>1. \A h \in Blocks : closing[h] => closing'[h] BY <1>4
  <2> QED BY <1>2, <1>8, <2>1, TheListsKept DEF Inv, HandlesTypes
<1> QED BY <1>2, <1>7, <1>9, <1>10, <1>11, <1>12, <1>13 DEF Inv

LEMMA StmtMarkedKeeps == ASSUME Inv, StmtMarkClosing PROVE Inv'
BY ClosedStmtKeeps, OpenStmtClosedKeeps

(* The OCI statement goes; a statement that is opened again has its fields. *)
OpenedAgain(s) == /\ ~closing'[s] /\ KeepsFields(s) /\ lastRowid[s] = NULL
StmtReleaseTypes(s) ==
    /\ closing' \in [Blocks -> BOOLEAN]
    /\ \A y \in Blocks \ {s} : closing'[y] = closing[y] /\ oci'[y] = oci[y]
    /\ closing'[s] = closing[s] \/ OpenedAgain(s)
    /\ oci' = [x \in Blocks |-> oci'[x]] /\ oci'[s] # "open"
    /\ lists' \in [Lists -> [Slots -> Blocks \cup {NULL}]]
    /\ \A l \in Lists, i \in Slots : lists'[l][i] \in {lists[l][i], NULL}
StmtReleaseEffects(s) ==
    \A h \in Blocks : /\ FreesIn(todo', h) <=> FreesIn(todo, h)
                      /\ ForgetsIn(todo', h) <=> ForgetsIn(todo, h)
                      /\ h # s /\ Releases(todo, h) => Releases(todo', h)
                      /\ PendingIn(todo', h) = PendingIn(todo, h)
LEMMA StmtReleaseStep ==
    ASSUME Inv, NEW s \in Blocks, IsStmt(s), StmtReleaseTypes(s),
           UNCHANGED <<quota, mem, kind, refCount, field, user, lastRowid, lost>>,
           todo' \in Seq(Works), Shape(todo'), WorksOK', EndOK',
           StmtReleaseEffects(s)
    PROVE  Inv'
<1>1. HandlesTypes' BY DEF Inv, HandlesTypes, StmtReleaseTypes
<1>2. ASSUME NEW h \in Blocks
      PROVE  /\ KeepsFields(h)' <=> KeepsFields(h)
             /\ Dead(h)' <=> Dead(h)
  BY DEF KeepsFields, Dead, StmtReleaseEffects
<1>3. ASSUME NEW h \in Blocks PROVE KindOK(h)'
  <2>1. KindOK(h) BY DEF Inv
  <2> QED BY <2>1, TheKindKept
<1>4. ASSUME NEW x \in Blocks PROVE FieldsOK(x)' BY <1>2, TheFieldsKept
<1>5. ASSUME NEW h \in Blocks PROVE CountOK(h)'
  <2>1. \A y \in Blocks : lastRowid[y] = h /\ ~closing'[y]
                          <=> lastRowid[y] = h /\ ~closing[y]
    <3> SUFFICES ASSUME NEW y \in Blocks
                 PROVE  lastRowid[y] = h /\ ~closing'[y]
                        <=> lastRowid[y] = h /\ ~closing[y]
      OBVIOUS
    <3>1. CASE y = s
      BY <3>1, HandleTreeAssumption DEF StmtReleaseTypes, OpenedAgain
    <3>2. CASE y # s BY <3>2 DEF StmtReleaseTypes
    <3> QED BY <3>1, <3>2
  <2>2. RowidsIn(lastRowid', closing', h) = RowidsIn(lastRowid, closing, h)
    BY <2>1 DEF RowidsIn
  <2>3. Counted(h)' = Counted(h)
    BY <2>2 DEF Counted, Forgotten, PointersIn, StmtReleaseEffects
  <2>4. CountOK(h) BY DEF Inv
  <2> HIDE DEF Inv
  <2> QED BY <1>2, <2>3, <2>4 DEF CountOK
<1>6. ASSUME NEW x \in Blocks PROVE StmtOK(x)'
  <2>1. StmtOK(x) BY DEF Inv
  <2>2. IsStmt(x)' <=> IsStmt(x) BY DEF IsStmt
  <2>3. CASE x = s
    BY <1>2, <2>1, <2>2, <2>3 DEF StmtOK, StmtReleaseTypes, OpenedAgain
  <2>4. CASE x # s
    <3>1. closing'[x] = closing[x] /\ oci'[x] = oci[x]
      BY <2>4 DEF StmtReleaseTypes
    <3>2. Releases(todo, x) => Releases(todo, x)'
      BY <2>4 DEF StmtReleaseEffects
    <3> QED BY <1>2, <2>1, <2>2, <3>1, <3>2 DEF StmtOK
  <2> QED BY <2>3, <2>4
<1>7. ListsOK'
  <2>1. lists \in [Lists -> [Slots -> Blocks \cup {NULL}]] /\ ListsOK
    BY DEF Inv, HandlesTypes
  <2>2. SUFFICES ASSUME NEW l \in Lists, NEW i \in Slots
                 PROVE  ListedOK(l, lists[l][i])'
    BY DEF ListsOK
  <2>3. PICK h : h = lists[l][i] OBVIOUS
  <2>4. PICK k : k = lists'[l][i] OBVIOUS
  <2>5. /\ h \in Blocks \cup {NULL} /\ ListedOK(l, h) /\ k \in {h, NULL}
    BY <2>1, <2>3, <2>4 DEF ListsOK, StmtReleaseTypes
  <2>6. CASE k = NULL BY <2>4, <2>6 DEF ListedOK
  <2>7. CASE k # NULL
    <3>1. k = h /\ h \in Blocks BY <2>5, <2>7
    <3>2. ~closing'[h] => KeepsFields(h)
      <4>1. CASE h = s
        BY <2>5, <2>7, <3>1, <4>1 DEF ListedOK, StmtReleaseTypes, OpenedAgain
      <4>2. CASE h # s BY <2>5, <3>1, <4>2, <2>7 DEF ListedOK, StmtReleaseTypes
      <4> QED BY <4>1, <4>2
    <3> QED BY <1>2, <2>4, <2>5, <2>7, <3>1, <3>2 DEF ListedOK
  <2> QED BY <2>6, <2>7
<1> QED BY <1>1, <1>3, <1>4, <1>5, <1>6, <1>7 DEF Inv

LEMMA GivenUpSilent ==
    ASSUME NEW r, GivenUp(r)
    PROVE  \A h : /\ ~FreesIn(r, h) /\ ~ForgetsIn(r, h) /\ ~Releases(r, h)
                  /\ PendingIn(r, h) = 0
<1> SUFFICES ASSUME NEW h
             PROVE  /\ ~FreesIn(r, h) /\ ~ForgetsIn(r, h) /\ ~Releases(r, h)
                    /\ PendingIn(r, h) = 0
  OBVIOUS
<1>1. \A i \in DOMAIN r : r[i].do \in SweepWorks BY DEF GivenUp
<1>2. PendingIn(r, h) = 0 BY <1>1, PendingNone DEF RefersTo, SweepWorks
<1>3. ~FreesIn(r, h) BY <1>1 DEF FreesIn, FreeWorks, SweepWorks
<1>4. ~ForgetsIn(r, h) BY <1>1 DEF ForgetsIn, SweepWorks
<1>5. ~Releases(r, h) BY <1>1 DEF Releases, SweepWorks
<1> QED BY <1>2, <1>3, <1>4, <1>5

SamePending(p, r) == \A h : PendingIn(p, h) = PendingIn(r, h)
LEMMA PendingSilent ==
    ASSUME NEW w \in Works, NEW r \in Seq(Works), NEW p, p = <<w>> \o r,
           w.do \notin {"unref", "give", "define"}
    PROVE  SamePending(p, r)
<1> SUFFICES ASSUME NEW h PROVE PendingIn(p, h) = PendingIn(r, h)
  BY DEF SamePending
<1>4. p # <<>> /\ Head(p) = w /\ Tail(p) = r /\ p \in Seq(Works) BY Push
<1>1. PendingIn(p, h) = References(w, h) + PendingIn(r, h) BY <1>4, PendingPop
<1>2. References(w, h) = 0 BY DEF References, RefersTo
<1>3. PendingIn(r, h) \in Nat BY PendingFinite
<1> QED BY <1>1, <1>2, <1>3

LEMMA StmtReleasedKeeps ==
    ASSUME Inv, ReleasesCleanly, StmtReleased PROVE Inv'
<1>1. PICK w : w = Head(todo) OBVIOUS
<1>2. PICK r : r = Tail(todo) OBVIOUS
<1>3. PICK s : s = Subject OBVIOUS
<1>4. /\ todo # <<>> /\ w.do = "releaseStmt" /\ w.h = s
      /\ oci' = [oci EXCEPT ![s] = IF @ = "open" THEN "freed" ELSE @]
      /\ lists' \in {lists, RemoveHandle("openStmts", s)}
      /\ UNCHANGED <<quota, mem, kind, refCount, field, user, lastRowid, lost>>
      /\ \/ todo' = r /\ closing' = closing
         \/ /\ Allowed("releaseFails") /\ w.propagate
            /\ closing' = [closing EXCEPT ![s] = FALSE]
            /\ todo' \in {r, <<>>}
  BY <1>1, <1>2, <1>3 DEF StmtReleased, Doing, Subject, CloseFails, varVars
<1>5. /\ w \in Works /\ r \in Seq(Works) /\ todo = <<w>> \o r /\ WorkOK(w)
      /\ Shape(r) /\ Settled(r) /\ Ended(r) /\ (\A i \in DOMAIN r : WorkOK(r[i]))
      /\ GivesUp(w) => GivenUp(r)
  BY <1>1, <1>2, <1>4, NextCall
<1>6. s \in Blocks /\ IsStmt(s) BY <1>4, <1>5 DEF Works, WorkOK
<1>7. /\ oci' = [x \in Blocks |-> oci'[x]] /\ oci'[s] # "open"
      /\ \A y \in Blocks \ {s} : oci'[y] = oci[y]
  BY <1>4, <1>6 DEF Inv, HandlesTypes
<1>8. /\ lists' \in [Lists -> [Slots -> Blocks \cup {NULL}]]
      /\ \A l \in Lists, i \in Slots : lists'[l][i] \in {lists[l][i], NULL}
  <2>1. CASE lists' = lists BY <2>1 DEF Inv, HandlesTypes
  <2>2. CASE lists' = RemoveHandle("openStmts", s)
    <3>1. PICK l : l = "openStmts" OBVIOUS
    <3>2. l \in Lists BY <3>1 DEF Lists
    <3> QED BY <1>6, <2>2, <3>1, <3>2, SlotLeft
  <2> QED BY <1>4, <2>1, <2>2
<1>9. ASSUME NEW h \in Blocks
      PROVE  /\ FreesIn(todo, h) <=> FreesIn(r, h)
             /\ ForgetsIn(todo, h) <=> ForgetsIn(r, h)
             /\ h # s /\ Releases(todo, h) => Releases(r, h)
             /\ PendingIn(todo, h) = PendingIn(r, h)
  <2>1. FreesIn(todo, h) <=> FreesIn(r, h)
    BY <1>4, <1>5, AmongPushed DEF FreeWorks
  <2>2. ForgetsIn(todo, h) <=> ForgetsIn(r, h) BY <1>4, <1>5, AmongPushed
  <2>3. h # s /\ Releases(todo, h) => Releases(r, h) BY <1>4, <1>5, AmongPushed
  <2>4. PendingIn(todo, h) = PendingIn(r, h)
    <3>1. /\ todo = <<w>> \o r /\ w \in Works /\ r \in Seq(Works)
          /\ w.do \notin {"unref", "give", "define"}
      BY <1>4, <1>5
    <3>2. SamePending(todo, r) BY <3>1, PendingSilent
    <3> QED BY <3>2 DEF SamePending
  <2> QED BY <2>1, <2>2, <2>3, <2>4
<1>10. closing \in [Blocks -> BOOLEAN] BY DEF Inv, HandlesTypes
<1>11. CASE todo' = r /\ closing' = closing
  <2>1. StmtReleaseTypes(s) BY <1>7, <1>8, <1>10, <1>11 DEF StmtReleaseTypes
  <2>2. \A i \in DOMAIN r : WorkOK(r[i])'
    <3>1. \A i \in DOMAIN r : r[i].do \in FreeWorks /\ mem[r[i].h] = "live" =>
              mem'[r[i].h] = "live"
      BY <1>4
    <3> QED BY <1>4, <1>5, <1>11, <3>1, RestStays
  <2>3. WorksOK' BY <1>11, <2>2 DEF WorksOK
  <2>4. EndOK' BY <1>5, <1>11 DEF Ended, EndOK
  <2>5. StmtReleaseEffects(s) BY <1>9, <1>11 DEF StmtReleaseEffects
  <2> QED BY <1>4, <1>5, <1>6, <1>11, <2>1, <2>3, <2>4, <2>5, StmtReleaseStep
<1>12. CASE /\ Allowed("releaseFails") /\ w.propagate
            /\ closing' = [closing EXCEPT ![s] = FALSE]
            /\ todo' \in {r, <<>>}
  <2>1. ~Allowed("stmtVar") /\ ~Allowed("rowid")
    <3>1. quota \in Scenarios /\ "releaseFails" \in DOMAIN quota
      BY <1>12 DEF Inv, HandlesTypes, Allowed
    <3>2. {"stmtVar", "rowid"} \cap DOMAIN quota = {}
      BY <3>1 DEF ReleasesCleanly
    <3> QED BY <3>2 DEF Allowed
  <2>2. user[s] > 0
    <3>1. "releaseStmt" \in CloseWorks BY DEF CloseWorks
    <3> QED BY <1>4, <1>5, <1>12, <2>1, <3>1 DEF WorkOK
  <2>3. KeepsFields(s) BY <1>6, <2>2, UsersAlive
  <2>4. lastRowid[s] = NULL
    <3>1. KindOK(s) BY <1>6 DEF Inv
    <3> QED BY <2>1, <3>1 DEF KindOK
  <2>5. StmtReleaseTypes(s)
    <3>1. /\ closing' \in [Blocks -> BOOLEAN] /\ ~closing'[s]
          /\ \A y \in Blocks \ {s} : closing'[y] = closing[y]
      BY <1>6, <1>10, <1>12
    <3> QED BY <1>7, <1>8, <2>3, <2>4, <3>1 DEF StmtReleaseTypes, OpenedAgain
  <2>6. GivenUp(r) BY <1>4, <1>5, <1>12 DEF GivesUp, CloseWorks
  <2>7. GivenUp(todo') /\ todo' \in Seq(Works) /\ Shape(todo')
        /\ \A i \in DOMAIN todo' : WorkOK(todo'[i])
    <3>1. CASE todo' = r BY <1>5, <2>6, <3>1
    <3>2. CASE todo' = <<>> BY <3>2, NoWorkShape
    <3> QED BY <1>12, <3>1, <3>2
  <2>8. WorksOK' /\ EndOK'
    <3>1. PICK t : t = todo' OBVIOUS
    <3>2. GivenUp(t) /\ \A i \in DOMAIN t : WorkOK(t[i]) BY <2>7, <3>1
    <3>3. \A i \in DOMAIN t : WorkOK(t[i])' BY <1>4, <3>2, SweepsKept
    <3>4. \A i \in DOMAIN t : t[i].do # "freeStmt"
      BY <3>2 DEF GivenUp, SweepWorks
    <3> QED BY <3>1, <3>3, <3>4 DEF WorksOK, EndOK
  <2>9. StmtReleaseEffects(s)
    <3>1. PICK t : t = todo' OBVIOUS
    <3>2. \A h : /\ ~FreesIn(t, h) /\ ~ForgetsIn(t, h) /\ ~Releases(t, h)
                 /\ PendingIn(t, h) = 0
      BY <2>7, <3>1, GivenUpSilent
    <3>3. \A h : /\ ~FreesIn(r, h) /\ ~ForgetsIn(r, h) /\ ~Releases(r, h)
                 /\ PendingIn(r, h) = 0
      BY <2>6, GivenUpSilent
    <3> QED BY <1>9, <3>1, <3>2, <3>3 DEF StmtReleaseEffects
  <2> QED BY <1>4, <1>6, <2>5, <2>7, <2>8, <2>9, StmtReleaseStep
<1> QED BY <1>4, <1>11, <1>12

-----------------------------------------------------------------------------
(* The end of a free function. *)
Returned(u, x, h) ==
    /\ PendingIn(u, h) <= CountOf(field[x], h)
    /\ kind[h] # "json" => PendingIn(u, h) = CountOf(field[x], h)
ReturnsAll(u, x) ==
    /\ u \in Seq(Works) /\ Unrefs(u)
    /\ \A h \in Blocks : Returned(u, x, h)
StmtsUnchanged ==
    \A s \in Blocks : IsStmt(s) => closing'[s] = closing[s] /\ oci'[s] = oci[s]
ListedClosing(x) == \A l \in Lists : kind[x] \in Listed[l] => closing'[x]

(* What is left after a free function has given back the references.        *)
GivesBack(x, u) ==
    /\ todo' \in Seq(Works) /\ Shape(todo') /\ WorksOK' /\ EndOK'
    /\ \A h \in Blocks :
          /\ FreesIn(todo', h) <=> FreesIn(todo, h)
          /\ ForgetsIn(todo', h) <=> ForgetsIn(todo, h) \/ h = x
          /\ Releases(todo', h) <=> Releases(todo, h)
          /\ PendingIn(todo', h) = PendingIn(u, h) + PendingIn(todo, h)
    /\ ~ForgetsIn(todo, x)

LEMMA GiveBackThen ==
    ASSUME Inv, todo # <<>>, NEW w, w = Head(todo), NEW r, r = Tail(todo),
           w.do \in {"free", "freeStmt"}, NEW x, x = w.h,
           UNCHANGED <<quota, mem, kind, user, lastRowid>>,
           field' = [field EXCEPT ![x] = NoFields],
           ClosingTypes, StmtsUnchanged,
           NEW u \in Seq(Works), Unrefs(u),
           todo' = u \o <<FreeMemory(x)>> \o r
    PROVE  x \in Blocks /\ mem[x] = "live" /\ Dead(x) /\ GivesBack(x, u)
<1>1. /\ w \in Works /\ r \in Seq(Works) /\ todo = <<w>> \o r /\ WorkOK(w)
      /\ Shape(r) /\ Settled(r) /\ Ended(r) /\ (\A i \in DOMAIN r : WorkOK(r[i]))
      /\ ~FreesIn(r, x)
  BY NextCall DEF FreeWorks
<1>2. x \in Blocks BY <1>1 DEF Works
<1>3. PICK m : m = FreeMemory(x) OBVIOUS
<1>4. m \in Works /\ m.do = "freeMemory" /\ m.h = x
  BY <1>2, <1>3, WorkTyped DEF FreeMemory, WorkNames, FreeWorks
<1>5. PICK p : p = <<m>> \o r OBVIOUS
<1>6. p \in Seq(Works) /\ Shape(p) /\ Settled(p)
  <2>1. p \in Seq(Works) BY <1>1, <1>4, <1>5
  <2>2. m.do \notin LastWorks \cup {"prefetch", "closeStmt", "releaseStmt",
                                    "give", "define"}
    BY <1>4 DEF LastWorks
  <2>3. ~GivesUp(m) /\ ~OfFreeConn(m)
    BY <1>4 DEF GivesUp, OfFreeConn, SweepWorks, CloseWorks
  <2> QED BY <1>1, <1>4, <1>5, <2>1, <2>2, <2>3, ShapePush
<1>7. todo' = u \o p
  <2>1. <<m>> \in Seq(Works) BY <1>4
  <2>2. u \o <<m>> \o r = u \o (<<m>> \o r) BY <1>1, <2>1, Associative
  <2> QED BY <1>3, <1>5, <2>2
<1>8. FreesIn(todo, x)
  <2>1. 1 \in DOMAIN todo /\ todo[1] = w BY <1>1, Push
  <2> QED BY <2>1 DEF FreesIn, FreeWorks
<1>9. Dead(x) /\ user[x] = 0 BY <1>2, <1>8, DeadUnheld DEF Dead
<1>10. mem[x] = "live" BY <1>1 DEF WorkOK, FreeWorks
<1>11. field = [y \in Blocks |-> field[y]] BY DEF Inv, HandlesTypes
<1>12. \A y \in Blocks \ {x} : field'[y] = field[y] BY <1>11
<1>13. \A s \in Blocks : user[s] > 0 /\ IsStmt(s) =>
           closing'[s] = closing[s] /\ field'[s] = field[s]
  BY <1>9, <1>12 DEF StmtsUnchanged
<1>14. \A i \in DOMAIN r : WorkOK(r[i])' BY <1>1, <1>13, RestStays
<1>15. RestOK(p)
  <2>1. WorkOK(m)' BY <1>4, <1>10 DEF WorkOK, FreeWorks, SweepWorks, CloseWorks
  <2>2. /\ p[1] = m
        /\ \A j \in DOMAIN p : j # 1 => j - 1 \in DOMAIN r /\ p[j] = r[j - 1]
    BY <1>1, <1>4, <1>5, Push
  <2>3. ASSUME NEW i \in DOMAIN r, r[i].do = "freeStmt" PROVE closing'[r[i].h]
    <3>1. r[i].h \in Blocks
      <4>1. r[i] \in Works BY <1>1
      <4>2. \A e \in Works : e.h \in Blocks BY DEF Works
      <4> QED BY <4>1, <4>2
    <3>2. closing[r[i].h] BY <1>1, <2>3 DEF Ended
    <3> QED BY <3>1, <3>2 DEF ClosingTypes
  <2>4. ASSUME NEW i \in DOMAIN p
        PROVE  WorkOK(p[i])' /\ (p[i].do = "freeStmt" => closing'[p[i].h])
    <3>1. CASE i = 1 BY <1>4, <2>1, <2>2, <3>1
    <3>2. CASE i # 1
      <4>1. i - 1 \in DOMAIN r /\ p[i] = r[i - 1] BY <2>2, <3>2
      <4> QED BY <1>14, <2>3, <4>1
    <3> QED BY <3>1, <3>2
  <2> QED BY <2>4 DEF RestOK
<1>16. /\ todo' \in Seq(Works) /\ Shape(todo') /\ WorksOK' /\ EndOK'
       /\ \A h : /\ FreesIn(todo', h) <=> FreesIn(p, h)
                 /\ ForgetsIn(todo', h) <=> ForgetsIn(p, h)
                 /\ Releases(todo', h) <=> Releases(p, h)
                 /\ PendingIn(todo', h) = PendingIn(u, h) + PendingIn(p, h)
  BY <1>6, <1>7, <1>15, UnrefsThen
<1>17. SamePending(p, r) /\ SamePending(todo, r)
  <2>1. SamePending(p, r) BY <1>1, <1>4, <1>5, PendingSilent
  <2>2. SamePending(todo, r) BY <1>1, PendingSilent
  <2> QED BY <2>1, <2>2
<1>18. ASSUME NEW h \in Blocks
       PROVE  /\ FreesIn(p, h) <=> FreesIn(todo, h)
              /\ ForgetsIn(p, h) <=> ForgetsIn(todo, h) \/ h = x
              /\ Releases(p, h) <=> Releases(todo, h)
  <2>1. /\ FreesIn(p, h) <=> FreesIn(r, h) \/ h = x
        /\ FreesIn(todo, h) <=> FreesIn(r, h) \/ h = x
    <3>1. FreesIn(p, h) <=> (m.do \in FreeWorks /\ m.h = h) \/ FreesIn(r, h)
      BY <1>1, <1>4, <1>5, AmongPushed
    <3>2. FreesIn(todo, h) <=> (w.do \in FreeWorks /\ w.h = h) \/ FreesIn(r, h)
      BY <1>1, AmongPushed
    <3> QED BY <1>4, <3>1, <3>2 DEF FreeWorks
  <2>2. ForgetsIn(p, h) <=> ForgetsIn(r, h) \/ h = x
    BY <1>1, <1>4, <1>5, AmongPushed
  <2>3. ForgetsIn(todo, h) <=> ForgetsIn(r, h) BY <1>1, AmongPushed
  <2>4. Releases(p, h) <=> Releases(r, h) BY <1>1, <1>4, <1>5, AmongPushed
  <2>5. Releases(todo, h) <=> Releases(r, h) BY <1>1, AmongPushed
  <2> QED BY <2>1, <2>2, <2>3, <2>4, <2>5
<1>19. ~ForgetsIn(todo, x)
  <2>1. ~ForgetsIn(r, x) BY <1>1 DEF ForgetsIn, FreesIn, FreeWorks
  <2>2. ForgetsIn(todo, x) <=> ForgetsIn(r, x) BY <1>1, <1>2, AmongPushed
  <2> QED BY <2>1, <2>2
<1>20. GivesBack(x, u) BY <1>16, <1>17, <1>18, <1>19 DEF GivesBack, SamePending
<1> QED BY <1>2, <1>9, <1>10, <1>20

(* The references of a block that returns them all are balanced.            *)
LEMMA GivenBackCount ==
    ASSUME Inv, NEW x \in Blocks, KeepsFields(x),
           field' = [field EXCEPT ![x] = NoFields],
           ClosingTypes, StmtsUnchanged,
           UNCHANGED <<kind, user, lastRowid, lost>>,
           NEW u, ReturnsAll(u, x), NEW h \in Blocks,
           PendingIn(todo', h) = PendingIn(u, h) + PendingIn(todo, h)
    PROVE  /\ Counted(h)' \in Nat /\ Counted(h)' <= Counted(h)
           /\ kind[h] # "json" => Counted(h)' = Counted(h)
<1>1. field = [y \in Blocks |-> field[y]] BY DEF Inv, HandlesTypes
<1>2. field'[x] = NoFields /\ \A y \in Blocks \ {x} : field'[y] = field[y]
  BY <1>1
<1>3. FiniteFields(field) /\ FiniteFields(field')
  <2>1. FiniteFields(field) BY FieldsFinite
  <2>2. IsFiniteSet(DOMAIN NoFields)
    <3>1. DOMAIN NoFields = {} BY DEF NoFields
    <3> QED BY <3>1, FS_EmptySet
  <2> QED BY <1>2, <2>1, <2>2 DEF FiniteFields
<1>4. PICK F : F = field OBVIOUS
<1>5. PICK G : G = field' OBVIOUS
<1>6. /\ FiniteFields(F) /\ FiniteFields(G) /\ G[x] = NoFields
      /\ \A y \in Blocks \ {x} : G[y] = F[y]
  BY <1>2, <1>3, <1>4, <1>5
<1>7. PointersIn(G, h) = PointersIn(F, h) - CountOf(F[x], h) + CountOf(G[x], h)
  BY <1>6, PointersChange
<1>8. /\ PointersIn(G, h) \in Nat /\ PointersIn(F, h) \in Nat
      /\ CountOf(F[x], h) \in Nat
  BY <1>6, PointersChange
<1>9. CountOf(NoFields, h) = 0
  <2>1. {r \in DOMAIN NoFields : NoFields[r] = h} = {} BY DEF NoFields
  <2> QED BY <2>1, FS_EmptySet DEF CountOf
<1>10. RowidsIn(lastRowid', closing', h) = RowidsIn(lastRowid, closing, h)
  <2>1. \A y \in Blocks : lastRowid[y] = h /\ ~closing'[y]
                          <=> lastRowid[y] = h /\ ~closing[y]
    <3> SUFFICES ASSUME NEW y \in Blocks, lastRowid[y] = h
                 PROVE  closing'[y] <=> closing[y]
      OBVIOUS
    <3>1. lastRowid[y] # NULL BY HandleTreeAssumption
    <3>2. KindOK(y) BY DEF Inv
    <3>3. IsStmt(y) BY <3>1, <3>2 DEF KindOK, IsStmt, StmtKinds
    <3> QED BY <3>3 DEF StmtsUnchanged
  <2> QED BY <2>1 DEF RowidsIn
<1>11. PICK a : a = PendingIn(u, h) OBVIOUS
<1>12. PICK b : b = CountOf(F[x], h) OBVIOUS
<1>13. PICK c : c = PendingIn(todo, h) OBVIOUS
<1>14. PICK d : d = PointersIn(F, h) OBVIOUS
<1>15. PICK e : e = RowidsIn(lastRowid, closing, h) OBVIOUS
<1>16. PICK g : g = PointersIn(G, h) OBVIOUS
<1>17. /\ a \in Nat /\ b \in Nat /\ c \in Nat /\ d \in Nat /\ e \in Nat
       /\ g \in Nat /\ user[h] \in Nat /\ Forgotten(h) \in Nat
  <2>1. a \in Nat
    <3>1. u \in Seq(Works) BY DEF ReturnsAll
    <3> QED BY <1>11, <3>1, PendingFinite
  <2>2. user[h] \in Nat /\ c \in Nat /\ e \in Nat /\ Forgotten(h) \in Nat
    BY <1>13, <1>15, Parts
  <2> QED BY <1>8, <1>12, <1>14, <1>16, <2>1, <2>2
<1>18. a <= b /\ (kind[h] # "json" => a = b)
  BY <1>4, <1>11, <1>12 DEF ReturnsAll, Returned
<1>19. g = d - b
  <2>1. g = d - b + 0 BY <1>6, <1>7, <1>9, <1>12, <1>14, <1>16
  <2> QED BY <1>17, <2>1
<1>20. Counted(h) = user[h] + c + d + e + Forgotten(h)
  BY <1>4, <1>13, <1>14, <1>15 DEF Counted
<1>21. Counted(h)' = user[h] + (a + c) + g + e + Forgotten(h)
  BY <1>5, <1>10, <1>11, <1>13, <1>15, <1>16 DEF Counted, Forgotten
<1> HIDE DEF Inv
<1> QED BY <1>17, <1>18, <1>19, <1>20, <1>21

LEMMA GiveBackStep ==
    ASSUME Inv, todo # <<>>, NEW w, w = Head(todo),
           w.do \in {"free", "freeStmt"}, NEW x, x = w.h,
           UNCHANGED <<quota, mem, kind, refCount, user, lastRowid, lost>>,
           field' = [field EXCEPT ![x] = NoFields],
           ClosingTypes, StmtsUnchanged, ListedClosing(x),
           IsStmt(x) => closing[x],
           NEW u, ReturnsAll(u, x),
           todo' = u \o <<FreeMemory(x)>> \o Tail(todo)
    PROVE  Inv'
<1>1. u \in Seq(Works) /\ Unrefs(u) BY DEF ReturnsAll
<1>2. PICK r : r = Tail(todo) OBVIOUS
<1>3. x \in Blocks /\ mem[x] = "live" /\ Dead(x) /\ GivesBack(x, u)
  BY <1>1, <1>2, GiveBackThen
<1>4. /\ todo' \in Seq(Works) /\ Shape(todo') /\ WorksOK' /\ EndOK'
      /\ \A h \in Blocks :
            /\ FreesIn(todo', h) <=> FreesIn(todo, h)
            /\ ForgetsIn(todo', h) <=> ForgetsIn(todo, h) \/ h = x
            /\ Releases(todo', h) <=> Releases(todo, h)
            /\ PendingIn(todo', h) = PendingIn(u, h) + PendingIn(todo, h)
      /\ ~ForgetsIn(todo, x)
  BY <1>3 DEF GivesBack
<1>5. KeepsFields(x) BY <1>3, <1>4 DEF KeepsFields
<1>6. field = [y \in Blocks |-> field[y]] BY DEF Inv, HandlesTypes
<1>7. /\ field' = [y \in Blocks |-> field'[y]] /\ field'[x] = NoFields
      /\ \A y \in Blocks \ {x} : field'[y] = field[y]
  BY <1>3, <1>6
<1>8. HandlesTypes' BY <1>4, <1>7 DEF Inv, HandlesTypes, ClosingTypes
<1>9. ASSUME NEW h \in Blocks
      PROVE  /\ KeepsFields(h)' <=> KeepsFields(h) /\ h # x
             /\ Dead(h)' <=> Dead(h)
  BY <1>4 DEF KeepsFields, Dead
<1>10. ASSUME NEW h \in Blocks PROVE KindOK(h)'
  <2>1. KindOK(h) BY DEF Inv
  <2> QED BY <2>1, TheKindKept
<1>11. ASSUME NEW y \in Blocks PROVE FieldsOK(y)'
  <2>1. CASE y = x BY <1>7, <1>9, <2>1 DEF FieldsOK
  <2>2. CASE y # x BY <1>7, <1>9, <2>2, TheFieldsKept
  <2> QED BY <2>1, <2>2
<1>12. ASSUME NEW h \in Blocks PROVE CountOK(h)'
  <2>1. PendingIn(todo', h) = PendingIn(u, h) + PendingIn(todo, h) BY <1>4
  <2>2. /\ Counted(h)' \in Nat /\ Counted(h)' <= Counted(h)
        /\ kind[h] # "json" => Counted(h)' = Counted(h)
    BY <1>3, <1>5, <2>1, GivenBackCount
  <2>3. CountOK(h) BY DEF Inv
  <2>4. Counted(h) \in Nat /\ refCount[h] \in Int BY Parts
  <2> HIDE DEF Inv
  <2>5. CASE Dead(h)
    <3>1. Counted(h)' = 0 BY <2>2, <2>3, <2>4, <2>5 DEF CountOK
    <3> QED BY <1>9, <2>5, <3>1 DEF CountOK
  <2>6. CASE ~Dead(h)
    <3>1. PICK a : a = Counted(h) OBVIOUS
    <3>2. PICK b : b = Counted(h)' OBVIOUS
    <3>3. PICK c : c = refCount[h] OBVIOUS
    <3>4. /\ a \in Nat /\ b \in Nat /\ c \in Int /\ b <= a /\ c >= 1 /\ c >= a
          /\ kind[h] # "json" => c = a /\ b = a
      BY <2>2, <2>3, <2>4, <2>6, <3>1, <3>2, <3>3 DEF CountOK
    <3>5. c >= 1 /\ c >= b /\ (kind[h] # "json" => c = b) BY <3>4
    <3> QED BY <1>9, <2>6, <3>2, <3>3, <3>5 DEF CountOK
  <2> QED BY <2>5, <2>6
<1>13. ASSUME NEW s \in Blocks PROVE StmtOK(s)'
  <2>1. StmtOK(s) /\ KindOK(s) BY DEF Inv
  <2>2. IsStmt(s)' <=> IsStmt(s) BY DEF IsStmt
  <2>3. CASE IsStmt(s)
    <3>1. closing'[s] = closing[s] /\ oci'[s] = oci[s]
      BY <2>3 DEF StmtsUnchanged
    <3>2. Releases(todo, s)' <=> Releases(todo, s) BY <1>4
    <3>3. mem[s] # "unused"
      BY <2>1, <2>3 DEF KindOK, IsStmt, StmtKinds, Queries
    <3> HIDE DEF Inv
    <3>4. CASE s = x
      BY <1>9, <2>1, <2>2, <2>3, <3>1, <3>2, <3>3, <3>4 DEF StmtOK
    <3>5. CASE s # x
      BY <1>7, <1>9, <2>1, <2>2, <2>3, <3>1, <3>2, <3>3, <3>5 DEF StmtOK
    <3> QED BY <3>4, <3>5
  <2>4. CASE ~IsStmt(s)
    <3>1. mem[s] = "unused" => ~closing'[s] BY <2>1 DEF StmtOK, ClosingTypes
    <3> QED BY <2>2, <2>4, <3>1 DEF StmtOK
  <2> QED BY <2>3, <2>4
<1>14. ListsOK'
  <2>1. lists \in [Lists -> [Slots -> Blocks \cup {NULL}]] /\ ListsOK
    BY DEF Inv, HandlesTypes
  <2> SUFFICES ASSUME NEW l \in Lists, NEW i \in Slots
               PROVE  ListedOK(l, lists[l][i])'
    BY DEF ListsOK
  <2>3. PICK h : h = lists[l][i] OBVIOUS
  <2>4. PICK k : k = lists'[l][i] OBVIOUS
  <2>5. h \in Blocks \cup {NULL} /\ ListedOK(l, h) /\ k \in {h, NULL}
    BY <2>1, <2>3, <2>4 DEF ListsOK, ClosingTypes
  <2>6. CASE k = NULL BY <2>4, <2>6 DEF ListedOK
  <2>7. CASE k # NULL
    <3>1. k = h /\ h \in Blocks /\ kind[h] \in Listed[l]
      BY <2>5, <2>7 DEF ListedOK
    <3>2. ~closing'[h] => KeepsFields(h) /\ h # x
      <4>1. CASE h = x BY <3>1, <4>1 DEF ListedClosing
      <4>2. CASE h # x
        <5>1. closing[h] => closing'[h] BY <3>1 DEF ClosingTypes
        <5> QED BY <2>5, <2>7, <3>1, <4>2, <5>1 DEF ListedOK
      <4> QED BY <4>1, <4>2
    <3> QED BY <1>9, <2>4, <2>7, <3>1, <3>2 DEF ListedOK
  <2> QED BY <2>6, <2>7
<1> QED BY <1>4, <1>8, <1>10, <1>11, <1>12, <1>13, <1>14 DEF Inv

LEMMA FreedKeeps ==
    ASSUME Inv, Doing("free") \/ Doing("freeStmt"), NEW x, x = Subject
    PROVE  /\ x \in Blocks /\ KeepsFields(x) /\ todo # <<>>
           /\ Doing("freeStmt") => IsStmt(x) /\ closing[x]
<1>1. PICK w : w = Head(todo) OBVIOUS
<1>2. PICK r : r = Tail(todo) OBVIOUS
<1>3. todo # <<>> /\ w.do \in {"free", "freeStmt"} /\ w.h = x
  BY <1>1 DEF Doing, Subject
<1>4. /\ w \in Works /\ r \in Seq(Works) /\ todo = <<w>> \o r /\ WorkOK(w)
      /\ ~FreesIn(r, x)
  <2>1. w.do \in FreeWorks BY <1>3 DEF FreeWorks
  <2>2. w \in Works /\ r \in Seq(Works) /\ todo = <<w>> \o r /\ WorkOK(w)
    BY <1>1, <1>2, <1>3, NextCall
  <2>3. ~FreesIn(r, w.h) BY <1>1, <1>2, <1>3, <2>1, NextCall
  <2> QED BY <1>3, <2>2, <2>3
<1>5. x \in Blocks /\ mem[x] = "live"
  BY <1>3, <1>4 DEF Works, WorkOK, FreeWorks
<1>6. ~ForgetsIn(r, x) BY <1>4 DEF ForgetsIn, FreesIn, FreeWorks
<1>7. ForgetsIn(todo, x) <=> ForgetsIn(r, x) BY <1>3, <1>4, AmongPushed
<1>8. ASSUME Doing("freeStmt") PROVE IsStmt(x) /\ closing[x]
  <2>1. w.do = "freeStmt" BY <1>1, <1>8 DEF Doing
  <2>2. 1 \in DOMAIN todo /\ todo[1] = w BY <1>4, Push
  <2>3. EndOK BY DEF Inv
  <2>4. closing[w.h] BY <2>1, <2>2, <2>3 DEF EndOK
  <2> QED BY <1>3, <1>4, <2>1, <2>4 DEF WorkOK
<1> QED BY <1>3, <1>5, <1>6, <1>7, <1>8 DEF KeepsFields

(* What a sequence of UnrefField returns: the references of some fields.    *)
Gives(u, f, D) ==
    /\ u \in Seq(Works) /\ Unrefs(u) /\ IsFiniteSet(D)
    /\ \A h \in Blocks : PendingIn(u, h) = CountOn(f, D, h)

LEMMA GivesNone == ASSUME NEW f, NEW D, D = {} PROVE Gives(<<>>, f, D)
<1>1. <<>> \in Seq(Works) /\ Unrefs(<<>>) BY DEF Unrefs
<1>2. \A h : PendingIn(<<>>, h) = 0 BY PendingEmpty
<1>3. IsFiniteSet(D) /\ \A h : CountOn(f, D, h) = 0 BY CountNone
<1> QED BY <1>1, <1>2, <1>3 DEF Gives

LEMMA GivesMore ==
    ASSUME NEW f, NEW D, NEW u, Gives(u, f, D), NEW a, a \notin D,
           f[a] \in Blocks \cup {NULL}, NEW E, E = D \cup {a},
           NEW v, v = u \o UnrefOf(f[a])
    PROVE  Gives(v, f, E)
<1>1. PICK b : b = UnrefOf(f[a]) OBVIOUS
<1>2. /\ b \in Seq(Works) /\ Unrefs(b)
      /\ \A h \in Blocks : PendingIn(b, h) = Is(f[a], h)
  BY <1>1, UnrefOfOne
<1>3. u \in Seq(Works) /\ Unrefs(u) /\ IsFiniteSet(D) BY DEF Gives
<1>4. v = u \o b BY <1>1
<1>5. v \in Seq(Works) /\ Unrefs(v) BY <1>2, <1>3, <1>4, UnrefsConcat
<1>6. IsFiniteSet(E) BY <1>3, FS_AddElement
<1>7. ASSUME NEW h \in Blocks PROVE PendingIn(v, h) = CountOn(f, E, h)
  <2>1. PendingIn(v, h) = PendingIn(u, h) + PendingIn(b, h)
    BY <1>2, <1>3, <1>4, UnrefsConcat
  <2>2. CountOn(f, E, h) = CountOn(f, D, h) + Is(f[a], h) BY <1>3, CountInsert
  <2>3. PendingIn(u, h) = CountOn(f, D, h) BY DEF Gives
  <2> QED BY <1>2, <2>1, <2>2, <2>3
<1> QED BY <1>5, <1>6, <1>7 DEF Gives

LEMMA GivesOne ==
    ASSUME NEW f, NEW a, f[a] \in Blocks \cup {NULL}, NEW E, E = {a},
           NEW v, v = UnrefOf(f[a])
    PROVE  Gives(v, f, E)
<1>1. PICK D : D = {} OBVIOUS
<1>2. PICK u : u = <<>> OBVIOUS
<1>3. Gives(u, f, D) /\ a \notin D /\ E = D \cup {a} BY <1>1, <1>2, GivesNone
<1>4. v \in Seq(Works) BY UnrefOfOne
<1>5. v = u \o UnrefOf(f[a]) BY <1>2, <1>4
<1> QED BY <1>3, <1>5, GivesMore

(* They are all references of x, or but for NULL and JSON values.           *)
LEMMA GivesAll ==
    ASSUME Inv, NEW x \in Blocks, KeepsFields(x), NEW D, NEW u,
           Gives(u, field[x], D), D \subseteq RolesOf(kind[x]),
           \A q \in RolesOf(kind[x]) \ D :
               field[x][q] = NULL \/ kind[field[x][q]] = "json"
    PROVE  ReturnsAll(u, x)
<1>1. PICK f : f = field[x] OBVIOUS
<1>2. PICK R : R = DOMAIN f OBVIOUS
<1>3. R = RolesOf(kind[x]) /\ IsFiniteSet(R) BY <1>1, <1>2, HoldsFields
<1>4. u \in Seq(Works) /\ Unrefs(u) BY DEF Gives
<1>5. ASSUME NEW h \in Blocks PROVE Returned(u, x, h)
  <2>1. PICK A : A = {q \in D : f[q] = h} OBVIOUS
  <2>2. PICK B : B = {q \in R : f[q] = h} OBVIOUS
  <2>3. A \subseteq B /\ IsFiniteSet(B) BY <1>3, <2>1, <2>2, FS_Subset
  <2>4. /\ IsFiniteSet(A) /\ Cardinality(A) \in Nat /\ Cardinality(B) \in Nat
        /\ Cardinality(A) <= Cardinality(B)
    BY <2>3, FS_Subset, FS_CardinalityType
  <2>5. kind[h] # "json" => A = B
    <3>1. \A q \in R \ D : f[q] = h => kind[h] = "json"
      BY <1>1, <1>3, HandleTreeAssumption
    <3> QED BY <2>1, <2>2, <2>3, <3>1
  <2>6. PendingIn(u, h) = Cardinality(A)
    <3>1. PendingIn(u, h) = CountOn(f, D, h) BY <1>1 DEF Gives
    <3> QED BY <2>1, <3>1 DEF CountOn
  <2>7. CountOf(field[x], h) = Cardinality(B) BY <1>1, <1>2, <2>2 DEF CountOf
  <2> QED BY <2>4, <2>5, <2>6, <2>7 DEF Returned
<1> QED BY <1>4, <1>5 DEF ReturnsAll

(* A handle that no list holds, is freed.                                   *)
LEMMA FreedStep ==
    ASSUME Inv, Doing("free"), kind[Subject] \notin StmtKinds \cup {"lob", "object"},
           NEW u, ReturnsAll(u, Subject), GiveBack(u),
           \E o : oci' = [oci EXCEPT ![Subject] = o],
           UNCHANGED <<quota, mem, kind, refCount, user, closing, lists,
                       lastRowid, lost>>
    PROVE  Inv'
<1>1. PICK w : w = Head(todo) OBVIOUS
<1>2. PICK x : x = Subject OBVIOUS
<1>3. /\ todo # <<>> /\ w.do \in {"free", "freeStmt"} /\ x = w.h
      /\ field' = [field EXCEPT ![x] = NoFields]
      /\ todo' = u \o <<FreeMemory(x)>> \o Tail(todo)
      /\ ReturnsAll(u, x)
  BY <1>1, <1>2 DEF Doing, Subject, GiveBack
<1>4. x \in Blocks BY <1>2, FreedKeeps
<1>5. oci = [y \in Blocks |-> oci[y]] BY DEF Inv, HandlesTypes
<1>6. /\ oci' = [y \in Blocks |-> oci'[y]]
      /\ \A y \in Blocks \ {x} : oci'[y] = oci[y]
  BY <1>2, <1>4, <1>5
<1>7. ClosingTypes BY <1>6 DEF Inv, HandlesTypes, ClosingTypes
<1>8. ~IsStmt(x) BY <1>2 DEF IsStmt
<1>9. StmtsUnchanged BY <1>6, <1>8 DEF StmtsUnchanged
<1>10. ListedClosing(x) BY <1>2 DEF ListedClosing, Listed, Lists
<1> QED BY <1>1, <1>3, <1>7, <1>8, <1>9, <1>10, GiveBackStep

-----------------------------------------------------------------------------
(* The free functions, kind by kind. *)
LEMMA FreeSimpleKeeps ==
    ASSUME Inv, NEW k, k \notin StmtKinds \cup {"lob", "object"}, NEW u,
           FreeSimple(k, u), UNCHANGED varVars, ReturnsAll(u, Subject)
    PROVE  Inv'
<1>1. /\ Doing("free") /\ kind[Subject] = k /\ GiveBack(u)
      /\ UNCHANGED <<quota, mem, kind, refCount, user, closing, lists,
                     lastRowid, lost>>
  BY DEF FreeSimple, varVars, listVars
<1>2. \E o : oci' = [oci EXCEPT ![Subject] = o] BY DEF FreeSimple
<1> QED BY <1>1, <1>2, FreedStep

LEMMA HasRoles ==
    ASSUME Inv, Doing("free"), NEW x, x = Subject
    PROVE  /\ x \in Blocks /\ KeepsFields(x)
           /\ \A q \in RolesOf(kind[x]) :
                 /\ field[x][q] \in Blocks \cup {NULL}
                 /\ PointerOK(kind[x], q, field[x][q])
<1>1. x \in Blocks /\ KeepsFields(x) BY FreedKeeps
<1>2. /\ FieldsFit(kind[x], field[x])
      /\ \A r \in RolesOf(kind[x]) : field[x][r] \in Blocks \cup {NULL}
  BY <1>1, HoldsFields
<1> QED BY <1>1, <1>2 DEF FieldsFit

LEMMA ReturnsRoles ==
    ASSUME Inv, NEW x \in Blocks, KeepsFields(x), NEW D, D = RolesOf(kind[x]),
           NEW u, Gives(u, field[x], D)
    PROVE  ReturnsAll(u, x)
<1>1. D \subseteq RolesOf(kind[x]) OBVIOUS
<1>2. \A q \in RolesOf(kind[x]) \ D :
          field[x][q] = NULL \/ kind[field[x][q]] = "json"
  OBVIOUS
<1> QED BY <1>1, <1>2, GivesAll

LEMMA ReturnsOne ==
    ASSUME Inv, Doing("free"), NEW a, RolesOf(kind[Subject]) = {a}
    PROVE  ReturnsAll(UnrefField(a), Subject)
<1>1. PICK x : x = Subject OBVIOUS
<1>2. PICK f : f = field[x] OBVIOUS
<1>3. PICK D : D = RolesOf(kind[x]) OBVIOUS
<1>4. D = {a} BY <1>1, <1>3
<1>5. /\ x \in Blocks /\ KeepsFields(x)
      /\ \A q \in RolesOf(kind[x]) : field[x][q] \in Blocks \cup {NULL}
  BY <1>1, HasRoles
<1>6. f[a] \in Blocks \cup {NULL} BY <1>2, <1>3, <1>4, <1>5
<1>7. PICK v : v = UnrefOf(f[a]) OBVIOUS
<1>8. Gives(v, f, D) BY <1>4, <1>6, <1>7, GivesOne
<1>9. ReturnsAll(v, x) BY <1>2, <1>3, <1>5, <1>8, ReturnsRoles
<1> QED BY <1>1, <1>2, <1>7, <1>9 DEF UnrefField

LEMMA ReturnsTwo ==
    ASSUME Inv, Doing("free"), NEW a, NEW b, a # b,
           {a, b} \subseteq RolesOf(kind[Subject]),
           \A q \in RolesOf(kind[Subject]) \ {a, b} :
               \/ field[Subject][q] = NULL
               \/ kind[field[Subject][q]] = "json"
    PROVE  ReturnsAll(UnrefField(a) \o UnrefField(b), Subject)
<1>1. PICK x : x = Subject OBVIOUS
<1>2. PICK f : f = field[x] OBVIOUS
<1>3. PICK D : D = {a} OBVIOUS
<1>4. PICK E : E = D \cup {b} OBVIOUS
<1>5. /\ x \in Blocks /\ KeepsFields(x)
      /\ \A q \in RolesOf(kind[x]) : field[x][q] \in Blocks \cup {NULL}
  BY <1>1, HasRoles
<1>6. f[a] \in Blocks \cup {NULL} /\ f[b] \in Blocks \cup {NULL}
  BY <1>1, <1>2, <1>5
<1>7. PICK u : u = UnrefOf(f[a]) OBVIOUS
<1>8. Gives(u, f, D) BY <1>3, <1>6, <1>7, GivesOne
<1>9. PICK v : v = u \o UnrefOf(f[b]) OBVIOUS
<1>10. b \notin D BY <1>3
<1>11. Gives(v, f, E) BY <1>4, <1>6, <1>8, <1>9, <1>10, GivesMore
<1>12. /\ E \subseteq RolesOf(kind[x])
       /\ \A q \in RolesOf(kind[x]) \ E :
             field[x][q] = NULL \/ kind[field[x][q]] = "json"
  BY <1>1, <1>3, <1>4
<1>13. ReturnsAll(v, x) BY <1>2, <1>5, <1>11, <1>12, GivesAll
<1> QED BY <1>1, <1>2, <1>7, <1>9, <1>13 DEF UnrefField

LEMMA FreeSodaKeeps ==
    ASSUME Inv, FreeSodaDb \/ FreeSodaColl \/ FreeSodaDoc \/ FreeSodaCollCursor
                \/ FreeSodaDocCursor,
           UNCHANGED varVars
    PROVE  Inv'
<1>1. ASSUME NEW k, NEW a, k \notin StmtKinds \cup {"lob", "object"},
             RolesOf(k) = {a}, FreeSimple(k, UnrefField(a))
      PROVE  Inv'
  <2>1. Doing("free") /\ RolesOf(kind[Subject]) = {a} BY <1>1 DEF FreeSimple
  <2>2. PICK u : u = UnrefField(a) OBVIOUS
  <2>3. ReturnsAll(u, Subject) BY <2>1, <2>2, ReturnsOne
  <2>4. FreeSimple(k, u) BY <1>1, <2>2
  <2> QED BY <1>1, <2>3, <2>4, FreeSimpleKeeps
<1>2. "sodaDb" \notin StmtKinds \cup {"lob", "object"}
  BY DEF StmtKinds, Queries
<1>3. "sodaColl" \notin StmtKinds \cup {"lob", "object"}
  BY DEF StmtKinds, Queries
<1>4. "sodaDoc" \notin StmtKinds \cup {"lob", "object"}
  BY DEF StmtKinds, Queries
<1>5. "sodaCollCursor" \notin StmtKinds \cup {"lob", "object"}
  BY DEF StmtKinds, Queries
<1>6. "sodaDocCursor" \notin StmtKinds \cup {"lob", "object"}
  BY DEF StmtKinds, Queries
<1>7. CASE FreeSodaDb BY <1>1, <1>2, <1>7, RolesAre DEF FreeSodaDb
<1>8. CASE FreeSodaColl BY <1>1, <1>3, <1>8, RolesAre DEF FreeSodaColl
<1>9. CASE FreeSodaDoc BY <1>1, <1>4, <1>9, RolesAre DEF FreeSodaDoc
<1>10. CASE FreeSodaCollCursor
  BY <1>1, <1>5, <1>10, RolesAre DEF FreeSodaCollCursor
<1>11. CASE FreeSodaDocCursor
  BY <1>1, <1>6, <1>11, RolesAre DEF FreeSodaDocCursor
<1> QED BY <1>7, <1>8, <1>9, <1>10, <1>11

LEMMA FreeOptionsKeeps ==
    ASSUME Inv, FreeDeqOptions \/ FreeEnqOptions \/ FreeJson, UNCHANGED varVars
    PROVE  Inv'
<1>1. ASSUME NEW k, NEW a, k \notin StmtKinds \cup {"lob", "object"},
             RolesOf(k) = {a}, FreeSimple(k, UnrefField(a))
      PROVE  Inv'
  <2>1. Doing("free") /\ RolesOf(kind[Subject]) = {a} BY <1>1 DEF FreeSimple
  <2>2. PICK u : u = UnrefField(a) OBVIOUS
  <2>3. ReturnsAll(u, Subject) BY <2>1, <2>2, ReturnsOne
  <2>4. FreeSimple(k, u) BY <1>1, <2>2
  <2> QED BY <1>1, <2>3, <2>4, FreeSimpleKeeps
<1>2. "deqOptions" \notin StmtKinds \cup {"lob", "object"}
  BY DEF StmtKinds, Queries
<1>3. "enqOptions" \notin StmtKinds \cup {"lob", "object"}
  BY DEF StmtKinds, Queries
<1>4. "json" \notin StmtKinds \cup {"lob", "object"} BY DEF StmtKinds, Queries
<1>5. CASE FreeDeqOptions BY <1>1, <1>2, <1>5, RolesAre DEF FreeDeqOptions
<1>6. CASE FreeEnqOptions BY <1>1, <1>3, <1>6, RolesAre DEF FreeEnqOptions
<1>7. CASE FreeJson BY <1>1, <1>4, <1>7, RolesAre DEF FreeJson
<1> QED BY <1>5, <1>6, <1>7

LEMMA FreeTwoKeeps ==
    ASSUME Inv, NEW k, NEW a, NEW b, a # b,
           k \notin StmtKinds \cup {"lob", "object"},
           {a, b} \subseteq RolesOf(k),
           \A q \in RolesOf(k) \ {a, b} : KindsOf(k, q) = {"json"},
           FreeSimple(k, UnrefField(a) \o UnrefField(b)), UNCHANGED varVars
    PROVE  Inv'
<1>1. Doing("free") /\ kind[Subject] = k BY DEF FreeSimple
<1>2. PICK u : u = UnrefField(a) \o UnrefField(b) OBVIOUS
<1>3. PICK x : x = Subject OBVIOUS
<1>4. \A q \in RolesOf(kind[x]) : PointerOK(kind[x], q, field[x][q])
  BY <1>1, <1>3, HasRoles
<1>5. \A q \in RolesOf(kind[Subject]) \ {a, b} :
          \/ field[Subject][q] = NULL
          \/ kind[field[Subject][q]] = "json"
  BY <1>1, <1>3, <1>4 DEF PointerOK
<1>6. {a, b} \subseteq RolesOf(kind[Subject]) BY <1>1
<1>7. ReturnsAll(u, Subject) BY <1>1, <1>2, <1>5, <1>6, ReturnsTwo
<1>8. FreeSimple(k, u) BY <1>2
<1> QED BY <1>7, <1>8, FreeSimpleKeeps

LEMMA FreeTypesKeeps ==
    ASSUME Inv, FreeObjectType \/ FreeObjectAttr \/ FreeMsgProps,
           UNCHANGED varVars
    PROVE  Inv'
<1>1. CASE FreeObjectType
  <2>1. PICK k : k = "objectType" OBVIOUS
  <2>2. PICK a : a = "conn" OBVIOUS
  <2>3. PICK b : b = "element" OBVIOUS
  <2>4. RolesOf(k) = {a, b} BY <2>1, <2>2, <2>3, RolesAre
  <2>5. /\ k \notin StmtKinds \cup {"lob", "object"} /\ a # b
        /\ FreeSimple(k, UnrefField(a) \o UnrefField(b))
    BY <1>1, <2>1, <2>2, <2>3 DEF FreeObjectType, StmtKinds, Queries
  <2> QED BY <2>4, <2>5, FreeTwoKeeps
<1>2. CASE FreeObjectAttr
  <2>1. PICK k : k = "objectAttr" OBVIOUS
  <2>2. PICK a : a = "belongsTo" OBVIOUS
  <2>3. PICK b : b = "valueType" OBVIOUS
  <2>4. RolesOf(k) = {a, b} BY <2>1, <2>2, <2>3, RolesAre
  <2>5. /\ k \notin StmtKinds \cup {"lob", "object"} /\ a # b
        /\ FreeSimple(k, UnrefField(a) \o UnrefField(b))
    BY <1>2, <2>1, <2>2, <2>3 DEF FreeObjectAttr, StmtKinds, Queries
  <2> QED BY <2>4, <2>5, FreeTwoKeeps
<1>3. CASE FreeMsgProps
  <2>1. PICK k : k = "msgProps" OBVIOUS
  <2>2. PICK a : a = "payloadObj" OBVIOUS
  <2>3. PICK b : b = "conn" OBVIOUS
  <2>4. RolesOf(k) = {"conn", "payloadObj", "payloadJson"} BY <2>1, RolesAre
  <2>5. /\ k \notin StmtKinds \cup {"lob", "object"} /\ a # b
        /\ FreeSimple(k, UnrefField(a) \o UnrefField(b))
    BY <1>3, <2>1, <2>2, <2>3 DEF FreeMsgProps, StmtKinds, Queries
  <2>6. KindsOf(k, "payloadJson") = {"json"} BY DEF KindsOf
  <2>7. {a, b} \subseteq RolesOf(k) BY <2>2, <2>3, <2>4
  <2>8. \A q \in RolesOf(k) \ {a, b} : KindsOf(k, q) = {"json"}
    BY <2>2, <2>3, <2>4, <2>6
  <2> QED BY <2>5, <2>7, <2>8, FreeTwoKeeps
<1> QED BY <1>1, <1>2, <1>3

LEMMA FreeRowidKeeps == ASSUME Inv, FreeRowid PROVE Inv'
<1>1. PICK k : k = "rowid" OBVIOUS
<1>2. PICK u : u = <<>> OBVIOUS
<1>3. PICK x : x = Subject OBVIOUS
<1>4. FreeSimple(k, u) /\ UNCHANGED varVars BY <1>1, <1>2 DEF FreeRowid
<1>5. Doing("free") /\ kind[x] = k BY <1>3, <1>4 DEF FreeSimple
<1>6. x \in Blocks /\ KeepsFields(x) BY <1>3, <1>5, HasRoles
<1>7. PICK D : D = RolesOf(kind[x]) OBVIOUS
<1>8. D = {} BY <1>1, <1>5, <1>7, RolesAre
<1>9. PICK f : f = field[x] OBVIOUS
<1>10. Gives(u, f, D) BY <1>2, <1>8, GivesNone
<1>11. ReturnsAll(u, x) BY <1>6, <1>7, <1>9, <1>10, ReturnsRoles
<1>12. k \notin StmtKinds \cup {"lob", "object"} BY <1>1 DEF StmtKinds, Queries
<1> QED BY <1>3, <1>4, <1>11, <1>12, FreeSimpleKeeps

LEMMA ReturnsFour ==
    ASSUME Inv, Doing("free"), NEW a, NEW b, NEW c, NEW d, a # b, c \notin {a, b},
           d \notin {a, b, c}, RolesOf(kind[Subject]) = {a, b, c, d}
    PROVE  ReturnsAll(UnrefField(a) \o UnrefField(b) \o UnrefField(c)
                      \o UnrefField(d), Subject)
<1>1. PICK x : x = Subject OBVIOUS
<1>2. PICK f : f = field[x] OBVIOUS
<1>3. PICK A : A = {a} OBVIOUS
<1>4. PICK B : B = A \cup {b} OBVIOUS
<1>5. PICK C : C = B \cup {c} OBVIOUS
<1>6. PICK D : D = C \cup {d} OBVIOUS
<1>7. /\ x \in Blocks /\ KeepsFields(x)
      /\ \A q \in RolesOf(kind[x]) : field[x][q] \in Blocks \cup {NULL}
  BY <1>1, HasRoles
<1>8. D = RolesOf(kind[x]) BY <1>1, <1>3, <1>4, <1>5, <1>6
<1>9. /\ f[a] \in Blocks \cup {NULL} /\ f[b] \in Blocks \cup {NULL}
      /\ f[c] \in Blocks \cup {NULL} /\ f[d] \in Blocks \cup {NULL}
  BY <1>1, <1>2, <1>7
<1>10. b \notin A /\ c \notin B /\ d \notin C BY <1>3, <1>4, <1>5
<1>11. PICK p : p = UnrefOf(f[a]) OBVIOUS
<1>12. PICK q : q = p \o UnrefOf(f[b]) OBVIOUS
<1>13. PICK r : r = q \o UnrefOf(f[c]) OBVIOUS
<1>14. PICK s : s = r \o UnrefOf(f[d]) OBVIOUS
<1>15. Gives(p, f, A) BY <1>3, <1>9, <1>11, GivesOne
<1>16. Gives(q, f, B) BY <1>4, <1>9, <1>10, <1>12, <1>15, GivesMore
<1>17. Gives(r, f, C) BY <1>5, <1>9, <1>10, <1>13, <1>16, GivesMore
<1>18. Gives(s, f, D) BY <1>6, <1>9, <1>10, <1>14, <1>17, GivesMore
<1>19. ReturnsAll(s, x) BY <1>2, <1>7, <1>8, <1>18, ReturnsRoles
<1> QED BY <1>1, <1>2, <1>11, <1>12, <1>13, <1>14, <1>19 DEF UnrefField

LEMMA FreeVarKeeps == ASSUME Inv, FreeVar PROVE Inv'
<1>1. PICK a : a = "value" OBVIOUS
<1>2. PICK b : b = "returned" OBVIOUS
<1>3. PICK c : c = "type" OBVIOUS
<1>4. PICK d : d = "conn" OBVIOUS
<1>5. PICK u : u = UnrefField(a) \o UnrefField(b) \o UnrefField(c)
                   \o UnrefField(d)
  OBVIOUS
<1>6. /\ Doing("free") /\ IsVar(Subject) /\ GiveBack(u)
      /\ UNCHANGED <<quota, mem, kind, refCount, oci, user, closing, lists,
                     lastRowid, lost>>
  BY <1>1, <1>2, <1>3, <1>4, <1>5 DEF FreeVar, varVars, listVars
<1>7. RolesOf(kind[Subject]) = {a, b, c, d}
  <2>1. RolesOf(kind[Subject]) = {"conn", "type", "value", "returned"}
    BY <1>6, RolesAre DEF IsVar
  <2> QED BY <1>1, <1>2, <1>3, <1>4, <2>1
<1>8. a # b /\ c \notin {a, b} /\ d \notin {a, b, c} BY <1>1, <1>2, <1>3, <1>4
<1>9. ReturnsAll(u, Subject) BY <1>5, <1>6, <1>7, <1>8, ReturnsFour
<1>10. kind[Subject] \notin StmtKinds \cup {"lob", "object"}
  BY <1>6 DEF IsVar, VarKinds, StmtKinds, Queries
<1>11. \E o : oci' = [oci EXCEPT ![Subject] = o]
  <2>1. oci = [y \in Blocks |-> oci[y]] BY DEF Inv, HandlesTypes
  <2>2. oci' = [oci EXCEPT ![Subject] = oci[Subject]] BY <1>6, <2>1
  <2> QED BY <2>2
<1> QED BY <1>6, <1>9, <1>10, <1>11, FreedStep

LEMMA ReturnsSix ==
    ASSUME Inv, Doing("free"), NEW a, NEW b, NEW c, NEW d, NEW e, NEW g, a # b,
           c \notin {a, b}, d \notin {a, b, c}, e \notin {a, b, c, d},
           g \notin {a, b, c, d, e},
           RolesOf(kind[Subject]) = {a, b, c, d, e, g}
    PROVE  ReturnsAll(UnrefField(a) \o UnrefField(b) \o UnrefField(c)
                      \o UnrefField(d) \o UnrefField(e) \o UnrefField(g),
                      Subject)
<1>1. PICK x : x = Subject OBVIOUS
<1>2. PICK f : f = field[x] OBVIOUS
<1>3. PICK A : A = {a} OBVIOUS
<1>4. PICK B : B = A \cup {b} OBVIOUS
<1>5. PICK C : C = B \cup {c} OBVIOUS
<1>6. PICK D : D = C \cup {d} OBVIOUS
<1>7. PICK E : E = D \cup {e} OBVIOUS
<1>8. PICK G : G = E \cup {g} OBVIOUS
<1>9. /\ x \in Blocks /\ KeepsFields(x)
      /\ \A q \in RolesOf(kind[x]) : field[x][q] \in Blocks \cup {NULL}
  BY <1>1, HasRoles
<1>10. G = RolesOf(kind[x]) BY <1>1, <1>3, <1>4, <1>5, <1>6, <1>7, <1>8
<1>11. /\ f[a] \in Blocks \cup {NULL} /\ f[b] \in Blocks \cup {NULL}
       /\ f[c] \in Blocks \cup {NULL} /\ f[d] \in Blocks \cup {NULL}
       /\ f[e] \in Blocks \cup {NULL} /\ f[g] \in Blocks \cup {NULL}
  BY <1>1, <1>2, <1>9
<1>12. b \notin A /\ c \notin B /\ d \notin C /\ e \notin D /\ g \notin E
  BY <1>3, <1>4, <1>5, <1>6, <1>7
<1>13. PICK p : p = UnrefOf(f[a]) OBVIOUS
<1>14. PICK q : q = p \o UnrefOf(f[b]) OBVIOUS
<1>15. PICK r : r = q \o UnrefOf(f[c]) OBVIOUS
<1>16. PICK s : s = r \o UnrefOf(f[d]) OBVIOUS
<1>17. PICK t : t = s \o UnrefOf(f[e]) OBVIOUS
<1>18. PICK u : u = t \o UnrefOf(f[g]) OBVIOUS
<1>19. Gives(p, f, A) BY <1>3, <1>11, <1>13, GivesOne
<1>20. Gives(q, f, B) BY <1>4, <1>11, <1>12, <1>14, <1>19, GivesMore
<1>21. Gives(r, f, C) BY <1>5, <1>11, <1>12, <1>15, <1>20, GivesMore
<1>22. Gives(s, f, D) BY <1>6, <1>11, <1>12, <1>16, <1>21, GivesMore
<1>23. Gives(t, f, E) BY <1>7, <1>11, <1>12, <1>17, <1>22, GivesMore
<1>24. Gives(u, f, G) BY <1>8, <1>11, <1>12, <1>18, <1>23, GivesMore
<1>25. ReturnsAll(u, x) BY <1>2, <1>9, <1>10, <1>24, ReturnsRoles
<1> QED BY <1>1, <1>2, <1>13, <1>14, <1>15, <1>16, <1>17, <1>18, <1>25 DEF
    UnrefField

LEMMA FreeQueueKeeps == ASSUME Inv, FreeQueue, UNCHANGED varVars PROVE Inv'
<1>1. PICK a : a = "conn" OBVIOUS
<1>2. PICK b : b = "payloadType" OBVIOUS
<1>3. PICK c : c = "deqOptions" OBVIOUS
<1>4. PICK d : d = "enqOptions" OBVIOUS
<1>5. PICK e : e = "first" OBVIOUS
<1>6. PICK g : g = "second" OBVIOUS
<1>7. PICK u : u = UnrefField(a) \o UnrefField(b) \o UnrefField(c)
                   \o UnrefField(d) \o UnrefField(e) \o UnrefField(g)
  OBVIOUS
<1>8. PICK k : k \in Queues /\ FreeSimple(k, u)
  BY <1>1, <1>2, <1>3, <1>4, <1>5, <1>6, <1>7 DEF FreeQueue
<1>9. Doing("free") /\ kind[Subject] = k BY <1>8 DEF FreeSimple
<1>10. RolesOf(kind[Subject]) = {a, b, c, d, e, g}
  <2>1. RolesOf(kind[Subject]) = {"conn", "payloadType", "deqOptions",
                                  "enqOptions", "first", "second"}
    BY <1>8, <1>9, RolesAre
  <2> QED BY <1>1, <1>2, <1>3, <1>4, <1>5, <1>6, <2>1
<1>11. /\ a # b /\ c \notin {a, b} /\ d \notin {a, b, c}
       /\ e \notin {a, b, c, d} /\ g \notin {a, b, c, d, e}
  BY <1>1, <1>2, <1>3, <1>4, <1>5, <1>6
<1>12. ReturnsAll(u, Subject) BY <1>7, <1>9, <1>10, <1>11, ReturnsSix
<1>13. k \notin StmtKinds \cup {"lob", "object"}
  BY <1>8 DEF Queues, StmtKinds, Queries
<1> QED BY <1>8, <1>12, <1>13, FreeSimpleKeeps

(* The handles that are in a list. *)
LEMMA FreedListed ==
    ASSUME Inv, Doing("free"), NEW l \in Lists, Listed[l] = {kind[Subject]},
           ~IsStmt(Subject), ClosingTypes, closing'[Subject],
           \A s \in Blocks \ {Subject} :
               closing'[s] = closing[s] /\ oci'[s] = oci[s],
           NEW u, ReturnsAll(u, Subject), GiveBack(u),
           UNCHANGED <<quota, mem, kind, refCount, user, lastRowid, lost>>
    PROVE  Inv'
<1>1. PICK w : w = Head(todo) OBVIOUS
<1>2. PICK x : x = Subject OBVIOUS
<1>3. /\ todo # <<>> /\ w.do \in {"free", "freeStmt"} /\ x = w.h
      /\ field' = [field EXCEPT ![x] = NoFields]
      /\ todo' = u \o <<FreeMemory(x)>> \o Tail(todo)
      /\ ReturnsAll(u, x)
  BY <1>1, <1>2 DEF Doing, Subject, GiveBack
<1>4. ~IsStmt(x) /\ StmtsUnchanged BY <1>2 DEF StmtsUnchanged
<1>5. ListedClosing(x) BY <1>2 DEF ListedClosing
<1> QED BY <1>1, <1>3, <1>4, <1>5, GiveBackStep

LEMMA FreeLobKeeps == ASSUME Inv, FreeLob, UNCHANGED varVars PROVE Inv'
<1>1. PICK a : a = "conn" OBVIOUS
<1>2. PICK u : u = UnrefField(a) OBVIOUS
<1>3. /\ Doing("free") /\ kind[Subject] = "lob" /\ GiveBack(u)
      /\ UNCHANGED <<quota, mem, kind, refCount, user, lastRowid, lost>>
  BY <1>1, <1>2 DEF FreeLob, varVars
<1>4. RolesOf(kind[Subject]) = {a} BY <1>1, <1>3, RolesAre
<1>5. ReturnsAll(u, Subject) BY <1>2, <1>3, <1>4, ReturnsOne
<1>6. Subject \in Blocks /\ mem[Subject] = "live"
  BY <1>3, FreedKeeps DEF KeepsFields
<1>7. /\ ClosingTypes /\ closing'[Subject]
      /\ \A s \in Blocks \ {Subject} :
            closing'[s] = closing[s] /\ oci'[s] = oci[s]
  <2>1. CASE closing[Subject] BY <2>1, StaysClosed DEF FreeLob
  <2>2. CASE ~closing[Subject]
    <3>1. LobClosed(Subject) BY <2>2 DEF FreeLob
    <3>2. closing \in [Blocks -> BOOLEAN] BY DEF Inv, HandlesTypes
    <3>3. closing'[Subject] BY <1>6, <3>1, <3>2 DEF LobClosed
    <3> QED BY <1>6, <3>1, <3>3, LobClosedTypes
  <2> QED BY <2>1, <2>2
<1>8. "openLobs" \in Lists /\ Listed["openLobs"] = {kind[Subject]}
  BY <1>3 DEF Lists, Listed
<1>9. ~IsStmt(Subject) BY <1>3 DEF IsStmt, StmtKinds, Queries
<1> QED BY <1>3, <1>5, <1>7, <1>8, <1>9, FreedListed

LEMMA FreeObjectKeeps == ASSUME Inv, FreeObject, UNCHANGED varVars PROVE Inv'
<1>1. PICK a : a = "type" OBVIOUS
<1>2. PICK b : b = "dependsOn" OBVIOUS
<1>3. PICK u : u = UnrefField(a) \o UnrefField(b) OBVIOUS
<1>4. /\ Doing("free") /\ kind[Subject] = "object" /\ GiveBack(u)
      /\ UNCHANGED <<quota, mem, kind, refCount, user, lastRowid, lost>>
  BY <1>1, <1>2, <1>3 DEF FreeObject, varVars
<1>5. RolesOf(kind[Subject]) = {a, b} /\ a # b BY <1>1, <1>2, <1>4, RolesAre
<1>6. ReturnsAll(u, Subject) BY <1>3, <1>4, <1>5, ReturnsTwo
<1>7. Subject \in Blocks /\ mem[Subject] = "live"
  BY <1>4, FreedKeeps DEF KeepsFields
<1>8. /\ ClosingTypes /\ closing'[Subject]
      /\ \A s \in Blocks \ {Subject} :
            closing'[s] = closing[s] /\ oci'[s] = oci[s]
  <2>1. CASE closing[Subject] BY <2>1, StaysClosed DEF FreeObject
  <2>2. CASE ~closing[Subject]
    <3>1. ObjectClosed(Subject) BY <2>2 DEF FreeObject
    <3>2. closing \in [Blocks -> BOOLEAN] BY DEF Inv, HandlesTypes
    <3>3. closing'[Subject] BY <1>7, <3>1, <3>2 DEF ObjectClosed
    <3> QED BY <1>7, <3>1, <3>3, ObjectClosedTypes
  <2> QED BY <2>1, <2>2
<1>9. "objects" \in Lists /\ Listed["objects"] = {kind[Subject]}
  BY <1>4 DEF Lists, Listed
<1>10. ~IsStmt(Subject) BY <1>4 DEF IsStmt, StmtKinds, Queries
<1> QED BY <1>4, <1>6, <1>8, <1>9, <1>10, FreedListed

LEMMA FreeStmtEndsKeeps == ASSUME Inv, FreeStmtEnds PROVE Inv'
<1>1. PICK a : a = "conn" OBVIOUS
<1>2. PICK u : u = UnrefField(a) OBVIOUS
<1>3. PICK w : w = Head(todo) OBVIOUS
<1>4. PICK x : x = Subject OBVIOUS
<1>5. PICK f : f = field[x] OBVIOUS
<1>6. PICK D : D = {a} OBVIOUS
<1>7. /\ todo # <<>> /\ w.do \in {"free", "freeStmt"} /\ x = w.h
      /\ field' = [field EXCEPT ![x] = NoFields]
      /\ todo' = u \o <<FreeMemory(x)>> \o Tail(todo)
      /\ Doing("freeStmt")
      /\ UNCHANGED <<quota, mem, kind, refCount, oci, closing, lists, user,
                     lastRowid, lost>>
  BY <1>1, <1>2, <1>3, <1>4
  DEF Doing, Subject, GiveBack, FreeStmtEnds, varVars, listVars
<1>8. x \in Blocks /\ KeepsFields(x) /\ IsStmt(x) /\ closing[x]
  BY <1>4, <1>7, FreedKeeps
<1>9. f.bind = NULL /\ f.column = NULL BY <1>5, <1>8 DEF Inv, StmtOK
<1>10. RolesOf(kind[x]) = {a, "bind", "column"}
  BY <1>1, <1>8, RolesAre DEF IsStmt
<1>11. f[a] \in Blocks \cup {NULL} BY <1>5, <1>8, <1>10, HoldsFields
<1>12. PICK v : v = UnrefOf(f[a]) OBVIOUS
<1>13. Gives(v, f, D) BY <1>6, <1>11, <1>12, GivesOne
<1>14. /\ D \subseteq RolesOf(kind[x])
       /\ \A q \in RolesOf(kind[x]) \ D :
             field[x][q] = NULL \/ kind[field[x][q]] = "json"
  BY <1>5, <1>6, <1>9, <1>10
<1>15. ReturnsAll(v, x) BY <1>5, <1>8, <1>13, <1>14, GivesAll
<1>16. u = v BY <1>2, <1>4, <1>5, <1>12 DEF UnrefField
<1>17. ClosingTypes /\ StmtsUnchanged /\ ListedClosing(x)
  BY <1>7, <1>8, StaysClosed DEF StmtsUnchanged, ListedClosing
<1> QED BY <1>3, <1>7, <1>8, <1>15, <1>16, <1>17, GiveBackStep

-----------------------------------------------------------------------------
(* New handles.  A block of memory that is not in use is nowhere.           *)
LEMMA KindsAreUsed ==
    /\ \A k, r : r \in RolesOf(k) => "none" \notin KindsOf(k, r)
    /\ \A l \in Lists : "none" \notin Listed[l]
<1>1. ASSUME NEW k, NEW r \in RolesOf(k) PROVE "none" \notin KindsOf(k, r)
  <2>1. r \in {"conn", "element", "belongsTo", "valueType", "type",
               "payloadType", "dependsOn", "payloadObj", "payloadJson",
               "deqOptions", "enqOptions", "first", "second", "db", "coll",
               "bind", "column", "value", "returned"}
    BY DEF RolesOf
  <2>2. r \in {"value", "returned"} => k \in VarKinds BY DEF RolesOf
  <2>3. k \in VarKinds => "none" \notin Contents(k)
    BY DEF Contents, ContentKinds, VarKinds, StmtKinds, Queries
  <2> QED BY <2>1, <2>2, <2>3 DEF KindsOf, VarKinds
<1> QED BY <1>1 DEF Lists, Listed, StmtKinds, Queries

LEMMA UnusedIs ==
    ASSUME Inv, NEW h \in Blocks, mem[h] = "unused"
    PROVE  /\ Dead(h) /\ ~KeepsFields(h) /\ kind[h] = "none" /\ h # Conn
           /\ field[h] = NoFields /\ ~closing[h] /\ lastRowid[h] = NULL
           /\ h \notin lost /\ user[h] = 0 /\ PendingIn(todo, h) = 0
           /\ PointersIn(field, h) = 0
           /\ RowidsIn(lastRowid, closing, h) = 0 /\ Forgotten(h) = 0
           /\ \A s \in Blocks : lastRowid[s] # h
           /\ \A x \in Blocks : KeepsFields(x) =>
                 \A r \in RolesOf(kind[x]) : field[x][r] # h
<1>1. Dead(h) /\ ~KeepsFields(h) BY DEF Dead, KeepsFields
<1>2. KindOK(h) /\ FieldsOK(h) /\ StmtOK(h) BY DEF Inv
<1>3. kind[h] = "none" /\ h # Conn /\ ~closing[h] BY <1>2 DEF KindOK, StmtOK
<1>4. lastRowid[h] = NULL /\ h \notin lost
  BY <1>2, <1>3 DEF KindOK, IsVar, VarKinds
<1>5. field[h] = NoFields BY <1>1, <1>2 DEF FieldsOK
<1>6. \A s \in Blocks : lastRowid[s] # h
  <2>1. \A s \in Blocks : lastRowid[s] # NULL => kind[lastRowid[s]] = "rowid"
    BY DEF Inv, KindOK
  <2> QED BY <1>3, <2>1, HandleTreeAssumption
<1>7. ASSUME NEW x \in Blocks, KeepsFields(x), NEW r \in RolesOf(kind[x])
      PROVE  field[x][r] # h
  <2>1. PointerOK(kind[x], r, field[x][r]) BY <1>7, HoldsFields DEF FieldsFit
  <2> QED BY <1>3, <2>1, KindsAreUsed, HandleTreeAssumption DEF PointerOK
<1> QED BY <1>1, <1>3, <1>4, <1>5, <1>6, <1>7, DeadUnheld

(* The blocks of new become handles.                                        *)
NoneFreed(works) ==
    \A y \in Blocks : /\ ~FreesIn(works, y) /\ ~ForgetsIn(works, y)
                      /\ ~Releases(works, y)
Born(new) ==
    /\ quota' = quota /\ closing' = closing
    /\ mem' \in [Blocks -> {"unused", "live", "freed"}]
    /\ \A y \in Blocks : mem'[y] = IF y \in new THEN "live" ELSE mem[y]
    /\ kind' = [y \in Blocks |-> kind'[y]]
    /\ \A y \in Blocks \ new : kind'[y] = kind[y]
    /\ \A y \in new : /\ kind'[y] \notin {"none", "conn"}
                      /\ kind'[y] = "stmtVar" => Allowed("stmtVar")
    /\ oci' = [y \in Blocks |-> oci'[y]]
    /\ \A y \in Blocks \ new : oci'[y] = oci[y]
    /\ refCount' \in [Blocks -> Int] /\ user' \in [Blocks -> Nat]
BornFields(new) ==
    /\ field' = [y \in Blocks |-> field'[y]]
    /\ \A y \in new : FieldsFit(kind[y], field[y])'
    /\ \A y \in Blocks \ new :
          \/ field'[y] = field[y]
          \/ KeepsFields(y) /\ FieldsFit(kind[y], field[y])'
             /\ (IsStmt(y) => ~closing[y])
BornListed(new) ==
    /\ lists' \in [Lists -> [Slots -> Blocks \cup {NULL}]]
    /\ \A l \in Lists, i \in Slots :
          \/ lists'[l][i] = lists[l][i]
          \/ lists'[l][i] \in new /\ kind'[lists'[l][i]] \in Listed[l]
BornElsewhere(new) ==
    /\ lastRowid' \in [Blocks -> Blocks \cup {NULL}]
    /\ \A s \in Blocks :
          \/ lastRowid'[s] = lastRowid[s]
          \/ /\ kind[s] = "dml" /\ Allowed("rowid")
             /\ lastRowid'[s] \in new /\ kind'[lastRowid'[s]] = "rowid"
    /\ lost' \subseteq lost \cup {y \in new : IsVar(y)'}

LEMMA BirthStep ==
    ASSUME Inv, NEW new \in SUBSET Blocks, \A y \in new : mem[y] = "unused",
           NoneFreed(todo), Born(new), BornFields(new), BornListed(new),
           BornElsewhere(new), todo' \in Seq(Works), Shape(todo'), WorksOK',
           EndOK', \A y \in Blocks : ~ForgetsIn(todo', y),
           \A y \in Blocks : CountOK(y)'
    PROVE  Inv'
<1>1. HandlesTypes'
  <2>1. lost' \subseteq Blocks BY DEF BornElsewhere, Inv, HandlesTypes
  <2>2. quota' \in Scenarios /\ closing' \in [Blocks -> BOOLEAN]
    BY DEF Born, Inv, HandlesTypes
  <2> QED BY <2>1, <2>2 DEF HandlesTypes, Born, BornFields, BornListed,
      BornElsewhere
<1>2. \A y \in Blocks : KeepsFields(y) <=> mem[y] = "live"
  BY DEF NoneFreed, KeepsFields
<1>3. \A y \in Blocks : KeepsFields(y)' <=> mem'[y] = "live" BY DEF KeepsFields
<1>4. /\ \A y \in new : /\ KeepsFields(y)' /\ ~closing'[y] /\ ~closing[y]
                        /\ mem'[y] = "live" /\ lastRowid[y] = NULL
                        /\ kind[y] = "none" /\ y \notin lost
                        /\ y # Conn
      /\ \A y \in Blocks \ new : /\ KeepsFields(y)' <=> KeepsFields(y)
                                 /\ kind'[y] = kind[y] /\ oci'[y] = oci[y]
                                 /\ mem'[y] = mem[y]
                                 /\ closing'[y] = closing[y]
  BY <1>2, <1>3, UnusedIs DEF Born
<1>5. ASSUME NEW p \in Blocks, kind[p] # "none" PROVE kind'[p] = kind[p]
  BY <1>4, <1>5
<1>6. ASSUME NEW h \in Blocks PROVE KindOK(h)'
  <2>1. KindOK(h) /\ lastRowid[h] \in Blocks \cup {NULL}
    BY DEF Inv, HandlesTypes
  <2>2. Allowed("rowid")' <=> Allowed("rowid") BY DEF Born, Allowed
  <2>3. Allowed("stmtVar")' <=> Allowed("stmtVar") BY DEF Born, Allowed
  <2>4. kind'[h] = "none" <=> mem'[h] = "unused" BY <1>4, <2>1 DEF KindOK, Born
  <2>5. kind'[h] = "conn" <=> h = Conn BY <1>4, <2>1 DEF KindOK, Born
  <2>6. kind'[h] = "stmtVar" => Allowed("stmtVar")'
    BY <1>4, <2>1, <2>3 DEF KindOK, Born
  <2>7. lastRowid'[h] # NULL => /\ kind'[h] = "dml" /\ Allowed("rowid")'
                                /\ kind'[lastRowid'[h]] = "rowid"
    <3>1. CASE lastRowid'[h] = lastRowid[h]
      <4>1. CASE h \in new BY <1>4, <3>1, <4>1
      <4>2. CASE h \notin new
        <5>1. lastRowid[h] # NULL => kind[lastRowid[h]] = "rowid"
          BY <2>1 DEF KindOK
        <5> QED BY <1>4, <1>5, <2>1, <2>2, <3>1, <4>2, <5>1 DEF KindOK
      <4> QED BY <4>1, <4>2
    <3>2. CASE lastRowid'[h] # lastRowid[h]
      <4>1. /\ kind[h] = "dml" /\ Allowed("rowid")
            /\ kind'[lastRowid'[h]] = "rowid"
        BY <3>2 DEF BornElsewhere
      <4> QED BY <1>5, <2>2, <4>1
    <3> QED BY <3>1, <3>2
  <2>8. h \in lost' => IsVar(h)'
    <3>1. CASE h \in lost
      <4>1. IsVar(h) /\ kind[h] # "none"
        BY <2>1, <3>1 DEF KindOK, IsVar, VarKinds
      <4> QED BY <1>5, <4>1 DEF IsVar
    <3> QED BY <3>1 DEF BornElsewhere
  <2> QED BY <2>4, <2>5, <2>6, <2>7, <2>8 DEF KindOK
<1>7. ASSUME NEW x \in Blocks PROVE FieldsOK(x)'
  <2>1. ASSUME FieldsFit(kind[x], field[x])', KeepsFields(x)'
        PROVE  FieldsOK(x)'
    BY <2>1 DEF FieldsFit, FieldsOK
  <2>2. CASE x \in new BY <1>4, <2>1, <2>2 DEF BornFields
  <2>3. CASE x \notin new /\ ~KeepsFields(x)
    <3>1. field'[x] = field[x] /\ ~KeepsFields(x)' BY <1>4, <2>3 DEF BornFields
    <3>2. FieldsOK(x) BY DEF Inv
    <3> QED BY <2>3, <3>1, <3>2 DEF FieldsOK
  <2>4. CASE x \notin new /\ KeepsFields(x) /\ field'[x] = field[x]
    <3>1. FieldsFit(kind[x], field[x]) BY <2>4, HoldsFields
    <3>2. kind'[x] = kind[x] /\ KeepsFields(x)' BY <1>4, <2>4
    <3>3. ASSUME NEW r \in RolesOf(kind[x])
          PROVE  PointerOK(kind[x], r, field[x][r])'
      <4>1. PICK p : p = field[x][r] OBVIOUS
      <4>2. p \in Blocks \cup {NULL} /\ PointerOK(kind[x], r, p)
        BY <3>1, <4>1 DEF FieldsFit
      <4>3. p # NULL => kind'[p] = kind[p]
        BY <1>5, <4>2, KindsAreUsed DEF PointerOK
      <4>4. PointerOK(kind[x], r, p)' BY <3>2, <4>2, <4>3 DEF PointerOK
      <4> QED BY <2>4, <4>1, <4>4
    <3>4. FieldsFit(kind[x], field[x])' BY <2>4, <3>1, <3>2, <3>3 DEF FieldsFit
    <3> QED BY <2>1, <3>2, <3>4
  <2>5. CASE x \notin new /\ field'[x] # field[x]
    BY <1>4, <2>1, <2>5 DEF BornFields
  <2> QED BY <2>2, <2>3, <2>4, <2>5
<1>8. ASSUME NEW s \in Blocks PROVE StmtOK(s)'
  <2>1. StmtOK(s) BY DEF Inv
  <2>2. CASE s \in new BY <1>4, <2>2 DEF StmtOK
  <2>3. CASE s \notin new
    <3>1. /\ IsStmt(s)' <=> IsStmt(s)
          /\ KeepsFields(s)' <=> KeepsFields(s)
          /\ mem'[s] = mem[s] /\ closing'[s] = closing[s] /\ oci'[s] = oci[s]
      BY <1>4, <2>3 DEF IsStmt
    <3>2. IsStmt(s) /\ closing[s] => field'[s] = field[s]
      BY <2>3 DEF BornFields
    <3>3. ~Releases(todo, s) BY DEF NoneFreed
    <3> HIDE DEF Inv, KeepsFields, IsStmt, Releases
    <3> QED BY <2>1, <3>1, <3>2, <3>3 DEF StmtOK
  <2> QED BY <2>2, <2>3
<1>9. ListsOK'
  <2> SUFFICES ASSUME NEW l \in Lists, NEW i \in Slots
               PROVE  ListedOK(l, lists[l][i])'
    BY DEF ListsOK
  <2>1. PICK h : h = lists'[l][i] OBVIOUS
  <2>2. CASE h \in new
    <3>1. h # lists[l][i] => kind'[h] \in Listed[l] BY <2>1 DEF BornListed
    <3>2. h = lists[l][i] => kind[h] \in Listed[l]
      BY <2>2, HandleTreeAssumption DEF Inv, ListsOK, ListedOK
    <3>3. h # lists[l][i] BY <1>4, <2>2, <3>2, KindsAreUsed
    <3> QED BY <1>4, <2>1, <2>2, <3>1, <3>3 DEF ListedOK
  <2>3. CASE h \notin new
    <3>1. h = lists[l][i] /\ h \in Blocks \cup {NULL}
      BY <2>1, <2>3 DEF BornListed, Inv, HandlesTypes
    <3>2. ListedOK(l, h) BY <3>1 DEF Inv, ListsOK
    <3>3. ListedOK(l, h)' BY <1>4, <2>3, <3>1, <3>2 DEF ListedOK
    <3> QED BY <2>1, <3>3 DEF ListedOK
  <2> QED BY <2>2, <2>3
<1> QED BY <1>1, <1>6, <1>7, <1>8, <1>9 DEF Inv

(* The pointers of a new handle, and one to it.                             *)
Turned(F, G, x, y) ==
    /\ PointersIn(F, y) \in Nat /\ PointersIn(G, y) \in Nat
    /\ CountOf(F[x], y) \in Nat /\ CountOf(G[x], y) \in Nat
    /\ PointersIn(G, y) =
           PointersIn(F, y) - CountOf(F[x], y) + CountOf(G[x], y)
LEMMA PointersTurn ==
    ASSUME NEW F, FiniteFields(F), NEW G, FiniteFields(G), NEW x \in Blocks,
           \A y \in Blocks \ {x} : G[y] = F[y], NEW h
    PROVE  Turned(F, G, x, h)
<1>1. PointersIn(F, h) \in Nat /\ PointersIn(G, h) \in Nat BY PointersNat
<1>2. CountOf(F[x], h) \in Nat BY PointersSplit
<1>3. CountOf(G[x], h) \in Nat BY PointersSplit
<1>4. PointersIn(G, h) =
          PointersIn(F, h) - CountOf(F[x], h) + CountOf(G[x], h)
  BY PointersChange
<1> QED BY <1>1, <1>2, <1>3, <1>4 DEF Turned

PointersGrow(F, f) ==
    /\ FiniteFields(F)
    /\ \A y \in Blocks :
          /\ PointersIn(F, y) \in Nat /\ CountOf(f, y) \in Nat
          /\ PointersIn(F, y) = PointersIn(field, y) + CountOf(f, y)
LEMMA PointersBorn ==
    ASSUME Inv, NEW h \in Blocks, mem[h] = "unused", NEW f,
           IsFiniteSet(DOMAIN f), NEW F, F = [field EXCEPT ![h] = f]
    PROVE  PointersGrow(F, f)
<1>1. FiniteFields(field) /\ field[h] = NoFields BY FieldsFinite, UnusedIs
<1>2. DOMAIN field = Blocks BY DEF Inv, HandlesTypes
<1>3. F[h] = f /\ \A y \in Blocks \ {h} : F[y] = field[y] BY <1>2
<1>4. FiniteFields(F) BY <1>1, <1>3 DEF FiniteFields
<1>5. ASSUME NEW y \in Blocks
      PROVE  /\ PointersIn(F, y) \in Nat /\ CountOf(f, y) \in Nat
             /\ PointersIn(F, y) = PointersIn(field, y) + CountOf(f, y)
  <2>1. CountOf(field[h], y) = 0
    <3>1. {r \in DOMAIN NoFields : NoFields[r] = y} = {} BY DEF NoFields
    <3> QED BY <1>1, <3>1, FS_EmptySet DEF CountOf
  <2>2. Turned(field, F, h, y) BY <1>1, <1>3, <1>4, PointersTurn
  <2> QED BY <1>3, <2>1, <2>2 DEF Turned
<1> QED BY <1>4, <1>5 DEF PointersGrow

PointersSwap(F, G, old, h) ==
    /\ FiniteFields(G)
    /\ \A y \in Blocks :
          /\ PointersIn(G, y) \in Nat
          /\ PointersIn(G, y) = PointersIn(F, y) - Is(old, y) + Is(h, y)
LEMMA PointersHeld ==
    ASSUME NEW F, FiniteFields(F), NEW x \in Blocks, NEW r \in DOMAIN F[x],
           NEW G, \A y \in Blocks \ {x} : G[y] = F[y],
           DOMAIN G[x] = DOMAIN F[x],
           \A z \in DOMAIN F[x] : z # r => G[x][z] = F[x][z]
    PROVE  PointersSwap(F, G, F[x][r], G[x][r])
<1>1. IsFiniteSet(DOMAIN F[x]) /\ FiniteFields(G) BY DEF FiniteFields
<1>2. PICK f : f = F[x] OBVIOUS
<1>3. PICK g : g = G[x] OBVIOUS
<1>4. /\ IsFiniteSet(DOMAIN f) /\ r \in DOMAIN f /\ DOMAIN g = DOMAIN f
      /\ \A z \in DOMAIN f : z # r => g[z] = f[z]
  BY <1>1, <1>2, <1>3
<1>5. ASSUME NEW y \in Blocks
      PROVE  /\ PointersIn(G, y) \in Nat
             /\ PointersIn(G, y) =
                    PointersIn(F, y) - Is(f[r], y) + Is(g[r], y)
  <2>1. CountOf(g, y) = CountOf(f, y) - Is(f[r], y) + Is(g[r], y)
    BY <1>4, CountChanged
  <2>2. Turned(F, G, x, y) BY <1>1, PointersTurn
  <2>3. Is(f[r], y) \in Nat /\ Is(g[r], y) \in Nat BY DEF Is
  <2> HIDE DEF Is
  <2> QED BY <1>2, <1>3, <2>1, <2>2, <2>3 DEF Turned
<1> QED BY <1>1, <1>2, <1>3, <1>5 DEF PointersSwap

LEMMA NoVarsIn ==
    \A k, r : k \notin StmtKinds /\ r \in RolesOf(k) =>
        KindsOf(k, r) \cap VarKinds = {}
<1> SUFFICES ASSUME NEW k, NEW r, k \notin StmtKinds, r \in RolesOf(k)
             PROVE  KindsOf(k, r) \cap VarKinds = {}
  OBVIOUS
<1>1. r \in {"conn", "element", "belongsTo", "valueType", "type",
             "payloadType", "dependsOn", "payloadObj", "payloadJson",
             "deqOptions", "enqOptions", "first", "second", "db", "coll",
             "value", "returned"}
  BY DEF RolesOf
<1>2. r \in {"value", "returned"} => k \in VarKinds BY DEF RolesOf
<1>3. k \in VarKinds => Contents(k) \cap VarKinds = {}
  BY DEF Contents, ContentKinds, VarKinds, StmtKinds, Queries
<1> QED BY <1>1, <1>2, <1>3 DEF KindsOf, VarKinds

(* A new handle takes references to handles that are there.                 *)
Takes(h, k, f) ==
    /\ FieldsFit(k, f)
    /\ \A r \in RolesOf(k) : f[r] # NULL => mem[f[r]] = "live"
    /\ refCount' = [y \in Blocks |->
                       IF y = h THEN 1 ELSE refCount[y] + CountOf(f, y)]
CountsBorn(h, f) ==
    /\ Counted(h)' = IF FreesIn(todo', h) THEN 0 ELSE 1
    /\ \A y \in Blocks \ {h} :
          IF FreesIn(todo', y) THEN Counted(y)' = 0
          ELSE /\ Counted(y)' \in Nat
               /\ \/ Counted(y)' = Counted(y) + CountOf(f, y)
                  \/ /\ kind[y] = "json"
                     /\ Counted(y)' <= Counted(y) + CountOf(f, y)

LEMMA TakesFrom ==
    ASSUME Inv, NEW h \in Blocks, mem[h] = "unused", NEW k, NEW f,
           Takes(h, k, f)
    PROVE  /\ IsFiniteSet(DOMAIN f) /\ DOMAIN f = RolesOf(k)
           /\ \A y \in Blocks : CountOf(f, y) \in Nat
           /\ \A y \in Blocks : mem[y] # "live" => CountOf(f, y) = 0
           /\ CountOf(f, h) = 0
           /\ \A y \in Blocks : IsVar(y) /\ k \notin StmtKinds =>
                                    CountOf(f, y) = 0
<1>1. DOMAIN f = RolesOf(k) /\ IsFiniteSet(DOMAIN f)
  BY RolesFinite DEF Takes, FieldsFit
<1>2. ASSUME NEW y \in Blocks, \A r \in DOMAIN f : f[r] # y
      PROVE  CountOf(f, y) = 0
  <2>1. {r \in DOMAIN f : f[r] = y} = {} BY <1>2
  <2> QED BY <2>1, FS_EmptySet DEF CountOf
<1>3. ASSUME NEW y \in Blocks PROVE CountOf(f, y) \in Nat
  BY <1>1, FS_Subset, FS_CardinalityType DEF CountOf
<1>4. ASSUME NEW y \in Blocks, mem[y] # "live" PROVE CountOf(f, y) = 0
  BY <1>1, <1>2, <1>4, HandleTreeAssumption DEF Takes
<1>5. CountOf(f, h) = 0 BY <1>4
<1>6. ASSUME NEW y \in Blocks, IsVar(y), k \notin StmtKinds
      PROVE  CountOf(f, y) = 0
  <2>1. ASSUME NEW r \in DOMAIN f PROVE f[r] # y
    <3>1. PointerOK(k, r, f[r]) /\ y # NULL /\ r \in RolesOf(k)
      BY <1>1, HandleTreeAssumption DEF Takes, FieldsFit
    <3>2. KindsOf(k, r) \cap VarKinds = {} BY <1>6, <3>1, NoVarsIn
    <3> QED BY <1>6, <3>1, <3>2 DEF PointerOK, IsVar
  <2> QED BY <1>2, <2>1
<1> QED BY <1>1, <1>3, <1>4, <1>5, <1>6

LEMMA BornCounted ==
    ASSUME Inv, NEW h \in Blocks, mem[h] = "unused", NEW k, NEW f,
           Takes(h, k, f), NoneFreed(todo), kind'[h] = k,
           \A y \in Blocks : mem'[y] = IF y = h THEN "live" ELSE mem[y],
           \A y \in Blocks \ {h} : kind'[y] = kind[y],
           CountsBorn(h, f)
    PROVE  \A y \in Blocks : CountOK(y)'
<1> SUFFICES ASSUME NEW y \in Blocks PROVE CountOK(y)' OBVIOUS
<1>1. Dead(y)' <=> mem'[y] # "live" \/ FreesIn(todo', y) BY DEF Dead
<1>2. Dead(y) <=> mem[y] # "live" BY DEF Dead, NoneFreed
<1>3. CASE y = h
  <2>1. refCount'[y] = 1 BY <1>3 DEF Takes
  <2>2. CASE FreesIn(todo', y)
    <3>1. Counted(y)' = 0 BY <1>3, <2>2 DEF CountsBorn
    <3> QED BY <1>1, <2>2, <3>1 DEF CountOK
  <2>3. CASE ~FreesIn(todo', y)
    <3>1. Counted(y)' = 1 /\ ~Dead(y)' BY <1>1, <1>3, <2>3 DEF CountsBorn
    <3> QED BY <2>1, <3>1 DEF CountOK
  <2> QED BY <2>2, <2>3
<1>4. CASE y # h
  <2>1. /\ refCount'[y] = refCount[y] + CountOf(f, y) /\ mem'[y] = mem[y]
        /\ kind'[y] = kind[y]
    BY <1>4 DEF Takes
  <2>2. CountOf(f, y) \in Nat /\ (mem[y] # "live" => CountOf(f, y) = 0)
    BY TakesFrom
  <2>3. CASE FreesIn(todo', y)
    <3>1. Counted(y)' = 0 BY <1>4, <2>3 DEF CountsBorn
    <3> QED BY <1>1, <2>3, <3>1 DEF CountOK
  <2>4. CASE ~FreesIn(todo', y)
    <3>1. PICK c : c = Counted(y)' OBVIOUS
    <3>2. /\ c \in Nat
          /\ \/ c = Counted(y) + CountOf(f, y)
             \/ kind[y] = "json" /\ c <= Counted(y) + CountOf(f, y)
      BY <1>4, <2>4, <3>1 DEF CountsBorn
    <3>3. CountOK(y) /\ refCount[y] \in Int /\ Counted(y) \in Nat
      BY Parts DEF Inv
    <3>4. CASE Dead(y)
      <4>1. c = 0 BY <1>2, <2>2, <3>2, <3>3, <3>4 DEF CountOK
      <4>2. Dead(y)' BY <1>1, <1>2, <2>1, <3>4
      <4> QED BY <3>1, <4>1, <4>2 DEF CountOK
    <3>5. CASE ~Dead(y)
      <4>1. ~Dead(y)' BY <1>1, <1>2, <2>1, <2>4, <3>5
      <4>2. /\ refCount'[y] >= 1 /\ refCount'[y] >= c
            /\ kind[y] # "json" => refCount'[y] = c
        BY <2>1, <2>2, <3>2, <3>3, <3>5 DEF CountOK
      <4> QED BY <2>1, <3>1, <4>1, <4>2 DEF CountOK
    <3> QED BY <3>4, <3>5
  <2> QED BY <2>3, <2>4
<1> QED BY <1>3, <1>4

(* One new handle, of kind k and with the fields f.                         *)
OciOf(h) == oci' = oci \/ \E o : oci' = [oci EXCEPT ![h] = o]
NewHandle(h, k, f) ==
    /\ mem[h] = "unused"
    /\ mem' = [mem EXCEPT ![h] = "live"]
    /\ kind' = [kind EXCEPT ![h] = k]
    /\ k \notin {"none", "conn"} /\ (k = "stmtVar" => Allowed("stmtVar"))
    /\ Takes(h, k, f)
    /\ quota' = quota /\ closing' = closing /\ OciOf(h)
    /\ UserTyped
NewSlot(h, k) ==
    \/ lists' = lists
    \/ \E l \in Lists : k \in Listed[l] /\ AddHandle(l, h)
CallsFine ==
    /\ todo' \in Seq(Works) /\ Shape(todo') /\ WorksOK' /\ EndOK'
    /\ \A y \in Blocks : ~ForgetsIn(todo', y)

LEMMA OneBorn ==
    ASSUME Inv, NEW h \in Blocks, NEW k, NEW f, NewHandle(h, k, f)
    PROVE  /\ Born({h})
           /\ \A y \in Blocks : mem'[y] = IF y = h THEN "live" ELSE mem[y]
           /\ kind'[h] = k /\ \A y \in Blocks \ {h} : kind'[y] = kind[y]
           /\ mem[h] = "unused" /\ Takes(h, k, f)
<1>1. /\ mem \in [Blocks -> {"unused", "live", "freed"}]
      /\ kind = [x \in Blocks |-> kind[x]] /\ oci = [x \in Blocks |-> oci[x]]
      /\ refCount \in [Blocks -> Int]
  BY DEF Inv, HandlesTypes
<1>2. /\ mem' \in [Blocks -> {"unused", "live", "freed"}]
      /\ \A y \in Blocks : mem'[y] = IF y = h THEN "live" ELSE mem[y]
  BY <1>1 DEF NewHandle
<1>3. /\ kind' = [y \in Blocks |-> kind'[y]] /\ kind'[h] = k
      /\ \A y \in Blocks \ {h} : kind'[y] = kind[y]
  BY <1>1 DEF NewHandle
<1>4. /\ oci' = [y \in Blocks |-> oci'[y]]
      /\ \A y \in Blocks \ {h} : oci'[y] = oci[y]
  BY <1>1 DEF NewHandle, OciOf
<1>5. refCount' \in [Blocks -> Int]
  <2>1. \A y \in Blocks : CountOf(f, y) \in Nat BY TakesFrom DEF NewHandle
  <2> QED BY <1>1, <2>1 DEF NewHandle, Takes
<1> QED BY <1>2, <1>3, <1>4, <1>5 DEF NewHandle, Born, UserTyped

LEMMA OneListed ==
    ASSUME Inv, NEW h \in Blocks, NEW k, kind'[h] = k, NewSlot(h, k)
    PROVE  BornListed({h})
<1>1. lists \in [Lists -> [Slots -> Blocks \cup {NULL}]]
  BY DEF Inv, HandlesTypes
<1>2. CASE lists' = lists BY <1>1, <1>2 DEF BornListed
<1>3. ASSUME NEW l \in Lists, k \in Listed[l], AddHandle(l, h)
      PROVE  BornListed({h})
  <2>1. PICK i : lists' = [lists EXCEPT ![l][i] = h] BY <1>3 DEF AddHandle
  <2>2. PICK a : a = [lists[l] EXCEPT ![i] = h] OBVIOUS
  <2>3. /\ a \in [Slots -> Blocks \cup {NULL}]
        /\ \A j \in Slots : a[j] \in {lists[l][j], h}
    BY <1>1, <2>2
  <2>4. lists' = [lists EXCEPT ![l] = a] BY <2>1, <2>2
  <2>5. /\ lists' \in [Lists -> [Slots -> Blocks \cup {NULL}]]
        /\ lists'[l] = a /\ \A m \in Lists \ {l} : lists'[m] = lists[m]
    BY <1>1, <2>3, <2>4
  <2>6. ASSUME NEW m \in Lists, NEW j \in Slots
        PROVE  \/ lists'[m][j] = lists[m][j]
               \/ lists'[m][j] = h /\ m = l
    BY <2>3, <2>5
  <2> QED BY <1>3, <2>5, <2>6 DEF BornListed
<1> QED BY <1>2, <1>3 DEF NewSlot

LEMMA FitsAfter ==
    ASSUME Inv, NEW h, mem[h] = "unused", h \in Blocks,
           \A y \in Blocks \ {h} : kind'[y] = kind[y],
           NEW k, NEW f, FieldsFit(k, f)
    PROVE  /\ FieldsFit(k, f)'
           /\ \A r \in RolesOf(k) : f[r] # h
<1>1. kind[h] = "none" /\ h # NULL BY UnusedIs, HandleTreeAssumption
<1>2. \A r \in RolesOf(k) : f[r] # h
  BY <1>1, KindsAreUsed DEF FieldsFit, PointerOK
<1>3. ASSUME NEW r \in RolesOf(k) PROVE PointerOK(k, r, f[r])'
  <2>1. PICK p : p = f[r] OBVIOUS
  <2>2. PointerOK(k, r, p) /\ p \in Blocks \cup {NULL} /\ p # h
    BY <1>2, <2>1 DEF FieldsFit
  <2>3. PointerOK(k, r, p)' BY <2>2 DEF PointerOK
  <2> QED BY <2>1, <2>3
<1> QED BY <1>2, <1>3 DEF FieldsFit

(* The pointers after a handle with the fields f is new, held points to it  *)
(* and old no longer to what it did; and all other references.              *)
PointersAfter(f, old, held) ==
    \A y \in Blocks :
        /\ PointersIn(field', y) \in Nat
        /\ PointersIn(field', y) =
               PointersIn(field, y) + CountOf(f, y) - Is(old, y) + Is(held, y)
Owned(y) == user[y] + PendingIn(todo, y) + RowidsIn(lastRowid, closing, y)
            + Forgotten(y)
OwnedAfter(h, f, old, held) ==
    /\ Owned(h)' + Is(held, h) = IF FreesIn(todo', h) THEN 0 ELSE 1
    /\ \A y \in Blocks \ {h} :
          \/ /\ ~FreesIn(todo', y)
             /\ \/ Owned(y)' = Owned(y) + Is(old, y)
                \/ kind[y] = "json" /\ Owned(y)' = Owned(y)
          \/ /\ FreesIn(todo', y) /\ Counted(y) = 1 /\ CountOf(f, y) = 0
             /\ old = NULL /\ Owned(y)' + 1 = Owned(y)

LEMMA AloneFields ==
    ASSUME Inv, NEW h \in Blocks, NEW k, NEW f, NewHandle(h, k, f),
           field' = [field EXCEPT ![h] = f]
    PROVE  BornFields({h}) /\ PointersAfter(f, NULL, NULL)
<1>1. /\ kind'[h] = k /\ \A y \in Blocks \ {h} : kind'[y] = kind[y]
      /\ mem[h] = "unused" /\ Takes(h, k, f)
  BY OneBorn
<1>2. /\ field' = [y \in Blocks |-> field'[y]] /\ field'[h] = f
      /\ \A y \in Blocks \ {h} : field'[y] = field[y]
  BY DEF Inv, HandlesTypes
<1>3. FieldsFit(k, f) BY <1>1 DEF Takes
<1>4. FieldsFit(k, f)' BY <1>1, <1>3, FitsAfter
<1>5. FieldsFit(kind[h], field[h])'
  BY <1>1, <1>2, <1>4 DEF FieldsFit, PointerOK
<1>6. IsFiniteSet(DOMAIN f) BY <1>1, TakesFrom
<1>7. PICK F : F = field' OBVIOUS
<1>8. PointersGrow(F, f) BY <1>1, <1>6, <1>7, PointersBorn
<1>9. \A y \in Blocks : Is(NULL, y) = 0 BY HandleTreeAssumption DEF Is
<1>10. ASSUME NEW y \in Blocks
       PROVE  /\ PointersIn(F, y) \in Nat
              /\ PointersIn(F, y) = PointersIn(field, y) + CountOf(f, y)
                                    - Is(NULL, y) + Is(NULL, y)
  <2>1. PointersIn(field, y) \in Nat BY FieldsFinite, PointersNat
  <2> QED BY <1>8, <1>9, <2>1 DEF PointersGrow
<1>11. PointersAfter(f, NULL, NULL) BY <1>7, <1>10 DEF PointersAfter
<1> QED BY <1>2, <1>5, <1>11 DEF BornFields

HeldIn(h, k, f, x, r) ==
    /\ KeepsFields(x) /\ r \in RolesOf(kind[x]) /\ k \in KindsOf(kind[x], r)
    /\ IsStmt(x) => ~closing[x]
    /\ field' = [y \in Blocks |-> field'[y]] /\ field'[h] = f
    /\ \A y \in Blocks \ {h, x} : field'[y] = field[y]
    /\ field'[x] = [field[x] EXCEPT ![r] = h]

LEMMA HeldFields ==
    ASSUME Inv, NEW h \in Blocks, NEW k, NEW f, NewHandle(h, k, f),
           NEW x \in Blocks, NEW r, HeldIn(h, k, f, x, r)
    PROVE  BornFields({h}) /\ PointersAfter(f, field[x][r], h)
<1>1. /\ kind'[h] = k /\ \A y \in Blocks \ {h} : kind'[y] = kind[y]
      /\ mem[h] = "unused" /\ Takes(h, k, f) /\ h # NULL
  BY OneBorn, HandleTreeAssumption
<1>2. x # h BY <1>1, UnusedIs DEF HeldIn
<1>3. FieldsFit(k, f) BY <1>1 DEF Takes
<1>4. FieldsFit(k, f)' BY <1>1, <1>3, FitsAfter
<1>5. FieldsFit(kind[h], field[h])'
  BY <1>1, <1>4 DEF FieldsFit, PointerOK, HeldIn
<1>6. PICK a : a = field[x] OBVIOUS
<1>7. PICK b : b = [a EXCEPT ![r] = h] OBVIOUS
<1>8. field'[x] = b BY <1>6, <1>7 DEF HeldIn
<1>9. FieldsFit(kind[x], a) /\ DOMAIN a = RolesOf(kind[x])
  BY <1>6, HoldsFields DEF HeldIn
<1>10. \A q \in RolesOf(kind[x]) : a[q] # h BY <1>1, <1>9, FitsAfter
<1>11. /\ b \in [RolesOf(kind[x]) -> Blocks \cup {NULL}] /\ b[r] = h
       /\ r \in RolesOf(kind[x]) /\ DOMAIN b = DOMAIN a
       /\ \A q \in RolesOf(kind[x]) : q # r => b[q] = a[q]
  BY <1>7, <1>9 DEF FieldsFit, HeldIn
<1>12. ASSUME NEW q \in RolesOf(kind[x]) PROVE PointerOK(kind[x], q, b[q])'
  <2>1. PointerOK(kind[x], q, a[q])'
    <3>1. PICK p : p = a[q] OBVIOUS
    <3>2. PointerOK(kind[x], q, p) /\ p # h /\ p \in Blocks \cup {NULL}
      BY <1>9, <1>10, <3>1 DEF FieldsFit
    <3>3. PointerOK(kind[x], q, p)' BY <1>1, <1>2, <3>2 DEF PointerOK
    <3> QED BY <3>1, <3>3
  <2>2. CASE q # r
    <3>1. b[q] = a[q] BY <1>11, <2>2
    <3> QED BY <2>1, <3>1
  <2>3. CASE q = r
    <3>1. b[q] = h /\ kind'[h] = k /\ k \in KindsOf(kind[x], q)
      BY <1>1, <1>11, <2>3 DEF HeldIn
    <3>2. kind'[x] = kind[x] BY <1>1, <1>2
    <3> QED BY <1>1, <3>1, <3>2 DEF PointerOK
  <2> QED BY <2>2, <2>3
<1>13. kind[x] \in Queues /\ b.first = b.second => b.first = NULL
  <2> HAVE kind[x] \in Queues /\ b.first = b.second
  <2>1. "first" \in RolesOf(kind[x]) /\ "second" \in RolesOf(kind[x])
    BY RolesAre
  <2>2. a.first = a.second => a.first = NULL BY <1>9 DEF FieldsFit
  <2>3. a["first"] # h /\ a["second"] # h BY <1>10, <2>1
  <2> QED BY <1>11, <2>1, <2>2, <2>3
<1>14. FieldsFit(kind[x], field[x])'
  <2>1. PICK m : m = kind[x] OBVIOUS
  <2>2. kind'[x] = m BY <1>1, <1>2, <2>1
  <2>3. ASSUME NEW q \in RolesOf(m) PROVE PointerOK(m, q, b[q])'
    BY <1>12, <2>1, <2>2 DEF PointerOK
  <2>4. FieldsFit(m, b)' BY <1>11, <1>13, <2>1, <2>3 DEF FieldsFit
  <2> QED BY <1>8, <2>2, <2>4 DEF FieldsFit, PointerOK
<1>15. BornFields({h})
  <2>1. \A y \in Blocks \ {h} : y # x => field'[y] = field[y] BY DEF HeldIn
  <2> QED BY <1>5, <1>14, <2>1 DEF BornFields, HeldIn
<1>16. PICK F : F = [field EXCEPT ![h] = f] OBVIOUS
<1>17. /\ F[x] = a /\ F[h] = f /\ \A y \in Blocks \ {h} : F[y] = field[y]
  BY <1>2, <1>6, <1>16 DEF Inv, HandlesTypes
<1>18. PICK G : G = field' OBVIOUS
<1>19. /\ \A y \in Blocks \ {x} : G[y] = F[y]
       /\ G[x] = b
  BY <1>8, <1>17, <1>18 DEF HeldIn
<1>20. IsFiniteSet(DOMAIN f) BY <1>1, TakesFrom
<1>21. PointersGrow(F, f) BY <1>1, <1>16, <1>20, PointersBorn
<1>22. /\ r \in DOMAIN F[x] /\ DOMAIN G[x] = DOMAIN F[x]
       /\ \A z \in DOMAIN F[x] : z # r => G[x][z] = F[x][z]
  BY <1>9, <1>11, <1>17, <1>19
<1>23. PointersSwap(F, G, F[x][r], G[x][r])
  BY <1>19, <1>21, <1>22, PointersHeld DEF PointersGrow
<1>24. PointersSwap(F, G, a[r], h) BY <1>11, <1>17, <1>19, <1>23
<1>25. ASSUME NEW y \in Blocks
       PROVE  /\ PointersIn(G, y) \in Nat
              /\ PointersIn(G, y) = PointersIn(field, y) + CountOf(f, y)
                                    - Is(a[r], y) + Is(h, y)
  <2>1. PointersIn(field, y) \in Nat BY FieldsFinite, PointersNat
  <2>2. Is(a[r], y) \in Nat /\ Is(h, y) \in Nat BY DEF Is
  <2>3. /\ PointersIn(F, y) \in Nat /\ CountOf(f, y) \in Nat
        /\ PointersIn(F, y) = PointersIn(field, y) + CountOf(f, y)
    BY <1>21 DEF PointersGrow
  <2>4. /\ PointersIn(G, y) \in Nat
        /\ PointersIn(G, y) = PointersIn(F, y) - Is(a[r], y) + Is(h, y)
    BY <1>24 DEF PointersSwap
  <2> HIDE DEF Is
  <2> QED BY <2>1, <2>2, <2>3, <2>4
<1>26. PointersAfter(f, a[r], h) BY <1>18, <1>25 DEF PointersAfter
<1> QED BY <1>6, <1>15, <1>26

LEMMA OwnedTyped ==
    ASSUME Inv, UserTyped, CallsFine, NEW y \in Blocks,
           PointersIn(field', y) \in Nat
    PROVE  /\ Owned(y) \in Nat /\ Owned(y)' \in Nat
           /\ PointersIn(field, y) \in Nat
           /\ Counted(y) = Owned(y) + PointersIn(field, y)
           /\ Counted(y)' = Owned(y)' + PointersIn(field', y)
<1>1. /\ user[y] \in Nat /\ PendingIn(todo, y) \in Nat
      /\ PointersIn(field, y) \in Nat
      /\ RowidsIn(lastRowid, closing, y) \in Nat /\ Forgotten(y) \in Nat
  BY Parts
<1>2. user'[y] \in Nat /\ PendingIn(todo', y) \in Nat
  BY PendingFinite DEF UserTyped, CallsFine
<1>3. RowidsIn(lastRowid, closing, y)' \in Nat
  BY HandleTreeAssumption, FS_Subset, FS_CardinalityType DEF RowidsIn
<1>4. Forgotten(y)' \in Nat BY DEF Forgotten
<1>5. Owned(y) \in Nat /\ Owned(y)' \in Nat BY <1>1, <1>2, <1>3, <1>4 DEF Owned
<1>6. Counted(y) = Owned(y) + PointersIn(field, y) BY <1>1 DEF Owned, Counted
<1>7. Counted(y)' = Owned(y)' + PointersIn(field', y)
  BY <1>2, <1>3, <1>4 DEF Owned, Counted
<1> QED BY <1>1, <1>5, <1>6, <1>7

LEMMA BornOwned ==
    ASSUME Inv, NEW h \in Blocks, NEW k, NEW f, NewHandle(h, k, f), CallsFine,
           NEW old, NEW held \in {h, NULL}, PointersAfter(f, old, held),
           OwnedAfter(h, f, old, held), old # h
    PROVE  CountsBorn(h, f)
<1>1. mem[h] = "unused" /\ Takes(h, k, f) /\ UserTyped BY OneBorn DEF NewHandle
<1>2. ASSUME NEW y \in Blocks
      PROVE  /\ Owned(y) \in Nat /\ Owned(y)' \in Nat
             /\ PointersIn(field, y) \in Nat /\ PointersIn(field', y) \in Nat
             /\ Counted(y) = Owned(y) + PointersIn(field, y)
             /\ Counted(y)' = Owned(y)' + PointersIn(field', y)
             /\ PointersIn(field', y) = PointersIn(field, y) + CountOf(f, y)
                                        - Is(old, y) + Is(held, y)
  BY <1>1, OwnedTyped DEF PointersAfter
<1>3. Counted(h)' = IF FreesIn(todo', h) THEN 0 ELSE 1
  <2>1. PointersIn(field, h) = 0 /\ CountOf(f, h) = 0
    BY <1>1, UnusedIs, TakesFrom
  <2>2. Is(old, h) = 0 BY DEF Is
  <2>3. PointersIn(field', h) = Is(held, h) /\ Is(held, h) \in {0, 1}
    <3>1. Is(held, h) \in {0, 1} BY DEF Is
    <3>2. PointersIn(field', h) = PointersIn(field, h) + CountOf(f, h)
                                  - Is(old, h) + Is(held, h)
      BY DEF PointersAfter
    <3> HIDE DEF Is
    <3> QED BY <2>1, <2>2, <3>1, <3>2
  <2>4. Owned(h)' + Is(held, h) = IF FreesIn(todo', h) THEN 0 ELSE 1
    BY DEF OwnedAfter
  <2> QED BY <1>2, <2>3, <2>4
<1>4. ASSUME NEW y \in Blocks \ {h}
      PROVE  IF FreesIn(todo', y) THEN Counted(y)' = 0
             ELSE /\ Counted(y)' \in Nat
                  /\ \/ Counted(y)' = Counted(y) + CountOf(f, y)
                     \/ /\ kind[y] = "json"
                        /\ Counted(y)' <= Counted(y) + CountOf(f, y)
  <2>1. Is(held, y) = 0 BY HandleTreeAssumption DEF Is
  <2>2. CountOf(f, y) \in Nat /\ Is(old, y) \in {0, 1}
    BY <1>1, TakesFrom DEF Is
  <2>3. PointersIn(field', y) =
            PointersIn(field, y) + CountOf(f, y) - Is(old, y)
    BY <1>2, <2>1, <2>2
  <2>4. CASE ~FreesIn(todo', y) /\ Owned(y)' = Owned(y) + Is(old, y)
    <3>1. Counted(y)' = Counted(y) + CountOf(f, y) /\ Counted(y)' \in Nat
      BY <1>2, <2>2, <2>3, <2>4
    <3> QED BY <2>4, <3>1
  <2>5. CASE /\ ~FreesIn(todo', y)
             /\ kind[y] = "json" /\ Owned(y)' = Owned(y)
    <3>1. /\ Counted(y)' <= Counted(y) + CountOf(f, y)
          /\ Counted(y)' \in Nat
      BY <1>2, <2>2, <2>3, <2>5
    <3> QED BY <2>5, <3>1
  <2>6. CASE /\ FreesIn(todo', y) /\ Counted(y) = 1 /\ CountOf(f, y) = 0
             /\ old = NULL /\ Owned(y)' + 1 = Owned(y)
    <3>1. Is(old, y) = 0 BY <2>6, HandleTreeAssumption DEF Is
    <3>2. Counted(y)' = 0 BY <1>2, <2>3, <2>6, <3>1
    <3> QED BY <2>6, <3>2
  <2> QED BY <2>4, <2>5, <2>6 DEF OwnedAfter
<1> QED BY <1>3, <1>4 DEF CountsBorn

LEMMA BirthOneStep ==
    ASSUME Inv, NEW h \in Blocks, NEW k, NEW f, NewHandle(h, k, f),
           NewSlot(h, k), NoneFreed(todo), BornFields({h}), BornElsewhere({h}),
           CallsFine, NEW old, NEW held \in {h, NULL}, old # h,
           PointersAfter(f, old, held), OwnedAfter(h, f, old, held)
    PROVE  Inv'
<1>1. /\ Born({h})
      /\ \A y \in Blocks : mem'[y] = IF y = h THEN "live" ELSE mem[y]
      /\ kind'[h] = k /\ \A y \in Blocks \ {h} : kind'[y] = kind[y]
      /\ mem[h] = "unused" /\ Takes(h, k, f)
  BY OneBorn
<1>2. BornListed({h}) BY <1>1, OneListed
<1>3. CountsBorn(h, f) BY BornOwned
<1>4. \A y \in Blocks : CountOK(y)' BY <1>1, <1>3, BornCounted
<1>5. {h} \in SUBSET Blocks /\ \A y \in {h} : mem[y] = "unused" BY <1>1
<1> QED BY <1>1, <1>2, <1>4, <1>5, BirthStep DEF CallsFine

(* A new handle that no other handle holds.                                 *)
Outcome(h) ==
    /\ \A y \in Blocks \ {h} :
          /\ user'[y] = user[y] /\ ~FreesIn(todo', y)
          /\ PendingIn(todo', y) = PendingIn(todo, y)
    /\ user'[h] + PendingIn(todo', h) = IF FreesIn(todo', h) THEN 0 ELSE 1

LEMMA BirthFreeStep ==
    ASSUME Inv, NEW h \in Blocks, NEW k, NEW f, NewHandle(h, k, f),
           NewSlot(h, k), NoneFreed(todo), field' = [field EXCEPT ![h] = f],
           UNCHANGED <<lastRowid, lost>>, CallsFine, Outcome(h)
    PROVE  Inv'
<1>1. BornFields({h}) /\ PointersAfter(f, NULL, NULL) BY AloneFields
<1>2. BornElsewhere({h}) BY DEF BornElsewhere, Inv, HandlesTypes
<1>3. closing' = closing /\ h # NULL /\ mem[h] = "unused"
  BY HandleTreeAssumption DEF NewHandle
<1>4. ASSUME NEW y \in Blocks
      PROVE  /\ RowidsIn(lastRowid, closing, y)' = RowidsIn(lastRowid, closing, y)
             /\ Forgotten(y)' = Forgotten(y)
             /\ Is(NULL, y) = 0
             /\ Owned(y) \in Nat
  <2>1. /\ user[y] \in Nat /\ PendingIn(todo, y) \in Nat
        /\ RowidsIn(lastRowid, closing, y) \in Nat /\ Forgotten(y) \in Nat
    BY Parts
  <2>2. Owned(y) \in Nat BY <2>1 DEF Owned
  <2>3. Is(NULL, y) = 0 BY HandleTreeAssumption DEF Is
  <2> QED BY <1>3, <2>2, <2>3 DEF RowidsIn, Forgotten
<1>5. OwnedAfter(h, f, NULL, NULL)
  <2>1. ASSUME NEW y \in Blocks \ {h}
        PROVE  ~FreesIn(todo', y) /\ Owned(y)' = Owned(y) + Is(NULL, y)
    <3>1. /\ user'[y] = user[y] /\ PendingIn(todo', y) = PendingIn(todo, y)
          /\ ~FreesIn(todo', y)
      BY DEF Outcome
    <3>2. Owned(y)' = Owned(y) BY <1>4, <3>1 DEF Owned
    <3> QED BY <1>4, <3>1, <3>2
  <2>2. Owned(h)' + Is(NULL, h) = IF FreesIn(todo', h) THEN 0 ELSE 1
    <3>1. RowidsIn(lastRowid, closing, h) = 0 /\ Forgotten(h) = 0
      BY <1>3, UnusedIs
    <3>2. user'[h] \in Nat /\ PendingIn(todo', h) \in Nat
      BY PendingFinite DEF NewHandle, UserTyped, CallsFine
    <3>3. Owned(h)' = user'[h] + PendingIn(todo', h)
      BY <1>4, <3>1, <3>2 DEF Owned
    <3>4. user'[h] + PendingIn(todo', h) = IF FreesIn(todo', h) THEN 0 ELSE 1
      BY DEF Outcome
    <3> QED BY <1>4, <3>2, <3>3, <3>4
  <2> QED BY <2>1, <2>2 DEF OwnedAfter
<1> QED BY <1>1, <1>2, <1>3, <1>5, BirthOneStep
==============================================================================
