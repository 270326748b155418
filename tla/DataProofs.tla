----------------------------- MODULE DataProofs -----------------------------
(***************************************************************************)
(* Proofs about DataOwnership, for all names, languages and bounds: what   *)
(* the operations on blocks do to the heap, and what a step has to keep    *)
(* for the inductive invariant to hold after it.                           *)
(***************************************************************************)
EXTENDS DataInvariant, TLAPS, NaturalsInduction, WellFoundedInduction,
        FiniteSetTheorems, SequenceTheorems

(* Every set of naturals has a least element. *)
LEMMA Least ==
    ASSUME NEW S \in SUBSET Nat, S # {}
    PROVE  \E x \in S : \A y \in S : x =< y
<1> DEFINE R == {r \in Nat \X Nat : r[1] < r[2]}
<1>1. OpToRel(<, Nat) = R
  BY Zenon DEF OpToRel
<1>2. IsWellFoundedOn(R, Nat)
  BY <1>1, NatLessThanWellFounded
<1>3. PICK x \in S : \A y \in S : ~(<<y, x>> \in R)
  <2> HIDE DEF R
  <2>1. QED
    BY <1>2, WFMin
<1>4. \A y \in S : y \in Nat /\ ~(y < x)
  <2> TAKE y \in S
  <2>1. y \in Nat /\ x \in Nat
    OBVIOUS
  <2>2. y < x => <<y, x>> \in R
    BY <2>1
  <2>3. QED
    BY <1>3, <2>1, <2>2
<1>5. QED
  BY <1>4

-----------------------------------------------------------------------------
(* Free blocks. *)

(* The numbers up to n are n in number. *)
LEMMA Interval ==
    ASSUME NEW n \in Nat
    PROVE  IsFiniteSet(1..n) /\ Cardinality(1..n) = n
<1>1. IsFiniteSet(1..n) /\ Cardinality(1..n) = IF 1 > n THEN 0 ELSE n - 1 + 1
  BY FS_Interval
<1>2. QED
  BY <1>1

(* There are as many free numbers as are asked for. *)
LEMMA FreeIs ==
    ASSUME NEW h, NEW n \in Nat, IsFiniteSet(DOMAIN heap), IsFiniteSet(DOMAIN h)
    PROVE  /\ IsFiniteSet(Free(h, n)) /\ Free(h, n) \subseteq Nat \ {0}
           /\ Free(h, n) \cap (DOMAIN heap \cup DOMAIN h) = {}
           /\ Cardinality(Free(h, n)) >= n
<1> DEFINE U == DOMAIN heap \cup DOMAIN h
           k == Cardinality(U)
           R == 1..(n + k)
<1>1. IsFiniteSet(U) /\ k \in Nat
  BY FS_Union, FS_CardinalityType
<1>2. Free(h, n) = R \ U
  BY DEF Free, Used
<1>3. IsFiniteSet(R) /\ Cardinality(R) = n + k
  <2> DEFINE z == n + k
  <2>1. z \in Nat
    BY <1>1
  <2> HIDE DEF z
  <2>2. IsFiniteSet(1..z) /\ Cardinality(1..z) = z
    BY <2>1, Interval
  <2>3. QED
    BY <2>2 DEF z
<1>4. IsFiniteSet(R \ U)
  BY <1>3, FS_Subset
<1>5. IsFiniteSet(R \cap U) /\ Cardinality(R \cap U) =< k
  BY <1>1, FS_Subset
<1>6. Cardinality(R \ U) = Cardinality(R) - Cardinality(R \cap U)
  BY <1>1, <1>3, FS_Difference
<1>7. Cardinality(R \cap U) \in Nat
  BY <1>5, FS_CardinalityType
<1> HIDE DEF k
<1>8. Cardinality(R \ U) >= n
  <2> HIDE DEF R, U
  <2>1. QED
    BY <1>1, <1>3, <1>5, <1>6, <1>7
<1>9. R \subseteq Nat \ {0}
  BY <1>1
<1>10. QED
  BY <1>2, <1>4, <1>8, <1>9

(* A number that New gives is in neither heap, and is not 0. *)
LEMMA NewIs ==
    ASSUME NEW h, IsFiniteSet(DOMAIN heap), IsFiniteSet(DOMAIN h)
    PROVE  New(h) \in Nat \ {0} /\ New(h) \notin DOMAIN heap /\ New(h) \notin DOMAIN h
<1>1. /\ IsFiniteSet(Free(h, 1)) /\ Free(h, 1) \subseteq Nat \ {0}
      /\ Free(h, 1) \cap (DOMAIN heap \cup DOMAIN h) = {}
      /\ Cardinality(Free(h, 1)) >= 1
  BY FreeIs
<1>2. Free(h, 1) # {}
  BY <1>1, FS_EmptySet
<1>3. New(h) \in Free(h, 1)
  BY <1>2 DEF New
<1>4. QED
  BY <1>1, <1>3

(* Fresh blocks are free and as many as there are elements of S. *)
LEMMA FreshIs ==
    ASSUME NEW h, NEW S, IsFiniteSet(DOMAIN heap), IsFiniteSet(DOMAIN h), IsFiniteSet(S)
    PROVE  /\ Fresh(h, S) \in [S -> Nat \ {0}]
           /\ \A x \in S : Fresh(h, S)[x] \notin DOMAIN heap \cup DOMAIN h
           /\ \A x, y \in S : Fresh(h, S)[x] = Fresh(h, S)[y] => x = y
<1> DEFINE n == Cardinality(S)
           F == Free(h, n)
           m == Cardinality(F)
<1>1. n \in Nat /\ ExistsBijection(1..n, S)
  BY FS_CardinalityType
<1>2. /\ IsFiniteSet(F) /\ F \subseteq Nat \ {0}
      /\ F \cap (DOMAIN heap \cup DOMAIN h) = {} /\ m >= n
  BY <1>1, FreeIs
<1>3. m \in Nat /\ ExistsBijection(1..m, F)
  BY <1>2, FS_CardinalityType
<1>4. PICK f : f \in Bijection(1..n, S)
  BY <1>1 DEF ExistsBijection
<1>5. PICK g : g \in Bijection(1..m, F)
  BY <1>3 DEF ExistsBijection
<1> HIDE DEF n, F, m
<1>6. /\ f \in [1..n -> S] /\ \A x \in S : \E i \in 1..n : f[i] = x
  BY <1>4 DEF Bijection, Surjection, Injection
<1>7. /\ g \in [1..m -> F] /\ \A i, j \in 1..m : g[i] = g[j] => i = j
  BY <1>5 DEF Bijection, Injection, IsInjective
<1> DEFINE at(x) == CHOOSE i \in 1..n : f[i] = x
           new == [x \in S |-> g[at(x)]]
<1>8. \A x \in S : at(x) \in 1..n /\ f[at(x)] = x
  BY <1>6
<1>9. \A x \in S : at(x) \in 1..m
  BY <1>1, <1>2, <1>3, <1>8
<1> HIDE DEF at
<1>10. new \in [S -> F] /\ IsInjective(new)
  BY <1>7, <1>8, <1>9 DEF IsInjective
<1> HIDE DEF new
<1>11. Fresh(h, S) \in [S -> F] /\ IsInjective(Fresh(h, S))
  BY <1>10 DEF Fresh, n, F
<1>12. QED
  BY <1>2, <1>11 DEF IsInjective

-----------------------------------------------------------------------------
(* The blocks that can be reached. *)

(* All that is owned is allocated. *)
Whole(h) ==
    /\ IsFiniteSet(DOMAIN h) /\ DOMAIN h \subseteq Nat
    /\ \A b \in DOMAIN h : OwnedBy(h, b) \subseteq DOMAIN h

Grown(h, T) == T \cup UNION {OwnedBy(h, b) : b \in T \cap DOMAIN h}
Grows(h, g) == g = [T \in SUBSET Nat |-> IF Grown(h, T) = T THEN T ELSE g[Grown(h, T)]]
IsClosed(h, T) == Grown(h, T) = T

(* What a round of the closure adds: blocks of the heap only, and those    *)
(* every closed set has.                                                   *)
LEMMA GrownIs ==
    ASSUME NEW h, Whole(h), NEW T \in SUBSET Nat
    PROVE  /\ Grown(h, T) \in SUBSET Nat /\ T \subseteq Grown(h, T)
           /\ Grown(h, T) \subseteq T \cup DOMAIN h
           /\ \A C : T \subseteq C /\ IsClosed(h, C) => Grown(h, T) \subseteq C
           /\ IsClosed(h, T) <=> \A b \in T \cap DOMAIN h : OwnedBy(h, b) \subseteq T
<1>1. \A b \in T \cap DOMAIN h : OwnedBy(h, b) \subseteq DOMAIN h
  BY DEF Whole
<1>2. Grown(h, T) \subseteq T \cup DOMAIN h
  BY <1>1 DEF Grown
<1>3. Grown(h, T) \in SUBSET Nat /\ T \subseteq Grown(h, T)
  BY <1>2 DEF Grown, Whole
<1>4. ASSUME NEW C, T \subseteq C, IsClosed(h, C)
      PROVE  Grown(h, T) \subseteq C
  BY <1>4 DEF Grown, IsClosed
<1>5. IsClosed(h, T) <=> \A b \in T \cap DOMAIN h : OwnedBy(h, b) \subseteq T
  BY DEF Grown, IsClosed
<1>6. QED
  BY <1>2, <1>3, <1>4, <1>5

(* The least closed set that has the blocks of T. *)
Closure(h, T) == {x \in Nat : \A C \in SUBSET Nat : T \subseteq C /\ IsClosed(h, C) => x \in C}

(* One round of the closure, and the rest. *)
LEMMA ClosureGrows ==
    ASSUME NEW h, Whole(h), NEW T \in SUBSET Nat
    PROVE  Closure(h, T) = IF Grown(h, T) = T THEN T ELSE Closure(h, Grown(h, T))
<1>1. CASE IsClosed(h, T)
  BY <1>1 DEF Closure, IsClosed
<1>2. CASE ~IsClosed(h, T)
  <2>1. \A C \in SUBSET Nat : IsClosed(h, C) =>
          (T \subseteq C <=> Grown(h, T) \subseteq C)
    BY GrownIs
  <2>2. Closure(h, T) = Closure(h, Grown(h, T))
    BY <2>1 DEF Closure
  <2>3. QED
    BY <1>2, <2>2 DEF IsClosed
<1>3. QED
  BY <1>1, <1>2

(* What is outside of a set and reachable is allocated, and so finite. *)
LEMMA GrowthEnds ==
    ASSUME NEW h, Whole(h), NEW g, Grows(h, g)
    PROVE  \A T \in SUBSET Nat : g[T] = Closure(h, T)
<1> DEFINE bad == {T \in SUBSET Nat : g[T] # Closure(h, T)}
           ranks == {Cardinality(DOMAIN h \ T) : T \in bad}
<1>1. SUFFICES ASSUME bad # {} PROVE FALSE
  OBVIOUS
<1>2. \A T : IsFiniteSet(DOMAIN h \ T) /\ Cardinality(DOMAIN h \ T) \in Nat
  BY FS_Subset, FS_CardinalityType DEF Whole
<1>3. ranks \in SUBSET Nat /\ ranks # {}
  BY <1>1, <1>2
<1>4. PICK r \in ranks : \A q \in ranks : r =< q
  <2> HIDE DEF ranks
  <2>1. QED
    BY <1>3, Least
<1>5. PICK T \in bad : r = Cardinality(DOMAIN h \ T)
  OBVIOUS
<1> DEFINE U == Grown(h, T)
<1>6. T \in SUBSET Nat /\ g[T] # Closure(h, T)
  OBVIOUS
<1>7. /\ U \in SUBSET Nat /\ T \subseteq U /\ U \subseteq T \cup DOMAIN h
      /\ Closure(h, T) = IF U = T THEN T ELSE Closure(h, U)
  BY <1>6, GrownIs, ClosureGrows
<1>8. g[T] = IF U = T THEN T ELSE g[U]
  <2>1. \A f : g = [Z \in SUBSET Nat |-> f[Z]] => g[T] = f[T]
    BY <1>6
  <2> DEFINE f == [Z \in SUBSET Nat |-> IF Grown(h, Z) = Z THEN Z ELSE g[Grown(h, Z)]]
  <2>2. g = f
    BY DEF Grows
  <2>3. f[T] = IF U = T THEN T ELSE g[U]
    BY <1>6
  <2> HIDE DEF f, U
  <2>4. QED
    BY <2>2, <2>3
<1>9. U # T /\ g[U] # Closure(h, U)
  <2> HIDE DEF U, bad
  <2>1. QED
    BY <1>6, <1>7, <1>8
<1>10. PICK x \in U : x \notin T
  BY <1>7, <1>9
<1>11. Cardinality(DOMAIN h \ U) < Cardinality(DOMAIN h \ T)
  <2> DEFINE A == DOMAIN h \ U
             B == DOMAIN h \ T
  <2>1. IsFiniteSet(B) /\ A \in SUBSET B /\ A # B
    <3> HIDE DEF U, bad
    <3>1. x \in DOMAIN h
      BY <1>7, <1>10
    <3>2. QED
      BY <1>2, <1>7, <1>10, <3>1
  <2>2. Cardinality(A) \in Nat /\ Cardinality(B) \in Nat
    BY <1>2
  <2> HIDE DEF A, B
  <2>3. Cardinality(A) =< Cardinality(B) /\ (Cardinality(A) = Cardinality(B) => A = B)
    BY <2>1, FS_Subset
  <2>4. Cardinality(A) < Cardinality(B)
    BY <2>1, <2>2, <2>3
  <2>5. QED
    BY <2>4 DEF A, B
<1>12. Cardinality(DOMAIN h \ U) \in ranks
  BY <1>7, <1>9
<1>13. QED
  <2> HIDE DEF ranks, U, bad
  <2>1. r =< Cardinality(DOMAIN h \ U)
    BY <1>4, <1>12
  <2>2. Cardinality(DOMAIN h \ U) \in Nat /\ r \in Nat
    BY <1>2, <1>5
  <2>3. QED
    BY <1>5, <1>11, <2>1, <2>2

(* The function Tree is defined by is the closure. *)
LEMMA TreeIsClosure ==
    ASSUME NEW h, Whole(h), NEW S \in SUBSET Nat
    PROVE  Tree(h, S) = Closure(h, S)
<1> DEFINE g == CHOOSE f : Grows(h, f)
           c == [T \in SUBSET Nat |-> Closure(h, T)]
<1>1. Tree(h, S) = g[S]
  BY DEF Tree, Grows, Grown
<1>2. Grows(h, c)
  <2>1. \A T \in SUBSET Nat :
          Closure(h, T) = IF Grown(h, T) = T THEN T ELSE c[Grown(h, T)]
    <3> TAKE T \in SUBSET Nat
    <3>1. Grown(h, T) \in SUBSET Nat
      BY GrownIs
    <3>2. c[Grown(h, T)] = Closure(h, Grown(h, T))
      BY <3>1
    <3> HIDE DEF c
    <3>3. QED
      BY <3>2, ClosureGrows
  <2>2. c = [T \in SUBSET Nat |-> IF Grown(h, T) = T THEN T ELSE c[Grown(h, T)]]
    <3>1. [T \in SUBSET Nat |-> Closure(h, T)]
            = [T \in SUBSET Nat |-> IF Grown(h, T) = T THEN T ELSE c[Grown(h, T)]]
      <4> HIDE DEF c
      <4>1. QED
        BY <2>1
    <3>2. QED
      BY <3>1
  <2> HIDE DEF c
  <2>3. QED
    BY <2>2 DEF Grows
<1> HIDE DEF c
<1>3. Grows(h, g)
  BY <1>2
<1> HIDE DEF g
<1>4. QED
  BY <1>1, <1>3, GrowthEnds

(* What Tree returns: the least set with S that has what its blocks own.   *)
LEMMA TreeIs ==
    ASSUME NEW h, Whole(h), NEW S \in SUBSET Nat
    PROVE  /\ S \subseteq Tree(h, S) /\ Tree(h, S) \subseteq S \cup DOMAIN h
           /\ \A a, i, b : a \in Tree(h, S) /\ Points(h, a, i, b) => b \in Tree(h, S)
           /\ \A C : S \subseteq C /\ (\A a, i, b : a \in C /\ Points(h, a, i, b) => b \in C)
                       => Tree(h, S) \subseteq C
           /\ \A x \in Tree(h, S) : \/ x \in S
                                    \/ \E a, i : a \in Tree(h, S) /\ Points(h, a, i, x)
<1> DEFINE T == Tree(h, S)
<1>1. T = Closure(h, S)
  BY TreeIsClosure
<1>2. \A a, b : (\E i : Points(h, a, i, b)) <=> a \in DOMAIN h /\ b \in OwnedBy(h, a)
  BY DEF Points, OwnedBy
<1>3. \A a, i, b : Points(h, a, i, b) => a \in Nat /\ b \in DOMAIN h /\ b \in Nat
  BY <1>2 DEF Whole
<1>4. ASSUME NEW C, S \subseteq C, \A a, i, b : a \in C /\ Points(h, a, i, b) => b \in C
      PROVE  T \subseteq C
  <2> DEFINE D == C \cap Nat
  <2>1. D \in SUBSET Nat /\ S \subseteq D
    BY <1>4
  <2>2. \A b \in D \cap DOMAIN h : OwnedBy(h, b) \subseteq D
    BY <1>2, <1>3, <1>4
  <2>3. IsClosed(h, D)
    <3> HIDE DEF D
    <3>1. QED
      BY <2>1, <2>2, GrownIs
  <2>4. QED
    BY <1>1, <2>1, <2>3 DEF Closure
<1>5. S \subseteq T
  BY <1>1 DEF Closure
<1>6. T \subseteq S \cup DOMAIN h
  <2>1. \A a, i, b : a \in S \cup DOMAIN h /\ Points(h, a, i, b) => b \in S \cup DOMAIN h
    BY <1>3
  <2>2. QED
    BY <1>4, <2>1
<1>7. ASSUME NEW a, NEW i, NEW b, a \in T, Points(h, a, i, b)
      PROVE  b \in T
  <2>1. a \in Nat /\ b \in Nat /\ a \in DOMAIN h /\ b \in OwnedBy(h, a)
    BY <1>2, <1>3, <1>7
  <2>2. ASSUME NEW C \in SUBSET Nat, S \subseteq C, IsClosed(h, C)
        PROVE  b \in C
    <3>1. a \in C
      BY <1>1, <1>7, <2>2 DEF Closure
    <3>2. \A c \in C \cap DOMAIN h : OwnedBy(h, c) \subseteq C
      BY <2>2, GrownIs
    <3>3. QED
      BY <2>1, <3>1, <3>2
  <2>3. QED
    BY <1>1, <2>1, <2>2 DEF Closure
<1>8. \A x \in T : x \in S \/ \E a, i : a \in T /\ Points(h, a, i, x)
  <2> DEFINE C == {x \in T : x \in S \/ \E a, i : a \in T /\ Points(h, a, i, x)}
  <2>1. S \subseteq C
    BY <1>5
  <2>2. \A a, i, b : a \in C /\ Points(h, a, i, b) => b \in C
    BY <1>7
  <2>3. T \subseteq C
    <3> HIDE DEF C, T
    <3>1. QED
      BY <1>4, <2>1, <2>2
  <2>4. QED
    BY <2>3
<1>9. QED
  BY <1>4, <1>5, <1>6, <1>7, <1>8

-----------------------------------------------------------------------------
(* What the operations do to a heap. *)

(* What a value owns, type by type. *)
LEMMA OwnsIs ==
    /\ \A v \in Value : Owns(v) \subseteq Nat
    /\ \A v : Owns(v) # {} => v.type \in {"string", "buffer", "package"} /\ Owns(v) = {v.at}
    /\ \A type, b : type \in {"string", "buffer", "package"} => Owns(Owner(type, b)) = {b}
    /\ \A type, b : type \in {"string", "buffer", "package"} /\ b \in Nat
                      => Owner(type, b) \in Value
    /\ \A v : v.type \in {"null", "junk", "integer", "field", "reference"} => Owns(v) = {}
BY DEF Owns, Value, Owner

(* HeapOK, as the other lemmas use it. *)
LEMMA HeapFacts ==
    ASSUME NEW h, NEW H, HeapOK(h, H)
    PROVE  /\ Whole(h) /\ H \subseteq DOMAIN h
           /\ \A a, i, b : Points(h, a, i, b) => /\ a \in DOMAIN h /\ i \in DOMAIN h[a].cells
                                                 /\ b \in DOMAIN h /\ b \notin H
           /\ \A a, i, c, j, b : Points(h, a, i, b) /\ Points(h, c, j, b) => a = c /\ i = j
           /\ \A a \in DOMAIN h : \A i \in DOMAIN h[a].cells : h[a].cells[i] \in Value
<1>1. Whole(h)
  BY DEF HeapOK, Whole, OwnedBy
<1>2. \A a \in DOMAIN h : \A i \in DOMAIN h[a].cells : h[a].cells[i] \in Value
  BY DEF HeapOK, IsBlock
<1>3. \A a, i, c, j, b : Points(h, a, i, b) /\ Points(h, c, j, b) => a = c /\ i = j
  BY DEF HeapOK, Points
<1>4. \A a, i, b : Points(h, a, i, b) => /\ a \in DOMAIN h /\ i \in DOMAIN h[a].cells
                                         /\ b \in DOMAIN h /\ b \notin H
  BY DEF HeapOK, Points
<1>5. QED
  BY <1>1, <1>2, <1>3, <1>4 DEF HeapOK

(* What is to be shown of a heap for it to be HeapOK. *)
LEMMA HeapMade ==
    ASSUME NEW h, NEW H, IsFiniteSet(DOMAIN h), DOMAIN h \subseteq Nat,
           \A a \in DOMAIN h : IsBlock(h[a]), H \subseteq DOMAIN h,
           \A a, i, b : Points(h, a, i, b) => b \in DOMAIN h /\ b \notin H,
           \A a, i, c, j, b : Points(h, a, i, b) /\ Points(h, c, j, b) => a = c /\ i = j
    PROVE  HeapOK(h, H)
<1>1. \A a \in DOMAIN h : \A i \in DOMAIN h[a].cells : Owns(h[a].cells[i]) \subseteq DOMAIN h \ H
  BY DEF Points
<1>2. \A a, b \in DOMAIN h : \A i \in DOMAIN h[a].cells, j \in DOMAIN h[b].cells :
         Owns(h[a].cells[i]) \cap Owns(h[b].cells[j]) # {} => a = b /\ i = j
  <2> TAKE a, b \in DOMAIN h
  <2> TAKE i \in DOMAIN h[a].cells, j \in DOMAIN h[b].cells
  <2> HAVE Owns(h[a].cells[i]) \cap Owns(h[b].cells[j]) # {}
  <2>1. PICK x : x \in Owns(h[a].cells[i]) /\ x \in Owns(h[b].cells[j])
    OBVIOUS
  <2>2. Points(h, a, i, x) /\ Points(h, b, j, x)
    BY <2>1 DEF Points
  <2>3. QED
    BY <2>2
<1>3. QED
  BY <1>1, <1>2 DEF HeapOK

(* A block that owns nothing is added. *)
Bare(x) == IsBlock(x) /\ \A k \in DOMAIN x.cells : Owns(x.cells[k]) = {}

(* A new block that owns nothing, in a heap: the others stay, and it may   *)
(* be held.                                                                *)
LEMMA WithIs ==
    ASSUME NEW h, NEW H, HeapOK(h, H), NEW b \in Nat, b \notin DOMAIN h,
           NEW x, Bare(x)
    PROVE  /\ HeapOK(With(h, b, x), H) /\ HeapOK(With(h, b, x), H \cup {b})
           /\ DOMAIN With(h, b, x) = DOMAIN h \cup {b}
           /\ With(h, b, x)[b] = x
           /\ \A a \in DOMAIN h : With(h, b, x)[a] = h[a]
           /\ \A a, i, c : Points(With(h, b, x), a, i, c) <=> Points(h, a, i, c)
<1> DEFINE g == With(h, b, x)
<1>1. /\ DOMAIN g = DOMAIN h \cup {b} /\ g[b] = x
      /\ \A a \in DOMAIN h : g[a] = h[a]
  BY DEF With
<1>2. \A a, i, c : Points(g, a, i, c) <=> Points(h, a, i, c)
  BY <1>1 DEF Points, Bare
<1>3. IsFiniteSet(DOMAIN g) /\ DOMAIN g \subseteq Nat
  BY <1>1, FS_AddElement DEF HeapOK
<1>4. \A a \in DOMAIN g : IsBlock(g[a])
  BY <1>1 DEF HeapOK, Bare
<1> HIDE DEF g
<1>5. HeapOK(g, H) /\ HeapOK(g, H \cup {b})
  <2>1. H \subseteq DOMAIN g /\ H \cup {b} \subseteq DOMAIN g
    BY <1>1 DEF HeapOK
  <2>2. \A a, i, c : Points(g, a, i, c) => c \in DOMAIN g /\ c \notin H /\ c # b
    BY <1>1, <1>2, HeapFacts
  <2>3. \A a, i, c, j, d : Points(g, a, i, d) /\ Points(g, c, j, d) => a = c /\ i = j
    BY <1>2, HeapFacts
  <2>4. HeapOK(g, H)
    BY <1>3, <1>4, <2>1, <2>2, <2>3, HeapMade
  <2>5. HeapOK(g, H \cup {b})
    <3> DEFINE G == H \cup {b}
    <3>1. \A a, i, c : Points(g, a, i, c) => c \in DOMAIN g /\ c \notin G
      BY <2>2
    <3>2. G \subseteq DOMAIN g
      BY <2>1
    <3> HIDE DEF G
    <3>3. HeapOK(g, G)
      BY <1>3, <1>4, <2>3, <3>1, <3>2, HeapMade
    <3>4. QED
      BY <3>3 DEF G
  <2>6. QED
    BY <2>4, <2>5
<1>6. QED
  BY <1>1, <1>2, <1>5 DEF g

(* A cell gets another value. *)
LEMMA PutIs ==
    ASSUME NEW h, NEW b \in DOMAIN h, NEW k, NEW v, IsBlock(h[b]), k \in DOMAIN h[b].cells
    PROVE  /\ DOMAIN Put(h, <<b, k>>, v) = DOMAIN h
           /\ \A a \in DOMAIN h : a # b => Put(h, <<b, k>>, v)[a] = h[a]
           /\ DOMAIN Put(h, <<b, k>>, v)[b].cells = DOMAIN h[b].cells
           /\ \A i \in DOMAIN h[b].cells :
                Put(h, <<b, k>>, v)[b].cells[i] = IF i = k THEN v ELSE h[b].cells[i]
           /\ Put(h, <<b, k>>, v)[b].val = h[b].val
           /\ v \in Value => IsBlock(Put(h, <<b, k>>, v)[b])
<1> DEFINE x == [h[b] EXCEPT !.cells = [h[b].cells EXCEPT ![k] = v]]
           g == Put(h, <<b, k>>, v)
<1>1. g = [h EXCEPT ![b] = x]
  BY DEF Put
<1>2. /\ h[b] = [cells |-> h[b].cells, val |-> h[b].val]
      /\ h[b].cells \in [DOMAIN h[b].cells -> Value] /\ h[b].val \in Number
  BY DEF IsBlock
<1>3. x = [cells |-> [h[b].cells EXCEPT ![k] = v], val |-> h[b].val]
  <2> DEFINE y == [h[b].cells EXCEPT ![k] = v]
  <2> HIDE DEF y
  <2>1. [h[b] EXCEPT !.cells = y] = [cells |-> y, val |-> h[b].val]
    BY <1>2
  <2>2. QED
    BY <2>1 DEF y
<1>4. g[b] = x /\ DOMAIN g = DOMAIN h /\ \A a \in DOMAIN h : a # b => g[a] = h[a]
  BY <1>1
<1>5. /\ DOMAIN x.cells = DOMAIN h[b].cells /\ x.val = h[b].val
      /\ \A i \in DOMAIN h[b].cells : x.cells[i] = IF i = k THEN v ELSE h[b].cells[i]
      /\ v \in Value => x.cells \in [DOMAIN x.cells -> Value]
  BY <1>2, <1>3
<1>6. v \in Value => IsBlock(x)
  BY <1>2, <1>3, <1>5 DEF IsBlock
<1> HIDE DEF x, g
<1>7. QED
  BY <1>4, <1>5, <1>6 DEF g

(* What it is made to own was nobody's. *)
LEMMA PutOK ==
    ASSUME NEW h, NEW H, HeapOK(h, H), NEW b \in DOMAIN h, NEW k \in DOMAIN h[b].cells,
           NEW v \in Value, Owns(v) \subseteq DOMAIN h \ H,
           \A a, i, c : Points(h, a, i, c) => c \notin Owns(v)
    PROVE  /\ HeapOK(Put(h, <<b, k>>, v), H)
           /\ \A a, i, c : Points(Put(h, <<b, k>>, v), a, i, c) <=>
                             IF a = b /\ i = k THEN c \in Owns(v) ELSE Points(h, a, i, c)
<1> DEFINE g == Put(h, <<b, k>>, v)
<1>1. IsBlock(h[b])
  BY DEF HeapOK
<1>2. /\ DOMAIN g = DOMAIN h
      /\ \A a \in DOMAIN h : a # b => g[a] = h[a]
      /\ DOMAIN g[b].cells = DOMAIN h[b].cells
      /\ \A i \in DOMAIN h[b].cells : g[b].cells[i] = IF i = k THEN v ELSE h[b].cells[i]
      /\ IsBlock(g[b])
  BY <1>1, PutIs
<1> HIDE DEF g
<1>3. \A a, i, c : Points(g, a, i, c) <=>
                     IF a = b /\ i = k THEN c \in Owns(v) ELSE Points(h, a, i, c)
  <2> TAKE a, i, c
  <2>1. CASE a = b
    BY <1>2, <2>1 DEF Points
  <2>2. CASE a # b
    BY <1>2, <2>2 DEF Points
  <2>3. QED
    BY <2>1, <2>2
<1>4. IsFiniteSet(DOMAIN g) /\ DOMAIN g \subseteq Nat /\ H \subseteq DOMAIN g
  BY <1>2 DEF HeapOK
<1>5. \A a \in DOMAIN g : IsBlock(g[a])
  BY <1>2 DEF HeapOK
<1>6. \A a, i, c : Points(g, a, i, c) => c \in DOMAIN g /\ c \notin H
  BY <1>2, <1>3, HeapFacts
<1>7. \A a, i, c, j, d : Points(g, a, i, d) /\ Points(g, c, j, d) => a = c /\ i = j
  BY <1>3, HeapFacts
<1>8. HeapOK(g, H)
  BY <1>4, <1>5, <1>6, <1>7, HeapMade
<1>9. QED
  BY <1>3, <1>8 DEF g

(* Blocks are taken away. *)
LEMMA WithoutIs ==
    ASSUME NEW h, NEW T
    PROVE  /\ DOMAIN Without(h, T) = DOMAIN h \ T
           /\ \A a \in DOMAIN h \ T : Without(h, T)[a] = h[a]
           /\ \A a, i, c : Points(Without(h, T), a, i, c) <=> Points(h, a, i, c) /\ a \notin T
BY DEF Without, Points

(* What is held is freed, with all that it owns. *)
LEMMA FreeOK ==
    ASSUME NEW h, NEW H, HeapOK(h, H), NEW S \in SUBSET H
    PROVE  /\ HeapOK(Without(h, Tree(h, S)), H \ S)
           /\ S \subseteq Tree(h, S) /\ Tree(h, S) \cap H = S /\ Tree(h, S) \subseteq DOMAIN h
           /\ \A a, i, c : Points(h, a, i, c) => (c \in Tree(h, S) <=> a \in Tree(h, S))
<1> DEFINE T == Tree(h, S)
           g == Without(h, T)
<1>1. Whole(h) /\ S \in SUBSET Nat /\ S \subseteq DOMAIN h
  BY HeapFacts DEF Whole
<1>2. /\ S \subseteq T /\ T \subseteq S \cup DOMAIN h
      /\ \A a, i, b : a \in T /\ Points(h, a, i, b) => b \in T
      /\ \A x \in T : x \in S \/ \E a, i : a \in T /\ Points(h, a, i, x)
  BY <1>1, TreeIs
<1>3. T \cap H = S /\ T \subseteq DOMAIN h
  BY <1>1, <1>2, HeapFacts
<1>4. \A a, i, c : Points(h, a, i, c) => (c \in T <=> a \in T)
  <2> TAKE a, i, c
  <2> HAVE Points(h, a, i, c)
  <2>1. ASSUME c \in T PROVE a \in T
    <3>1. c \notin S
      BY HeapFacts
    <3>2. PICK d, j : d \in T /\ Points(h, d, j, c)
      BY <1>2, <2>1, <3>1
    <3>3. a = d
      BY <3>2, HeapFacts
    <3>4. QED
      BY <3>2, <3>3
  <2>2. QED
    BY <1>2, <2>1
<1> HIDE DEF T
<1>5. /\ DOMAIN g = DOMAIN h \ T
      /\ \A a \in DOMAIN h \ T : g[a] = h[a]
      /\ \A a, i, c : Points(g, a, i, c) <=> Points(h, a, i, c) /\ a \notin T
  BY WithoutIs
<1> HIDE DEF g
<1>6. IsFiniteSet(DOMAIN g) /\ DOMAIN g \subseteq Nat
  BY <1>5, FS_Subset DEF HeapOK
<1>7. \A a \in DOMAIN g : IsBlock(g[a])
  BY <1>5 DEF HeapOK
<1>8. H \ S \subseteq DOMAIN g
  BY <1>3, <1>5, HeapFacts
<1>9. \A a, i, c : Points(g, a, i, c) => c \in DOMAIN g /\ c \notin H \ S
  BY <1>4, <1>5, HeapFacts
<1>10. \A a, i, c, j, d : Points(g, a, i, d) /\ Points(g, c, j, d) => a = c /\ i = j
  BY <1>5, HeapFacts
<1>11. HeapOK(g, H \ S)
  <2> DEFINE G == H \ S
  <2>1. G \subseteq DOMAIN g /\ \A a, i, c : Points(g, a, i, c) => c \in DOMAIN g /\ c \notin G
    BY <1>8, <1>9
  <2> HIDE DEF G
  <2>2. HeapOK(g, G)
    BY <1>6, <1>7, <1>10, <2>1, HeapMade
  <2>3. QED
    BY <2>2 DEF G
<1>12. QED
  BY <1>2, <1>3, <1>4, <1>11 DEF g, T

(* The blocks that are freed with the data of a cell: no held block is     *)
(* among them, and they are owned in there or by the cell.                 *)
Beneath(h, b, k) == Tree(h, Owns(h[b].cells[k]))

(* What is beneath a cell: blocks nobody holds, closed downwards, and the  *)
(* least such set.                                                         *)
LEMMA BelowIs ==
    ASSUME NEW h, NEW H, HeapOK(h, H), NEW b \in DOMAIN h, NEW k \in DOMAIN h[b].cells
    PROVE  /\ Beneath(h, b, k) \subseteq DOMAIN h /\ Beneath(h, b, k) \cap H = {}
           /\ Owns(h[b].cells[k]) \subseteq Beneath(h, b, k)
           /\ Owns(h[b].cells[k]) = {} => Beneath(h, b, k) = {}
           /\ \A a, i, c : Points(h, a, i, c) =>
                (c \in Beneath(h, b, k) <=> a \in Beneath(h, b, k) \/ (a = b /\ i = k))
           /\ \A C : Owns(h[b].cells[k]) \subseteq C
                     /\ (\A a, i, c : a \in C /\ Points(h, a, i, c) => c \in C)
                       => Beneath(h, b, k) \subseteq C
<1> DEFINE S == Owns(h[b].cells[k])
           T == Tree(h, S)
<1>1. Whole(h) /\ S \in SUBSET Nat /\ \A c \in S : Points(h, b, k, c)
  BY HeapFacts, OwnsIs DEF Points
<1>2. S \subseteq DOMAIN h /\ S \cap H = {}
  BY <1>1, HeapFacts
<1> HIDE DEF S
<1>3. /\ S \subseteq T /\ T \subseteq S \cup DOMAIN h
      /\ \A a, i, c : a \in T /\ Points(h, a, i, c) => c \in T
      /\ \A C : S \subseteq C /\ (\A a, i, c : a \in C /\ Points(h, a, i, c) => c \in C)
                  => T \subseteq C
      /\ \A x \in T : x \in S \/ \E a, i : a \in T /\ Points(h, a, i, x)
  BY <1>1, TreeIs
<1> HIDE DEF T
<1>4. T \subseteq DOMAIN h /\ T \cap H = {}
  BY <1>2, <1>3, HeapFacts
<1>5. ASSUME NEW a, NEW i, NEW c, Points(h, a, i, c)
      PROVE  c \in T <=> a \in T \/ (a = b /\ i = k)
  <2>1. ASSUME c \in T PROVE a \in T \/ (a = b /\ i = k)
    <3>1. CASE c \in S
      <4>1. Points(h, b, k, c)
        BY <1>1, <3>1
      <4>2. QED
        BY <1>5, <4>1, HeapFacts
    <3>2. CASE \E d, j : d \in T /\ Points(h, d, j, c)
      <4>1. PICK d, j : d \in T /\ Points(h, d, j, c)
        BY <3>2
      <4>2. a = d
        BY <1>5, <4>1, HeapFacts
      <4>3. QED
        BY <4>1, <4>2
    <3>3. QED
      BY <1>3, <2>1, <3>1, <3>2
  <2>2. ASSUME a = b, i = k PROVE c \in T
    BY <1>3, <1>5, <2>2 DEF Points, S
  <2>3. QED
    BY <1>3, <1>5, <2>1, <2>2
<1>6. S = {} => T = {}
  <2>1. \A a, i, c : a \in {} /\ Points(h, a, i, c) => c \in {}
    OBVIOUS
  <2>2. QED
    BY <1>3, <2>1
<1>7. QED
  BY <1>3, <1>4, <1>5, <1>6 DEF Beneath, T, S

(* A cell is cleaned. *)
Cleaned(h, g, b, k) ==
    /\ DOMAIN g = DOMAIN h \ Beneath(h, b, k)
    /\ \A a \in DOMAIN g : a # b => g[a] = h[a]
    /\ DOMAIN g[b].cells = DOMAIN h[b].cells
    /\ \A i \in DOMAIN h[b].cells :
         g[b].cells[i] = IF i = k THEN Null ELSE h[b].cells[i]
    /\ \A a, i, c : Points(g, a, i, c) <=>
         Points(h, a, i, c) /\ a \notin Beneath(h, b, k) /\ ~(a = b /\ i = k)

(* sabi_clean_object leaves a sound heap: what the cell owned is gone, and *)
(* nothing else.                                                           *)
LEMMA CleanIs ==
    ASSUME NEW h, NEW H, HeapOK(h, H), NEW b \in DOMAIN h, NEW k \in DOMAIN h[b].cells,
           b \notin Beneath(h, b, k)
    PROVE  /\ HeapOK(Clean(h, <<b, k>>), H)
           /\ Cleaned(h, Clean(h, <<b, k>>), b, k)
<1> DEFINE T == Beneath(h, b, k)
           m == Without(h, T)
           g == Put(m, <<b, k>>, Null)
<1>1. Clean(h, <<b, k>>) = g
  BY DEF Clean, At, Beneath
<1>2. /\ T \subseteq DOMAIN h /\ T \cap H = {}
      /\ Owns(h[b].cells[k]) \subseteq T
      /\ \A a, i, c : Points(h, a, i, c) => (c \in T <=> a \in T \/ (a = b /\ i = k))
  BY BelowIs
<1> HIDE DEF T
<1>3. /\ DOMAIN m = DOMAIN h \ T
      /\ \A a \in DOMAIN h \ T : m[a] = h[a]
      /\ \A a, i, c : Points(m, a, i, c) <=> Points(h, a, i, c) /\ a \notin T
  BY WithoutIs
<1>4. b \in DOMAIN m /\ m[b] = h[b] /\ IsBlock(m[b]) /\ k \in DOMAIN m[b].cells
  BY <1>3 DEF HeapOK, T
<1>5. Null \in Value /\ Owns(Null) = {}
  BY DEF Null, Value, Owns
<1> HIDE DEF m
<1>6. /\ DOMAIN g = DOMAIN m
      /\ \A a \in DOMAIN m : a # b => g[a] = m[a]
      /\ DOMAIN g[b].cells = DOMAIN m[b].cells
      /\ \A i \in DOMAIN m[b].cells : g[b].cells[i] = IF i = k THEN Null ELSE m[b].cells[i]
      /\ IsBlock(g[b])
  BY <1>4, <1>5, PutIs
<1> HIDE DEF g
<1>7. \A a, i, c : Points(g, a, i, c) <=>
                     Points(h, a, i, c) /\ a \notin T /\ ~(a = b /\ i = k)
  <2> TAKE a, i, c
  <2>1. CASE a = b
    BY <1>3, <1>4, <1>5, <1>6, <2>1 DEF Points
  <2>2. CASE a # b
    BY <1>3, <1>6, <2>2 DEF Points
  <2>3. QED
    BY <2>1, <2>2
<1>8. IsFiniteSet(DOMAIN g) /\ DOMAIN g \subseteq Nat
  BY <1>3, <1>6, FS_Subset DEF HeapOK
<1>9. \A a \in DOMAIN g : IsBlock(g[a])
  BY <1>3, <1>6 DEF HeapOK
<1>10. H \subseteq DOMAIN g
  BY <1>2, <1>3, <1>6, HeapFacts
<1>11. \A a, i, c : Points(g, a, i, c) => c \in DOMAIN g /\ c \notin H
  BY <1>2, <1>3, <1>6, <1>7, HeapFacts
<1>12. \A a, i, c, j, d : Points(g, a, i, d) /\ Points(g, c, j, d) => a = c /\ i = j
  BY <1>7, HeapFacts
<1>13. HeapOK(g, H)
  BY <1>8, <1>9, <1>10, <1>11, <1>12, HeapMade
<1>14. \A a \in DOMAIN g : a # b => g[a] = h[a]
  BY <1>3, <1>6
<1>15. DOMAIN g[b].cells = DOMAIN h[b].cells
       /\ \A i \in DOMAIN h[b].cells : g[b].cells[i] = IF i = k THEN Null ELSE h[b].cells[i]
  BY <1>4, <1>6
<1>16. DOMAIN g = DOMAIN h \ T
  BY <1>3, <1>6
<1>17. Cleaned(h, g, b, k)
  BY <1>7, <1>14, <1>15, <1>16 DEF T, Cleaned
<1>18. QED
  BY <1>1, <1>13, <1>17

(* What may be cloned: blocks that have an owner, and none is beneath      *)
(* itself.                                                                 *)
Owned(h, b) == \E a, i : Points(h, a, i, b)
Source(h, v) ==
    /\ v \in Value
    /\ \A c \in Owns(v) : Owned(h, c)
    /\ \A a, i, c : a \in Tree(h, Owns(v)) /\ Points(h, a, i, c) => c \notin Owns(v)

(* A copy: new blocks, one for each below the value, that own each other   *)
(* as the old ones do, and the cell owns the first of them.                *)
Cloned(h, g, b, k, v) ==
    /\ DOMAIN h \subseteq DOMAIN g
    /\ \A a \in DOMAIN h : a # b => g[a] = h[a]
    /\ DOMAIN g[b].cells = DOMAIN h[b].cells /\ g[b].val = h[b].val
    /\ \A i \in DOMAIN h[b].cells : i # k => g[b].cells[i] = h[b].cells[i]
    /\ g[b].cells[k].type = v.type /\ (Owns(v) = {} => g[b].cells[k] = v)
    /\ \A a \in DOMAIN g \ DOMAIN h :
         /\ a \notin DOMAIN heap /\ a # 0
         /\ \E c, i : Points(g, c, i, a)
         /\ \E c \in Tree(h, Owns(v)) :
              /\ c \in DOMAIN h /\ DOMAIN g[a].cells = DOMAIN h[c].cells
              /\ \A i \in DOMAIN h[c].cells : g[a].cells[i].type = h[c].cells[i].type
    /\ \A c \in Owns(g[b].cells[k]) : c \notin DOMAIN h
    /\ \A a, i, c : Points(g, a, i, c) =>
         IF c \in DOMAIN h THEN Points(h, a, i, c) /\ ~(a = b /\ i = k)
         ELSE a \notin DOMAIN h \/ (a = b /\ i = k)

(* sabi_clone_object leaves a sound heap: the cell has a copy, of new      *)
(* blocks, and the rest stays.                                             *)
LEMMA CloneIs ==
    ASSUME NEW h, NEW H, HeapOK(h, H), IsFiniteSet(DOMAIN heap),
           NEW b \in DOMAIN h, NEW k \in DOMAIN h[b].cells, NEW v, Source(h, v)
    PROVE  /\ HeapOK(Clone(h, <<b, k>>, v), H)
           /\ Cloned(h, Clone(h, <<b, k>>, v), b, k, v)
<1> DEFINE old == Tree(h, Owns(v))
           new == Fresh(h, old)
           moved(w) == IF Owns(w) = {} THEN w ELSE Owner(w.type, new[w.at])
           copy(x) == [x EXCEPT !.cells = [i \in DOMAIN x.cells |-> moved(x.cells[i])]]
           from(c) == CHOOSE a \in old : new[a] = c
           N == DOMAIN h \cup Range(new)
           added == [c \in N |-> IF c \in DOMAIN h THEN h[c] ELSE copy(h[from(c)])]
           g == Put(added, <<b, k>>, moved(v))
<1>1. Clone(h, <<b, k>>, v) = g
  BY DEF Clone
<1>0. /\ v \in Value /\ Owns(v) \subseteq DOMAIN h
      /\ \A a, i, c : a \in old /\ Points(h, a, i, c) => c \notin Owns(v)
  BY OwnsIs, HeapFacts DEF Source, Owned
<1>2. Whole(h)
  BY HeapFacts
<1>3. /\ Owns(v) \subseteq old /\ old \subseteq DOMAIN h
      /\ \A a, i, c : a \in old /\ Points(h, a, i, c) => c \in old
      /\ \A x \in old : x \in Owns(v) \/ \E a, i : a \in old /\ Points(h, a, i, x)
  <2>1. Owns(v) \in SUBSET Nat
    BY <1>0, OwnsIs
  <2>2. QED
    BY <1>0, <1>2, <2>1, TreeIs
<1>4. IsFiniteSet(DOMAIN h) /\ IsFiniteSet(old)
  BY <1>2, <1>3, FS_Subset DEF Whole
<1> HIDE DEF old
<1>5. /\ new \in [old -> Nat \ {0}]
      /\ \A x \in old : new[x] \notin DOMAIN heap \cup DOMAIN h
      /\ \A x, y \in old : new[x] = new[y] => x = y
  BY <1>4, FreshIs
<1> HIDE DEF new
<1>6. \A x \in old : from(new[x]) = x
  <2> TAKE x \in old
  <2>1. \A a \in old : new[a] = new[x] <=> a = x
    BY <1>5
  <2>2. QED
    BY <2>1
<1>7. Range(new) = {new[x] : x \in old}
  BY <1>5 DEF Range
<1> HIDE DEF from
<1>8. /\ DOMAIN added = N /\ \A c \in DOMAIN h : added[c] = h[c]
      /\ \A x \in old : new[x] \in N /\ added[new[x]] = copy(h[x])
  <2>1. DOMAIN added = N /\ \A c \in N : added[c] = IF c \in DOMAIN h THEN h[c] ELSE copy(h[from(c)])
    <3> HIDE DEF copy, N
    <3>1. QED
      OBVIOUS
  <2>2. \A x \in old : new[x] \in N /\ new[x] \notin DOMAIN h
    BY <1>5, <1>7
  <2> HIDE DEF copy, added
  <2>3. \A x \in old : added[new[x]] = copy(h[x])
    BY <1>6, <2>1, <2>2
  <2>4. \A c \in DOMAIN h : c \in N
    OBVIOUS
  <2>5. QED
    BY <2>1, <2>2, <2>3, <2>4
<1> HIDE DEF added
(* What a copied value is. *)
<1>9. ASSUME NEW w \in Value, Owns(w) \subseteq old
      PROVE  /\ moved(w) \in Value /\ moved(w).type = w.type
             /\ Owns(moved(w)) = {new[c] : c \in Owns(w)}
             /\ Owns(w) = {} => moved(w) = w
  <2>1. CASE Owns(w) = {}
    BY <2>1
  <2>2. CASE Owns(w) # {}
    <3>1. w.type \in {"string", "buffer", "package"} /\ Owns(w) = {w.at} /\ w.at \in old
      BY <1>9, <2>2, OwnsIs
    <3>2. new[w.at] \in Nat
      BY <1>5, <3>1
    <3>3. moved(w) = Owner(w.type, new[w.at])
      BY <2>2
    <3>4. moved(w).type = w.type
      BY <3>3 DEF Owner
    <3>5. QED
      BY <2>2, <3>1, <3>2, <3>3, <3>4, OwnsIs
  <2>3. QED
    BY <2>1, <2>2
<1>10. ASSUME NEW x \in old
       PROVE  /\ IsBlock(added[new[x]]) /\ DOMAIN added[new[x]].cells = DOMAIN h[x].cells
              /\ \A i \in DOMAIN h[x].cells :
                   /\ added[new[x]].cells[i].type = h[x].cells[i].type
                   /\ Owns(added[new[x]].cells[i]) = {new[c] : c \in Owns(h[x].cells[i])}
  <2>1. IsBlock(h[x])
    BY <1>3 DEF HeapOK
  <2>2. \A i \in DOMAIN h[x].cells : h[x].cells[i] \in Value /\ Owns(h[x].cells[i]) \subseteq old
    BY <1>3, <2>1 DEF IsBlock, Points
  <2>3. \A i \in DOMAIN h[x].cells : /\ moved(h[x].cells[i]) \in Value
                                     /\ moved(h[x].cells[i]).type = h[x].cells[i].type
                                     /\ Owns(moved(h[x].cells[i])) = {new[c] : c \in Owns(h[x].cells[i])}
    BY <1>9, <2>2
  <2> DEFINE cs == [i \in DOMAIN h[x].cells |-> moved(h[x].cells[i])]
  <2>4. added[new[x]] = [cells |-> cs, val |-> h[x].val]
    <3>1. added[new[x]] = [h[x] EXCEPT !.cells = cs]
      BY <1>8
    <3>2. h[x] = [cells |-> h[x].cells, val |-> h[x].val]
      BY <2>1 DEF IsBlock
    <3> HIDE DEF cs
    <3>3. QED
      BY <3>1, <3>2
  <2> HIDE DEF moved
  <2>5. cs \in [DOMAIN cs -> Value] /\ DOMAIN cs = DOMAIN h[x].cells
    BY <2>3
  <2>6. h[x].val \in Number
    BY <2>1 DEF IsBlock
  <2>7. IsBlock([cells |-> cs, val |-> h[x].val])
    <3> HIDE DEF cs
    <3>1. QED
      BY <2>5, <2>6 DEF IsBlock
  <2>8. \A i \in DOMAIN h[x].cells : cs[i] = moved(h[x].cells[i])
    OBVIOUS
  <2> HIDE DEF cs
  <2>9. added[new[x]].cells = cs
    BY <2>4
  <2>10. \A i \in DOMAIN h[x].cells :
           /\ cs[i].type = h[x].cells[i].type
           /\ Owns(cs[i]) = {new[c] : c \in Owns(h[x].cells[i])}
    BY <2>3, <2>8
  <2>11. QED
    BY <2>4, <2>5, <2>7, <2>9, <2>10
<1> HIDE DEF copy
<1>11. moved(v) \in Value /\ moved(v).type = v.type
       /\ Owns(moved(v)) = {new[c] : c \in Owns(v)} /\ (Owns(v) = {} => moved(v) = v)
  <2> HIDE DEF moved
  <2>1. QED
    BY <1>0, <1>3, <1>9
<1> DEFINE u == moved(v)
<1> HIDE DEF moved, u
<1>12. u \in Value /\ u.type = v.type /\ Owns(u) = {new[c] : c \in Owns(v)} /\ (Owns(v) = {} => u = v)
  BY <1>11 DEF u
<1>13. b \in DOMAIN added /\ added[b] = h[b] /\ IsBlock(added[b]) /\ k \in DOMAIN added[b].cells
  BY <1>8 DEF HeapOK
<1>14. /\ DOMAIN g = DOMAIN added
       /\ \A a \in DOMAIN added : a # b => g[a] = added[a]
       /\ DOMAIN g[b].cells = DOMAIN added[b].cells
       /\ \A i \in DOMAIN added[b].cells : g[b].cells[i] = IF i = k THEN u ELSE added[b].cells[i]
       /\ g[b].val = added[b].val /\ IsBlock(g[b])
  <2>1. g = Put(added, <<b, k>>, u)
    BY DEF u
  <2> HIDE DEF g
  <2>2. QED
    BY <1>12, <1>13, <2>1, PutIs
<1> HIDE DEF g
<1>15. DOMAIN g = DOMAIN h \cup {new[x] : x \in old}
  BY <1>7, <1>8, <1>14
<1>16. \A x \in old : new[x] # b /\ new[x] \notin DOMAIN h /\ new[x] \in DOMAIN g
                      /\ g[new[x]] = added[new[x]]
  BY <1>5, <1>8, <1>14, <1>15
<1>17. \A x \in old : \A i, c : Points(g, new[x], i, c) <=>
                                 \E d \in old : Points(h, x, i, d) /\ c = new[d]
  <2> TAKE x \in old
  <2> TAKE i, c
  <2>1. DOMAIN g[new[x]].cells = DOMAIN h[x].cells
        /\ (i \in DOMAIN h[x].cells =>
             Owns(g[new[x]].cells[i]) = {new[d] : d \in Owns(h[x].cells[i])})
    <3>1. g[new[x]] = added[new[x]]
      BY <1>16
    <3>2. DOMAIN added[new[x]].cells = DOMAIN h[x].cells
          /\ (i \in DOMAIN h[x].cells =>
               Owns(added[new[x]].cells[i]) = {new[d] : d \in Owns(h[x].cells[i])})
      BY <1>10
    <3>3. QED
      BY <3>1, <3>2
  <2>2. ASSUME i \in DOMAIN h[x].cells, NEW d, d \in Owns(h[x].cells[i])
        PROVE  d \in old /\ Points(h, x, i, d)
    BY <1>3, <2>2 DEF Points
  <2>3. QED
    BY <1>3, <1>16, <2>1, <2>2 DEF Points
<1>18. \A a \in DOMAIN h : \A i, c : Points(g, a, i, c) <=>
          IF a = b /\ i = k THEN \E d \in Owns(v) : c = new[d] ELSE Points(h, a, i, c)
  <2> TAKE a \in DOMAIN h
  <2> TAKE i, c
  <2>1. CASE a = b
    BY <1>12, <1>13, <1>14, <1>15, <2>1 DEF Points
  <2>2. CASE a # b
    BY <1>8, <1>14, <1>15, <2>2 DEF Points
  <2>3. QED
    BY <2>1, <2>2
<1>19. \A a, i, c : Points(g, a, i, c) =>
          IF c \in DOMAIN h THEN Points(h, a, i, c) /\ ~(a = b /\ i = k)
          ELSE c \in DOMAIN g /\ (a \notin DOMAIN h \/ (a = b /\ i = k))
  <2> TAKE a, i, c
  <2> HAVE Points(g, a, i, c)
  <2>1. a \in DOMAIN g
    BY DEF Points
  <2>2. CASE a \in DOMAIN h
    <3>1. CASE a = b /\ i = k
      <4>1. PICK d \in Owns(v) : c = new[d]
        BY <1>18, <2>2, <3>1
      <4>2. QED
        BY <1>3, <1>16, <2>2, <3>1, <4>1
    <3>2. CASE ~(a = b /\ i = k)
      <4>1. Points(h, a, i, c)
        BY <1>18, <2>2, <3>2
      <4>2. c \in DOMAIN h
        BY <4>1, HeapFacts
      <4>3. QED
        BY <3>2, <4>1, <4>2
    <3>3. QED
      BY <3>1, <3>2
  <2>3. CASE a \notin DOMAIN h
    <3>1. PICK x \in old : a = new[x]
      BY <1>15, <2>1, <2>3
    <3>2. PICK d \in old : Points(h, x, i, d) /\ c = new[d]
      <4>1. Points(g, new[x], i, c)
        BY <3>1
      <4>2. QED
        BY <1>17, <4>1
    <3>3. QED
      BY <1>16, <2>3, <3>2
  <2>4. QED
    BY <2>2, <2>3
<1>20. \A a, i, c, j, d : Points(g, a, i, d) /\ Points(g, c, j, d) => a = c /\ i = j
  <2> TAKE a, i, c, j, d
  <2> HAVE Points(g, a, i, d) /\ Points(g, c, j, d)
  <2>1. CASE d \in DOMAIN h
    BY <1>19, <2>1, HeapFacts
  <2>2. CASE d \notin DOMAIN h
    (* d is the copy of e, which is the root or owned in the old tree. *)
    <3>1. d \in DOMAIN g
      BY <1>19, <2>2
    <3>2. PICK e \in old : d = new[e]
      BY <1>15, <2>2, <3>1
    <3>3. ASSUME NEW p, NEW q, Points(g, p, q, d)
          PROVE  \/ p = b /\ q = k /\ e \in Owns(v)
                 \/ \E x \in old : p = new[x] /\ Points(h, x, q, e)
      <4>1. p \in DOMAIN g
        BY <3>3 DEF Points
      <4>2. CASE p \in DOMAIN h
        <5>1. p = b /\ q = k
          BY <1>19, <2>2, <3>3, <4>2
        <5>2. PICK f \in Owns(v) : d = new[f]
          BY <1>18, <3>3, <4>2, <5>1
        <5>3. f = e
          BY <1>3, <1>5, <3>2, <5>2
        <5>4. QED
          BY <5>1, <5>2, <5>3
      <4>3. CASE p \notin DOMAIN h
        <5>1. PICK x \in old : p = new[x]
          BY <1>15, <4>1, <4>3
        <5>2. PICK f \in old : Points(h, x, q, f) /\ d = new[f]
          <6>1. Points(g, new[x], q, d)
            BY <3>3, <5>1
          <6>2. QED
            BY <1>17, <6>1
        <5>3. f = e
          BY <1>5, <3>2, <5>2
        <5>4. QED
          BY <5>1, <5>2, <5>3
      <4>4. QED
        BY <4>2, <4>3
    <3>4. \A x \in old : \A q : Points(h, x, q, e) => e \notin Owns(v)
      BY <1>0
    <3>5. CASE e \in Owns(v)
      <4>1. (a = b /\ i = k) /\ (c = b /\ j = k)
        BY <3>3, <3>4, <3>5
      <4>2. QED
        BY <4>1
    <3>6. CASE e \notin Owns(v)
      <4>1. PICK x \in old : a = new[x] /\ Points(h, x, i, e)
        BY <3>3, <3>6
      <4>2. PICK y \in old : c = new[y] /\ Points(h, y, j, e)
        BY <3>3, <3>6
      <4>3. x = y /\ i = j
        BY <4>1, <4>2, HeapFacts
      <4>4. QED
        BY <4>1, <4>2, <4>3
    <3>7. QED
      BY <3>5, <3>6
  <2>3. QED
    BY <2>1, <2>2
<1>21. IsFiniteSet(DOMAIN g) /\ DOMAIN g \subseteq Nat
  <2>1. DOMAIN g = DOMAIN h \cup Range(new)
    BY <1>8, <1>14
  <2>2. IsFiniteSet(Range(new))
    <3>1. new \in Surjection(old, Range(new))
      BY <1>5, <1>7 DEF Surjection
    <3>2. QED
      BY <1>4, <3>1, FS_Surjection
  <2>3. Range(new) \subseteq Nat
    BY <1>5, <1>7
  <2>4. IsFiniteSet(DOMAIN h \cup Range(new))
    BY <1>4, <2>2, FS_Union
  <2>5. QED
    BY <1>2, <2>1, <2>3, <2>4 DEF Whole
<1>22. \A a \in DOMAIN g : IsBlock(g[a])
  <2> TAKE a \in DOMAIN g
  <2>1. CASE a \in DOMAIN h
    BY <1>8, <1>14, <2>1 DEF HeapOK
  <2>2. CASE a \notin DOMAIN h
    <3>1. PICK x \in old : a = new[x]
      BY <1>15, <2>2
    <3>2. QED
      BY <1>10, <1>16, <3>1
  <2>3. QED
    BY <2>1, <2>2
<1>23. HeapOK(g, H)
  <2>1. H \subseteq DOMAIN g
    BY <1>15, HeapFacts
  <2>2. \A a, i, c : Points(g, a, i, c) => c \in DOMAIN g /\ c \notin H
    <3>1. H \subseteq DOMAIN h
      BY HeapFacts
    <3>2. \A a, i, c : Points(g, a, i, c) /\ c \in DOMAIN h => c \notin H
      BY <1>19, HeapFacts
    <3>3. QED
      BY <1>15, <1>19, <3>1, <3>2
  <2>3. QED
    BY <1>20, <1>21, <1>22, <2>1, <2>2, HeapMade
<1>24. \A a \in DOMAIN g \ DOMAIN h :
         /\ a \notin DOMAIN heap /\ a # 0
         /\ \E c, i : Points(g, c, i, a)
         /\ \E c \in old :
              /\ c \in DOMAIN h /\ DOMAIN g[a].cells = DOMAIN h[c].cells
              /\ \A i \in DOMAIN h[c].cells : g[a].cells[i].type = h[c].cells[i].type
  <2> TAKE a \in DOMAIN g \ DOMAIN h
  <2>1. PICK x \in old : a = new[x]
    BY <1>15
  <2>2. a \notin DOMAIN heap /\ a # 0
    BY <1>5, <2>1
  <2>3. \E c, i : Points(g, c, i, a)
    <3>1. CASE x \in Owns(v)
      BY <1>18, <2>1, <3>1
    <3>2. CASE x \notin Owns(v)
      <4>1. PICK c, i : c \in old /\ Points(h, c, i, x)
        BY <1>3, <3>2
      <4>2. Points(g, new[c], i, a)
        BY <1>17, <2>1, <4>1
      <4>3. QED
        BY <4>2
    <3>3. QED
      BY <3>1, <3>2
  <2>4. /\ x \in DOMAIN h /\ DOMAIN g[a].cells = DOMAIN h[x].cells
        /\ \A i \in DOMAIN h[x].cells : g[a].cells[i].type = h[x].cells[i].type
    BY <1>3, <1>10, <1>16, <2>1
  <2>5. QED
    BY <2>2, <2>3, <2>4
<1>25. \A c \in Owns(g[b].cells[k]) : c \notin DOMAIN h
  <2>1. g[b].cells[k] = u
    BY <1>13, <1>14
  <2>2. QED
    BY <1>3, <1>12, <1>16, <2>1
<1>26. DOMAIN h \subseteq DOMAIN g /\ \A a \in DOMAIN h : a # b => g[a] = h[a]
  BY <1>8, <1>14, <1>15
<1>27. /\ DOMAIN g[b].cells = DOMAIN h[b].cells /\ g[b].val = h[b].val
       /\ \A i \in DOMAIN h[b].cells : i # k => g[b].cells[i] = h[b].cells[i]
       /\ g[b].cells[k].type = v.type /\ (Owns(v) = {} => g[b].cells[k] = v)
  BY <1>12, <1>13, <1>14
<1>28. Cloned(h, g, b, k, v)
  BY <1>19, <1>24, <1>25, <1>26, <1>27 DEF old, Cloned
<1>29. QED
  BY <1>1, <1>23, <1>28

-----------------------------------------------------------------------------
(* What a step alters. *)

Borrows(v) == v.type \in {"field", "reference"}

(* g comes from h: the cells of W have other values, the blocks of D may   *)
(* be gone, those of L may have no owner.  What borrows did so before, and *)
(* what is old has no other owner than before.                             *)
Alters(h, g, W, D, L) ==
    /\ \A a \in DOMAIN h : a \in DOMAIN g \/ a \in D
    /\ \A a \in DOMAIN h : a \in DOMAIN g =>
         /\ DOMAIN g[a].cells = DOMAIN h[a].cells
         /\ \A k \in DOMAIN h[a].cells : <<a, k>> \in W \/ g[a].cells[k] = h[a].cells[k]
    /\ \A a \in DOMAIN g : a \notin DOMAIN h => a \notin DOMAIN heap /\ a # 0
    /\ \A a \in DOMAIN g : \A k \in DOMAIN g[a].cells :
         Borrows(g[a].cells[k]) => /\ a \in DOMAIN h /\ k \in DOMAIN h[a].cells
                                   /\ g[a].cells[k] = h[a].cells[k]
    /\ \A a, i, c : Points(g, a, i, c) /\ c \in DOMAIN h /\ c \in DOMAIN g => Points(h, a, i, c)
    /\ \A a \in DOMAIN g : Owned(g, a) \/ a \in L \/ (a \in DOMAIN h /\ ~Owned(h, a))

(* A block that a cell owns is allocated, and nobody holds it. *)
LEMMA OwnedIs ==
    ASSUME NEW h, NEW H, HeapOK(h, H), NEW b, Owned(h, b)
    PROVE  b \in DOMAIN h /\ b \notin H
BY HeapFacts DEF Owned

(* One change after the other: what is gone since the step began does not  *)
(* come back.                                                              *)
LEMMA AltersOnwards ==
    ASSUME NEW g, NEW f, NEW W, NEW D, NEW L, NEW V, NEW C, NEW K,
           Alters(heap, g, W, D, L), Alters(g, f, V, C, K)
    PROVE  Alters(heap, f, W \cup V, D \cup C, L \cup K)
<1>1. \A a \in DOMAIN heap : a \in DOMAIN f => a \in DOMAIN g
  BY DEF Alters
<1>2. \A a \in DOMAIN heap : a \in DOMAIN f \/ a \in D \cup C
  BY DEF Alters
<1>3. ASSUME NEW a \in DOMAIN heap, a \in DOMAIN f
      PROVE  /\ DOMAIN f[a].cells = DOMAIN heap[a].cells
             /\ \A k \in DOMAIN heap[a].cells :
                  <<a, k>> \in W \cup V \/ f[a].cells[k] = heap[a].cells[k]
  <2>1. a \in DOMAIN g
    BY <1>1, <1>3
  <2>2. /\ DOMAIN g[a].cells = DOMAIN heap[a].cells
        /\ \A k \in DOMAIN heap[a].cells : <<a, k>> \in W \/ g[a].cells[k] = heap[a].cells[k]
    BY <2>1 DEF Alters
  <2>3. /\ DOMAIN f[a].cells = DOMAIN g[a].cells
        /\ \A k \in DOMAIN g[a].cells : <<a, k>> \in V \/ f[a].cells[k] = g[a].cells[k]
    BY <1>3, <2>1 DEF Alters
  <2>4. ASSUME NEW k \in DOMAIN heap[a].cells
        PROVE  <<a, k>> \in W \cup V \/ f[a].cells[k] = heap[a].cells[k]
    <3>1. <<a, k>> \in W \/ g[a].cells[k] = heap[a].cells[k]
      BY <2>2
    <3>2. <<a, k>> \in V \/ f[a].cells[k] = g[a].cells[k]
      BY <2>2, <2>3
    <3>3. QED
      BY <3>1, <3>2
  <2>5. QED
    BY <2>2, <2>3, <2>4
<1>4. \A a \in DOMAIN f : a \notin DOMAIN heap => a # 0
  BY DEF Alters
<1>5. ASSUME NEW a \in DOMAIN f, NEW k \in DOMAIN f[a].cells, Borrows(f[a].cells[k])
      PROVE  a \in DOMAIN heap /\ k \in DOMAIN heap[a].cells /\ f[a].cells[k] = heap[a].cells[k]
  <2>1. a \in DOMAIN g /\ k \in DOMAIN g[a].cells /\ f[a].cells[k] = g[a].cells[k]
    BY <1>5 DEF Alters
  <2>2. Borrows(g[a].cells[k])
    BY <1>5, <2>1
  <2>3. a \in DOMAIN heap /\ k \in DOMAIN heap[a].cells /\ g[a].cells[k] = heap[a].cells[k]
    BY <2>1, <2>2 DEF Alters
  <2>4. QED
    BY <2>1, <2>3
<1>6. \A a, i, c : Points(f, a, i, c) /\ c \in DOMAIN heap /\ c \in DOMAIN f => Points(heap, a, i, c)
  BY <1>1 DEF Alters
<1>7. \A a \in DOMAIN f : \/ Owned(f, a) \/ a \in L \cup K
                          \/ (a \in DOMAIN heap /\ ~Owned(heap, a))
  BY DEF Alters
<1>8. QED
  BY <1>2, <1>3, <1>4, <1>5, <1>6, <1>7 DEF Alters

(* Larger sets say less. *)
LEMMA AltersMore ==
    ASSUME NEW h, NEW g, NEW W, NEW D, NEW L, NEW V, NEW C, NEW K,
           Alters(h, g, W, D, L), W \subseteq V, D \subseteq C, L \subseteq K
    PROVE  Alters(h, g, V, C, K)
BY DEF Alters

(* A heap that stays as it is. *)
LEMMA AltersNone ==
    ASSUME NEW h
    PROVE  Alters(h, h, {}, {}, {})
BY DEF Alters

(* A new block alters nothing, and is the only one that may be lost. *)
LEMMA WithAlters ==
    ASSUME NEW h, NEW H, HeapOK(h, H), NEW b \in Nat, b \notin DOMAIN h, b \notin DOMAIN heap, b # 0,
           NEW x, Bare(x), \A k \in DOMAIN x.cells : ~Borrows(x.cells[k])
    PROVE  Alters(h, With(h, b, x), {}, {}, {b})
<1> DEFINE g == With(h, b, x)
<1>1. /\ DOMAIN g = DOMAIN h \cup {b} /\ g[b] = x
      /\ \A a \in DOMAIN h : g[a] = h[a]
  BY DEF With
<1>2. \A a, i, c : Points(g, a, i, c) <=> Points(h, a, i, c)
  BY WithIs
<1>3. \A a : Owned(g, a) <=> Owned(h, a)
  BY <1>2 DEF Owned
<1> HIDE DEF g
<1>4. Alters(h, g, {}, {}, {b})
  BY <1>1, <1>2, <1>3 DEF Alters
<1>5. QED
  BY <1>4 DEF g

(* A value that owns and borrows nothing, where none was owned. *)
LEMMA PutAlters ==
    ASSUME NEW h, NEW H, HeapOK(h, H), NEW b \in DOMAIN h, NEW k \in DOMAIN h[b].cells,
           NEW v \in Value, Owns(v) = {}, ~Borrows(v)
    PROVE  /\ Alters(h, Put(h, <<b, k>>, v), {<<b, k>>}, {}, Owns(h[b].cells[k]))
           /\ HeapOK(Put(h, <<b, k>>, v), H)
<1> DEFINE g == Put(h, <<b, k>>, v)
<1>1. /\ HeapOK(g, H)
      /\ \A a, i, c : Points(g, a, i, c) <=>
           IF a = b /\ i = k THEN c \in Owns(v) ELSE Points(h, a, i, c)
  BY PutOK
<1>2. IsBlock(h[b])
  BY DEF HeapOK
<1>3. /\ DOMAIN g = DOMAIN h
      /\ \A a \in DOMAIN h : a # b => g[a] = h[a]
      /\ DOMAIN g[b].cells = DOMAIN h[b].cells
      /\ \A i \in DOMAIN h[b].cells : g[b].cells[i] = IF i = k THEN v ELSE h[b].cells[i]
  BY <1>2, PutIs
<1> HIDE DEF g
<1>4. \A a, i, c : Points(g, a, i, c) => Points(h, a, i, c)
  BY <1>1
<1>5. \A a : Owned(h, a) => Owned(g, a) \/ a \in Owns(h[b].cells[k])
  BY <1>1 DEF Owned, Points
<1>6. \A a \in DOMAIN h :
         /\ DOMAIN g[a].cells = DOMAIN h[a].cells
         /\ \A i \in DOMAIN h[a].cells :
              g[a].cells[i] = IF a = b /\ i = k THEN v ELSE h[a].cells[i]
  BY <1>3
<1>7. Alters(h, g, {<<b, k>>}, {}, Owns(h[b].cells[k]))
  BY <1>3, <1>4, <1>5, <1>6 DEF Alters
<1>8. QED
  BY <1>1, <1>7 DEF g

(* sabi_clean_object alters its cell, and frees what was beneath it. *)
LEMMA CleanAlters ==
    ASSUME NEW h, NEW H, HeapOK(h, H), NEW b \in DOMAIN h, NEW k \in DOMAIN h[b].cells,
           b \notin Beneath(h, b, k)
    PROVE  Alters(h, Clean(h, <<b, k>>), {<<b, k>>}, Beneath(h, b, k), {})
<1> DEFINE g == Clean(h, <<b, k>>)
           T == Beneath(h, b, k)
<1>1. /\ DOMAIN g = DOMAIN h \ T
      /\ \A a \in DOMAIN g : a # b => g[a] = h[a]
      /\ DOMAIN g[b].cells = DOMAIN h[b].cells
      /\ \A i \in DOMAIN h[b].cells : g[b].cells[i] = IF i = k THEN Null ELSE h[b].cells[i]
      /\ \A a, i, c : Points(g, a, i, c) <=>
           Points(h, a, i, c) /\ a \notin T /\ ~(a = b /\ i = k)
  BY CleanIs DEF Cleaned
<1>2. \A a, i, c : Points(h, a, i, c) => (c \in T <=> a \in T \/ (a = b /\ i = k))
  BY BelowIs
<1>3. ~Borrows(Null)
  BY DEF Borrows, Null
<1> HIDE DEF g, T
<1>4. \A a, i, c : Points(g, a, i, c) => Points(h, a, i, c)
  BY <1>1
<1>5. \A a \in DOMAIN g : Owned(h, a) => Owned(g, a)
  <2> TAKE a \in DOMAIN g
  <2> HAVE Owned(h, a)
  <2>1. PICK c, i : Points(h, c, i, a)
    BY DEF Owned
  <2>2. a \notin T
    BY <1>1
  <2>3. Points(g, c, i, a)
    BY <1>1, <1>2, <2>1, <2>2
  <2>4. QED
    BY <2>3 DEF Owned
<1>6. \A a \in DOMAIN g :
         /\ DOMAIN g[a].cells = DOMAIN h[a].cells
         /\ \A i \in DOMAIN h[a].cells :
              g[a].cells[i] = IF a = b /\ i = k THEN Null ELSE h[a].cells[i]
  BY <1>1
<1>7. Alters(h, g, {<<b, k>>}, T, {})
  BY <1>1, <1>3, <1>4, <1>5, <1>6 DEF Alters
<1>8. QED
  BY <1>7 DEF g, T

(* What is owned borrows nothing. *)
Plain(h) ==
    \A a \in DOMAIN h : Owned(h, a) => \A k \in DOMAIN h[a].cells : ~Borrows(h[a].cells[k])

(* A value read from a cell can be copied to another that it does not      *)
(* contain.                                                                *)
LEMMA SourceCell ==
    ASSUME NEW h, NEW H, HeapOK(h, H), NEW b \in DOMAIN h, NEW k \in DOMAIN h[b].cells,
           b \notin Beneath(h, b, k)
    PROVE  Source(h, h[b].cells[k])
<1> DEFINE v == h[b].cells[k]
<1>1. v \in Value
  BY HeapFacts
<1>2. \A c \in Owns(v) : Points(h, b, k, c)
  BY DEF Points
<1>3. \A c \in Owns(v) : Owned(h, c)
  BY <1>2 DEF Owned
<1>4. ASSUME NEW a, NEW i, NEW c, a \in Tree(h, Owns(v)), Points(h, a, i, c), c \in Owns(v)
      PROVE  FALSE
  <2>1. Points(h, b, k, c)
    BY <1>2, <1>4
  <2>2. a = b
    BY <1>4, <2>1, HeapFacts
  <2>3. QED
    BY <1>4, <2>2 DEF Beneath
<1>5. QED
  BY <1>1, <1>3, <1>4 DEF Source

(* Nothing is freed with no block. *)
LEMMA TreeOfNone ==
    ASSUME NEW h, Whole(h)
    PROVE  Tree(h, {}) = {}
<1>1. \A C : {} \subseteq C /\ (\A a, i, b : a \in C /\ Points(h, a, i, b) => b \in C)
                => Tree(h, {}) \subseteq C
  BY TreeIs
<1>2. QED
  BY <1>1

(* A value that owns nothing can be copied anywhere. *)
LEMMA SourceBare ==
    ASSUME NEW h, NEW H, HeapOK(h, H), NEW v \in Value, Owns(v) = {}
    PROVE  Source(h, v)
BY DEF Source

OfType(h, c, v) == At(h, c).type = v.type

(* sabi_clone_object alters its cell; what the cell owned before may be    *)
(* lost.                                                                   *)
LEMMA CloneAlters ==
    ASSUME NEW h, NEW H, HeapOK(h, H), IsFiniteSet(DOMAIN heap), Plain(h),
           NEW b \in DOMAIN h, NEW k \in DOMAIN h[b].cells,
           NEW v, Source(h, v), ~Borrows(v)
    PROVE  /\ HeapOK(Clone(h, <<b, k>>, v), H)
           /\ Alters(h, Clone(h, <<b, k>>, v), {<<b, k>>}, {}, Owns(h[b].cells[k]))
           /\ OfType(Clone(h, <<b, k>>, v), <<b, k>>, v)
<1> DEFINE g == Clone(h, <<b, k>>, v)
<1>1. v \in Value /\ Owns(v) \subseteq DOMAIN h /\ Owns(v) \subseteq Nat
  BY OwnedIs, OwnsIs DEF Source
<1>2. HeapOK(g, H) /\ Cloned(h, g, b, k, v)
  BY CloneIs
<1> HIDE DEF g
<1>3. /\ DOMAIN h \subseteq DOMAIN g
      /\ \A a \in DOMAIN h : a # b => g[a] = h[a]
      /\ DOMAIN g[b].cells = DOMAIN h[b].cells
      /\ \A i \in DOMAIN h[b].cells : i # k => g[b].cells[i] = h[b].cells[i]
      /\ g[b].cells[k].type = v.type
      /\ \A a \in DOMAIN g \ DOMAIN h :
           /\ a \notin DOMAIN heap /\ a # 0
           /\ \E c, i : Points(g, c, i, a)
           /\ \E c \in Tree(h, Owns(v)) :
                /\ c \in DOMAIN h /\ DOMAIN g[a].cells = DOMAIN h[c].cells
                /\ \A i \in DOMAIN h[c].cells : g[a].cells[i].type = h[c].cells[i].type
      /\ \A a, i, c : Points(g, a, i, c) =>
           IF c \in DOMAIN h THEN Points(h, a, i, c) /\ ~(a = b /\ i = k)
           ELSE a \notin DOMAIN h \/ (a = b /\ i = k)
  BY <1>2 DEF Cloned
<1>4. ASSUME NEW c \in Tree(h, Owns(v)) PROVE Owned(h, c)
  <2>1. Whole(h) /\ Owns(v) \in SUBSET Nat
    BY <1>1, HeapFacts
  <2>2. c \in Owns(v) \/ \E a, i : Points(h, a, i, c)
    BY <2>1, TreeIs
  <2>3. QED
    BY <2>2 DEF Source, Owned
<1>5. ASSUME NEW a \in DOMAIN g, NEW i \in DOMAIN g[a].cells, Borrows(g[a].cells[i])
      PROVE  a \in DOMAIN h /\ i \in DOMAIN h[a].cells /\ g[a].cells[i] = h[a].cells[i]
  <2>1. CASE a \notin DOMAIN h
    <3>1. PICK c \in Tree(h, Owns(v)) :
                /\ c \in DOMAIN h /\ DOMAIN g[a].cells = DOMAIN h[c].cells
                /\ \A n \in DOMAIN h[c].cells : g[a].cells[n].type = h[c].cells[n].type
      BY <1>3, <2>1
    <3>2. i \in DOMAIN h[c].cells /\ g[a].cells[i].type = h[c].cells[i].type
      BY <3>1
    <3>3. ~Borrows(h[c].cells[i])
      BY <1>4, <3>1, <3>2 DEF Plain
    <3>4. QED
      BY <1>5, <3>2, <3>3 DEF Borrows
  <2>2. CASE a = b /\ i = k
    BY <1>3, <1>5, <2>2 DEF Borrows
  <2>3. CASE a \in DOMAIN h /\ ~(a = b /\ i = k)
    BY <1>3, <2>3
  <2>4. QED
    BY <2>1, <2>2, <2>3
<1>6. \A a, i, c : Points(g, a, i, c) /\ c \in DOMAIN h => Points(h, a, i, c)
  BY <1>3
<1>7. ASSUME NEW a \in DOMAIN h, Owned(h, a), a \notin Owns(h[b].cells[k])
      PROVE  Owned(g, a)
  <2>1. PICK c, i : Points(h, c, i, a)
    BY <1>7 DEF Owned
  <2>2. Points(g, c, i, a)
    <3>1. ~(c = b /\ i = k)
      BY <1>7, <2>1 DEF Points
    <3>2. CASE c = b
      BY <1>3, <2>1, <3>1, <3>2 DEF Points
    <3>3. CASE c # b
      BY <1>3, <2>1, <3>3 DEF Points
    <3>4. QED
      BY <3>2, <3>3
  <2>3. QED
    BY <2>2 DEF Owned
<1>8. \A a \in DOMAIN g : a \notin DOMAIN h => Owned(g, a)
  BY <1>3 DEF Owned
<1>9. \A a \in DOMAIN h : a \in DOMAIN g =>
         /\ DOMAIN g[a].cells = DOMAIN h[a].cells
         /\ \A i \in DOMAIN h[a].cells :
              <<a, i>> \in {<<b, k>>} \/ g[a].cells[i] = h[a].cells[i]
  BY <1>3
<1>10. Alters(h, g, {<<b, k>>}, {}, Owns(h[b].cells[k]))
  BY <1>3, <1>5, <1>6, <1>7, <1>8, <1>9 DEF Alters
<1>11. OfType(g, <<b, k>>, v)
  BY <1>3 DEF At, OfType
<1>12. QED
  BY <1>2, <1>10, <1>11 DEF g

(* What is held is freed. *)
LEMMA FreeAlters ==
    ASSUME NEW h, NEW H, HeapOK(h, H), NEW S \in SUBSET H
    PROVE  Alters(h, Without(h, Tree(h, S)), {}, Tree(h, S), {})
<1> DEFINE T == Tree(h, S)
           g == Without(h, T)
<1>1. \A a, i, c : Points(h, a, i, c) => (c \in T <=> a \in T)
  BY FreeOK
<1> HIDE DEF T
<1>2. /\ DOMAIN g = DOMAIN h \ T
      /\ \A a \in DOMAIN h \ T : g[a] = h[a]
      /\ \A a, i, c : Points(g, a, i, c) <=> Points(h, a, i, c) /\ a \notin T
  BY WithoutIs
<1> HIDE DEF g
<1>3. \A a \in DOMAIN g : Owned(g, a) <=> Owned(h, a)
  BY <1>1, <1>2 DEF Owned
<1>4. \A a, i, c : Points(g, a, i, c) => Points(h, a, i, c)
  BY <1>2
<1>5. Alters(h, g, {}, T, {})
  BY <1>2, <1>3, <1>4 DEF Alters
<1>6. QED
  BY <1>5 DEF g, T

(* The bytes of a block are written to. *)
LEMMA FillIs ==
    ASSUME NEW h, NEW H, HeapOK(h, H), NEW b, NEW x \in Number
    PROVE  /\ HeapOK(Fill(h, b, x), H) /\ Alters(h, Fill(h, b, x), {}, {}, {})
           /\ DOMAIN Fill(h, b, x) = DOMAIN h
<1> DEFINE g == Fill(h, b, x)
<1>1. DOMAIN g = DOMAIN h /\ \A a \in DOMAIN h : a # b => g[a] = h[a]
  BY DEF Fill
<1>2. b \in DOMAIN h => g[b] = [h[b] EXCEPT !.val = x]
  BY DEF Fill
<1>3. \A a \in DOMAIN h : g[a].cells = h[a].cells /\ IsBlock(g[a])
  <2> TAKE a \in DOMAIN h
  <2>1. IsBlock(h[a])
    BY DEF HeapOK
  <2>2. CASE a = b
    BY <1>2, <2>1, <2>2 DEF IsBlock
  <2>3. CASE a # b
    BY <1>1, <2>1, <2>3
  <2>4. QED
    BY <2>2, <2>3
<1> HIDE DEF g
<1>4. \A a, i, c : Points(g, a, i, c) <=> Points(h, a, i, c)
  BY <1>1, <1>3 DEF Points
<1>5. \A a : Owned(g, a) <=> Owned(h, a)
  BY <1>4 DEF Owned
<1>6. Alters(h, g, {}, {}, {})
  BY <1>1, <1>3, <1>4, <1>5 DEF Alters
<1>7. HeapOK(g, H)
  <2>1. IsFiniteSet(DOMAIN g) /\ DOMAIN g \subseteq Nat /\ H \subseteq DOMAIN g
    BY <1>1 DEF HeapOK
  <2>2. \A a, i, c : Points(g, a, i, c) => c \in DOMAIN g /\ c \notin H
    BY <1>1, <1>4, HeapFacts
  <2>3. \A a, i, c, j, d : Points(g, a, i, d) /\ Points(g, c, j, d) => a = c /\ i = j
    BY <1>4, HeapFacts
  <2>4. \A a \in DOMAIN g : IsBlock(g[a])
    BY <1>1, <1>3
  <2>5. QED
    BY <2>1, <2>2, <2>3, <2>4, HeapMade
<1>8. QED
  BY <1>1, <1>6, <1>7 DEF g

(* The cell k of b gets the block n of its own, which is x. *)
Attached(h, H, g, b, k, n, x, type) ==
    /\ HeapOK(g, H)
    /\ Alters(h, g, {<<b, k>>}, {}, Owns(h[b].cells[k]))
    /\ DOMAIN g = DOMAIN h \cup {n} /\ g[n] = x
    /\ At(g, <<b, k>>) = Owner(type, n)

(* A new block, given to a cell: it is held by that cell alone. *)
LEMMA AttachIs ==
    ASSUME NEW h, NEW H, HeapOK(h, H), NEW b \in DOMAIN h, NEW k \in DOMAIN h[b].cells,
           NEW n \in Nat, n \notin DOMAIN h, n \notin DOMAIN heap, n # 0,
           NEW x, Bare(x), \A i \in DOMAIN x.cells : ~Borrows(x.cells[i]),
           NEW type \in {"string", "buffer", "package"},
           NEW f, f = Put(With(h, n, x), <<b, k>>, Owner(type, n))
    PROVE  Attached(h, H, f, b, k, n, x, type)
<1> DEFINE m == With(h, n, x)
           v == Owner(type, n)
           g == Put(m, <<b, k>>, v)
<1>0. f = g
  OBVIOUS
<1>1. HeapOK(m, H) /\ \A a, i, c : Points(m, a, i, c) <=> Points(h, a, i, c)
  BY WithIs
<1>2. /\ DOMAIN m = DOMAIN h \cup {n} /\ m[n] = x
      /\ \A a \in DOMAIN h : m[a] = h[a]
  BY DEF With
<1>3. v \in Value /\ Owns(v) = {n} /\ v.type = type
  BY OwnsIs DEF Owner
<1> HIDE DEF m, v
<1>4. b \in DOMAIN m /\ k \in DOMAIN m[b].cells /\ IsBlock(m[b])
  BY <1>1, <1>2 DEF HeapOK
<1>5. /\ Owns(v) \subseteq DOMAIN m \ H
      /\ \A a, i, c : Points(m, a, i, c) => c \notin Owns(v)
  BY <1>1, <1>2, <1>3, HeapFacts
<1>6. /\ HeapOK(g, H)
      /\ \A a, i, c : Points(g, a, i, c) <=>
           IF a = b /\ i = k THEN c \in Owns(v) ELSE Points(m, a, i, c)
  BY <1>1, <1>3, <1>4, <1>5, PutOK
<1>7. /\ DOMAIN g = DOMAIN m
      /\ \A a \in DOMAIN m : a # b => g[a] = m[a]
      /\ DOMAIN g[b].cells = DOMAIN m[b].cells
      /\ \A i \in DOMAIN m[b].cells : g[b].cells[i] = IF i = k THEN v ELSE m[b].cells[i]
  BY <1>4, PutIs
<1> HIDE DEF g
<1>8. \A a, i, c : Points(g, a, i, c) /\ c \in DOMAIN h => Points(h, a, i, c)
  BY <1>1, <1>3, <1>6
<1>9. \A a \in DOMAIN h : Owned(h, a) => Owned(g, a) \/ a \in Owns(h[b].cells[k])
  BY <1>1, <1>6 DEF Owned, Points
<1>10. Owned(g, n)
  BY <1>3, <1>6 DEF Owned
<1>11. ~Borrows(v)
  BY <1>3 DEF Borrows
<1>12. \A a \in DOMAIN h :
         /\ DOMAIN g[a].cells = DOMAIN h[a].cells
         /\ \A i \in DOMAIN h[a].cells :
              g[a].cells[i] = IF a = b /\ i = k THEN v ELSE h[a].cells[i]
  BY <1>2, <1>7
<1>13. g[n] = x
  BY <1>2, <1>7
<1>14. Alters(h, g, {<<b, k>>}, {}, Owns(h[b].cells[k]))
  BY <1>2, <1>7, <1>8, <1>9, <1>10, <1>11, <1>12, <1>13 DEF Alters
<1>15. DOMAIN g = DOMAIN h \cup {n} /\ At(g, <<b, k>>) = v
  BY <1>2, <1>7, <1>12 DEF At
<1>16. QED
  BY <1>0, <1>6, <1>13, <1>14, <1>15 DEF v, Attached

-----------------------------------------------------------------------------
(* The functions that wait. *)

(* The fields an activation has, kind by kind. *)
LEMMA EntryIs ==
    ASSUME NEW e \in Entry
    PROVE  /\ e.do \in {"run", "args", "host", "store", "name", "return", "eval",
                        "elements", "convert", "call"}
           /\ "frame" \in DOMAIN e <=> e.do \in {"run", "args"}
           /\ "own" \in DOMAIN e <=> e.do \in {"host", "store", "name", "convert"}
           /\ "at" \in DOMAIN e <=> e.do = "elements"
           /\ "dest" \in DOMAIN e <=> \/ e.do \in {"eval", "convert"}
                                      \/ e.do = "call" /\ e.as # "statement"
           /\ e.do \in {"run", "args"} => e.frame \in Nat
           /\ e.do \in {"host", "store", "name", "convert"} => e.own \in Nat
           /\ e.do = "name" => e.name \in Names
           /\ e.do = "convert" => e.type \in {"string", "buffer"}
           /\ e.do = "elements" => e.at \in Nat /\ e.next \in Nat /\ e.given \in Nat
           /\ e.do = "call" => e.as \in {"statement", "data", "integer"}
           /\ e.do \in {"eval", "convert"} \/ (e.do = "call" /\ e.as # "statement")
                => e.dest \in Nat \X Nat
BY DEF Entry

(* The activations the actions push are activations. *)
LEMMA EntryMade ==
    /\ \A f \in Nat : Run(f) \in Entry /\ [do |-> "args", frame |-> f] \in Entry
    /\ \A b \in Nat : [do |-> "host", own |-> b] \in Entry /\ [do |-> "store", own |-> b] \in Entry
    /\ \A b \in Nat, n \in Names : [do |-> "name", name |-> n, own |-> b] \in Entry
    /\ [do |-> "return"] \in Entry
    /\ \A c \in Nat \X Nat : Eval(c) \in Entry
    /\ \A b, next, given \in Nat : [do |-> "elements", at |-> b, next |-> next, given |-> given] \in Entry
    /\ \A b \in Nat, type \in {"string", "buffer"}, c \in Nat \X Nat :
         [do |-> "convert", own |-> b, type |-> type, dest |-> c] \in Entry
    /\ [do |-> "call", as |-> "statement"] \in Entry
    /\ \A as \in {"data", "integer"}, c \in Nat \X Nat :
         [do |-> "call", as |-> as, dest |-> c] \in Entry
BY DEF Entry, Run, Eval

(* The block an activation holds in a local variable, kind by kind. *)
LEMMA HeldIs ==
    ASSUME NEW e \in Entry
    PROVE  /\ e.do \in {"run", "args"} => Held(e) = {e.frame}
           /\ e.do \in {"host", "store", "name", "convert"} => Held(e) = {e.own}
           /\ e.do \notin {"run", "args", "host", "store", "name", "convert"} => Held(e) = {}
           /\ Held(e) \subseteq Nat
BY EntryIs DEF Held

(* What the C stack and the namespace hold. *)
LEMMA HoldersAre ==
    ASSUME stack \in Seq(Entry)
    PROVE  Holders = {names[n].at : n \in DOMAIN names}
                     \cup UNION {Held(stack[i]) : i \in DOMAIN stack}
<1>1. \A i \in DOMAIN stack : stack[i] \in Entry
  OBVIOUS
<1>2. \A i \in DOMAIN stack :
         Held(stack[i]) = (IF "own" \in DOMAIN stack[i] THEN {stack[i].own} ELSE {})
                          \cup (IF "frame" \in DOMAIN stack[i] THEN {stack[i].frame} ELSE {})
  <2> TAKE i \in DOMAIN stack
  <2>1. stack[i] \in Entry
    OBVIOUS
  <2>2. QED
    BY <2>1, EntryIs, HeldIs
<1>3. ASSUME NEW b
      PROVE  b \in Holders <=> \/ b \in {names[n].at : n \in DOMAIN names}
                               \/ \E i \in DOMAIN stack : b \in Held(stack[i])
  BY <1>2 DEF Holders
<1>4. QED
  BY <1>3

(* What may stand on what. *)
LEMMA AboveIs ==
    ASSUME NEW e \in Entry, NEW d \in Entry, Above(e, d)
    PROVE  /\ e.do = "host" => d.do = "run"
           /\ e.do = "run" => d.do \in {"store", "name", "return"}
                              \/ (d.do = "call" /\ d.as = "statement")
           /\ e.do = "call" => d.do \in {"run", "args"}
           /\ e.do # "eval"
           /\ e.do \in {"host", "run", "call"} \/ (Wants(e) /\ Gives(d))
           /\ Wants(e) <=> Gives(d)
           /\ d.do = "return" => e.do = "run"
           /\ d.do = "run" => e.do \in {"host", "call"}
           /\ d.do = "args" => e.do = "call"
           /\ d.do # "host"
BY EntryIs DEF Above, Wants, Gives

(* The greatest number of a set. *)
LEMMA Greatest ==
    ASSUME NEW n \in Nat, NEW S \in SUBSET (1..n), S # {}
    PROVE  \E x \in S : \A y \in S : y =< x
<1> DEFINE R == {n - x : x \in S}
<1>0. \A x \in S : x \in Nat /\ n - x \in Nat
  OBVIOUS
<1>1. R \in SUBSET Nat /\ R # {}
  BY <1>0
<1>2. PICK r \in R : \A q \in R : r =< q
  <2> HIDE DEF R
  <2>1. QED
    BY <1>1, Least
<1>3. PICK x \in S : r = n - x
  OBVIOUS
<1>4. \A y \in S : n - y \in R
  OBVIOUS
<1>5. \A y \in S : y =< x
  <2> TAKE y \in S
  <2>1. r =< n - y
    BY <1>2, <1>4
  <2>2. x \in Nat /\ y \in Nat
    OBVIOUS
  <2>3. QED
    BY <1>3, <2>1, <2>2
<1>6. QED
  BY <1>5

(* The innermost invocation of a part of the stack. *)
LEMMA RunOfIs ==
    ASSUME NEW s \in Seq(Entry), NEW j \in DOMAIN s, s[j].do = "run"
    PROVE  /\ RunOf(s) \in DOMAIN s /\ s[RunOf(s)].do = "run"
           /\ \A i \in DOMAIN s : s[i].do = "run" => i =< RunOf(s)
<1> DEFINE S == {i \in DOMAIN s : s[i].do = "run"}
<1>1. Len(s) \in Nat /\ S \in SUBSET (1..Len(s)) /\ S # {}
  OBVIOUS
<1>2. PICK x \in S : \A y \in S : y =< x
  <2> HIDE DEF S
  <2>1. QED
    BY <1>1, Greatest
<1>3. \E i \in DOMAIN s : s[i].do = "run" /\ \A k \in DOMAIN s : s[k].do = "run" => k =< i
  BY <1>2
<1>4. QED
  BY <1>3 DEF RunOf

(* The frame whose AML is parsed. *)
LEMMA BaseIs ==
    ASSUME StackOK, stack # <<>>, Top.do # "host"
    PROVE  /\ Base \in 1..Len(stack) /\ stack[Base].do = "run" /\ stack[Base] \in Entry
           /\ Frame = stack[Base].frame /\ Frame \in Nat
           /\ \A i \in DOMAIN stack : stack[i].do = "run" => i =< Base
           /\ Top.do = "run" => Base = Len(stack)
           /\ Top.do = "return" => Base = Len(stack) - 1
<1>1. stack \in Seq(Entry) /\ Len(stack) \in Nat \ {0} /\ Top = stack[Len(stack)]
  BY DEF StackOK, Top, Last
<1>2. \E j \in DOMAIN stack : stack[j].do = "run"
  <2>1. CASE stack[1].do = "run"
    BY <1>1, <2>1
  <2>2. CASE stack[1].do = "host"
    <3>1. Len(stack) > 1
      BY <1>1, <2>2
    <3>2. Above(stack[1], stack[2])
      BY <1>1, <3>1 DEF StackOK
    <3>3. stack[2].do = "run"
      BY <2>2, <3>2 DEF Above
    <3>4. QED
      BY <1>1, <3>1, <3>3
  <2>3. QED
    BY <2>1, <2>2 DEF StackOK
<1>3. PICK j \in DOMAIN stack : stack[j].do = "run"
  BY <1>2
<1>4. /\ Base \in 1..Len(stack) /\ stack[Base].do = "run"
      /\ \A i \in DOMAIN stack : stack[i].do = "run" => i =< Base
  BY <1>1, <1>3, RunOfIs DEF Base
<1>5. stack[Base] \in Entry
  BY <1>1, <1>4
<1>6. Frame = stack[Base].frame /\ Frame \in Nat
  BY <1>4, <1>5, EntryIs DEF Frame
<1>7. ASSUME Top.do = "run" PROVE Base = Len(stack)
  BY <1>1, <1>4, <1>7
<1>8. ASSUME Top.do = "return" PROVE Base = Len(stack) - 1
  <2>1. Len(stack) > 1
    BY <1>1, <1>8 DEF StackOK
  <2>2. stack[Len(stack) - 1] \in Entry /\ stack[Len(stack)] \in Entry
    BY <1>1, <2>1
  <2>3. Above(stack[Len(stack) - 1], stack[Len(stack)])
    <3>1. /\ Len(stack) - 1 \in 1..(Len(stack) - 1)
          /\ (Len(stack) - 1) + 1 = Len(stack)
      BY <1>1, <2>1
    <3>2. QED
      BY <3>1 DEF StackOK
  <2>4. stack[Len(stack) - 1].do = "run"
    BY <1>1, <1>8, <2>2, <2>3, AboveIs
  <2>5. Base # Len(stack)
    BY <1>1, <1>4, <1>8
  <2>6. Len(stack) - 1 =< Base
    BY <1>1, <1>4, <2>1, <2>4
  <2>7. QED
    BY <1>1, <1>4, <2>5, <2>6
<1>9. QED
  BY <1>4, <1>5, <1>6, <1>7, <1>8

(* Sequences that get longer and shorter. *)
LEMMA PopIs ==
    ASSUME NEW s \in Seq(Entry), s # <<>>
    PROVE  /\ Front(s) \in Seq(Entry) /\ Len(Front(s)) = Len(s) - 1
           /\ \A i \in 1..(Len(s) - 1) : Front(s)[i] = s[i]
           /\ Last(s) = s[Len(s)] /\ Len(s) \in Nat \ {0} /\ s[Len(s)] \in Entry
           /\ \A i \in 1..Len(s) : s[i] \in Entry
<1>1. Len(s) \in Nat \ {0} /\ \A i \in 1..Len(s) : s[i] \in Entry
  OBVIOUS
<1>2. Front(s) = SubSeq(s, 1, Len(s) - 1)
  BY DEF Front
<1>3. Front(s) \in Seq(Entry) /\ Len(Front(s)) = Len(s) - 1
  <2>1. \A i \in 1..(Len(s) - 1) : s[i] \in Entry
    BY <1>1
  <2>2. Len(s) - 1 \in Int /\ 1 \in Int
    BY <1>1
  <2>3. /\ SubSeq(s, 1, Len(s) - 1) \in Seq(Entry)
        /\ Len(SubSeq(s, 1, Len(s) - 1)) = IF 1 <= Len(s) - 1 THEN (Len(s) - 1) - 1 + 1 ELSE 0
    BY <2>1, <2>2, SubSeqProperties
  <2>4. (IF 1 <= Len(s) - 1 THEN (Len(s) - 1) - 1 + 1 ELSE 0) = Len(s) - 1
    <3> DEFINE n == Len(s)
    <3>1. n \in Nat /\ n # 0
      BY <1>1
    <3> HIDE DEF n
    <3>2. (IF 1 <= n - 1 THEN (n - 1) - 1 + 1 ELSE 0) = n - 1
      BY <3>1
    <3>3. QED
      BY <3>2 DEF n
  <2>5. QED
    BY <1>2, <2>3, <2>4
<1>4. \A i \in 1..(Len(s) - 1) : Front(s)[i] = s[i]
  BY <1>1, <1>2
<1>5. QED
  BY <1>1, <1>3, <1>4 DEF Last

(* A stack with one activation more. *)
LEMMA AppendIs ==
    ASSUME NEW s \in Seq(Entry), NEW a \in Entry
    PROVE  /\ Append(s, a) \in Seq(Entry) /\ Len(Append(s, a)) = Len(s) + 1
           /\ \A i \in 1..Len(s) : Append(s, a)[i] = s[i]
           /\ Append(s, a)[Len(s) + 1] = a
OBVIOUS

(* A stack with two activations more. *)
LEMMA AppendTwoIs ==
    ASSUME NEW s \in Seq(Entry), NEW a \in Entry, NEW b \in Entry
    PROVE  /\ s \o <<a, b>> \in Seq(Entry) /\ Len(s \o <<a, b>>) = Len(s) + 2
           /\ \A i \in 1..Len(s) : (s \o <<a, b>>)[i] = s[i]
           /\ (s \o <<a, b>>)[Len(s) + 1] = a
           /\ (s \o <<a, b>>)[Len(s) + 2] = b
<1>1. <<a, b>> \in Seq(Entry) /\ Len(<<a, b>>) = 2 /\ <<a, b>>[1] = a /\ <<a, b>>[2] = b
  OBVIOUS
<1>2. QED
  BY <1>1

(* What of the invariant is about the stack. *)
LEMMA StackFacts ==
    ASSUME StackOK
    PROVE  /\ stack \in Seq(Entry) /\ Len(stack) \in Nat
           /\ DOMAIN stack = 1..Len(stack)
           /\ \A i \in 1..Len(stack) : stack[i] \in Entry
           /\ \A i \in 1..(Len(stack) - 1) : Above(stack[i], stack[i + 1])
           /\ \A i \in 2..Len(stack) : i - 1 \in 1..Len(stack) /\ Above(stack[i - 1], stack[i])
           /\ \A i \in 1..Len(stack) : Wants(stack[i]) => i \in 2..Len(stack)
           /\ stack # <<>> => stack[1].do \in {"run", "host"}
<1>1. /\ stack \in Seq(Entry) /\ Len(stack) \in Nat /\ DOMAIN stack = 1..Len(stack)
      /\ \A i \in 1..(Len(stack) - 1) : Above(stack[i], stack[i + 1])
      /\ stack # <<>> => stack[1].do \in {"run", "host"}
  BY DEF StackOK
<1>2. \A i \in 1..Len(stack) : stack[i] \in Entry
  BY <1>1
<1>3. ASSUME NEW i \in 2..Len(stack)
      PROVE  i - 1 \in 1..Len(stack) /\ Above(stack[i - 1], stack[i])
  <2> DEFINE p == i - 1
  <2>1. p \in 1..(Len(stack) - 1) /\ p \in 1..Len(stack) /\ p + 1 = i
    BY <1>1
  <2> HIDE DEF p
  <2>2. Above(stack[p], stack[p + 1])
    BY <1>1, <2>1
  <2>3. Above(stack[p], stack[i])
    BY <2>1, <2>2
  <2>4. QED
    BY <2>1, <2>3 DEF p
<1>4. ASSUME NEW i \in 1..Len(stack), Wants(stack[i]) PROVE i \in 2..Len(stack)
  <2>0. stack # <<>>
    BY <1>1
  <2>1. stack[1].do \in {"run", "host"}
    BY <1>1, <2>0
  <2>2. i # 1
    BY <1>4, <2>1 DEF Wants
  <2>3. QED
    BY <1>1, <2>2
<1>5. QED
  BY <1>1, <1>2, <1>3, <1>4

(* The cell an activation waits for a value in, kind by kind. *)
LEMMA SlotIs ==
    ASSUME StackOK, NEW i \in 1..Len(stack), Wants(stack[i])
    PROVE  /\ stack[i].do \in {"store", "name", "convert"} =>
                Slot(i) = <<stack[i].own, 1>> /\ Held(stack[i]) = {stack[i].own}
           /\ stack[i].do = "elements" => Slot(i) = <<stack[i].at, stack[i].next - 1>>
           /\ stack[i].do = "return" =>
                /\ Slot(i) = <<stack[i - 1].frame, RETV>>
                /\ i - 1 \in 1..Len(stack) /\ stack[i - 1].do = "run"
                /\ Held(stack[i - 1]) = {stack[i - 1].frame}
           /\ stack[i].do = "args" =>
                Slot(i) = <<stack[i].frame, ARG>> /\ Held(stack[i]) = {stack[i].frame}
           /\ stack[i].do \in {"store", "name", "return", "elements", "convert", "args"}
<1>1. stack[i] \in Entry /\ stack[i].do \in {"store", "name", "return", "elements", "convert", "args"}
  BY StackFacts DEF Wants
<1>2. /\ stack[i].do \in {"store", "name", "convert"} => Slot(i) = <<stack[i].own, 1>>
      /\ stack[i].do = "elements" => Slot(i) = <<stack[i].at, stack[i].next - 1>>
      /\ stack[i].do = "return" => Slot(i) = <<stack[i - 1].frame, RETV>>
      /\ stack[i].do = "args" => Slot(i) = <<stack[i].frame, ARG>>
  BY <1>1 DEF Slot, SlotOf
<1>3. /\ stack[i].do \in {"store", "name", "convert"} => Held(stack[i]) = {stack[i].own}
      /\ stack[i].do = "args" => Held(stack[i]) = {stack[i].frame}
  BY <1>1, HeldIs
<1>4. ASSUME stack[i].do = "return"
      PROVE  /\ i - 1 \in 1..Len(stack) /\ stack[i - 1].do = "run"
             /\ Held(stack[i - 1]) = {stack[i - 1].frame}
  <2>1. i \in 2..Len(stack)
    BY StackFacts
  <2>2. i - 1 \in 1..Len(stack) /\ stack[i - 1] \in Entry /\ Above(stack[i - 1], stack[i])
    BY <2>1, StackFacts
  <2>3. stack[i - 1].do = "run"
    BY <1>1, <1>4, <2>2, AboveIs
  <2>4. QED
    BY <2>2, <2>3, HeldIs
<1>5. QED
  BY <1>1, <1>2, <1>3, <1>4

(* A place is in a block that is held, or in a package that is being made. *)
LEMMA SlotBlock ==
    ASSUME StackOK, NEW i \in 1..Len(stack), Wants(stack[i])
    PROVE  /\ Slot(i) = <<Slot(i)[1], Slot(i)[2]>>
           /\ \/ \E j \in 1..Len(stack) : j =< i /\ Slot(i)[1] \in Held(stack[j])
              \/ stack[i].do = "elements" /\ Slot(i)[1] = stack[i].at
<1>1. Slot(i) = <<Slot(i)[1], Slot(i)[2]>>
  BY SlotIs
<1>2. CASE stack[i].do \in {"store", "name", "convert", "args"}
  <2>1. Slot(i)[1] \in Held(stack[i])
    <3>1. CASE stack[i].do = "args"
      BY <3>1, SlotIs
    <3>2. CASE stack[i].do # "args"
      BY <1>2, <3>2, SlotIs
    <3>3. QED
      BY <3>1, <3>2
  <2>2. QED
    BY <1>1, <2>1
<1>3. CASE stack[i].do = "return"
  <2>1. i - 1 \in 1..Len(stack) /\ i - 1 =< i /\ Slot(i)[1] \in Held(stack[i - 1])
    BY <1>3, SlotIs
  <2>2. QED
    BY <1>1, <2>1
<1>4. CASE stack[i].do = "elements"
  BY <1>1, <1>4, SlotIs
<1>5. QED
  BY <1>2, <1>3, <1>4, SlotIs

(* The packages that are being made are not among blocks that only come    *)
(* from others, if those do not hold anything and the places not owned.    *)
LEMMA Chain ==
    ASSUME StackOK, NEW g, NEW k \in 0..Len(stack), NEW D, NEW X,
           \A a, j, c : Points(g, a, j, c) /\ c \in D => a \in D \/ <<a, j>> \in X,
           \A i \in 1..k : Held(stack[i]) \cap D = {},
           \A i \in 1..(k - 1) : stack[i + 1].do = "elements" =>
             Points(g, Slot(i)[1], Slot(i)[2], stack[i + 1].at) /\ Slot(i) \notin X
    PROVE  \A i \in 1..k : stack[i].do = "elements" => stack[i].at \notin D
<1> DEFINE bad == {i \in 1..k : stack[i].do = "elements" /\ stack[i].at \in D}
<1>1. SUFFICES ASSUME bad # {} PROVE FALSE
  OBVIOUS
<1>2. Len(stack) \in Nat /\ k \in Nat /\ k =< Len(stack) /\ bad \in SUBSET Nat
  BY StackFacts
<1>3. PICK i \in bad : \A j \in bad : i =< j
  <2> HIDE DEF bad
  <2>1. QED
    BY <1>1, <1>2, Least
<1>4. i \in 1..k /\ i \in 1..Len(stack) /\ stack[i].do = "elements" /\ stack[i].at \in D
  BY <1>2, <1>3
<1>5. Wants(stack[i])
  BY <1>4 DEF Wants
<1>6. i \in 2..Len(stack)
  BY <1>4, <1>5, StackFacts
<1> DEFINE p == i - 1
<1>7. p \in 1..Len(stack) /\ p \in 1..(k - 1) /\ p + 1 = i /\ p < i
  BY <1>2, <1>4, <1>6
<1>8. Above(stack[p], stack[i]) /\ stack[p] \in Entry /\ stack[i] \in Entry
  BY <1>6, <1>7, StackFacts
<1> HIDE DEF p
<1>9. Points(g, Slot(p)[1], Slot(p)[2], stack[i].at) /\ Slot(p) \notin X
  BY <1>4, <1>7
<1>10. Wants(stack[p])
  BY <1>4, <1>8, AboveIs
<1>11. Slot(p) = <<Slot(p)[1], Slot(p)[2]>>
  BY <1>7, <1>10, SlotBlock
<1>12. Slot(p)[1] \in D
  BY <1>4, <1>9, <1>11
<1>13. CASE \E j \in 1..Len(stack) : j =< p /\ Slot(p)[1] \in Held(stack[j])
  <2>1. PICK j \in 1..Len(stack) : j =< p /\ Slot(p)[1] \in Held(stack[j])
    BY <1>13
  <2>2. j \in 1..k
    BY <1>2, <1>7, <2>1
  <2>3. QED
    BY <1>12, <2>1, <2>2
<1>14. CASE stack[p].do = "elements" /\ Slot(p)[1] = stack[p].at
  <2>1. p \in bad
    BY <1>2, <1>7, <1>12, <1>14
  <2>2. QED
    BY <1>2, <1>3, <1>7, <2>1
<1>15. QED
  BY <1>7, <1>10, <1>13, <1>14, SlotBlock

(* Where the elements of packages that are being made go. *)
LEMMA ElementsOwned ==
    ASSUME StackOK, Destined, HeapOK(heap, Holders), NEW i \in 1..(Len(stack) - 1),
           stack[i + 1].do = "elements"
    PROVE  /\ Wants(stack[i]) /\ Slot(i) = <<Slot(i)[1], Slot(i)[2]>>
           /\ At(heap, Slot(i)) = Owner("package", stack[i + 1].at)
           /\ 1..stack[i + 1].given \subseteq DOMAIN heap[stack[i + 1].at].cells
           /\ stack[i + 1].next \in 1..(stack[i + 1].given + 1)
<1>1. i \in 1..Len(stack) /\ i + 1 \in 1..Len(stack) /\ Above(stack[i], stack[i + 1])
      /\ stack[i] \in Entry /\ stack[i + 1] \in Entry
  BY StackFacts
<1>2. Wants(stack[i])
  BY <1>1, AboveIs
<1>3. QED
  BY <1>1, <1>2, SlotBlock DEF Destined, Dest, Slot

(* What the invariant says of the holders, as the other lemmas use it. *)
LEMMA HeldFacts ==
    ASSUME IInv
    PROVE  /\ \A i \in 1..Len(stack) : Held(stack[i]) \subseteq Holders
           /\ \A n \in DOMAIN names : names[n].at \in Holders
           /\ Holders \subseteq DOMAIN heap /\ Holders \subseteq Nat
           /\ \A a, i, c : Points(heap, a, i, c) => c \notin Holders /\ c \in DOMAIN heap
           /\ \A a, i, c, j, b : Points(heap, a, i, b) /\ Points(heap, c, j, b) => a = c /\ i = j
           /\ StackOK /\ HeapOK(heap, Holders) /\ Destined
           /\ IsFiniteSet(DOMAIN heap) /\ 0 \notin DOMAIN heap
<1>1. StackOK /\ HeapOK(heap, Holders) /\ Destined /\ NamesOK
  BY DEF IInv
<1>2. /\ \A i \in 1..Len(stack) : Held(stack[i]) \subseteq Holders
      /\ \A n \in DOMAIN names : names[n].at \in Holders
  BY <1>1, HoldersAre, StackFacts
<1>3. Holders \subseteq DOMAIN heap /\ Holders \subseteq Nat /\ IsFiniteSet(DOMAIN heap)
  BY <1>1 DEF HeapOK
<1>4. /\ \A a, i, c : Points(heap, a, i, c) => c \notin Holders /\ c \in DOMAIN heap
      /\ \A a, i, c, j, b : Points(heap, a, i, b) /\ Points(heap, c, j, b) => a = c /\ i = j
  BY <1>1, HeapFacts
<1>5. 0 \notin DOMAIN heap
  BY <1>1 DEF NamesOK
<1>6. QED
  BY <1>1, <1>2, <1>3, <1>4, <1>5

(* The places that functions wait for are cells. *)
LEMMA SlotCellStep ==
    ASSUME IInv, NEW i \in 1..(Len(stack) - 1), Wants(stack[i]),
           \A p \in 1..(Len(stack) - 1) : p < i /\ Wants(stack[p]) =>
             Slot(p)[1] \in DOMAIN heap /\ Slot(p)[2] \in DOMAIN heap[Slot(p)[1]].cells
    PROVE  Slot(i)[1] \in DOMAIN heap /\ Slot(i)[2] \in DOMAIN heap[Slot(i)[1]].cells
<1>1. StackOK /\ Len(stack) \in Nat /\ i \in 1..Len(stack)
  BY HeldFacts, StackFacts
<1>3. CASE stack[i].do \in {"store", "name", "convert"}
  <2>1. Slot(i) = <<stack[i].own, 1>> /\ Held(stack[i]) = {stack[i].own}
    BY <1>1, <1>3, SlotIs
  <2>2. stack[i].own \in DOMAIN heap
    BY <1>1, <2>1, HeldFacts
  <2>3. DOMAIN heap[stack[i].own].cells = {1}
    BY <1>1, <1>3, <2>1, StackFacts DEF IInv, Sizes, Sized
  <2>4. QED
    BY <2>1, <2>2, <2>3
<1>4. CASE stack[i].do = "args"
  <2>1. Slot(i) = <<stack[i].frame, ARG>> /\ Held(stack[i]) = {stack[i].frame}
    BY <1>1, <1>4, SlotIs
  <2>2. stack[i].frame \in DOMAIN heap
    BY <1>1, <2>1, HeldFacts
  <2>3. DOMAIN heap[stack[i].frame].cells = 1..3
    BY <1>1, <1>4, <2>1, StackFacts DEF IInv, Sizes, Sized
  <2>4. QED
    BY <2>1, <2>2, <2>3 DEF ARG
<1>5. CASE stack[i].do = "return"
  <2>1. /\ Slot(i) = <<stack[i - 1].frame, RETV>>
        /\ i - 1 \in 1..Len(stack) /\ stack[i - 1].do = "run"
        /\ Held(stack[i - 1]) = {stack[i - 1].frame}
    BY <1>1, <1>5, SlotIs
  <2>2. stack[i - 1].frame \in DOMAIN heap
    BY <1>1, <2>1, HeldFacts
  <2>3. DOMAIN heap[stack[i - 1].frame].cells = 1..3
    BY <1>1, <2>1, StackFacts DEF IInv, Sizes, Sized
  <2>4. QED
    BY <2>1, <2>2, <2>3 DEF RETV
<1>6. CASE stack[i].do = "elements"
  <2>1. Slot(i) = <<stack[i].at, stack[i].next - 1>>
    BY <1>1, <1>6, SlotIs
  <2>2. i \in 2..Len(stack)
    BY <1>1, StackFacts
  <2> DEFINE p == i - 1
  <2>3. p \in 1..(Len(stack) - 1) /\ p + 1 = i
    BY <1>1, <2>2
  <2> HIDE DEF p
  <2>4. /\ Slot(p) = <<Slot(p)[1], Slot(p)[2]>>
        /\ At(heap, Slot(p)) = Owner("package", stack[i].at)
        /\ 1..stack[i].given \subseteq DOMAIN heap[stack[i].at].cells
        /\ stack[i].next \in 1..(stack[i].given + 1)
    BY <1>6, <2>3, HeldFacts, ElementsOwned
  <2>5. stack[i].at \in DOMAIN heap
    <3>1. Wants(stack[p]) /\ p < i
      BY <1>6, <2>3, HeldFacts, ElementsOwned
    <3>2. Slot(p)[1] \in DOMAIN heap /\ Slot(p)[2] \in DOMAIN heap[Slot(p)[1]].cells
      BY <2>3, <3>1
    <3>3. heap[Slot(p)[1]].cells[Slot(p)[2]] = Owner("package", stack[i].at)
      BY <2>4 DEF At
    <3>4. Points(heap, Slot(p)[1], Slot(p)[2], stack[i].at)
      BY <3>2, <3>3, OwnsIs DEF Points
    <3>5. QED
      BY <3>4, HeldFacts
  <2>6. stack[i].next > 1
    BY <1>6 DEF IInv, Destined, Dest
  <2>7. stack[i] \in Entry /\ stack[i].next \in Nat /\ stack[i].given \in Nat
    BY <1>1, <1>6, StackFacts, EntryIs
  <2>8. stack[i].next - 1 \in 1..stack[i].given
    BY <2>4, <2>6, <2>7
  <2>9. QED
    BY <2>1, <2>4, <2>5, <2>8
<1>7. QED
  BY <1>1, <1>3, <1>4, <1>5, <1>6, SlotIs

(* The cell an activation below the top waits on is a cell of an allocated *)
(* block.                                                                  *)
LEMMA SlotCell ==
    ASSUME IInv, NEW i \in 1..(Len(stack) - 1), Wants(stack[i])
    PROVE  /\ Slot(i)[1] \in DOMAIN heap /\ Slot(i)[2] \in DOMAIN heap[Slot(i)[1]].cells
           /\ Slot(i) = <<Slot(i)[1], Slot(i)[2]>>
           /\ At(heap, Slot(i)) = heap[Slot(i)[1]].cells[Slot(i)[2]]
<1> DEFINE Cell(p) == Slot(p)[1] \in DOMAIN heap /\ Slot(p)[2] \in DOMAIN heap[Slot(p)[1]].cells
           bad == {p \in 1..(Len(stack) - 1) : Wants(stack[p]) /\ ~Cell(p)}
<1>1. StackOK /\ Len(stack) \in Nat /\ i \in 1..Len(stack)
  BY HeldFacts, StackFacts
<1>2. ASSUME bad # {} PROVE FALSE
  <2>1. bad \in SUBSET Nat
    OBVIOUS
  <2>2. PICK p \in bad : \A q \in bad : p =< q
    <3> HIDE DEF bad
    <3>1. QED
      BY <1>2, <2>1, Least
  <2>3. p \in 1..(Len(stack) - 1) /\ Wants(stack[p])
    OBVIOUS
  <2>4. \A q \in 1..(Len(stack) - 1) : q < p /\ Wants(stack[q]) => Cell(q)
    <3> TAKE q \in 1..(Len(stack) - 1)
    <3> HAVE q < p /\ Wants(stack[q])
    <3>1. q \notin bad
      BY <1>1, <2>2, <2>3
    <3>2. QED
      BY <3>1
  <2>5. Cell(p)
    BY <2>3, <2>4, SlotCellStep
  <2>6. QED
    BY <2>2, <2>5
<1>3. Cell(i)
  BY <1>2
<1>4. QED
  BY <1>1, <1>3, SlotBlock DEF At

(* Who owns a package that is being made. *)
LEMMA ElementsHome ==
    ASSUME IInv, NEW i \in 2..Len(stack), stack[i].do = "elements"
    PROVE  /\ i - 1 \in 1..(Len(stack) - 1) /\ Wants(stack[i - 1])
           /\ Points(heap, Slot(i - 1)[1], Slot(i - 1)[2], stack[i].at)
           /\ At(heap, Slot(i - 1)) = Owner("package", stack[i].at)
           /\ 1..stack[i].given \subseteq DOMAIN heap[stack[i].at].cells
           /\ stack[i].next \in 1..(stack[i].given + 1)
           /\ stack[i].at \in DOMAIN heap /\ stack[i].at \notin Holders
<1> DEFINE p == i - 1
<1>1. StackOK /\ Len(stack) \in Nat /\ p \in 1..(Len(stack) - 1) /\ p + 1 = i
  BY HeldFacts, StackFacts
<1> HIDE DEF p
<1>2. /\ Wants(stack[p]) /\ Slot(p) = <<Slot(p)[1], Slot(p)[2]>>
      /\ At(heap, Slot(p)) = Owner("package", stack[i].at)
      /\ 1..stack[i].given \subseteq DOMAIN heap[stack[i].at].cells
      /\ stack[i].next \in 1..(stack[i].given + 1)
  BY <1>1, HeldFacts, ElementsOwned
<1>3. Points(heap, Slot(p)[1], Slot(p)[2], stack[i].at)
  BY <1>1, <1>2, SlotCell, OwnsIs DEF Points
<1>4. stack[i].at \in DOMAIN heap /\ stack[i].at \notin Holders
  BY <1>3, HeldFacts
<1>5. QED
  BY <1>1, <1>2, <1>3, <1>4 DEF p

(* That cell is in a block the stack holds, unless a package is being      *)
(* built.                                                                  *)
LEMMA SlotHeld ==
    ASSUME StackOK, NEW i \in 1..Len(stack), Wants(stack[i]), stack[i].do # "elements"
    PROVE  \/ /\ stack[i].do = "return" /\ i - 1 \in 1..Len(stack)
              /\ Slot(i)[1] \in Held(stack[i - 1]) /\ stack[i - 1].do = "run"
           \/ stack[i].do # "return" /\ Slot(i)[1] \in Held(stack[i]) /\ stack[i].do # "run"
<1>1. CASE stack[i].do = "return"
  <2>1. /\ Slot(i) = <<stack[i - 1].frame, RETV>>
        /\ i - 1 \in 1..Len(stack) /\ stack[i - 1].do = "run"
        /\ Held(stack[i - 1]) = {stack[i - 1].frame}
    BY <1>1, SlotIs
  <2>2. QED
    BY <1>1, <2>1
<1>2. CASE stack[i].do = "args"
  <2>1. Slot(i) = <<stack[i].frame, ARG>> /\ Held(stack[i]) = {stack[i].frame}
    BY <1>2, SlotIs
  <2>2. QED
    BY <1>2, <2>1
<1>3. CASE stack[i].do \in {"store", "name", "convert"}
  <2>1. Slot(i) = <<stack[i].own, 1>> /\ Held(stack[i]) = {stack[i].own}
    BY <1>3, SlotIs
  <2>2. QED
    BY <1>3, <2>1
<1>4. QED
  BY <1>1, <1>2, <1>3, SlotIs

(* Each function waits for a place of its own. *)
LEMMA SlotsApart ==
    ASSUME IInv, NEW i \in 1..Len(stack), NEW j \in 1..Len(stack),
           Wants(stack[i]), Wants(stack[j]), Slot(i)[1] = Slot(j)[1]
    PROVE  i = j
<1> DEFINE bad == {p \in 1..Len(stack) :
                     Wants(stack[p]) /\ \E q \in 1..Len(stack) :
                       Wants(stack[q]) /\ Slot(p)[1] = Slot(q)[1] /\ p # q}
<1>1. StackOK /\ Len(stack) \in Nat
  BY HeldFacts, StackFacts
<1>2. ASSUME bad # {} PROVE FALSE
  <2>1. bad \in SUBSET Nat
    OBVIOUS
  <2>2. PICK p \in bad : \A q \in bad : p =< q
    <3> HIDE DEF bad
    <3>1. QED
      BY <1>2, <2>1, Least
  <2>3. p \in 1..Len(stack) /\ Wants(stack[p])
    OBVIOUS
  <2>4. PICK q \in 1..Len(stack) : Wants(stack[q]) /\ Slot(p)[1] = Slot(q)[1] /\ p # q
    OBVIOUS
  <2>5. \A r \in 1..Len(stack), s \in 1..Len(stack) :
          r < p /\ Wants(stack[r]) /\ Wants(stack[s]) /\ Slot(r)[1] = Slot(s)[1] => r = s
    <3> TAKE r \in 1..Len(stack), s \in 1..Len(stack)
    <3> HAVE r < p /\ Wants(stack[r]) /\ Wants(stack[s]) /\ Slot(r)[1] = Slot(s)[1]
    <3>1. r \notin bad
      BY <1>1, <2>2, <2>3
    <3>2. QED
      BY <3>1
  <2> HIDE DEF bad
  <2>6. \A r \in 1..Len(stack), s \in 1..Len(stack) :
          Held(stack[r]) \cap Held(stack[s]) # {} => r = s
    BY <1>1, StackFacts DEF IInv, HeldOnce
  <2>7. \A r \in {p, q} : stack[r].do = "elements" =>
          /\ Slot(r)[1] = stack[r].at /\ stack[r].at \notin Holders /\ r \in 2..Len(stack)
    BY <1>1, <2>3, <2>4, SlotIs, StackFacts, ElementsHome
  <2>8. \A r \in {p, q} : stack[r].do # "elements" => Slot(r)[1] \in Holders
    BY <1>1, <2>3, <2>4, SlotBlock, HeldFacts
  <2>9. CASE stack[p].do # "elements" /\ stack[q].do # "elements"
    <3>1. /\ \/ /\ stack[p].do = "return" /\ p - 1 \in 1..Len(stack)
                /\ Slot(p)[1] \in Held(stack[p - 1]) /\ stack[p - 1].do = "run"
             \/ Slot(p)[1] \in Held(stack[p]) /\ stack[p].do # "run"
          /\ \/ /\ stack[q].do = "return" /\ q - 1 \in 1..Len(stack)
                /\ Slot(q)[1] \in Held(stack[q - 1]) /\ stack[q - 1].do = "run"
             \/ Slot(q)[1] \in Held(stack[q]) /\ stack[q].do # "run"
      BY <1>1, <2>3, <2>4, <2>9, SlotHeld
    <3>2. CASE /\ p - 1 \in 1..Len(stack) /\ q - 1 \in 1..Len(stack)
               /\ Slot(p)[1] \in Held(stack[p - 1]) /\ Slot(q)[1] \in Held(stack[q - 1])
      <4>1. p - 1 = q - 1
        BY <2>4, <2>6, <3>2
      <4>2. QED
        BY <1>1, <2>3, <2>4, <4>1
    <3>3. CASE Slot(p)[1] \in Held(stack[p]) /\ Slot(q)[1] \in Held(stack[q])
      BY <2>3, <2>4, <2>6, <3>3
    <3>4. CASE /\ p - 1 \in 1..Len(stack) /\ Slot(p)[1] \in Held(stack[p - 1])
               /\ stack[p - 1].do = "run"
               /\ Slot(q)[1] \in Held(stack[q]) /\ stack[q].do # "run"
      BY <2>4, <2>6, <3>4
    <3>5. CASE /\ q - 1 \in 1..Len(stack) /\ Slot(q)[1] \in Held(stack[q - 1])
               /\ stack[q - 1].do = "run"
               /\ Slot(p)[1] \in Held(stack[p]) /\ stack[p].do # "run"
      BY <2>3, <2>4, <2>6, <3>5
    <3>6. QED
      BY <3>1, <3>2, <3>3, <3>4, <3>5
  <2>10. CASE stack[p].do = "elements" /\ stack[q].do = "elements"
    <3>1. \A r \in {p, q} :
            /\ r - 1 \in 1..(Len(stack) - 1) /\ Wants(stack[r - 1])
            /\ Points(heap, Slot(r - 1)[1], Slot(r - 1)[2], stack[r].at)
      BY <2>7, <2>10, ElementsHome
    <3>2. stack[p].at = stack[q].at
      BY <2>4, <2>7, <2>10
    <3>3. Slot(p - 1)[1] = Slot(q - 1)[1]
      BY <3>1, <3>2, HeldFacts
    <3>4. p - 1 \in 1..Len(stack) /\ q - 1 \in 1..Len(stack) /\ p - 1 < p /\ p - 1 # q - 1
      BY <1>1, <2>3, <2>4, <3>1
    <3>5. QED
      BY <2>5, <3>1, <3>3, <3>4
  <2>11. QED
    BY <2>4, <2>7, <2>8, <2>9, <2>10
<1>3. i \notin bad
  BY <1>2
<1>4. QED
  BY <1>3

-----------------------------------------------------------------------------
(* Operands. *)

(* Names, and the variables of frames that run. *)
Direct(op) ==
    \/ \E n \in DOMAIN names : op = InCell("data", <<names[n].at, 1>>)
    \/ \E i \in 1..Len(stack) :
         /\ stack[i].do = "run"
         /\ op \in {InCell("local", <<stack[i].frame, LOCAL0>>), InCell("arg", <<stack[i].frame, ARG>>)}

(* What is in a cell that an operand leads to: it is not beneath itself,   *)
(* and it is none of the places that functions wait for.                   *)
Place(op) ==
    /\ op.flag \in {"data", "local", "arg"}
    /\ op.cell = <<op.cell[1], op.cell[2]>>
    /\ op.cell[1] \in DOMAIN heap /\ op.cell[2] \in DOMAIN heap[op.cell[1]].cells
    /\ op.cell[1] \notin Beneath(heap, op.cell[1], op.cell[2])
    /\ \A i \in 1..Len(stack) : Wants(stack[i]) => Slot(i) # op.cell
    /\ \A i \in 1..Len(stack) : stack[i].do = "elements" => stack[i].at # op.cell[1]
    /\ op.flag \in {"local", "arg"} => \E i \in 1..Len(stack) : op.cell[1] \in Held(stack[i])
    /\ op.flag = "data" => \A i \in 1..Len(stack) : op.cell[1] \notin Held(stack[i])

(* An operand that is a cell of the frame or of a node is a place, in a    *)
(* block that is held.                                                     *)
LEMMA DirectIs ==
    ASSUME IInv, NEW op, Direct(op)
    PROVE  Place(op) /\ op.cell[1] \in Holders
<1>1. StackOK /\ Len(stack) \in Nat
  BY HeldFacts, StackFacts
<1>2. ASSUME NEW b \in Holders, NEW k \in DOMAIN heap[b].cells
      PROVE  /\ b \in DOMAIN heap /\ b \notin Beneath(heap, b, k)
             /\ \A i \in 1..Len(stack) : stack[i].do = "elements" => stack[i].at # b
  <2>1. b \in DOMAIN heap /\ b \notin Beneath(heap, b, k)
    BY HeldFacts, BelowIs
  <2>2. \A i \in 1..Len(stack) : stack[i].do = "elements" => i \in 2..Len(stack)
    BY <1>1, StackFacts DEF Wants
  <2>3. QED
    BY <2>1, <2>2, ElementsHome
<1>3. \A i \in 1..Len(stack) : Wants(stack[i]) =>
         \/ stack[i].do = "elements" /\ Slot(i)[1] = stack[i].at
         \/ /\ stack[i].do = "return" /\ Slot(i)[2] = RETV /\ i - 1 \in 1..Len(stack)
            /\ Slot(i)[1] \in Held(stack[i - 1])
         \/ Slot(i)[1] \in Held(stack[i]) /\ stack[i].do # "run"
  <2> TAKE i \in 1..Len(stack)
  <2> HAVE Wants(stack[i])
  <2>1. CASE stack[i].do = "elements"
    BY <1>1, <2>1, SlotIs
  <2>2. CASE stack[i].do = "return"
    <3>1. Slot(i) = <<stack[i - 1].frame, RETV>> /\ i - 1 \in 1..Len(stack)
          /\ Held(stack[i - 1]) = {stack[i - 1].frame}
      BY <1>1, <2>2, SlotIs
    <3>2. QED
      BY <2>2, <3>1
  <2>3. CASE stack[i].do \notin {"elements", "return"}
    BY <1>1, <2>3, SlotHeld
  <2>4. QED
    BY <2>1, <2>2, <2>3
<1>4. CASE \E n \in DOMAIN names : op = InCell("data", <<names[n].at, 1>>)
  <2>1. PICK n \in DOMAIN names : op = InCell("data", <<names[n].at, 1>>)
    BY <1>4
  <2> DEFINE b == names[n].at
  <2>2. op.flag = "data" /\ op.cell = <<b, 1>>
    BY <2>1 DEF InCell
  <2>3. b \in Holders /\ 1 \in DOMAIN heap[b].cells
    BY HeldFacts DEF IInv, Sizes, Sized
  <2>4. \A i \in 1..Len(stack) : b \notin Held(stack[i])
    BY <1>1, StackFacts DEF IInv, HeldOnce
  <2> HIDE DEF b
  <2>5. /\ b \in DOMAIN heap /\ b \notin Beneath(heap, b, 1)
        /\ \A i \in 1..Len(stack) : stack[i].do = "elements" => stack[i].at # b
    BY <1>2, <2>3
  <2>6. \A i \in 1..Len(stack) : Wants(stack[i]) => Slot(i)[1] # b
    BY <1>3, <2>4, <2>5
  <2>7. \A i \in 1..Len(stack) : Wants(stack[i]) => Slot(i) # <<b, 1>>
    BY <2>6
  <2>8. QED
    BY <2>2, <2>3, <2>4, <2>5, <2>7 DEF Place
<1>5. CASE \E i \in 1..Len(stack) :
             /\ stack[i].do = "run"
             /\ op \in {InCell("local", <<stack[i].frame, LOCAL0>>), InCell("arg", <<stack[i].frame, ARG>>)}
  <2>1. PICK i \in 1..Len(stack) :
             /\ stack[i].do = "run"
             /\ op \in {InCell("local", <<stack[i].frame, LOCAL0>>), InCell("arg", <<stack[i].frame, ARG>>)}
    BY <1>5
  <2> DEFINE b == stack[i].frame
  <2>2. PICK k \in {2, 3} : op.cell = <<b, k>> /\ op.flag \in {"local", "arg"}
    BY <2>1 DEF InCell, LOCAL0, ARG
  <2>3. stack[i] \in Entry /\ Held(stack[i]) = {b}
    BY <1>1, <2>1, StackFacts, HeldIs
  <2>4. b \in Holders /\ DOMAIN heap[b].cells = 1..3
    BY <1>1, <2>1, <2>3, HeldFacts, StackFacts DEF IInv, Sizes, Sized
  <2> HIDE DEF b
  <2>5. k \in DOMAIN heap[b].cells
    BY <2>4
  <2>6. /\ b \in DOMAIN heap /\ b \notin Beneath(heap, b, k)
        /\ \A j \in 1..Len(stack) : stack[j].do = "elements" => stack[j].at # b
    BY <1>2, <2>4, <2>5
  <2>7. \A j \in 1..Len(stack) : b \in Held(stack[j]) => j = i
    BY <1>1, <2>3, StackFacts DEF IInv, HeldOnce
  <2>8. \A j \in 1..Len(stack) : Wants(stack[j]) /\ Slot(j)[1] = b => Slot(j)[2] = RETV
    BY <1>3, <2>1, <2>6, <2>7
  <2>9. \A j \in 1..Len(stack) : Wants(stack[j]) => Slot(j) # <<b, k>>
    BY <2>8 DEF RETV
  <2>10. QED
    BY <2>2, <2>3, <2>4, <2>5, <2>6, <2>9 DEF Place
<1>6. QED
  BY <1>4, <1>5 DEF Direct

(* The locals, the arguments and the named objects are such operands, and  *)
(* so is what they refer to.                                               *)
LEMMA VariablesDirect ==
    ASSUME IInv, stack # <<>>, Top.do # "host", NEW op \in Variables
    PROVE  Direct(op) /\ \A r \in Referred(op) : Direct(r)
<1>1. StackOK /\ Len(stack) \in Nat /\ Base \in 1..Len(stack) /\ stack[Base].do = "run"
      /\ Frame = stack[Base].frame
  BY HeldFacts, StackFacts, BaseIs
<1>2. Direct(op)
  BY <1>1 DEF Variables, Direct
<1>3. ASSUME NEW r \in Referred(op) PROVE Direct(r)
  <2> DEFINE b == op.cell[1]
             k == op.cell[2]
             v == heap[b].cells[k]
  <2>1. b \in DOMAIN heap /\ k \in DOMAIN heap[b].cells /\ At(heap, op.cell) = v
    BY <1>2, DirectIs DEF Place, At
  <2>2. v.type = "reference" /\ r = v.to
    BY <1>3, <2>1 DEF Referred
  <2>3. PICK i \in DOMAIN stack : Reaches(v.to, i)
    BY <2>1, <2>2 DEF IInv, BorrowedCells
  <2> HIDE DEF v
  <2>4. CASE \E n \in DOMAIN names : r = InCell("data", <<names[n].at, 1>>)
    BY <2>4 DEF Direct
  <2>5. CASE \E f \in {stack[j].frame : j \in {m \in 1..(i - 1) : stack[m].do = "run"}} :
               r \in {InCell("local", <<f, LOCAL0>>), InCell("arg", <<f, ARG>>)}
    <3>1. i \in 1..Len(stack) /\ 1..(i - 1) \subseteq 1..Len(stack)
      BY <1>1, StackFacts
    <3>2. QED
      BY <2>5, <3>1 DEF Direct
  <2>6. QED
    BY <2>2, <2>3, <2>4, <2>5 DEF Reaches
<1>4. QED
  BY <1>2, <1>3

(* An element of a package in such a place is a place. *)
LEMMA ElementsPlace ==
    ASSUME IInv, NEW d, Direct(d), NEW op \in Elements(d), op.flag # "field"
    PROVE  Place(op)
<1> DEFINE a == d.cell[1]
           j == d.cell[2]
           v == heap[a].cells[j]
<1>1. /\ a \in DOMAIN heap /\ j \in DOMAIN heap[a].cells /\ d.cell = <<a, j>> /\ a \in Holders
      /\ \A i \in 1..Len(stack) : Wants(stack[i]) => Slot(i) # <<a, j>>
  BY DirectIs DEF Place
<1>2. At(heap, d.cell) = v
  BY DEF At
<1>3. PICK k : v.type = "package" /\ k \in DOMAIN heap[v.at].cells /\ op = InCell("data", <<v.at, k>>)
  <2>1. CASE v.type = "package"
    BY <1>2, <2>1 DEF Elements
  <2>2. CASE v.type \in {"string", "buffer"}
    <3> HIDE DEF v
    <3>1. v.type # "package"
      BY <2>2
    <3>2. op = InBytes(v.at)
      BY <1>2, <2>2, <3>1 DEF Elements
    <3>3. QED
      BY <3>2 DEF InBytes
  <2>3. CASE v.type \notin {"package", "string", "buffer"}
    BY <1>2, <2>3 DEF Elements
  <2>4. QED
    BY <2>1, <2>2, <2>3
<1> DEFINE b == v.at
<1>4. Points(heap, a, j, b)
  BY <1>1, <1>3 DEF Points, Owns
<1>5. op.flag = "data" /\ op.cell = <<b, k>> /\ k \in DOMAIN heap[b].cells
  BY <1>3 DEF InCell
<1> HIDE DEF a, j, b
<1>6. b \in DOMAIN heap /\ b \notin Holders
  BY <1>4, HeldFacts
<1>7. b \notin Beneath(heap, b, k)
  <2>1. Beneath(heap, b, k) \cap Holders = {}
        /\ (b \in Beneath(heap, b, k) <=> a \in Beneath(heap, b, k) \/ (a = b /\ j = k))
    BY <1>4, <1>5, <1>6, HeldFacts, BelowIs
  <2>2. QED
    BY <1>1, <1>6, <2>1
<1>8. StackOK /\ Len(stack) \in Nat
  BY HeldFacts, StackFacts
<1>9. \A i \in 1..Len(stack) : stack[i].do = "elements" => stack[i].at # b
  <2> TAKE i \in 1..Len(stack)
  <2> HAVE stack[i].do = "elements"
  <2>1. i \in 2..Len(stack)
    BY <1>8, StackFacts DEF Wants
  <2>2. /\ i - 1 \in 1..(Len(stack) - 1) /\ Wants(stack[i - 1])
        /\ Points(heap, Slot(i - 1)[1], Slot(i - 1)[2], stack[i].at)
    BY <2>1, ElementsHome
  <2>3. i - 1 \in 1..Len(stack) /\ Slot(i - 1) = <<Slot(i - 1)[1], Slot(i - 1)[2]>>
    BY <1>8, <2>2, SlotBlock
  <2>4. Slot(i - 1) # <<a, j>>
    BY <1>1, <2>2, <2>3
  <2>5. QED
    BY <1>4, <2>2, <2>3, <2>4, HeldFacts
<1>10. \A i \in 1..Len(stack) : b \notin Held(stack[i])
  BY <1>6, HeldFacts
<1>11. \A i \in 1..Len(stack) : Wants(stack[i]) => Slot(i) # <<b, k>>
  <2> TAKE i \in 1..Len(stack)
  <2> HAVE Wants(stack[i])
  <2>1. \/ \E n \in 1..Len(stack) : Slot(i)[1] \in Held(stack[n])
        \/ stack[i].do = "elements" /\ Slot(i)[1] = stack[i].at
    BY <1>8, SlotBlock
  <2>2. Slot(i)[1] # b
    BY <1>9, <1>10, <2>1
  <2>3. QED
    BY <2>2
<1>12. QED
  BY <1>5, <1>6, <1>7, <1>9, <1>10, <1>11 DEF Place

(* Every operand but a field is a place. *)
LEMMA OperandIs ==
    ASSUME IInv, stack # <<>>, Top.do # "host", NEW op \in Operands, op.flag # "field"
    PROVE  Place(op)
<1>1. CASE op \in Variables
  BY <1>1, VariablesDirect, DirectIs
<1>2. CASE \E d \in Variables : op \in Referred(d)
  BY <1>2, VariablesDirect, DirectIs
<1>3. CASE \E d \in Variables \cup UNION {Referred(o) : o \in Variables} : op \in Elements(d)
  <2>1. PICK d \in Variables \cup UNION {Referred(o) : o \in Variables} : op \in Elements(d)
    BY <1>3
  <2>2. Direct(d)
    BY <2>1, VariablesDirect
  <2>3. QED
    BY <2>1, <2>2, ElementsPlace
<1>4. QED
  BY <1>1, <1>2, <1>3 DEF Operands

-----------------------------------------------------------------------------
(* What is written to an operand. *)

(* What is owned borrows nothing afterwards either. *)
LEMMA PlainKept ==
    ASSUME NEW h, NEW g, NEW W, NEW D, NEW L, Plain(h), Alters(h, g, W, D, L)
    PROVE  Plain(g)
BY DEF Plain, Alters, Owned

(* The conversion to an integer gives a number. *)
LEMMA IntegerOf ==
    ASSUME NEW h, NEW H, HeapOK(h, H), NEW v \in Value, Owns(v) \subseteq DOMAIN h
    PROVE  ToInteger(h, v) \in Number
<1>1. CASE v.type = "integer"
  BY <1>1 DEF ToInteger, Value, Number
<1>2. CASE v.type \in {"string", "buffer"}
  <2>1. v.at \in DOMAIN h
    BY <1>2 DEF Owns
  <2>2. h[v.at].val \in Number
    BY <2>1 DEF HeapOK, IsBlock
  <2>3. QED
    BY <1>2, <2>2 DEF ToInteger
<1>3. CASE v.type \notin {"integer", "string", "buffer"}
  BY <1>3 DEF ToInteger, Number
<1>4. QED
  BY <1>1, <1>2, <1>3

(* An integer owns and borrows nothing. *)
LEMMA IntegerValue ==
    ASSUME NEW x \in Number
    PROVE  Integer(x) \in Value /\ Owns(Integer(x)) = {} /\ ~Borrows(Integer(x))
           /\ Integer(x).type = "integer"
BY DEF Integer, Value, Owns, Borrows

(* The block of a string or of a buffer has no cell. *)
LEMMA BytesBare ==
    ASSUME NEW x \in Number
    PROVE  /\ Bare(Bytes(x)) /\ \A i \in DOMAIN Bytes(x).cells : ~Borrows(Bytes(x).cells[i])
           /\ DOMAIN Bytes(x).cells = {}
<1>1. Bytes(x).cells = <<>> /\ Bytes(x).val = x /\ Bytes(x) = [cells |-> <<>>, val |-> x]
  BY DEF Bytes
<1>2. DOMAIN <<>> = {}
  OBVIOUS
<1>3. <<>> \in [{} -> Value]
  OBVIOUS
<1>4. IsBlock(Bytes(x))
  BY <1>1, <1>2, <1>3 DEF IsBlock
<1>5. QED
  BY <1>1, <1>2, <1>4 DEF Bare

(* A new string or buffer in a cell. *)
Made(h, g, b, k, type) ==
    /\ DOMAIN g = DOMAIN h \cup {New(h)}
    /\ At(g, <<b, k>>) = Owner(type, New(h))
    /\ DOMAIN g[New(h)].cells = {}
    /\ New(h) \notin DOMAIN h /\ New(h) \notin DOMAIN heap /\ New(h) \in Nat /\ New(h) # 0

(* The conversions to a string and to a buffer leave a sound heap, and     *)
(* alter one cell.                                                         *)
LEMMA MakeIs ==
    ASSUME NEW h, NEW H, HeapOK(h, H), IsFiniteSet(DOMAIN heap),
           NEW b \in DOMAIN h, NEW k \in DOMAIN h[b].cells,
           NEW x \in Number, NEW type \in {"string", "buffer"}
    PROVE  /\ HeapOK(Make(h, <<b, k>>, type, x), H)
           /\ Alters(h, Make(h, <<b, k>>, type, x), {<<b, k>>}, {}, Owns(h[b].cells[k]))
           /\ Made(h, Make(h, <<b, k>>, type, x), b, k, type)
<1> DEFINE n == New(h)
           m == Bytes(x)
           g == Put(With(h, n, m), <<b, k>>, Owner(type, n))
<1>1. Make(h, <<b, k>>, type, x) = g
  BY DEF Make
<1>2. n \in Nat /\ n # 0 /\ n \notin DOMAIN heap /\ n \notin DOMAIN h
  BY NewIs DEF HeapOK
<1>3. Bare(m) /\ (\A i \in DOMAIN m.cells : ~Borrows(m.cells[i])) /\ DOMAIN m.cells = {}
  BY BytesBare
<1> HIDE DEF n, m
<1>4. type \in {"string", "buffer", "package"}
  OBVIOUS
<1>5. /\ HeapOK(g, H)
      /\ Alters(h, g, {<<b, k>>}, {}, Owns(h[b].cells[k]))
      /\ DOMAIN g = DOMAIN h \cup {n} /\ g[n] = m
      /\ At(g, <<b, k>>) = Owner(type, n)
  <2>1. Attached(h, H, g, b, k, n, m, type)
    BY <1>2, <1>3, <1>4, AttachIs
  <2>2. QED
    BY <2>1 DEF Attached
<1> HIDE DEF g
<1>6. Made(h, g, b, k, type)
  BY <1>2, <1>3, <1>5 DEF n, Made
<1>7. QED
  BY <1>1, <1>5, <1>6 DEF n

(* What was owned in there before a change is still owned by what was so.  *)
LEMMA TreesOld ==
    ASSUME NEW G, HeapOK(heap, G), NEW h, NEW H, HeapOK(h, H),
           NEW W, NEW D, NEW L, Alters(heap, h, W, D, L)
    PROVE  /\ \A S \in SUBSET Nat : Tree(h, S) \cap DOMAIN heap \subseteq Tree(heap, S)
           /\ \A b \in DOMAIN heap \cap DOMAIN h : \A k \in DOMAIN h[b].cells :
                /\ k \in DOMAIN heap[b].cells
                /\ Beneath(h, b, k) \cap DOMAIN heap \subseteq Beneath(heap, b, k)
<1>1. Whole(h) /\ Whole(heap)
  BY HeapFacts
<1>2. \A a, i, c : Points(h, a, i, c) /\ c \in DOMAIN heap => Points(heap, a, i, c)
  BY HeapFacts DEF Alters
<1>3. ASSUME NEW S \in SUBSET Nat PROVE Tree(h, S) \cap DOMAIN heap \subseteq Tree(heap, S)
  <2> DEFINE C == {x \in Tree(h, S) : x \in DOMAIN heap => x \in Tree(heap, S)}
  <2>1. /\ S \subseteq Tree(heap, S)
        /\ \A a, i, b : a \in Tree(heap, S) /\ Points(heap, a, i, b) => b \in Tree(heap, S)
    BY <1>1, TreeIs
  <2>2. /\ S \subseteq Tree(h, S)
        /\ \A a, i, b : a \in Tree(h, S) /\ Points(h, a, i, b) => b \in Tree(h, S)
    BY <1>1, TreeIs
  <2>3. S \subseteq C
    BY <2>1, <2>2
  <2>4. \A a, i, b : a \in C /\ Points(h, a, i, b) => b \in C
    BY <1>2, <2>1, <2>2 DEF Points
  <2> HIDE DEF C
  <2>5. Tree(h, S) \subseteq C
    BY <1>1, <2>3, <2>4, TreeIs
  <2>6. QED
    BY <2>5 DEF C
<1>4. ASSUME NEW b \in DOMAIN heap \cap DOMAIN h, NEW k \in DOMAIN h[b].cells
      PROVE  /\ k \in DOMAIN heap[b].cells
             /\ Beneath(h, b, k) \cap DOMAIN heap \subseteq Beneath(heap, b, k)
  <2>1. k \in DOMAIN heap[b].cells
    BY DEF Alters
  <2> DEFINE B == Beneath(heap, b, k)
             S == Owns(h[b].cells[k])
             C == {x \in Beneath(h, b, k) : x \in DOMAIN heap => x \in B}
  <2>2. \A a, i, c : Points(heap, a, i, c) => (c \in B <=> a \in B \/ (a = b /\ i = k))
    BY <2>1, BelowIs
  <2>3. /\ S \subseteq Beneath(h, b, k)
        /\ \A a, i, c : Points(h, a, i, c) =>
             (c \in Beneath(h, b, k) <=> a \in Beneath(h, b, k) \/ (a = b /\ i = k))
    BY BelowIs
  <2>4. \A c \in S : Points(h, b, k, c)
    BY DEF Points
  <2> HIDE DEF S, B
  <2>5. S \subseteq C
    BY <1>2, <2>2, <2>3, <2>4
  <2>6. \A a, i, c : a \in C /\ Points(h, a, i, c) => c \in C
    BY <1>2, <2>2, <2>3 DEF Points
  <2> HIDE DEF C
  <2>7. Beneath(h, b, k) \subseteq C
    BY <2>5, <2>6, BelowIs DEF S
  <2>8. QED
    BY <2>1, <2>7 DEF B, C
<1>5. QED
  BY <1>3, <1>4

(* A cell is cleaned, and something that was not in there is cloned to it. *)
LEMMA ReplaceIs ==
    ASSUME NEW h, NEW H, HeapOK(h, H), IsFiniteSet(DOMAIN heap), Plain(h),
           NEW W, NEW D, NEW L, Alters(heap, h, W, D, L),
           NEW b \in DOMAIN h, NEW k \in DOMAIN h[b].cells, b \notin Beneath(h, b, k),
           NEW v, Source(h, v), ~Borrows(v), Owns(v) \cap Beneath(h, b, k) = {}
    PROVE  LET f == Clone(Clean(h, <<b, k>>), <<b, k>>, v) IN
           /\ HeapOK(f, H) /\ OfType(f, <<b, k>>, v)
           /\ Alters(heap, f, W \cup {<<b, k>>}, D \cup Beneath(h, b, k), L)
<1> DEFINE g == Clean(h, <<b, k>>)
           T == Beneath(h, b, k)
           f == Clone(g, <<b, k>>, v)
<1>0. HeapOK(g, H) /\ Cleaned(h, g, b, k)
  BY CleanIs
<1>1. /\ HeapOK(g, H)
      /\ DOMAIN g = DOMAIN h \ T
      /\ DOMAIN g[b].cells = DOMAIN h[b].cells
      /\ \A i \in DOMAIN h[b].cells : g[b].cells[i] = IF i = k THEN Null ELSE h[b].cells[i]
      /\ \A a, i, c : Points(g, a, i, c) <=>
           Points(h, a, i, c) /\ a \notin T /\ ~(a = b /\ i = k)
  BY <1>0 DEF Cleaned
<1>2. Alters(h, g, {<<b, k>>}, T, {})
  BY CleanAlters
<1>3. b \in DOMAIN g /\ k \in DOMAIN g[b].cells /\ Owns(g[b].cells[k]) = {}
  BY <1>1, OwnsIs DEF Null
<1>4. Alters(heap, g, W \cup {<<b, k>>}, D \cup T, L)
  <2>1. Alters(heap, g, W \cup {<<b, k>>}, D \cup T, L \cup {})
    BY <1>2, AltersOnwards
  <2>2. L \cup {} = L
    OBVIOUS
  <2>3. QED
    BY <2>1, <2>2
<1>5. Plain(g)
  BY <1>2, PlainKept
<1>6. Source(g, v)
  <2>1. \A a, i, c : Points(h, a, i, c) => (c \in T <=> a \in T \/ (a = b /\ i = k))
    BY BelowIs
  <2>2. ASSUME NEW c \in Owns(v) PROVE Owned(g, c)
    <3>1. PICK a, i : Points(h, a, i, c)
      BY DEF Source, Owned
    <3>2. c \notin T
      OBVIOUS
    <3>3. Points(g, a, i, c)
      BY <1>1, <2>1, <3>1, <3>2
    <3>4. QED
      BY <3>3 DEF Owned
  <2>3. Whole(g) /\ Whole(h) /\ Owns(v) \in SUBSET Nat
    BY <1>1, HeapFacts, OwnsIs DEF Source
  <2>4. /\ Owns(v) \subseteq Tree(h, Owns(v))
        /\ \A a, i, c : a \in Tree(h, Owns(v)) /\ Points(h, a, i, c) => c \in Tree(h, Owns(v))
    BY <2>3, TreeIs
  <2>5. \A a, i, c : a \in Tree(h, Owns(v)) /\ Points(g, a, i, c) => c \in Tree(h, Owns(v))
    BY <1>1, <2>4
  <2>6. Tree(g, Owns(v)) \subseteq Tree(h, Owns(v))
    BY <2>3, <2>4, <2>5, TreeIs
  <2>7. QED
    BY <1>1, <2>2, <2>6 DEF Source
<1> HIDE DEF g, T
<1>7. /\ HeapOK(f, H)
      /\ Alters(g, f, {<<b, k>>}, {}, Owns(g[b].cells[k]))
      /\ OfType(f, <<b, k>>, v)
  <2>1. HeapOK(g, H) /\ b \in DOMAIN g /\ k \in DOMAIN g[b].cells
    BY <1>1, <1>3
  <2>2. Source(g, v) /\ ~Borrows(v) /\ Plain(g) /\ IsFiniteSet(DOMAIN heap)
    BY <1>5, <1>6
  <2>3. HeapOK(f, H)
    BY ONLY <2>1, <2>2, CloneAlters
  <2>4. Alters(g, f, {<<b, k>>}, {}, Owns(g[b].cells[k]))
    BY ONLY <2>1, <2>2, CloneAlters
  <2>5. OfType(f, <<b, k>>, v)
    BY ONLY <2>1, <2>2, <2>3, CloneAlters
  <2>6. QED
    BY <2>3, <2>4, <2>5
<1> HIDE DEF f
<1>8. Alters(heap, f, (W \cup {<<b, k>>}) \cup {<<b, k>>}, (D \cup T) \cup {}, L \cup Owns(g[b].cells[k]))
  BY <1>4, <1>7, AltersOnwards
<1>9. /\ (W \cup {<<b, k>>}) \cup {<<b, k>>} = W \cup {<<b, k>>}
      /\ (D \cup T) \cup {} = D \cup T /\ L \cup Owns(g[b].cells[k]) = L
  BY <1>3
<1>10. Alters(heap, f, W \cup {<<b, k>>}, D \cup T, L)
  BY <1>8, <1>9
<1>11. QED
  BY <1>7, <1>10 DEF f, g, T

(* A cell that can be written to. *)
Writable(h, op) ==
    \/ op.flag = "field"
    \/ /\ op.flag \in {"data", "local", "arg"} /\ op.cell = <<op.cell[1], op.cell[2]>>
       /\ op.cell[1] \in DOMAIN h /\ op.cell[2] \in DOMAIN h[op.cell[1]].cells
       /\ op.cell[1] \notin Beneath(h, op.cell[1], op.cell[2])

(* What may be written there: nothing that is cleaned for it. *)
Storable(h, op, v) ==
    /\ Source(h, v) /\ ~Borrows(v)
    /\ op.flag # "field" => Owns(v) \cap Beneath(h, op.cell[1], op.cell[2]) = {}

(* The cell that changes, what may be freed, and what may be lost. *)
Touched(h, op) ==
    IF op.flag = "field" \/ (op.flag = "data" /\ At(h, op.cell).type = "buffer") THEN {}
    ELSE {op.cell}
Gone(h, op) == IF op.flag = "field" THEN {} ELSE Beneath(h, op.cell[1], op.cell[2])
Leaked(h, op) ==
    IF op.flag = "data" /\ At(h, op.cell).type = "string" THEN Owns(At(h, op.cell)) ELSE {}
LeakSeen(h, f, op) == Leaked(h, op) # {} => At(f, op.cell).type = "string"

(* An alteration, then one that touches only blocks it made. *)
LEMMA AltersByNone ==
    ASSUME NEW h, NEW f, NEW W, NEW D, NEW L, Alters(heap, h, W, D, L), Alters(h, f, {}, {}, {}),
           NEW V, NEW C, NEW K
    PROVE  Alters(heap, f, W \cup V, D \cup C, L \cup K)
<1>1. Alters(heap, f, W \cup {}, D \cup {}, L \cup {})
  BY AltersOnwards
<1>2. W \cup {} \subseteq W \cup V /\ D \cup {} \subseteq D \cup C /\ L \cup {} \subseteq L \cup K
  OBVIOUS
<1>3. QED
  BY <1>1, <1>2, AltersMore

(* sabi_write leaves a sound heap: the cell it wrote is the only one       *)
(* altered, and what it forgot to free is leaked.                          *)
LEMMA WriteIs ==
    ASSUME NEW h, NEW H, HeapOK(h, H), IsFiniteSet(DOMAIN heap), Plain(h),
           NEW W, NEW D, NEW L, Alters(heap, h, W, D, L),
           NEW op, Writable(h, op), NEW v, Storable(h, op, v)
    PROVE  /\ HeapOK(Write(h, op, v), H)
           /\ Alters(heap, Write(h, op, v), W \cup Touched(h, op), D \cup Gone(h, op),
                     L \cup Leaked(h, op))
           /\ LeakSeen(h, Write(h, op, v), op)
<1> DEFINE f == Write(h, op, v)
           x == ToInteger(h, v)
           b == op.cell[1]
           k == op.cell[2]
           old == h[b].cells[k]
           anew == \/ op.flag \in {"local", "arg"} \/ old.type = "null"
                   \/ old.type = "package" /\ v.type = "package"
<1>1. x \in Number
  <2>1. v \in Value /\ Owns(v) \subseteq DOMAIN h
    BY OwnedIs DEF Storable, Source
  <2>2. QED
    BY <2>1, IntegerOf
<1>2. CASE op.flag = "field"
  <2>1. f = Fill(h, op.of, x)
    BY <1>2 DEF Write
  <2>2. HeapOK(f, H) /\ Alters(h, f, {}, {}, {})
    BY <1>1, <2>1, FillIs
  <2>3. Leaked(h, op) = {}
    BY <1>2 DEF Leaked
  <2>4. QED
    BY <2>2, <2>3, AltersByNone DEF LeakSeen
<1>3. CASE op.flag # "field"
  <2>1. /\ op.flag \in {"data", "local", "arg"} /\ op.cell = <<b, k>>
        /\ b \in DOMAIN h /\ k \in DOMAIN h[b].cells /\ b \notin Beneath(h, b, k)
    BY <1>3 DEF Writable
  <2>2. At(h, op.cell) = old
    BY DEF At
  <2>3. Source(h, v) /\ ~Borrows(v) /\ Owns(v) \cap Beneath(h, b, k) = {}
    BY <1>3 DEF Storable
  <2>4. f = IF anew THEN Clone(Clean(h, op.cell), op.cell, v)
            ELSE CASE old.type = "integer" -> Put(h, op.cell, Integer(x))
                   [] old.type = "buffer" -> Fill(h, old.at, x)
                   [] old.type = "field" -> Fill(h, old.of, x)
                   [] old.type = "string" /\ v.type \in {"integer", "string", "buffer"} ->
                        Make(h, op.cell, "string", x)
                   [] OTHER -> h
    BY <1>3, <2>2 DEF Write
  <2>5. /\ Gone(h, op) = Beneath(h, b, k)
        /\ Touched(h, op) = IF op.flag = "data" /\ old.type = "buffer" THEN {} ELSE {<<b, k>>}
        /\ Leaked(h, op) = IF op.flag = "data" /\ old.type = "string" THEN Owns(old) ELSE {}
    BY <1>3, <2>1, <2>2 DEF Gone, Touched, Leaked
  <2> DEFINE T == Beneath(h, b, k)
  <2> HIDE DEF T, f, x, old, b, k
  <2>6. CASE anew
    <3>1. f = Clone(Clean(h, <<b, k>>), <<b, k>>, v)
      BY <2>1, <2>4, <2>6
    <3>2. /\ HeapOK(f, H)
          /\ Alters(heap, f, W \cup {<<b, k>>}, D \cup T, L)
      BY <2>1, <2>3, <3>1, ReplaceIs DEF T
    <3>3. /\ Touched(h, op) = {<<b, k>>} /\ Leaked(h, op) = {}
      BY <2>1, <2>5, <2>6
    <3>4. L \cup {} = L
      OBVIOUS
    <3>5. Alters(heap, f, W \cup Touched(h, op), D \cup Gone(h, op), L \cup Leaked(h, op))
      BY <2>5, <3>2, <3>3, <3>4 DEF T
    <3>6. QED
      BY <3>2, <3>3, <3>5 DEF f, LeakSeen
  <2> HIDE DEF anew
  <2>7. CASE ~anew /\ old.type = "integer"
    <3>1. f = Put(h, <<b, k>>, Integer(x))
      BY <2>1, <2>4, <2>7
    <3>2. Owns(old) = {}
      BY <2>7, OwnsIs
    <3>3. HeapOK(f, H) /\ Alters(h, f, {<<b, k>>}, {}, Owns(h[b].cells[k]))
      BY <1>1, <2>1, <3>1, IntegerValue, PutAlters
    <3>4. Touched(h, op) = {<<b, k>>} /\ Leaked(h, op) = {}
      BY <2>5, <2>7
    <3>5. Alters(heap, f, W \cup {<<b, k>>}, D \cup {}, L \cup Owns(h[b].cells[k]))
      BY <3>3, AltersOnwards
    <3>6. Alters(heap, f, W \cup Touched(h, op), D \cup Gone(h, op), L \cup Leaked(h, op))
      BY <3>2, <3>4, <3>5, AltersMore DEF old
    <3>7. QED
      BY <3>3, <3>4, <3>6 DEF f, LeakSeen
  <2>8. CASE ~anew /\ old.type \in {"buffer", "field"}
    <3>1. PICK c : f = Fill(h, c, x)
      <4>1. CASE old.type = "buffer"
        BY <2>4, <2>8, <4>1
      <4>2. CASE old.type = "field"
        BY <2>4, <2>8, <4>2
      <4>3. QED
        BY <2>8, <4>1, <4>2
    <3>2. HeapOK(f, H) /\ Alters(h, f, {}, {}, {})
      BY <1>1, <3>1, FillIs
    <3>3. Leaked(h, op) = {}
      BY <2>5, <2>8
    <3>4. QED
      BY <3>2, <3>3, AltersByNone DEF f, LeakSeen
  <2>9. CASE ~anew /\ old.type = "string" /\ v.type \in {"integer", "string", "buffer"}
    <3>1. f = Make(h, <<b, k>>, "string", x)
      BY <2>1, <2>4, <2>9
    <3>2. HeapOK(f, H) /\ Alters(h, f, {<<b, k>>}, {}, Owns(h[b].cells[k]))
          /\ Made(h, f, b, k, "string")
      BY <1>1, <2>1, <3>1, MakeIs
    <3>3. op.flag = "data"
      BY <2>1, <2>9 DEF anew
    <3>4. Touched(h, op) = {<<b, k>>} /\ Leaked(h, op) = Owns(old)
      BY <2>5, <2>9, <3>3
    <3>5. Alters(heap, f, W \cup {<<b, k>>}, D \cup {}, L \cup Owns(h[b].cells[k]))
      BY <3>2, AltersOnwards
    <3>6. Alters(heap, f, W \cup Touched(h, op), D \cup Gone(h, op), L \cup Leaked(h, op))
      BY <3>4, <3>5, AltersMore DEF old
    <3>7. At(f, op.cell).type = "string"
      BY <2>1, <3>2 DEF Made, Owner
    <3>8. QED
      BY <3>2, <3>6, <3>7 DEF f, LeakSeen
  <2>10. CASE /\ ~anew /\ old.type \notin {"integer", "buffer", "field"}
              /\ ~(old.type = "string" /\ v.type \in {"integer", "string", "buffer"})
    <3>1. f = h
      BY <2>4, <2>10
    <3>2. Alters(h, f, {}, {}, {})
      BY <3>1, AltersNone
    <3>3. LeakSeen(h, f, op)
      BY <2>2, <2>5, <3>1 DEF LeakSeen
    <3>4. QED
      BY <3>1, <3>2, <3>3, AltersByNone DEF f
  <2>11. QED
    BY <2>6, <2>7, <2>8, <2>9, <2>10
<1>4. QED
  BY <1>2, <1>3

-----------------------------------------------------------------------------
(* What a step keeps. *)

(* The first k functions wait for what they waited for.  The result of a   *)
(* frame that waits for a call may be replaced.                            *)
Spared(k, W, D) ==
    /\ \A i \in 1..k : Held(stack[i]) \cap D = {}
    /\ \A i \in 1..k : stack[i].do = "elements" =>
         /\ stack[i].at \notin D
         /\ \A j \in DOMAIN heap[stack[i].at].cells : j >= stack[i].next => <<stack[i].at, j>> \notin W
    /\ \A i \in 1..(k - 1) : Wants(stack[i]) =>
         Slot(i) \notin W \/ (stack[i].do = "return" /\ stack[i + 1].do = "call")

(* The part of the stack that stays waits where it waited. *)
LEMMA SlotKept ==
    ASSUME StackOK, NEW s, NEW k \in 0..Len(stack), \A i \in 1..k : s[i] = stack[i],
           NEW i \in 1..k, Wants(stack[i])
    PROVE  SlotOf(s, i) = Slot(i)
<1>1. Len(stack) \in Nat /\ i \in 1..Len(stack)
  BY StackFacts
<1>2. i \in 2..Len(stack) /\ i - 1 \in 1..k
  BY <1>1, StackFacts
<1>3. s[i] = stack[i] /\ s[i - 1] = stack[i - 1]
  BY <1>2
<1>4. QED
  BY <1>3 DEF Slot, SlotOf

(* Of the heap h there are in g all blocks but D, and in them all cells    *)
(* but W are the same.                                                     *)
Keeps(h, g, W, D) ==
    /\ \A a \in DOMAIN h : a \in DOMAIN g \/ a \in D
    /\ \A a \in DOMAIN h : a \in DOMAIN g =>
         /\ DOMAIN g[a].cells = DOMAIN h[a].cells
         /\ \A k \in DOMAIN h[a].cells : <<a, k>> \in W \/ g[a].cells[k] = h[a].cells[k]

(* A block that is not freed keeps its size. *)
LEMMA KeptPart ==
    ASSUME IInv, NEW g, NEW s, NEW k \in 0..Len(stack), \A i \in 1..k : s[i] = stack[i],
           NEW W, NEW D, Keeps(heap, g, W, D), Spared(k, W, D)
    PROVE  /\ \A i \in 1..k : Sized(g, s[i]) /\ Blank(g, s[i])
           /\ \A i \in 1..k : \A b \in Held(s[i]) : b \in DOMAIN g
           /\ \A i \in 1..(k - 1) : Wants(s[i]) => Dest(g, s, i)
<1>1. StackOK /\ Len(stack) \in Nat /\ k \in Nat /\ 1..k \subseteq 1..Len(stack)
      /\ DOMAIN stack = 1..Len(stack)
  BY HeldFacts, StackFacts
<1>2. ASSUME NEW b \in DOMAIN heap, b \notin D
      PROVE  /\ b \in DOMAIN g /\ DOMAIN g[b].cells = DOMAIN heap[b].cells
             /\ \A j \in DOMAIN heap[b].cells : <<b, j>> \notin W => g[b].cells[j] = heap[b].cells[j]
  BY <1>2 DEF Keeps
<1>3. \A i \in 1..k : \A b \in Held(stack[i]) : b \in DOMAIN heap /\ b \notin D
  BY <1>1, HeldFacts DEF Spared
<1>4. ASSUME NEW i \in 1..k
      PROVE  Sized(g, s[i]) /\ \A b \in Held(s[i]) : b \in DOMAIN g
  <2>1. Sized(heap, stack[i])
    BY <1>1 DEF IInv, Sizes
  <2>2. s[i] = stack[i]
    OBVIOUS
  <2>3. QED
    BY <1>2, <1>3, <2>1, <2>2 DEF Sized
<1>5. ASSUME NEW i \in 1..k, stack[i].do = "elements"
      PROVE  /\ stack[i].at \in DOMAIN heap /\ stack[i].at \notin D
             /\ 1..stack[i].given \subseteq DOMAIN heap[stack[i].at].cells
             /\ stack[i].next \in 1..(stack[i].given + 1)
             /\ stack[i].next \in Nat /\ stack[i].given \in Nat
  <2>1. i \in 2..Len(stack)
    BY <1>1, <1>5, StackFacts DEF Wants
  <2>2. stack[i] \in Entry
    BY <1>1, StackFacts
  <2>3. QED
    BY <1>5, <2>1, <2>2, ElementsHome, EntryIs DEF Spared
<1>6. ASSUME NEW i \in 1..k PROVE Blank(g, s[i])
  <2>1. SUFFICES ASSUME stack[i].do = "elements", NEW j \in DOMAIN g[stack[i].at].cells,
                        j >= stack[i].next
                 PROVE  Owns(g[stack[i].at].cells[j]) = {}
    <3>1. stack[i].do = "elements" => DOMAIN g[stack[i].at].cells \subseteq Nat
      BY <1>1, <1>2, <1>5 DEF IInv, Unwritten, Blank
    <3>2. QED
      BY <3>1 DEF Blank
  <2> DEFINE a == stack[i].at
  <2>2. /\ a \in DOMAIN heap /\ a \notin D /\ j \in DOMAIN heap[a].cells
    BY <1>2, <1>5, <2>1
  <2>3. Owns(heap[a].cells[j]) = {}
    BY <1>1, <2>1, <2>2 DEF IInv, Unwritten, Blank
  <2>4. <<a, j>> \notin W
    BY <2>1, <2>2 DEF Spared
  <2>5. QED
    BY <1>2, <2>2, <2>3, <2>4
<1>7. ASSUME NEW i \in 1..(k - 1), Wants(s[i]) PROVE Dest(g, s, i)
  <2>1. /\ i \in 1..k /\ i + 1 \in 1..k /\ i \in 1..(Len(stack) - 1) /\ i \in 1..Len(stack)
    BY <1>1
  <2>2. s[i] = stack[i] /\ s[i + 1] = stack[i + 1] /\ Wants(stack[i])
    BY <1>7, <2>1
  <2>3. SlotOf(s, i) = Slot(i)
    BY <1>1, <2>1, <2>2, SlotKept
  <2> DEFINE a == Slot(i)[1]
             j == Slot(i)[2]
  <2>4. /\ a \in DOMAIN heap /\ j \in DOMAIN heap[a].cells /\ Slot(i) = <<a, j>>
        /\ At(heap, Slot(i)) = heap[a].cells[j]
    BY <2>1, <2>2, SlotCell
  <2>5. a \notin D
    <3>1. \/ \E n \in 1..Len(stack) : n =< i /\ a \in Held(stack[n])
          \/ stack[i].do = "elements" /\ a = stack[i].at
      BY <1>1, <2>1, <2>2, SlotBlock
    <3>2. \A n \in 1..Len(stack) : n =< i => n \in 1..k
      BY <1>1, <2>1
    <3>3. QED
      BY <1>3, <1>5, <2>1, <3>1, <3>2
  <2>6. At(g, Slot(i)) = g[a].cells[j]
    BY DEF At
  <2> HIDE DEF a, j
  <2>7. Dest(heap, stack, i)
    BY <2>1, <2>2 DEF IInv, Destined
  <2>8. CASE Slot(i) \notin W
    <3>1. At(g, Slot(i)) = At(heap, Slot(i))
      BY <1>2, <2>4, <2>5, <2>6, <2>8
    <3>2. stack[i + 1].do = "elements" =>
            DOMAIN g[stack[i + 1].at].cells = DOMAIN heap[stack[i + 1].at].cells
      BY <1>2, <1>5, <2>1
    <3>3. QED
      BY <2>2, <2>3, <2>7, <3>1, <3>2 DEF Dest, Slot
  <2>9. CASE stack[i].do = "return" /\ stack[i + 1].do = "call"
    <3>1. stack[i + 1].as = "data"
      BY <2>1, <2>9 DEF IInv, Returning
    <3>2. QED
      BY <2>2, <2>3, <2>7, <2>9, <3>1 DEF Dest, Slot
  <2>10. QED
    BY <2>2, <2>8, <2>9 DEF Spared
<1>8. QED
  BY <1>4, <1>6, <1>7

(* A step keeps the first k functions that wait. *)
Kept(k) ==
    /\ k \in 0..Len(stack) /\ stack' \in Seq(Entry) /\ k =< Len(stack')
    /\ \A i \in 1..k : stack'[i] = stack[i]

(* A block that no name holds and none of them. *)
Loose(k, b) == b \notin DOMAIN heap \/ \E j \in (k + 1)..Len(stack) : b \in Held(stack[j])

(* Those that it puts on top of them. *)
Tops(k) ==
    /\ \A i \in (k + 1)..Len(stack') :
         /\ \A b \in Held(stack'[i]) : b \in DOMAIN heap' /\ Loose(k, b)
         /\ Sized(heap', stack'[i]) /\ Blank(heap', stack'[i])
    /\ \A i, j \in (k + 1)..Len(stack') : Held(stack'[i]) \cap Held(stack'[j]) # {} => i = j

ReturnsAt(s, i) ==
    s[i].do = "return" =>
      /\ s[i + 1].do = "call" => s[i + 1].as = "data"
      /\ s[i + 1].do \in {"elements", "convert"} =>
           \A j \in (i + 1)..Len(s) : s[j].do \in {"eval", "elements", "convert"}

Joined(k) ==
    /\ k = 0 /\ stack' # <<>> => stack'[1].do \in {"run", "host"}
    /\ \A i \in 1..(Len(stack') - 1) : i >= k =>
         /\ Above(stack'[i], stack'[i + 1])
         /\ Wants(stack'[i]) => Dest(heap', stack', i)
         /\ ReturnsAt(stack', i)
    /\ (\E i \in 1..(k - 1) : stack[i].do = "return" /\ stack[i + 1].do \in {"elements", "convert"})
         => \A j \in (k + 1)..Len(stack') : stack'[j].do \in {"eval", "elements", "convert"}

(* The names there are: they are as they were, or there is a new one. *)
NewName(k, n) ==
    /\ Loose(k, names'[n].at)
    /\ \A j \in (k + 1)..Len(stack') : names'[n].at \notin Held(stack'[j])
    /\ names'[n].at \in DOMAIN heap' /\ DOMAIN heap'[names'[n].at].cells = {1}
    /\ \A m \in DOMAIN names' : m \notin DOMAIN names => m = n
Named(k, D) ==
    \A n \in DOMAIN names' :
      /\ n \in Names /\ names'[n] = [at |-> names'[n].at, frame |-> names'[n].frame]
      /\ names'[n].frame # 0 => RunsBelow(names'[n].frame, k)
      /\ \/ n \in DOMAIN names /\ names'[n] = names[n] /\ names[n].at \notin D
         \/ n \notin DOMAIN names /\ NewName(k, n)

(* The parts of the invariant that speak of the stack, after a step that   *)
(* keeps the k first activations, alters the cells W and frees D.          *)
LEMMA StackPart ==
    ASSUME IInv, NEW k, Kept(k), NEW W, NEW D, Keeps(heap, heap', W, D), Spared(k, W, D),
           Tops(k), Joined(k), Named(k, D)
    PROVE  (StackOK /\ HeldOnce /\ Sizes /\ Destined /\ Unwritten /\ Returning)'
<1>1. /\ StackOK /\ Len(stack) \in Nat /\ k \in 0..Len(stack) /\ k \in Nat
      /\ 1..k \subseteq 1..Len(stack) /\ DOMAIN stack = 1..Len(stack)
      /\ stack' \in Seq(Entry) /\ Len(stack') \in Nat /\ DOMAIN stack' = 1..Len(stack')
      /\ 1..k \subseteq 1..Len(stack') /\ k =< Len(stack')
      /\ \A i \in 1..k : stack'[i] = stack[i]
  BY HeldFacts, StackFacts DEF Kept
<1>2. \A i \in 1..Len(stack') : i \in 1..k \/ i \in (k + 1)..Len(stack')
  BY <1>1
<1>3. /\ \A i \in 1..k : Sized(heap', stack'[i]) /\ Blank(heap', stack'[i])
      /\ \A i \in 1..(k - 1) : Wants(stack'[i]) => Dest(heap', stack', i)
  BY <1>1, KeptPart
<1>4. \A i \in 1..(Len(stack') - 1) : i \in 1..(k - 1) \/ i >= k
  BY <1>1
<1>5. StackOK'
  <2>1. \A i \in 1..(k - 1) : /\ i \in 1..(Len(stack) - 1) /\ stack'[i] = stack[i]
                              /\ stack'[i + 1] = stack[i + 1]
    BY <1>1
  <2>2. \A i \in 1..(Len(stack') - 1) : Above(stack'[i], stack'[i + 1])
    BY <1>1, <1>4, <2>1 DEF StackOK, Joined
  <2>3. k # 0 => stack'[1] = stack[1] /\ stack # <<>>
    BY <1>1
  <2>4. stack' # <<>> => stack'[1].do \in {"run", "host"}
    BY <1>1, <2>3 DEF StackOK, Joined
  <2>5. QED
    BY <1>1, <2>2, <2>4 DEF StackOK
<1>6. \A i \in 1..k : \A b : Loose(k, b) => b \notin Held(stack[i])
  <2>1. SUFFICES ASSUME NEW i \in 1..k, NEW b, Loose(k, b), b \in Held(stack[i]) PROVE FALSE
    OBVIOUS
  <2>2. b \in DOMAIN heap /\ i \in 1..Len(stack)
    BY <1>1, <2>1, HeldFacts
  <2>3. PICK j \in (k + 1)..Len(stack) : b \in Held(stack[j])
    BY <2>1, <2>2 DEF Loose
  <2>4. j \in 1..Len(stack) /\ j # i
    BY <1>1
  <2>5. QED
    BY <1>1, <2>1, <2>2, <2>3, <2>4 DEF IInv, HeldOnce
<1>7. \A n \in DOMAIN names : ~Loose(k, names[n].at)
  <2>1. \A n \in DOMAIN names : names[n].at \in DOMAIN heap
    BY HeldFacts
  <2>2. \A j \in (k + 1)..Len(stack) : j \in DOMAIN stack
    BY <1>1
  <2>3. QED
    BY <2>1, <2>2 DEF Loose, IInv, HeldOnce
<1>8. HeldOnce'
  <2>1. ASSUME NEW i \in 1..Len(stack'), NEW j \in 1..Len(stack'),
               Held(stack'[i]) \cap Held(stack'[j]) # {}
        PROVE  i = j
    <3>1. CASE i \in 1..k /\ j \in 1..k
      BY <1>1, <2>1, <3>1 DEF IInv, HeldOnce
    <3>2. CASE i \in (k + 1)..Len(stack') /\ j \in (k + 1)..Len(stack')
      BY <2>1, <3>2 DEF Tops
    <3>3. CASE i \in 1..k /\ j \in (k + 1)..Len(stack')
      BY <1>1, <1>6, <2>1, <3>3 DEF Tops
    <3>4. CASE j \in 1..k /\ i \in (k + 1)..Len(stack')
      BY <1>1, <1>6, <2>1, <3>4 DEF Tops
    <3>5. QED
      BY <1>2, <3>1, <3>2, <3>3, <3>4
  <2>2. ASSUME NEW m \in DOMAIN names', NEW n \in DOMAIN names', names'[m].at = names'[n].at
        PROVE  m = n
    <3>1. CASE m \in DOMAIN names /\ n \in DOMAIN names
      BY <2>2, <3>1 DEF Named, IInv, HeldOnce
    <3>2. CASE m \in DOMAIN names /\ n \notin DOMAIN names
      BY <1>7, <2>2, <3>2 DEF Named, NewName
    <3>3. CASE m \notin DOMAIN names /\ n \in DOMAIN names
      BY <1>7, <2>2, <3>3 DEF Named, NewName
    <3>4. CASE m \notin DOMAIN names /\ n \notin DOMAIN names
      BY <2>2, <3>4 DEF Named, NewName
    <3>5. QED
      BY <3>1, <3>2, <3>3, <3>4
  <2>3. ASSUME NEW n \in DOMAIN names', NEW i \in 1..Len(stack')
        PROVE  names'[n].at \notin Held(stack'[i])
    <3>1. CASE n \in DOMAIN names /\ i \in 1..k
      BY <1>1, <3>1 DEF Named, IInv, HeldOnce
    <3>2. CASE n \in DOMAIN names /\ i \in (k + 1)..Len(stack')
      BY <1>7, <3>2 DEF Named, Tops
    <3>3. CASE n \notin DOMAIN names /\ i \in 1..k
      BY <1>1, <1>6, <3>3 DEF Named, NewName
    <3>4. CASE n \notin DOMAIN names /\ i \in (k + 1)..Len(stack')
      BY <3>4 DEF Named, NewName
    <3>5. QED
      BY <1>2, <3>1, <3>2, <3>3, <3>4
  <2>4. QED
    BY <1>1, <2>1, <2>2, <2>3 DEF HeldOnce
<1>9. Sizes'
  <2>1. ASSUME NEW n \in DOMAIN names' PROVE DOMAIN heap'[names'[n].at].cells = {1}
    <3>1. CASE n \in DOMAIN names
      <4>1. names'[n] = names[n] /\ names[n].at \notin D
        BY <3>1 DEF Named
      <4>2. names[n].at \in DOMAIN heap
        BY <3>1, HeldFacts
      <4>3. DOMAIN heap[names[n].at].cells = {1}
        BY <3>1 DEF IInv, Sizes
      <4>4. QED
        BY <4>1, <4>2, <4>3 DEF Keeps
    <3>2. CASE n \notin DOMAIN names
      BY <3>2 DEF Named, NewName
    <3>3. QED
      BY <3>1, <3>2
  <2>2. \A i \in 1..Len(stack') : Sized(heap', stack'[i])
    BY <1>2, <1>3 DEF Tops
  <2>3. QED
    BY <1>1, <2>1, <2>2 DEF Sizes
<1>10. Destined'
  BY <1>3, <1>4 DEF Destined, Joined
<1>11. Unwritten'
  BY <1>1, <1>2, <1>3 DEF Unwritten, Tops
<1>12. Returning'
  <2>1. ASSUME NEW i \in 1..(Len(stack') - 1) PROVE ReturnsAt(stack', i)
    <3>1. CASE i >= k
      BY <3>1 DEF Joined
    <3>2. CASE i \in 1..(k - 1)
      <4>1. /\ i \in 1..(Len(stack) - 1) /\ stack'[i] = stack[i] /\ stack'[i + 1] = stack[i + 1]
        BY <1>1, <3>2
      <4>2. ReturnsAt(stack, i)
        BY <4>1 DEF IInv, Returning, ReturnsAt
      <4>3. ASSUME stack[i].do = "return", stack[i + 1].do \in {"elements", "convert"},
                   NEW j \in (i + 1)..Len(stack')
            PROVE  stack'[j].do \in {"eval", "elements", "convert"}
        <5>1. CASE j \in (k + 1)..Len(stack')
          BY <3>2, <4>3, <5>1 DEF Joined
        <5>2. CASE j \in 1..k
          <6>1. j \in (i + 1)..Len(stack) /\ stack'[j] = stack[j]
            BY <1>1, <3>2, <5>2
          <6>2. QED
            BY <4>2, <4>3, <6>1 DEF ReturnsAt
        <5>3. QED
          BY <1>1, <3>2, <5>1, <5>2
      <4>4. QED
        BY <4>1, <4>2, <4>3 DEF ReturnsAt
    <3>3. QED
      BY <1>4, <3>1, <3>2
  <2>2. QED
    BY <2>1 DEF Returning, ReturnsAt
<1>13. QED
  BY <1>5, <1>8, <1>9, <1>10, <1>11, <1>12

(* A sound heap is sound when less of it is held. *)
LEMMA HeapLess ==
    ASSUME NEW h, NEW H, NEW G, HeapOK(h, H), G \subseteq H
    PROVE  HeapOK(h, G)
BY DEF HeapOK

(* Holders, of any names and stack. *)
HoldersOf(ns, s) ==
    {ns[n].at : n \in DOMAIN ns}
    \cup {s[i].own : i \in {j \in DOMAIN s : "own" \in DOMAIN s[j]}}
    \cup {s[i].frame : i \in {j \in DOMAIN s : "frame" \in DOMAIN s[j]}}

(* What is held is in a set that has what each name and each activation    *)
(* holds.                                                                  *)
LEMMA HoldersIn ==
    ASSUME NEW ns, NEW s \in Seq(Entry), NEW H, \A n \in DOMAIN ns : ns[n].at \in H,
           \A i \in 1..Len(s) : Held(s[i]) \subseteq H
    PROVE  HoldersOf(ns, s) \subseteq H
<1>1. \A i \in DOMAIN s : s[i] \in Entry /\ i \in 1..Len(s)
  OBVIOUS
<1>2. \A i \in DOMAIN s : /\ "own" \in DOMAIN s[i] => s[i].own \in Held(s[i])
                          /\ "frame" \in DOMAIN s[i] => s[i].frame \in Held(s[i])
  <2> TAKE i \in DOMAIN s
  <2>1. s[i] \in Entry
    OBVIOUS
  <2>2. QED
    BY <2>1, EntryIs, HeldIs
<1>3. ASSUME NEW b \in HoldersOf(ns, s) PROVE b \in H
  BY <1>1, <1>2 DEF HoldersOf
<1>4. QED
  BY <1>3

(* RunsBelow, of any stack. *)
RunsIn(s, f, i) == \E j \in 2..i : s[j].do = "run" /\ s[j].frame = f

(* The part of the invariant that speaks of the names, after a step. *)
LEMMA NamesPart ==
    ASSUME NEW k, Kept(k), NEW D, Named(k, D), 0 \notin DOMAIN heap'
    PROVE  NamesOK'
<1>1. k \in Nat /\ Len(stack') \in Nat /\ k =< Len(stack')
  BY DEF Kept
<1>2. ASSUME NEW f, RunsBelow(f, k) PROVE RunsIn(stack', f, Len(stack'))
  <2>1. PICK j \in 2..k : stack[j].do = "run" /\ stack[j].frame = f
    BY <1>2 DEF RunsBelow
  <2>2. j \in 1..k /\ j \in 2..Len(stack')
    BY <1>1
  <2>3. QED
    BY <2>1, <2>2 DEF Kept, RunsIn
<1>3. ASSUME NEW n \in DOMAIN names'
      PROVE  /\ names'[n] = [at |-> names'[n].at, frame |-> names'[n].frame]
             /\ names'[n].frame # 0 => RunsIn(stack', names'[n].frame, Len(stack'))
  BY <1>2 DEF Named
<1>4. DOMAIN names' \subseteq Names
  BY DEF Named
<1>5. QED
  BY <1>3, <1>4 DEF NamesOK, RunsBelow, RunsIn

(* Names that live as long as the functions that are kept are kept. *)
Lasting(k) ==
    \A n \in DOMAIN names :
      (names[n].frame # 0 => RunsBelow(names[n].frame, k))
        => n \in DOMAIN names' /\ names'[n] = names[n]

(* Frames that are not kept are freed, or what parsed their arguments      *)
(* parses their AML now.                                                   *)
FramesGo(k) ==
    \A i \in (k + 1)..Len(stack) : stack[i].do \in {"run", "args"} =>
      \/ stack[i].frame \notin DOMAIN heap'
      \/ /\ i = k + 1 /\ i =< Len(stack') /\ stack'[i].do \in {"run", "args"}
         /\ stack'[i].frame = stack[i].frame

(* An invocation in the part of the stack that stays still runs. *)
LEMMA RunsKept ==
    ASSUME NEW k, Kept(k), NEW f, NEW i \in 0..k, RunsBelow(f, i)
    PROVE  RunsIn(stack', f, i) /\ RunsBelow(f, k)
<1>1. PICK j \in 2..i : stack[j].do = "run" /\ stack[j].frame = f
  BY DEF RunsBelow
<1>2. j \in 1..k /\ j \in 2..k
  BY DEF Kept
<1>3. QED
  BY <1>1, <1>2 DEF Kept, RunsBelow, RunsIn

(* What a reference reaches in that part, it still reaches. *)
LEMMA ReachKept ==
    ASSUME NEW k, Kept(k), Lasting(k), NEW op, NEW i \in 1..(k + 1), Reaches(op, i)
    PROVE  Reaches(op, i)'
<1>1. k \in Nat /\ i - 1 \in 0..k
  BY DEF Kept
<1>2. CASE \E n \in DOMAIN names :
             /\ op = InCell("data", <<names[n].at, 1>>)
             /\ names[n].frame # 0 => RunsBelow(names[n].frame, i - 1)
  <2>1. PICK n \in DOMAIN names :
             /\ op = InCell("data", <<names[n].at, 1>>)
             /\ names[n].frame # 0 => RunsBelow(names[n].frame, i - 1)
    BY <1>2
  <2>2. names[n].frame # 0 => RunsBelow(names[n].frame, k) /\ RunsIn(stack', names[n].frame, i - 1)
    BY <1>1, <2>1, RunsKept
  <2>3. n \in DOMAIN names' /\ names'[n] = names[n]
    BY <2>2 DEF Lasting
  <2>4. names'[n].frame # 0 => RunsIn(stack', names'[n].frame, i - 1)
    BY <2>2, <2>3
  <2>5. op = InCell("data", <<names'[n].at, 1>>)
    BY <2>1, <2>3
  <2>6. QED
    BY <2>3, <2>4, <2>5 DEF Reaches, InCell, RunsBelow, RunsIn
<1>3. CASE \E f \in {stack[j].frame : j \in {m \in 1..(i - 1) : stack[m].do = "run"}} :
             op \in {InCell("local", <<f, LOCAL0>>), InCell("arg", <<f, ARG>>)}
  <2>1. PICK j \in 1..(i - 1) : stack[j].do = "run" /\
             op \in {InCell("local", <<stack[j].frame, LOCAL0>>), InCell("arg", <<stack[j].frame, ARG>>)}
    BY <1>3
  <2>2. stack'[j] = stack[j]
    <3>1. j \in 1..k
      BY <1>1
    <3>2. QED
      BY <3>1 DEF Kept
  <2>3. stack'[j].do = "run" /\
             op \in {InCell("local", <<stack'[j].frame, LOCAL0>>), InCell("arg", <<stack'[j].frame, ARG>>)}
    BY <2>1, <2>2
  <2>4. QED
    BY <2>3 DEF Reaches, InCell, LOCAL0, ARG
<1>4. QED
  BY <1>2, <1>3 DEF Reaches

(* What a frame's arguments refer to. *)
ReferenceOK(a, k, v) ==
    /\ k = ARG
    /\ \E i \in DOMAIN stack : /\ stack[i].do \in {"run", "args"}
                               /\ stack[i].frame = a /\ Reaches(v.to, i)

(* A reference that was sound stays so. *)
LEMMA OldReference ==
    ASSUME IInv, NEW k, Kept(k), Lasting(k), FramesGo(k),
           NEW a \in DOMAIN heap, a \in DOMAIN heap', NEW c \in DOMAIN heap[a].cells,
           NEW v, v = heap[a].cells[c], v.type = "reference"
    PROVE  ReferenceOK(a, c, v)'
<1>1. c = ARG /\ \E i \in DOMAIN stack : /\ stack[i].do \in {"run", "args"}
                                         /\ stack[i].frame = a /\ Reaches(v.to, i)
  BY DEF IInv, BorrowedCells
<1>2. PICK i \in DOMAIN stack : /\ stack[i].do \in {"run", "args"}
                                /\ stack[i].frame = a /\ Reaches(v.to, i)
  BY <1>1
<1>3. DOMAIN stack = 1..Len(stack) /\ Len(stack) \in Nat /\ k \in 0..Len(stack)
      /\ DOMAIN stack' = 1..Len(stack') /\ Len(stack') \in Nat /\ k =< Len(stack')
  BY HeldFacts, StackFacts DEF Kept
<1>4. /\ i \in 1..(k + 1) /\ i \in 1..Len(stack')
      /\ stack'[i].do \in {"run", "args"} /\ stack'[i].frame = a
  <2>1. CASE i \in 1..k
    BY <1>2, <1>3, <2>1 DEF Kept
  <2>2. CASE i \in (k + 1)..Len(stack)
    BY <1>2, <1>3, <2>2 DEF FramesGo
  <2>3. QED
    BY <1>3, <2>1, <2>2
<1>5. Reaches(v.to, i)'
  <2>1. SUFFICES ASSUME NEW op, op = v.to PROVE Reaches(op, i)'
    OBVIOUS
  <2>2. Reaches(op, i)
    BY <1>2, <2>1
  <2>3. QED
    BY <1>4, <2>2, ReachKept
<1>6. QED
  BY <1>1, <1>3, <1>4, <1>5 DEF ReferenceOK

(* What a field points to. *)
FieldOK(a, v) ==
    /\ a \notin UNION {OwnedBy(heap, b) : b \in DOMAIN heap}
    /\ \A i \in DOMAIN stack : a \notin Held(stack[i])
    /\ \A n \in DOMAIN names : names[n].at = a =>
         \E m \in DOMAIN names :
           At(heap, <<names[m].at, 1>>) = Owner("buffer", v.of) /\ Outlives(m, n)

BuffersKept(W) ==
    \A n \in DOMAIN names :
      At(heap, <<names[n].at, 1>>).type = "buffer" => <<names[n].at, 1>> \notin W

OwnersOld ==
    \A a, i, c : Points(heap', a, i, c) /\ c \in DOMAIN heap /\ c \in DOMAIN heap' => Points(heap, a, i, c)

(* A name that lives as long as one that is kept is kept. *)
LEMMA OutlivesKept ==
    ASSUME IInv, NEW k, Kept(k), NEW D, Named(k, D), Lasting(k), HeldOnce',
           NEW m \in DOMAIN names, NEW n \in DOMAIN names, n \in DOMAIN names', Outlives(m, n)
    PROVE  m \in DOMAIN names' /\ names'[m] = names[m] /\ Outlives(m, n)'
<1>1. /\ Len(stack) \in Nat /\ k \in 0..Len(stack) /\ k \in Nat /\ DOMAIN stack = 1..Len(stack)
      /\ \A i \in 1..k : stack'[i] = stack[i] /\ i \in 1..Len(stack) /\ i \in 1..Len(stack')
      /\ Len(stack') \in Nat /\ DOMAIN stack' = 1..Len(stack')
  BY HeldFacts, StackFacts DEF Kept
<1>2. names'[n] = names[n] /\ (names[n].frame # 0 => RunsBelow(names[n].frame, k))
  BY DEF Named
<1>3. CASE names[n].frame = 0
  <2>1. names[m].frame = 0
    BY <1>3 DEF Outlives
  <2>2. m \in DOMAIN names' /\ names'[m] = names[m]
    BY <2>1 DEF Lasting
  <2>3. QED
    BY <2>1, <2>2 DEF Outlives
<1>4. CASE names[n].frame # 0
  <2>1. PICK j \in 2..k : stack[j].do = "run" /\ stack[j].frame = names[n].frame
    BY <1>2, <1>4 DEF RunsBelow
  <2>2. /\ j \in 1..k /\ j \in 0..k /\ j \in 1..Len(stack) /\ j \in 1..Len(stack')
        /\ stack'[j] = stack[j]
    BY <1>1
  <2>3. names[m].frame # 0 => RunsBelow(names[m].frame, j)
    BY <1>1, <2>1, <2>2 DEF Outlives
  <2>4. names[m].frame # 0 => RunsBelow(names[m].frame, k) /\ RunsIn(stack', names[m].frame, j)
    BY <2>2, <2>3, RunsKept
  <2>5. m \in DOMAIN names' /\ names'[m] = names[m]
    BY <2>4 DEF Lasting
  <2>6. ASSUME NEW i \in 1..Len(stack'), stack'[i].do = "run", stack'[i].frame = names[n].frame
        PROVE  i = j
    <3>1. Held(stack'[i]) = {names[n].frame} /\ Held(stack'[j]) = {names[n].frame}
      BY <2>1, <2>2, <2>6 DEF Held
    <3>2. QED
      BY <1>1, <2>2, <3>1 DEF HeldOnce
  <2>7. QED
    BY <1>1, <1>2, <1>4, <2>4, <2>5, <2>6 DEF Outlives, RunsBelow, RunsIn
<1>5. QED
  BY <1>3, <1>4

(* A buffer field that was sound stays so. *)
LEMMA OldField ==
    ASSUME IInv, NEW k, Kept(k), NEW W, NEW D, Keeps(heap, heap', W, D), Named(k, D), Lasting(k),
           Tops(k), HeldOnce', BuffersKept(W), OwnersOld,
           NEW a \in DOMAIN heap, a \in DOMAIN heap', NEW c \in DOMAIN heap[a].cells,
           NEW v, v = heap[a].cells[c], v.type = "field"
    PROVE  FieldOK(a, v)'
<1>1. /\ Len(stack) \in Nat /\ k \in 0..Len(stack) /\ k \in Nat /\ DOMAIN stack = 1..Len(stack)
      /\ \A i \in 1..k : stack'[i] = stack[i] /\ i \in 1..Len(stack) /\ i \in 1..Len(stack')
      /\ Len(stack') \in Nat /\ DOMAIN stack' = 1..Len(stack')
  BY HeldFacts, StackFacts DEF Kept
<1> /\ \A i \in 1..Len(stack') : i \in 1..k \/ i \in (k + 1)..Len(stack')
    /\ \A i \in (k + 1)..Len(stack) : i \in 1..Len(stack)
  BY <1>1
<1>2. FieldOK(a, v)
  BY DEF IInv, BorrowedBytes, FieldOK
<1>3. ~Loose(k, a)
  BY <1>1, <1>2 DEF FieldOK, Loose
<1>4. a \notin UNION {OwnedBy(heap', b) : b \in DOMAIN heap'}
  <2>1. SUFFICES ASSUME NEW b \in DOMAIN heap', NEW i \in DOMAIN heap'[b].cells,
                        a \in Owns(heap'[b].cells[i])
                 PROVE  FALSE
    BY DEF OwnedBy
  <2>2. Points(heap', b, i, a)
    BY <2>1 DEF Points
  <2>3. Points(heap, b, i, a)
    BY <2>2 DEF OwnersOld
  <2>4. QED
    BY <1>2, <2>3 DEF FieldOK, Points, OwnedBy
<1>5. ASSUME NEW i \in 1..Len(stack') PROVE a \notin Held(stack'[i])
  BY <1>1, <1>2, <1>3 DEF FieldOK, Tops
<1>6. ASSUME NEW n \in DOMAIN names', names'[n].at = a
      PROVE  \E m \in DOMAIN names' :
               At(heap', <<names'[m].at, 1>>) = Owner("buffer", v.of) /\ Outlives(m, n)'
  <2>1. n \in DOMAIN names /\ names'[n] = names[n]
    BY <1>3, <1>6 DEF Named, NewName
  <2>2. PICK m \in DOMAIN names :
           At(heap, <<names[m].at, 1>>) = Owner("buffer", v.of) /\ Outlives(m, n)
    BY <1>2, <1>6, <2>1 DEF FieldOK
  <2>3. m \in DOMAIN names' /\ names'[m] = names[m] /\ Outlives(m, n)'
    BY <2>1, <2>2, OutlivesKept
  <2>4. <<names[m].at, 1>> \notin W /\ names[m].at \notin D
    BY <2>2, <2>3 DEF BuffersKept, Named, Owner
  <2>5. names[m].at \in DOMAIN heap /\ 1 \in DOMAIN heap[names[m].at].cells
    BY HeldFacts DEF IInv, Sizes
  <2>6. heap'[names[m].at].cells[1] = heap[names[m].at].cells[1]
    BY <2>4, <2>5 DEF Keeps
  <2>7. At(heap', <<names'[m].at, 1>>) = Owner("buffer", v.of)
    BY <2>2, <2>3, <2>6 DEF At
  <2>8. QED
    BY <2>3, <2>7
<1>7. QED
  <2> DEFINE here(n) == \E m \in DOMAIN names' :
               At(heap', <<names'[m].at, 1>>) = Owner("buffer", v.of) /\ Outlives(m, n)'
  <2>1. \A n \in DOMAIN names' : names'[n].at = a => here(n)
    BY <1>6
  <2>2. QED
    BY <1>1, <1>4, <1>5, <2>1 DEF FieldOK, Owner, At

(* What holds blocks that are kept, and what is new, is among H. *)
Holding(k, D, H) ==
    /\ Holders \subseteq H \cup D
    /\ \A i \in (k + 1)..Len(stack') : Held(stack'[i]) \subseteq H
    /\ \A n \in DOMAIN names' : n \notin DOMAIN names => names'[n].at \in H

(* The holders of the next state are held in its heap. *)
LEMMA HoldersKept ==
    ASSUME IInv, NEW k, Kept(k), NEW W, NEW D, NEW H, Spared(k, W, D), Named(k, D),
           Holding(k, D, H), NEW g, HeapOK(g, H)
    PROVE  HeapOK(g, Holders')
<1>1. /\ Len(stack) \in Nat /\ k \in 0..Len(stack) /\ k \in Nat /\ DOMAIN stack = 1..Len(stack)
      /\ \A i \in 1..k : stack'[i] = stack[i] /\ i \in 1..Len(stack)
      /\ Len(stack') \in Nat /\ stack' \in Seq(Entry)
  BY HeldFacts, StackFacts DEF Kept
<1>2. \A i \in 1..Len(stack') : i \in 1..k \/ i \in (k + 1)..Len(stack')
  BY <1>1
<1>3. ASSUME NEW i \in 1..Len(stack') PROVE Held(stack'[i]) \subseteq H
  <2>1. CASE i \in 1..k
    <3>1. Held(stack'[i]) \subseteq Holders /\ Held(stack'[i]) \cap D = {}
      BY <1>1, <2>1, HeldFacts DEF Spared
    <3>2. QED
      BY <3>1 DEF Holding
  <2>2. CASE i \in (k + 1)..Len(stack')
    BY <2>2 DEF Holding
  <2>3. QED
    BY <1>2, <2>1, <2>2
<1>4. ASSUME NEW n \in DOMAIN names' PROVE names'[n].at \in H
  <2>1. CASE n \in DOMAIN names
    BY <2>1, HeldFacts DEF Named, Holding
  <2>2. CASE n \notin DOMAIN names
    BY <2>2 DEF Holding
  <2>3. QED
    BY <2>1, <2>2
<1>5. HoldersOf(names', stack') \subseteq H
  BY <1>1, <1>3, <1>4, HoldersIn
<1> Holders' = HoldersOf(names', stack')
  BY DEF Holders, HoldersOf
<1>6. QED
  BY <1>5, HeapLess

(* The lemma the actions use: a step that keeps the k first activations,   *)
(* alters the cells W, frees D, and holds at most H, keeps the invariant.  *)
LEMMA StepOK ==
    ASSUME IInv, lang' = lang, NEW k, Kept(k), NEW W, NEW D, NEW L, NEW H,
           Alters(heap, heap', W, D, L), HeapOK(heap', H), Holding(k, D, H),
           Spared(k, W, D), Tops(k), Joined(k), Named(k, D), Lasting(k), FramesGo(k),
           BuffersKept(W)
    PROVE  IInv'
<1>1. Keeps(heap, heap', W, D) /\ OwnersOld
  BY DEF Alters, Keeps, OwnersOld
<1>2. (StackOK /\ HeldOnce /\ Sizes /\ Destined /\ Unwritten /\ Returning)'
  BY <1>1, StackPart
<1>3. 0 \notin DOMAIN heap'
  BY HeldFacts DEF Alters
<1>4. NamesOK'
  BY <1>3, NamesPart
<1>5. HeapOK(heap, Holders)'
  BY HoldersKept
<1>6. ASSUME NEW a \in DOMAIN heap', NEW c \in DOMAIN heap'[a].cells,
             NEW v, v = heap'[a].cells[c]
      PROVE  /\ v.type = "reference" => ReferenceOK(a, c, v)'
             /\ v.type = "field" => FieldOK(a, v)'
  <2>1. CASE ~Borrows(v)
    BY <2>1 DEF Borrows
  <2>2. CASE Borrows(v)
    <3>1. a \in DOMAIN heap /\ c \in DOMAIN heap[a].cells /\ v = heap[a].cells[c]
      BY <1>6, <2>2 DEF Alters
    <3>2. v.type = "reference" => ReferenceOK(a, c, v)'
      BY <3>1, OldReference
    <3>3. v.type = "field" => FieldOK(a, v)'
      BY <1>1, <1>2, <3>1, OldField
    <3>4. QED
      BY <3>2, <3>3
  <2>3. QED
    BY <2>1, <2>2
<1>7. BorrowedCells'
  BY <1>6 DEF BorrowedCells, ReferenceOK
<1>8. BorrowedBytes'
  BY <1>6 DEF BorrowedBytes, FieldOK
<1>9. lang' \in Languages
  BY DEF IInv
<1>10. QED
  BY <1>2, <1>4, <1>5, <1>7, <1>8, <1>9 DEF IInv

(* A step that keeps the names. *)
RunsStay(k) == \A j \in 2..Len(stack) : stack[j].do = "run" => j =< k

(* A step that leaves the names alone, and frees none of their objects. *)
LEMMA NamesSame ==
    ASSUME IInv, names' = names, NEW k \in 0..Len(stack), RunsStay(k),
           NEW D, \A n \in DOMAIN names : names[n].at \notin D
    PROVE  Named(k, D) /\ Lasting(k)
<1>1. Len(stack) \in Nat /\ k \in Nat
  BY HeldFacts, StackFacts
<1>2. \A f : RunsBelow(f, Len(stack)) => RunsBelow(f, k)
  BY <1>1 DEF RunsBelow, RunsStay
<1>3. QED
  BY <1>2 DEF IInv, NamesOK, Named, Lasting

(* What is built to be returned at place k or below. *)
Building(k) ==
    \E i \in 1..(k - 1) : stack[i].do = "return" /\ stack[i + 1].do \in {"elements", "convert"}

(* The function d is put on top of the first k. *)
Fits(k, d) ==
    /\ \A b \in Held(d) : b \in DOMAIN heap' /\ Loose(k, b)
    /\ Sized(heap', d) /\ Blank(heap', d)
    /\ Building(k) => d.do \in {"eval", "elements", "convert"}

(* It stands on the function at place i. *)
Stands(i) ==
    /\ Above(stack'[i], stack'[i + 1])
    /\ Wants(stack'[i]) => Dest(heap', stack', i)
    /\ stack'[i].do = "return" /\ stack'[i + 1].do = "call" => stack'[i + 1].as = "data"

(* A step that only returns to the activation k. *)
LEMMA CutStep ==
    ASSUME NEW k, Kept(k), Len(stack') = k
    PROVE  Tops(k) /\ Joined(k)
<1>1. /\ k \in Nat /\ (k + 1)..Len(stack') = {} /\ (k = 0 => stack' = <<>>)
      /\ \A i \in 1..(Len(stack') - 1) : ~(i >= k)
  BY DEF Kept
<1>2. QED
  BY <1>1 DEF Tops, Joined

(* A step that leaves one activation above the first k. *)
LEMMA PushOne ==
    ASSUME NEW k, Kept(k), Len(stack') = k + 1, Fits(k, stack'[k + 1]),
           k = 0 => stack'[1].do \in {"run", "host"}, k # 0 => Stands(k)
    PROVE  Tops(k) /\ Joined(k)
<1>1. k \in Nat /\ (k + 1)..Len(stack') = {k + 1} /\ \A i \in 1..(Len(stack') - 1) : i >= k => i = k
  BY DEF Kept
<1>2. Tops(k)
  BY <1>1 DEF Tops, Fits
<1>3. \A j \in (k + 1)..Len(stack') : j = k + 1
  BY <1>1
<1>4. ASSUME k # 0 PROVE ReturnsAt(stack', k)
  BY <1>1, <1>3, <1>4 DEF Stands, ReturnsAt
<1>5. QED
  BY <1>1, <1>2, <1>3, <1>4 DEF Joined, Stands, Fits, Building

(* A step that leaves two. *)
LEMMA PushTwo ==
    ASSUME NEW k, Kept(k), Len(stack') = k + 2, Fits(k, stack'[k + 1]), Fits(k, stack'[k + 2]),
           Held(stack'[k + 1]) \cap Held(stack'[k + 2]) = {},
           k = 0 => stack'[1].do \in {"run", "host"}, k # 0 => Stands(k), Stands(k + 1),
           k # 0 /\ stack'[k].do = "return" /\ stack'[k + 1].do \in {"elements", "convert"}
             => stack'[k + 2].do \in {"eval", "elements", "convert"}
    PROVE  Tops(k) /\ Joined(k)
<1> k \in Nat
  BY DEF Kept
<1>1. /\ \A i \in 1..(Len(stack') - 1) : i >= k => i = k \/ i = k + 1
      /\ \A j \in (k + 1)..Len(stack') : j = k + 1 \/ j = k + 2
      /\ \A j \in (k + 2)..Len(stack') : j = k + 2
      /\ k + 1 + 1 = k + 2
  OBVIOUS
<1>2. Tops(k)
  BY <1>1 DEF Tops, Fits
<1>3. ASSUME k # 0 PROVE ReturnsAt(stack', k)
  BY <1>1, <1>3 DEF Stands, ReturnsAt
<1>4. ReturnsAt(stack', k + 1)
  BY <1>1 DEF Stands, ReturnsAt
<1>5. QED
  BY <1>1, <1>2, <1>3, <1>4 DEF Joined, Stands, Fits, Building

(* A step that leaves three: the call, the arguments and the first of      *)
(* them.                                                                   *)
LEMMA PushThree ==
    ASSUME NEW k, Kept(k), Len(stack') = k + 3,
           Fits(k, stack'[k + 1]), Fits(k, stack'[k + 2]), Fits(k, stack'[k + 3]),
           Held(stack'[k + 1]) = {}, Held(stack'[k + 3]) = {},
           k # 0, Stands(k), Stands(k + 1), Stands(k + 2),
           stack'[k + 1].do = "call", stack'[k + 2].do = "args", stack'[k + 3].do = "eval"
    PROVE  Tops(k) /\ Joined(k)
<1> k \in Nat
  BY DEF Kept
<1>1. /\ \A i \in 1..(Len(stack') - 1) : i >= k => i = k \/ i = k + 1 \/ i = k + 2
      /\ \A j \in (k + 1)..Len(stack') : j = k + 1 \/ j = k + 2 \/ j = k + 3
      /\ k + 1 + 1 = k + 2 /\ k + 2 + 1 = k + 3
  OBVIOUS
<1>2. Tops(k)
  BY <1>1 DEF Tops, Fits
<1>3. ReturnsAt(stack', k) /\ ReturnsAt(stack', k + 1) /\ ReturnsAt(stack', k + 2)
  BY <1>1 DEF Stands, ReturnsAt
<1>4. QED
  BY <1>1, <1>2, <1>3 DEF Joined, Stands, Fits, Building

-----------------------------------------------------------------------------
(* What owns no data borrows none.*)
LEMMA PlainHeap ==
    ASSUME IInv
    PROVE  Plain(heap)
<1>1. SUFFICES ASSUME NEW a \in DOMAIN heap, NEW c \in DOMAIN heap[a].cells, Owned(heap, a),
                      Borrows(heap[a].cells[c])
               PROVE  FALSE
  BY DEF Plain
<1>2. a \notin Holders
  BY <1>1, HeldFacts DEF Owned
<1>3. CASE heap[a].cells[c].type = "reference"
  <2>1. PICK i \in DOMAIN stack : stack[i].do \in {"run", "args"} /\ stack[i].frame = a
    BY <1>3 DEF IInv, BorrowedCells
  <2>2. i \in 1..Len(stack) /\ stack[i] \in Entry
    BY <2>1, HeldFacts, StackFacts
  <2>3. a \in Held(stack[i])
    BY <2>1, <2>2, HeldIs
  <2>4. QED
    BY <1>2, <2>2, <2>3, HeldFacts
<1>4. CASE heap[a].cells[c].type = "field"
  BY <1>1, <1>4 DEF IInv, BorrowedBytes, Owned, Points, OwnedBy
<1>5. QED
  BY <1>1, <1>3, <1>4 DEF Borrows

(* A cell that may be written to without a function that is kept noticing. *)
Aside(k, c) ==
    /\ \A i \in 1..(k - 1) : Wants(stack[i]) =>
         Slot(i) # c \/ (stack[i].do = "return" /\ stack[i + 1].do = "call")
    /\ \A i \in 1..k : stack[i].do = "elements" =>
         \A j \in DOMAIN heap[stack[i].at].cells : j >= stack[i].next => <<stack[i].at, j>> # c

(* The cell an activation waits on is not waited on by those below it. *)
LEMMA AsideSlot ==
    ASSUME IInv, NEW m \in 1..Len(stack), Wants(stack[m]), NEW k \in 0..m
    PROVE  Aside(k, Slot(m))
<1>1. Len(stack) \in Nat /\ m \in Nat /\ k \in Nat
  BY HeldFacts, StackFacts
<1>2. ASSUME NEW i \in 1..(k - 1), Wants(stack[i]) PROVE Slot(i) # Slot(m)
  <2>1. i \in 1..Len(stack) /\ i # m
    BY <1>1
  <2>2. QED
    BY <1>2, <2>1, SlotsApart
<1>3. ASSUME NEW i \in 1..k, stack[i].do = "elements", NEW j \in DOMAIN heap[stack[i].at].cells,
             j >= stack[i].next
      PROVE  <<stack[i].at, j>> # Slot(m)
  <2>1. i \in 1..Len(stack) /\ Wants(stack[i]) /\ stack[i] \in Entry
    BY <1>1, <1>3, HeldFacts, StackFacts DEF Wants
  <2>2. Slot(i) = <<stack[i].at, stack[i].next - 1>> /\ stack[i].next \in Nat /\ stack[i].given \in Nat
    BY <1>3, <2>1, HeldFacts, SlotIs, EntryIs
  <2>3. Slot(m)[1] = Slot(i)[1] => i = m
    BY <2>1, SlotsApart
  <2>4. SUFFICES ASSUME <<stack[i].at, j>> = Slot(m) PROVE FALSE
    OBVIOUS
  <2>5. j = stack[i].next - 1
    BY <2>2, <2>3, <2>4
  <2>6. QED
    BY <1>3, <2>2, <2>5
<1>4. QED
  BY <1>2, <1>3 DEF Aside

(* No activation waits on the cell of an operand. *)
LEMMA AsidePlace ==
    ASSUME IInv, NEW op, Place(op), NEW k \in 0..Len(stack)
    PROVE  /\ Aside(k, op.cell)
           /\ \A i \in 1..k : Wants(stack[i]) => Slot(i) # op.cell
<1>1. Len(stack) \in Nat /\ 1..k \subseteq 1..Len(stack) /\ 1..(k - 1) \subseteq 1..Len(stack)
  BY HeldFacts, StackFacts
<1>2. QED
  BY <1>1 DEF Aside, Place

(* Of the blocks D that are freed none is needed: they hang at cells X. *)
LEMMA SparedIs ==
    ASSUME IInv, NEW k \in 0..Len(stack), NEW W, NEW D, NEW X,
           \A c \in W : Aside(k, c),
           \A i \in 1..k : Held(stack[i]) \cap D = {},
           \A a, j, c : Points(heap, a, j, c) /\ c \in D => a \in D \/ <<a, j>> \in X,
           \A i \in 1..(k - 1) : Wants(stack[i]) /\ stack[i + 1].do = "elements" => Slot(i) \notin X
    PROVE  Spared(k, W, D)
<1>1. StackOK /\ Len(stack) \in Nat /\ k \in Nat
  BY HeldFacts, StackFacts
<1>2. ASSUME NEW i \in 1..(k - 1), stack[i + 1].do = "elements"
      PROVE  Points(heap, Slot(i)[1], Slot(i)[2], stack[i + 1].at) /\ Slot(i) \notin X
  <2>1. i + 1 \in 2..Len(stack) /\ (i + 1) - 1 = i
    BY <1>1
  <2> DEFINE n == i + 1
  <2>2. n \in 2..Len(stack) /\ n - 1 = i /\ stack[n].do = "elements"
    BY <1>2, <2>1
  <2> HIDE DEF n
  <2>3. Wants(stack[i]) /\ Points(heap, Slot(i)[1], Slot(i)[2], stack[n].at)
    BY <2>2, ElementsHome
  <2>4. Wants(stack[i]) /\ Points(heap, Slot(i)[1], Slot(i)[2], stack[i + 1].at)
    BY <2>3 DEF n
  <2>5. QED
    BY <1>2, <2>4
<1>3. \A i \in 1..k : stack[i].do = "elements" => stack[i].at \notin D
  BY <1>1, <1>2, Chain
<1>4. QED
  BY <1>3 DEF Spared, Aside

(* The stack and its top, in numbers. *)
LEMMA TopIs ==
    ASSUME IInv, stack # <<>>, NEW k, k = Len(stack) - 1
    PROVE  /\ k \in 0..Len(stack) /\ k \in Nat /\ Len(stack) = k + 1 /\ k + 1 \in 1..Len(stack)
           /\ Top = stack[k + 1] /\ Top \in Entry
           /\ \A i \in (k + 1)..Len(stack) : i = k + 1
           /\ Len(Pop) = k /\ Pop \in Seq(Entry) /\ \A i \in 1..k : Pop[i] = stack[i]
<1>1. stack \in Seq(Entry) /\ Len(stack) \in Nat
  BY HeldFacts, StackFacts
<1>2. Len(stack) \in Nat \ {0}
  BY <1>1, PopIs
<1>3. QED
  BY <1>1, <1>2, PopIs DEF Top, Pop

(* Top does not run. *)
LEMMA TopGoes ==
    ASSUME IInv, stack # <<>>, NEW k, k = Len(stack) - 1, Top.do \notin {"run", "args"}
    PROVE  RunsStay(k) /\ FramesGo(k)
<1>1. /\ k \in Nat /\ Len(stack) = k + 1 /\ Top = stack[k + 1]
      /\ \A i \in (k + 1)..Len(stack) : i = k + 1
  BY TopIs
<1>2. \A j \in 2..Len(stack) : j =< k \/ j = k + 1
  BY <1>1
<1>3. QED
  BY <1>1, <1>2 DEF RunsStay, FramesGo

(* A step that keeps the whole stack keeps its invocations. *)
LEMMA AllStay ==
    ASSUME IInv, NEW k, k = Len(stack)
    PROVE  RunsStay(k) /\ FramesGo(k) /\ k \in 0..Len(stack) /\ k \in Nat
<1>1. Len(stack) \in Nat
  BY HeldFacts, StackFacts
<1>2. (k + 1)..Len(stack) = {} /\ \A j \in 2..Len(stack) : j =< k
  BY <1>1
<1>3. QED
  BY <1>1, <1>2 DEF RunsStay, FramesGo

(* What a function gives goes to where the one below it wants it. *)
LEMMA GivesIs ==
    ASSUME IInv, NEW i \in 1..Len(stack), i + 1 \in 1..Len(stack),
           Gives(stack[i + 1]), stack[i + 1].do # "elements"
    PROVE  /\ Wants(stack[i]) /\ stack[i + 1].dest = Slot(i)
           /\ Slot(i) = <<Slot(i)[1], Slot(i)[2]>> /\ Slot(i) \in Nat \X Nat
           /\ Slot(i)[1] \in DOMAIN heap /\ Slot(i)[2] \in DOMAIN heap[Slot(i)[1]].cells
           /\ At(heap, Slot(i)) = heap[Slot(i)[1]].cells[Slot(i)[2]]
           /\ At(heap, Slot(i)) \in Value
           /\ stack[i + 1].do \in {"eval", "convert"} => Owns(At(heap, Slot(i))) = {}
           /\ stack[i + 1].do = "call" /\ stack[i + 1].as = "integer"
                => At(heap, Slot(i)).type = "integer"
           /\ stack[i + 1].do = "call" /\ stack[i].do # "return" => Owns(At(heap, Slot(i))) = {}
<1>1. /\ Len(stack) \in Nat /\ i \in 1..(Len(stack) - 1) /\ Above(stack[i], stack[i + 1])
      /\ stack[i] \in Entry /\ stack[i + 1] \in Entry /\ StackOK
      /\ DOMAIN heap \subseteq Nat
  BY HeldFacts, StackFacts DEF HeapOK
<1>2. Wants(stack[i])
  BY <1>1, AboveIs
<1>3. /\ Slot(i)[1] \in DOMAIN heap /\ Slot(i)[2] \in DOMAIN heap[Slot(i)[1]].cells
      /\ Slot(i) = <<Slot(i)[1], Slot(i)[2]>>
      /\ At(heap, Slot(i)) = heap[Slot(i)[1]].cells[Slot(i)[2]]
  BY <1>1, <1>2, SlotCell
<1>4. Dest(heap, stack, i)
  BY <1>1, <1>2 DEF IInv, Destined
<1>5. At(heap, Slot(i)) \in Value
  BY <1>3, HeapFacts DEF IInv
<1>6. stack[i + 1].dest = Slot(i) /\ stack[i + 1].dest \in Nat \X Nat
  <2>1. stack[i + 1].dest = Slot(i)
    BY <1>4 DEF Dest, Slot
  <2>2. stack[i + 1].dest \in Nat \X Nat
    BY <1>1, EntryIs DEF Gives
  <2>3. QED
    BY <2>1, <2>2
<1>7. /\ stack[i + 1].do = "call" /\ stack[i + 1].as = "integer"
                => At(heap, Slot(i)).type = "integer"
      /\ stack[i + 1].do \in {"eval", "convert"} => Owns(At(heap, Slot(i))) = {}
  BY <1>4 DEF Dest, Slot
<1>8. ASSUME stack[i + 1].do = "call", stack[i].do # "return"
      PROVE  Owns(At(heap, Slot(i))) = {}
  <2>1. CASE stack[i + 1].as = "integer"
    BY <1>7, <1>8, <2>1, OwnsIs
  <2>2. CASE stack[i + 1].as # "integer"
    BY <1>4, <1>8, <2>2 DEF Dest, Slot
  <2>3. QED
    BY <2>1, <2>2
<1>9. QED
  BY <1>2, <1>3, <1>5, <1>6, <1>7, <1>8

(* No activation below the top waits on the object of a name. *)
LEMMA SlotNoName ==
    ASSUME IInv, NEW i \in 1..Len(stack), i + 1 \in 1..Len(stack), Wants(stack[i]),
           NEW n \in DOMAIN names
    PROVE  names[n].at # Slot(i)[1]
<1>1. Len(stack) \in Nat /\ StackOK
  BY HeldFacts, StackFacts
<1>2. CASE stack[i].do = "elements"
  <2>1. stack[i].at \notin Holders /\ Slot(i)[1] = stack[i].at
    <3>1. i \in 2..Len(stack)
      BY <1>1, <1>2, StackFacts
    <3>2. QED
      BY <1>1, <1>2, <3>1, ElementsHome, SlotIs
  <2>2. QED
    BY <2>1, HeldFacts
<1>3. CASE stack[i].do # "elements"
  <2>1. \E j \in 1..Len(stack) : Slot(i)[1] \in Held(stack[j])
    BY <1>1, <1>3, SlotHeld
  <2>2. QED
    BY <1>1, <2>1, StackFacts DEF IInv, HeldOnce
<1>4. QED
  BY <1>2, <1>3

(* Functions that wait for data to be evaluated right now. *)
LEMMA EvalIs ==
    ASSUME IInv, stack # <<>>, Top.do \in {"eval", "convert"}, NEW k, k = Len(stack) - 1
    PROVE  /\ k \in 1..Len(stack) /\ Wants(stack[k]) /\ Top.dest = Slot(k)
           /\ Top.dest = <<Top.dest[1], Top.dest[2]>> /\ Top.dest \in Nat \X Nat
           /\ Top.dest[1] \in DOMAIN heap /\ Top.dest[2] \in DOMAIN heap[Top.dest[1]].cells
           /\ Owns(heap[Top.dest[1]].cells[Top.dest[2]]) = {}
           /\ Aside(k, Top.dest) /\ BuffersKept({Top.dest})
           /\ RunsStay(k) /\ FramesGo(k)
<1>1. /\ k \in 0..Len(stack) /\ k \in Nat /\ Len(stack) = k + 1 /\ k + 1 \in 1..Len(stack)
      /\ Top = stack[k + 1] /\ Top \in Entry
  BY TopIs
<1>2. k # 0
  BY <1>1, HeldFacts, StackFacts
<1>3. k \in 1..Len(stack) /\ Gives(stack[k + 1]) /\ stack[k + 1].do # "elements"
  BY <1>1, <1>2 DEF Gives
<1>4. /\ Wants(stack[k]) /\ Top.dest = Slot(k)
      /\ Slot(k) = <<Slot(k)[1], Slot(k)[2]>> /\ Slot(k) \in Nat \X Nat
      /\ Slot(k)[1] \in DOMAIN heap /\ Slot(k)[2] \in DOMAIN heap[Slot(k)[1]].cells
      /\ Owns(heap[Slot(k)[1]].cells[Slot(k)[2]]) = {}
  BY <1>1, <1>3, GivesIs
<1>5. Aside(k, Slot(k))
  BY <1>1, <1>3, <1>4, AsideSlot
<1>6. BuffersKept({Slot(k)})
  BY <1>1, <1>3, <1>4, SlotNoName DEF BuffersKept
<1>7. QED
  BY <1>3, <1>4, <1>5, <1>6, TopGoes

(* A step that frees nothing spares what the stack waits on, if it alters  *)
(* other cells.                                                            *)
LEMMA SparedNone ==
    ASSUME IInv, NEW k \in 0..Len(stack), NEW W, \A c \in W : Aside(k, c)
    PROVE  Spared(k, W, {})
BY DEF Spared, Aside

(* The innermost function is done, and names stay. *)
LEMMA Popped ==
    ASSUME IInv, lang' = lang, names' = names, stack # <<>>, stack' = Pop,
           Top.do \notin {"run", "args"}, NEW k, k = Len(stack) - 1,
           NEW W, NEW D, NEW L, Alters(heap, heap', W, D, L),
           NEW H, HeapOK(heap', H), Holders \subseteq H \cup D,
           Spared(k, W, D), BuffersKept(W), \A n \in DOMAIN names : names[n].at \notin D
    PROVE  IInv'
<1>1. /\ k \in 0..Len(stack) /\ k \in Nat /\ Kept(k) /\ Len(stack') = k
  BY TopIs DEF Kept
<1>2. Tops(k) /\ Joined(k)
  BY <1>1, CutStep
<1>3. RunsStay(k) /\ FramesGo(k)
  BY TopGoes
<1>4. Named(k, D) /\ Lasting(k)
  BY <1>1, <1>3, NamesSame
<1>5. Holding(k, D, H)
  <2>1. (k + 1)..Len(stack') = {}
    BY <1>1
  <2>2. QED
    BY <2>1 DEF Holding
<1>6. QED
  BY <1>1, <1>2, <1>3, <1>4, <1>5, StepOK

(* A step that gives the waiting cell a value and returns keeps the        *)
(* invariant.                                                              *)
LEMMA Evaluated ==
    ASSUME IInv, Evaluating, lang' = lang, names' = names, stack' = Pop,
           NEW c, c = Top.dest, NEW L, Alters(heap, heap', {c}, {}, L), HeapOK(heap', Holders)
    PROVE  IInv'
<1>1. PICK k : k = Len(stack) - 1
  OBVIOUS
<1>2. stack # <<>> /\ Top.do = "eval"
  BY DEF Evaluating
<1>3. k \in 0..Len(stack)
  BY <1>1, <1>2, TopIs
<1>4. Aside(k, c) /\ BuffersKept({c})
  BY <1>1, <1>2, EvalIs
<1>5. Spared(k, {c}, {})
  BY <1>3, <1>4, SparedNone
<1>6. QED
  BY <1>1, <1>2, <1>4, <1>5, Popped

(* A constant keeps the invariant. *)
LEMMA LiteralOK ==
    ASSUME IInv, Literal
    PROVE  IInv'
<1>1. PICK k : k = Len(stack) - 1
  OBVIOUS
<1>2. Evaluating /\ stack # <<>> /\ Top.do = "eval" /\ lang' = lang /\ names' = names /\ stack' = Pop
  BY DEF Literal, Evaluating
<1>3. PICK c : c = Top.dest
  OBVIOUS
<1>4. /\ c = <<c[1], c[2]>> /\ c[1] \in DOMAIN heap /\ c[2] \in DOMAIN heap[c[1]].cells
      /\ Owns(heap[c[1]].cells[c[2]]) = {}
  BY <1>1, <1>2, <1>3, EvalIs
<1>5. HeapOK(heap, Holders) /\ IsFiniteSet(DOMAIN heap)
  BY HeldFacts
<1>6. CASE heap' = Put(heap, Top.dest, Integer(1))
  <2>1. Integer(1) \in Value /\ Owns(Integer(1)) = {} /\ ~Borrows(Integer(1))
    BY IntegerValue DEF Number
  <2>2. heap' = Put(heap, <<c[1], c[2]>>, Integer(1))
    BY <1>3, <1>4, <1>6
  <2>3. Alters(heap, heap', {<<c[1], c[2]>>}, {}, Owns(heap[c[1]].cells[c[2]])) /\ HeapOK(heap', Holders)
    BY <1>4, <1>5, <2>1, <2>2, PutAlters
  <2>4. QED
    BY <1>2, <1>3, <1>4, <2>3, Evaluated
<1>7. CASE \E type \in {"string", "buffer"} : heap' = Make(heap, Top.dest, type, 1)
  <2>1. PICK type \in {"string", "buffer"} : heap' = Make(heap, Top.dest, type, 1)
    BY <1>7
  <2>2. heap' = Make(heap, <<c[1], c[2]>>, type, 1) /\ 1 \in Number
    BY <1>3, <1>4, <2>1 DEF Number
  <2>3. Alters(heap, heap', {<<c[1], c[2]>>}, {}, Owns(heap[c[1]].cells[c[2]])) /\ HeapOK(heap', Holders)
    BY <1>4, <1>5, <2>2, MakeIs
  <2>4. QED
    BY <1>2, <1>3, <1>4, <2>3, Evaluated
<1>8. QED
  BY <1>6, <1>7 DEF Literal

(* The elements of what an operand holds. *)
LEMMA ElementsAre ==
    ASSUME IInv, NEW d, Direct(d), NEW op \in Elements(d)
    PROVE  /\ op.flag = "field" => op.of \in DOMAIN heap
           /\ op.flag # "field" => Owned(heap, op.cell[1])
<1> DEFINE a == d.cell[1]
           j == d.cell[2]
           v == heap[a].cells[j]
<1>1. a \in DOMAIN heap /\ j \in DOMAIN heap[a].cells /\ At(heap, d.cell) = v
  BY DirectIs DEF Place, At
<1> HIDE DEF v
<1>2. v.type \in {"package", "string", "buffer"} => Points(heap, a, j, v.at)
  BY <1>1 DEF Points, Owns, v
<1>3. CASE v.type = "package"
  <2>1. PICK k : op = InCell("data", <<v.at, k>>)
    BY <1>1, <1>3 DEF Elements
  <2>2. op.flag # "field" /\ op.cell[1] = v.at
    BY <2>1 DEF InCell
  <2>3. QED
    BY <1>2, <1>3, <2>2 DEF Owned
<1>4. CASE v.type \in {"string", "buffer"}
  <2>1. op = InBytes(v.at)
    <3>1. v.type # "package"
      BY <1>4
    <3>2. QED
      BY <1>1, <1>4, <3>1 DEF Elements
  <2>2. op.flag = "field" /\ op.of = v.at
    BY <2>1 DEF InBytes
  <2>3. v.at \in DOMAIN heap
    BY <1>2, <1>4, HeldFacts
  <2>4. QED
    BY <2>2, <2>3
<1>5. CASE v.type \notin {"package", "string", "buffer"}
  BY <1>1, <1>5 DEF Elements
<1>6. QED
  BY <1>3, <1>4, <1>5

(* What may be read. *)
Readable(v) ==
    /\ v \in Value /\ Source(heap, v) /\ v.type # "field"
    /\ v.type = "reference" => \E a \in DOMAIN heap : \E k \in DOMAIN heap[a].cells : v = heap[a].cells[k]

(* The number in the bytes of a block can be stored. *)
LEMMA BytesReadable ==
    ASSUME IInv, NEW b \in DOMAIN heap
    PROVE  Readable(Integer(heap[b].val))
<1>1. HeapOK(heap, Holders)
  BY HeldFacts
<1>2. heap[b].val \in Number
  BY <1>1 DEF HeapOK, IsBlock
<1> DEFINE v == Integer(heap[b].val)
<1>3. v \in Value /\ Owns(v) = {} /\ v.type = "integer"
  BY <1>2, IntegerValue
<1> HIDE DEF v
<1>4. Source(heap, v)
  BY <1>1, <1>3, SourceBare
<1>5. Readable(v)
  BY <1>3, <1>4 DEF Readable
<1>6. QED
  BY <1>5 DEF v

(* A field points to bytes that there are. *)
LEMMA FieldThere ==
    ASSUME IInv, NEW op, Direct(op), NEW a, a = op.cell[1], NEW k, k = op.cell[2],
           heap[a].cells[k].type = "field"
    PROVE  heap[a].cells[k].of \in DOMAIN heap
<1> DEFINE v == heap[a].cells[k]
<1>1. /\ a \in DOMAIN heap /\ k \in DOMAIN heap[a].cells /\ Place(op)
  BY DirectIs DEF Place
<1>2. FieldOK(a, v)
  BY <1>1 DEF IInv, BorrowedBytes, FieldOK
<1>3. PICK n \in DOMAIN names : names[n].at = a
  <2>1. CASE \E n \in DOMAIN names : op = InCell("data", <<names[n].at, 1>>)
    BY <2>1 DEF InCell
  <2>2. CASE \E i \in 1..Len(stack) :
         /\ stack[i].do = "run"
         /\ op \in {InCell("local", <<stack[i].frame, LOCAL0>>), InCell("arg", <<stack[i].frame, ARG>>)}
    <3>1. PICK i \in 1..Len(stack) : stack[i].do = "run" /\ op.cell[1] = stack[i].frame
      BY <2>2 DEF InCell
    <3>2. stack[i].frame \in Held(stack[i]) /\ i \in DOMAIN stack
      BY <3>1, HeldFacts, StackFacts DEF Held
    <3>3. QED
      BY <1>2, <3>1, <3>2 DEF FieldOK
  <2>3. QED
    BY <2>1, <2>2 DEF Direct
<1>4. PICK m \in DOMAIN names : At(heap, <<names[m].at, 1>>) = Owner("buffer", v.of)
  BY <1>2, <1>3 DEF FieldOK
<1> HIDE DEF v
<1>5. names[m].at \in DOMAIN heap /\ 1 \in DOMAIN heap[names[m].at].cells
  BY HeldFacts DEF IInv, Sizes
<1>6. Points(heap, names[m].at, 1, v.of)
  BY <1>4, <1>5, OwnsIs DEF Points, At
<1>7. v.of \in DOMAIN heap
  BY <1>6, HeldFacts
<1>8. QED
  BY <1>7 DEF v

(* What is read from a cell can be stored elsewhere. *)
LEMMA CellRead ==
    ASSUME IInv, NEW op, Place(op), Direct(op) \/ Owned(heap, op.cell[1])
    PROVE  Readable(Read(heap, op))
<1> DEFINE a == op.cell[1]
           k == op.cell[2]
           v == heap[a].cells[k]
<1>1. /\ a \in DOMAIN heap /\ k \in DOMAIN heap[a].cells /\ a \notin Beneath(heap, a, k)
      /\ op.flag # "field"
  BY DEF Place
<1>2. HeapOK(heap, Holders)
  BY HeldFacts
<1>3. v \in Value /\ Source(heap, v)
  BY <1>1, <1>2, HeapFacts, SourceCell
<1> HIDE DEF a, k
<1>4. CASE v.type = "field"
  <2>1. Direct(op)
    <3>1. ~Owned(heap, a)
      BY <1>1, <1>4, PlainHeap DEF Plain, Borrows
    <3>2. QED
      BY <3>1 DEF a
  <2>2. v.of \in DOMAIN heap
    BY <1>4, <2>1, FieldThere DEF a, k
  <2>3. Read(heap, op) = Integer(heap[v.of].val)
    BY <1>1, <1>4 DEF Read, At, a, k
  <2> HIDE DEF v
  <2>4. QED
    BY <2>2, <2>3, BytesReadable
<1>5. CASE v.type # "field"
  <2>1. Read(heap, op) = v
    BY <1>1, <1>5 DEF Read, At, a, k
  <2>2. Readable(v)
    BY <1>1, <1>3, <1>5 DEF Readable
  <2>3. QED
    BY <2>1, <2>2
<1>6. QED
  BY <1>4, <1>5

(* What an operand is. *)
LEMMA ReadIs ==
    ASSUME IInv, stack # <<>>, Top.do # "host", NEW op \in Operands
    PROVE  Readable(Read(heap, op))
<1>1. Direct(op) \/ \E d : Direct(d) /\ op \in Elements(d)
  BY VariablesDirect DEF Operands
<1>2. CASE op.flag = "field"
  <2>1. ~Direct(op)
    BY <1>2, DirectIs DEF Place
  <2>2. op.of \in DOMAIN heap
    BY <1>1, <1>2, <2>1, ElementsAre
  <2>3. Read(heap, op) = Integer(heap[op.of].val)
    BY <1>2 DEF Read
  <2>4. QED
    BY <2>2, <2>3, BytesReadable
<1>3. CASE op.flag # "field"
  <2>1. Direct(op) \/ Owned(heap, op.cell[1])
    BY <1>1, <1>3, ElementsAre
  <2>2. QED
    BY <1>3, <2>1, OperandIs, CellRead
<1>4. QED
  BY <1>2, <1>3

(* The cell c gets the value v, which owns nothing. *)
OnlyCell(g, c, v) ==
    /\ DOMAIN g = DOMAIN heap
    /\ \A a \in DOMAIN heap : DOMAIN g[a].cells = DOMAIN heap[a].cells
    /\ \A a \in DOMAIN heap : \A i \in DOMAIN heap[a].cells :
         g[a].cells[i] = IF <<a, i>> = c THEN v ELSE heap[a].cells[i]

(* What a reference reaches, it reaches from higher in the stack. *)
LEMMA ReachesUp ==
    ASSUME NEW op, NEW i \in Nat, NEW j \in Nat, i =< j, Reaches(op, i)
    PROVE  Reaches(op, j)
<1>1. 2..(i - 1) \subseteq 2..(j - 1) /\ 1..(i - 1) \subseteq 1..(j - 1)
  OBVIOUS
<1>2. \A f : RunsBelow(f, i - 1) => RunsBelow(f, j - 1)
  BY <1>1 DEF RunsBelow
<1>3. CASE \E n \in DOMAIN names :
             /\ op = InCell("data", <<names[n].at, 1>>)
             /\ names[n].frame # 0 => RunsBelow(names[n].frame, i - 1)
  BY <1>2, <1>3 DEF Reaches
<1>4. CASE \E f \in {stack[m].frame : m \in {n \in 1..(i - 1) : stack[n].do = "run"}} :
             op \in {InCell("local", <<f, LOCAL0>>), InCell("arg", <<f, ARG>>)}
  BY <1>1, <1>4 DEF Reaches
<1>5. QED
  BY <1>3, <1>4 DEF Reaches

(* An argument becomes a reference. *)
LEMMA RefersOK ==
    ASSUME IInv, Evaluating, ToArgument, lang' = lang, names' = names, stack' = Pop,
           NEW c, c = Top.dest, NEW v, v.type = "reference", OnlyCell(heap', c, v),
           HeapOK(heap', Holders), NEW k, k = Len(stack) - 1, Reaches(v.to, k)
    PROVE  IInv'
<1>1. /\ stack # <<>> /\ Top.do = "eval" /\ k \in 0..Len(stack) /\ k \in Nat /\ Len(stack) = k + 1
      /\ Kept(k) /\ Len(stack') = k
  BY TopIs DEF Evaluating, Kept
<1>2. /\ k \in 1..Len(stack) /\ Wants(stack[k]) /\ c = Slot(k) /\ c = <<c[1], c[2]>>
      /\ c[1] \in DOMAIN heap /\ c[2] \in DOMAIN heap[c[1]].cells
      /\ Owns(heap[c[1]].cells[c[2]]) = {}
      /\ Aside(k, c) /\ BuffersKept({c}) /\ RunsStay(k) /\ FramesGo(k)
  BY <1>1, EvalIs
<1>3. Spared(k, {c}, {})
  BY <1>1, <1>2, SparedNone
<1>4. Tops(k) /\ Joined(k)
  BY <1>1, CutStep
<1>5. Named(k, {}) /\ Lasting(k)
  BY <1>1, <1>2, NamesSame
<1>6. Keeps(heap, heap', {c}, {})
  BY DEF OnlyCell, Keeps
<1>7. OwnersOld
  <2>1. Owns(v) = {}
    BY OwnsIs
  <2>2. QED
    BY <2>1 DEF OwnersOld, OnlyCell, Points
<1>8. Holding(k, {}, Holders)
  <2>1. (k + 1)..Len(stack') = {}
    BY <1>1
  <2>2. QED
    BY <2>1 DEF Holding
<1>9. (StackOK /\ HeldOnce /\ Sizes /\ Destined /\ Unwritten /\ Returning)'
  BY <1>1, <1>3, <1>4, <1>5, <1>6, StackPart
<1>10. 0 \notin DOMAIN heap'
  BY HeldFacts DEF OnlyCell
<1>11. NamesOK'
  BY <1>1, <1>5, <1>10, NamesPart
<1>12. HeapOK(heap, Holders)'
  BY <1>1, <1>3, <1>5, <1>8, HoldersKept
<1>13. ReferenceOK(c[1], c[2], v)'
  <2>1. /\ stack[k].do = "args" /\ c = <<stack[k].frame, ARG>>
    BY <1>1, <1>2, SlotIs, HeldFacts DEF ToArgument
  <2>2. k \in DOMAIN stack' /\ stack'[k] = stack[k]
    BY <1>1, <1>2 DEF Kept
  <2>3. Reaches(v.to, k)'
    <3>1. SUFFICES ASSUME NEW op, op = v.to PROVE Reaches(op, k)'
      OBVIOUS
    <3>2. Reaches(op, k) /\ k \in 1..(k + 1)
      BY <1>1, <1>2, <3>1
    <3>3. QED
      BY <1>1, <1>5, <3>2, ReachKept
  <2>4. QED
    BY <2>1, <2>2, <2>3 DEF ReferenceOK, ARG
<1>14. ASSUME NEW a \in DOMAIN heap', NEW i \in DOMAIN heap'[a].cells,
              NEW w, w = heap'[a].cells[i]
       PROVE  /\ w.type = "reference" => ReferenceOK(a, i, w)'
              /\ w.type = "field" => FieldOK(a, w)'
  <2>1. CASE <<a, i>> = c
    <3>1. w = v /\ a = c[1] /\ i = c[2]
      BY <1>14, <2>1 DEF OnlyCell
    <3>2. QED
      BY <1>13, <3>1
  <2>2. CASE <<a, i>> # c
    <3>1. a \in DOMAIN heap /\ i \in DOMAIN heap[a].cells /\ w = heap[a].cells[i]
      BY <1>14, <2>2 DEF OnlyCell
    <3>2. w.type = "reference" => ReferenceOK(a, i, w)'
      BY <1>1, <1>2, <1>5, <3>1, OldReference
    <3>3. w.type = "field" => FieldOK(a, w)'
      BY <1>1, <1>2, <1>4, <1>5, <1>6, <1>7, <1>9, <3>1, OldField
    <3>4. QED
      BY <3>2, <3>3
  <2>3. QED
    BY <2>1, <2>2
<1>15. BorrowedCells' /\ BorrowedBytes'
  BY <1>14 DEF BorrowedCells, ReferenceOK, BorrowedBytes, FieldOK
<1>16. QED
  BY <1>9, <1>11, <1>12, <1>15 DEF IInv

(* A name, a local or an argument keeps the invariant. *)
LEMMA OperandOK ==
    ASSUME IInv, Operand
    PROVE  IInv'
<1>1. PICK k : k = Len(stack) - 1
  OBVIOUS
<1>2. Evaluating /\ stack # <<>> /\ Top.do = "eval" /\ lang' = lang /\ names' = names /\ stack' = Pop
  BY DEF Operand, Evaluating
<1>3. PICK c : c = Top.dest
  OBVIOUS
<1>4. /\ c = <<c[1], c[2]>> /\ c[1] \in DOMAIN heap /\ c[2] \in DOMAIN heap[c[1]].cells
      /\ Owns(heap[c[1]].cells[c[2]]) = {} /\ k \in Nat /\ Len(stack) = k + 1
  BY <1>1, <1>2, <1>3, EvalIs, TopIs
<1>5. HeapOK(heap, Holders) /\ IsFiniteSet(DOMAIN heap) /\ Plain(heap)
  BY HeldFacts, PlainHeap
<1>6. PICK op \in Operands : /\ Read(heap, op).type = "reference" => ToArgument
                             /\ heap' = Clone(heap, Top.dest, Read(heap, op))
  BY DEF Operand
<1>7. PICK v : v = Read(heap, op)
  OBVIOUS
<1>8. Readable(v)
  BY <1>2, <1>7, ReadIs
<1>9. heap' = Clone(heap, <<c[1], c[2]>>, v)
  BY <1>3, <1>4, <1>6, <1>7
<1>10. CASE v.type # "reference"
  <2>1. ~Borrows(v) /\ Source(heap, v)
    BY <1>8, <1>10 DEF Readable, Borrows
  <2>2. Alters(heap, heap', {<<c[1], c[2]>>}, {}, Owns(heap[c[1]].cells[c[2]])) /\ HeapOK(heap', Holders)
    BY <1>4, <1>5, <1>9, <2>1, CloneAlters
  <2>3. QED
    BY <1>2, <1>3, <1>4, <2>2, Evaluated
<1>11. CASE v.type = "reference"
  <2>1. Source(heap, v) /\ Owns(v) = {} /\ ToArgument
    BY <1>6, <1>7, <1>8, <1>11, OwnsIs DEF Readable
  <2>2. HeapOK(heap', Holders) /\ Cloned(heap, heap', c[1], c[2], v)
    BY <1>4, <1>5, <1>9, <2>1, CloneIs
  <2>3. Tree(heap, Owns(v)) = {}
    BY <1>5, <2>1, HeapFacts, TreeOfNone
  <2>4. DOMAIN heap' = DOMAIN heap
    BY <2>2, <2>3 DEF Cloned
  <2>5. OnlyCell(heap', c, v)
    <3>1. ASSUME NEW a \in DOMAIN heap, NEW i \in DOMAIN heap[a].cells
          PROVE  heap'[a].cells[i] = IF <<a, i>> = c THEN v ELSE heap[a].cells[i]
      <4>1. CASE a # c[1]
        BY <1>4, <2>2, <4>1 DEF Cloned
      <4>2. CASE a = c[1] /\ i # c[2]
        BY <1>4, <2>2, <4>2 DEF Cloned
      <4>3. CASE a = c[1] /\ i = c[2]
        BY <1>4, <2>1, <2>2, <4>3 DEF Cloned
      <4>4. QED
        BY <4>1, <4>2, <4>3
    <3>2. \A a \in DOMAIN heap : DOMAIN heap'[a].cells = DOMAIN heap[a].cells
      BY <1>4, <2>2 DEF Cloned
    <3>3. QED
      BY <2>4, <3>1, <3>2 DEF OnlyCell
  <2>6. Reaches(v.to, k)
    <3>1. PICK a \in DOMAIN heap : \E j \in DOMAIN heap[a].cells : v = heap[a].cells[j]
      BY <1>8, <1>11 DEF Readable
    <3>2. PICK i \in DOMAIN stack : stack[i].do \in {"run", "args"} /\ Reaches(v.to, i)
      BY <1>11, <3>1 DEF IInv, BorrowedCells
    <3>3. i \in Nat /\ i =< k
      <4>1. i \in 1..Len(stack) /\ Top = stack[k + 1]
        BY <1>1, <1>2, <3>2, TopIs, HeldFacts, StackFacts
      <4>2. QED
        BY <1>2, <1>4, <3>2, <4>1
    <3>4. QED
      BY <1>4, <3>2, <3>3, ReachesUp
  <2>7. QED
    BY <1>1, <1>2, <1>3, <1>11, <2>1, <2>2, <2>5, <2>6, RefersOK
<1>12. QED
  BY <1>10, <1>11

(* RefOf keeps the invariant. *)
LEMMA RefOfOK ==
    ASSUME IInv, RefOf
    PROVE  IInv'
<1>1. PICK k : k = Len(stack) - 1
  OBVIOUS
<1>2. /\ Evaluating /\ ToArgument /\ stack # <<>> /\ Top.do = "eval"
      /\ lang' = lang /\ names' = names /\ stack' = Pop
  BY DEF RefOf, Evaluating
<1>3. PICK c : c = Top.dest
  OBVIOUS
<1>4. /\ c = <<c[1], c[2]>> /\ c[1] \in DOMAIN heap /\ c[2] \in DOMAIN heap[c[1]].cells
      /\ k \in Nat /\ Len(stack) = k + 1 /\ Top = stack[k + 1] /\ k + 1 \in 1..Len(stack)
  BY <1>1, <1>2, <1>3, EvalIs, TopIs
<1>5. HeapOK(heap, Holders) /\ IsFiniteSet(DOMAIN heap) /\ StackOK /\ DOMAIN heap \subseteq Nat
  BY HeldFacts DEF HeapOK
<1>6. PICK op \in Variables : heap' = Put(heap, Top.dest, Reference(op))
  BY DEF RefOf
<1>7. Direct(op)
  BY <1>2, VariablesDirect
<1> DEFINE v == Reference(op)
<1>8. v \in Value /\ v.type = "reference" /\ v.to = op /\ Owns(v) = {}
  <2>1. op = [flag |-> op.flag, cell |-> op.cell]
    BY <1>7 DEF Direct, InCell
  <2>2. op.flag \in {"data", "local", "arg"} /\ op.cell = <<op.cell[1], op.cell[2]>>
        /\ op.cell[1] \in Nat
    BY <1>5, <1>7, DirectIs DEF Place
  <2>3. op.cell[2] \in Nat
    BY <1>7 DEF Direct, InCell, LOCAL0, ARG
  <2>4. op \in [flag : {"data", "local", "arg"}, cell : Nat \X Nat]
    BY <2>1, <2>2, <2>3
  <2>5. v \in Value /\ v.type = "reference" /\ v.to = op
    BY <2>4 DEF Reference, Value
  <2>6. QED
    BY <2>5, OwnsIs
<1> HIDE DEF v
<1>9. heap' = Put(heap, <<c[1], c[2]>>, v)
  BY <1>3, <1>4, <1>6 DEF v
<1>10. HeapOK(heap', Holders)
  BY <1>4, <1>5, <1>8, <1>9, PutOK
<1>11. OnlyCell(heap', c, v)
  <2>1. IsBlock(heap[c[1]])
    BY <1>4, <1>5 DEF HeapOK
  <2>2. QED
    BY <1>4, <1>9, <2>1, PutIs DEF OnlyCell
<1>12. Reaches(op, k)
  <2>1. stack[k].do = "args" /\ k > 1 - 1 /\ k # 0
    BY <1>4, <1>2 DEF ToArgument
  <2>2. /\ Base \in 1..Len(stack) /\ stack[Base].do = "run" /\ Frame = stack[Base].frame
        /\ \A i \in DOMAIN stack : stack[i].do = "run" => i =< Base
    BY <1>2, <1>5, BaseIs
  <2>3. Base \in 1..(k - 1)
    BY <1>2, <1>4, <2>1, <2>2
  <2>4. CASE \E n \in DOMAIN names : op = InCell("data", <<names[n].at, 1>>)
    <3>1. PICK n \in DOMAIN names : op = InCell("data", <<names[n].at, 1>>)
      BY <2>4
    <3>2. ASSUME names[n].frame # 0 PROVE RunsBelow(names[n].frame, k - 1)
      <4>1. PICK j \in 2..Len(stack) : stack[j].do = "run" /\ stack[j].frame = names[n].frame
        BY <3>2 DEF IInv, NamesOK, RunsBelow
      <4>2. j \in 2..(k - 1)
        BY <1>2, <1>4, <2>1, <4>1
      <4>3. QED
        BY <4>1, <4>2 DEF RunsBelow
    <3>3. QED
      BY <3>1, <3>2 DEF Reaches
  <2>5. CASE op \in {InCell("local", <<Frame, LOCAL0>>), InCell("arg", <<Frame, ARG>>)}
    BY <2>2, <2>3, <2>5 DEF Reaches
  <2>6. QED
    BY <2>4, <2>5 DEF Variables
<1>13. QED
  BY <1>1, <1>2, <1>3, <1>8, <1>10, <1>11, <1>12, RefersOK

(* StepOK for a step that leaves the names alone. *)
LEMMA Pushed ==
    ASSUME IInv, lang' = lang, names' = names, NEW k, Kept(k), NEW W, NEW D, NEW L, NEW H,
           Alters(heap, heap', W, D, L), HeapOK(heap', H), Holders \subseteq H \cup D,
           \A i \in (k + 1)..Len(stack') : Held(stack'[i]) \subseteq H,
           Spared(k, W, D), Tops(k) /\ Joined(k), RunsStay(k), FramesGo(k), BuffersKept(W),
           \A n \in DOMAIN names : names[n].at \notin D
    PROVE  IInv'
<1>1. k \in 0..Len(stack)
  BY DEF Kept
<1>2. Named(k, D) /\ Lasting(k)
  BY <1>1, NamesSame
<1>3. Holding(k, D, H)
  BY DEF Holding
<1>4. QED
  BY <1>2, <1>3, StepOK

(* New blocks. *)
LEMMA FrameBare ==
    /\ Bare(Array(<<Null, Null, Null>>))
    /\ \A i \in DOMAIN Array(<<Null, Null, Null>>).cells :
         ~Borrows(Array(<<Null, Null, Null>>).cells[i])
    /\ DOMAIN Array(<<Null, Null, Null>>).cells = 1..3
<1> DEFINE x == Array(<<Null, Null, Null>>)
<1>1. /\ x.cells = <<Null, Null, Null>> /\ x.val = 0 /\ x = [cells |-> x.cells, val |-> x.val]
  BY DEF Array
<1>2. DOMAIN x.cells = 1..3 /\ \A i \in 1..3 : x.cells[i] = Null
  BY <1>1
<1>3. x.cells \in [DOMAIN x.cells -> Value]
  <2>1. Null \in Value
    BY DEF Null, Value
  <2>2. <<Null, Null, Null>> = [i \in 1..3 |-> <<Null, Null, Null>>[i]]
    OBVIOUS
  <2>3. QED
    BY <1>1, <1>2, <2>1, <2>2
<1>4. Null.type = "null"
  BY DEF Null
<1> HIDE DEF x
<1>5. Bare(x)
  BY <1>1, <1>2, <1>3, <1>4, OwnsIs DEF Bare, IsBlock, Number
<1>6. \A i \in DOMAIN x.cells : ~Borrows(x.cells[i])
  BY <1>2, <1>4 DEF Borrows
<1>7. QED
  BY <1>2, <1>5, <1>6 DEF x

(* A block of one empty cell owns and borrows nothing. *)
LEMMA CellBare ==
    ASSUME NEW v \in {Null, Junk}
    PROVE  /\ Bare(Array(<<v>>))
           /\ \A i \in DOMAIN Array(<<v>>).cells : ~Borrows(Array(<<v>>).cells[i])
           /\ DOMAIN Array(<<v>>).cells = {1} /\ Array(<<v>>).cells[1] = v
<1> DEFINE x == Array(<<v>>)
<1>1. /\ x.cells = <<v>> /\ x.val = 0 /\ x = [cells |-> x.cells, val |-> x.val]
  BY DEF Array
<1>2. DOMAIN x.cells = {1} /\ x.cells[1] = v
  BY <1>1
<1>3. v \in Value /\ v.type \in {"null", "junk"}
  BY DEF Null, Junk, Value
<1>4. x.cells \in [DOMAIN x.cells -> Value]
  <2>1. <<v>> = [i \in {1} |-> v]
    OBVIOUS
  <2>2. QED
    BY <1>1, <1>2, <1>3, <2>1
<1> HIDE DEF x
<1>5. Bare(x)
  BY <1>1, <1>2, <1>3, <1>4, OwnsIs DEF Bare, IsBlock, Number
<1>6. \A i \in DOMAIN x.cells : ~Borrows(x.cells[i])
  BY <1>2, <1>3 DEF Borrows
<1>7. QED
  BY <1>2, <1>5, <1>6 DEF x

(* A new frame in a heap. *)
LEMMA NewFrameIs ==
    ASSUME NEW h, NEW H, HeapOK(h, H), IsFiniteSet(DOMAIN heap), NEW f, f = New(h)
    PROVE  /\ HeapOK(NewFrame(h, f), H \cup {f})
           /\ Alters(h, NewFrame(h, f), {}, {}, {f})
           /\ f \in Nat /\ f # 0 /\ f \notin DOMAIN h /\ f \notin DOMAIN heap
           /\ f \in DOMAIN NewFrame(h, f) /\ DOMAIN NewFrame(h, f)[f].cells = 1..3
           /\ DOMAIN NewFrame(h, f) = DOMAIN h \cup {f}
<1>1. f \in Nat /\ f # 0 /\ f \notin DOMAIN h /\ f \notin DOMAIN heap
  BY NewIs DEF HeapOK
<1> DEFINE x == Array(<<Null, Null, Null>>)
<1>2. Bare(x) /\ (\A i \in DOMAIN x.cells : ~Borrows(x.cells[i])) /\ DOMAIN x.cells = 1..3
  BY FrameBare
<1> HIDE DEF x
<1>3. /\ HeapOK(With(h, f, x), H \cup {f}) /\ With(h, f, x)[f] = x
      /\ DOMAIN With(h, f, x) = DOMAIN h \cup {f}
  <2>1. HeapOK(With(h, f, x), H \cup {f})
    BY <1>1, <1>2, WithIs
  <2>2. QED
    BY <2>1 DEF With
<1>4. Alters(h, With(h, f, x), {}, {}, {f})
  BY <1>1, <1>2, WithAlters
<1>5. NewFrame(h, f) = With(h, f, x)
  BY DEF NewFrame, x
<1>6. QED
  BY <1>1, <1>2, <1>3, <1>4, <1>5

NewCell(h, H, g, b, v) ==
    /\ HeapOK(g, H \cup {b}) /\ Alters(h, g, {}, {}, {b})
    /\ b \in Nat /\ b # 0 /\ b \notin DOMAIN h /\ b \notin DOMAIN heap
    /\ b \in DOMAIN g /\ DOMAIN g[b].cells = {1} /\ Owns(g[b].cells[1]) = {}
    /\ g[b].cells[1] = v /\ DOMAIN g = DOMAIN h \cup {b}

(* A new block of one empty cell in a heap. *)
LEMMA NewCellIs ==
    ASSUME NEW h, NEW H, HeapOK(h, H), IsFiniteSet(DOMAIN heap), NEW b, b = New(h),
           NEW v \in {Null, Junk}, NEW g, g = With(h, b, Array(<<v>>))
    PROVE  NewCell(h, H, g, b, v)
<1>1. b \in Nat /\ b # 0 /\ b \notin DOMAIN h /\ b \notin DOMAIN heap
  BY NewIs DEF HeapOK
<1> DEFINE x == Array(<<v>>)
<1>2. Bare(x) /\ (\A i \in DOMAIN x.cells : ~Borrows(x.cells[i])) /\ DOMAIN x.cells = {1}
      /\ x.cells[1] = v
  BY CellBare
<1>3. g = With(h, b, x)
  OBVIOUS
<1> HIDE DEF x
<1>4. /\ HeapOK(g, H \cup {b}) /\ g[b] = x /\ DOMAIN g = DOMAIN h \cup {b}
  <2>1. HeapOK(With(h, b, x), H \cup {b})
    BY <1>1, <1>2, WithIs
  <2>2. QED
    BY <1>3, <2>1 DEF With
<1>5. Alters(h, g, {}, {}, {b})
  BY <1>1, <1>2, <1>3, WithAlters
<1>6. QED
  BY <1>1, <1>2, <1>4, <1>5 DEF Bare, NewCell

-----------------------------------------------------------------------------
(* What the host asks for. *)
LEMMA HostFacts ==
    ASSUME IInv, stack = <<>>, stack' \in Seq(Entry), NEW W, NEW D
    PROVE  /\ Kept(0) /\ RunsStay(0) /\ FramesGo(0) /\ Spared(0, W, D) /\ ~Building(0)
<1>1. Len(stack) = 0 /\ Len(stack') \in Nat
  OBVIOUS
<1>2. QED
  BY <1>1 DEF Kept, RunsStay, FramesGo, Spared, Building

(* The start of a table keeps the invariant. *)
LEMMA LoadTableOK ==
    ASSUME IInv, LoadTable
    PROVE  IInv'
<1>1. stack = <<>> /\ lang' = lang /\ names' = names
  BY DEF LoadTable
<1>2. PICK f : f = New(heap)
  OBVIOUS
<1>3. heap' = NewFrame(heap, f) /\ stack' = <<Run(f)>>
  BY <1>2 DEF LoadTable
<1>4. HeapOK(heap, Holders) /\ IsFiniteSet(DOMAIN heap)
  BY HeldFacts
<1>5. /\ HeapOK(heap', Holders \cup {f}) /\ Alters(heap, heap', {}, {}, {f})
      /\ f \in Nat /\ f \notin DOMAIN heap /\ f \in DOMAIN heap' /\ DOMAIN heap'[f].cells = 1..3
  BY <1>2, <1>3, <1>4, NewFrameIs
<1>6. Run(f) \in Entry /\ Held(Run(f)) = {f} /\ Run(f).do = "run"
  BY <1>5, EntryMade DEF Run, Held
<1>7. stack' \in Seq(Entry) /\ Len(stack') = 1 /\ stack'[1] = Run(f)
  BY <1>3, <1>6
<1>8. Kept(0) /\ RunsStay(0) /\ FramesGo(0) /\ Spared(0, {}, {}) /\ ~Building(0)
  BY <1>1, <1>7, HostFacts
<1>9. Fits(0, stack'[1])
  BY <1>5, <1>6, <1>7, <1>8 DEF Fits, Loose, Sized, Blank
<1>10. Tops(0) /\ Joined(0)
  <2>1. 0 + 1 = 1
    OBVIOUS
  <2>2. QED
    BY <1>6, <1>7, <1>8, <1>9, <2>1, PushOne
<1>11. \A i \in (0 + 1)..Len(stack') : Held(stack'[i]) \subseteq Holders \cup {f}
  BY <1>6, <1>7
<1>12. BuffersKept({})
  BY DEF BuffersKept
<1>13. QED
  BY <1>1, <1>5, <1>8, <1>10, <1>11, <1>12, Pushed

=============================================================================
