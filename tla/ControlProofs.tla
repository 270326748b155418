--------------------------- MODULE ControlProofs ---------------------------
(***************************************************************************)
(* Proofs about Control, for all tables and any depth of calls.            *)
(***************************************************************************)
EXTENDS ControlInvariant, TLAPS, NaturalsInduction, WellFoundedInduction,
        FiniteSetTheorems, SequenceTheorems

(* Every set of naturals has a least element. *)
LEMMA Least ==
    ASSUME NEW S \in SUBSET Nat, S # {}
    PROVE  \E x \in S : \A y \in S : x =< y
<1> DEFINE R == {r \in Nat \X Nat : r[1] < r[2]}
<1>1. OpToRel(<, Nat) = R
  BY Zenon DEF OpToRel
<1>2. IsWellFoundedOn(R, Nat)
  BY <1>1, NatLessThanWellFounded
<1>3. PICK x \in S : \A y \in S : ~(<<y, x>> \in R)
  <2> HIDE DEF R
  <2>1. QED
    BY <1>2, WFMin
<1>4. \A y \in S : y \in Nat /\ ~(y < x)
  <2> TAKE y \in S
  <2>1. y \in Nat /\ x \in Nat
    OBVIOUS
  <2>2. y < x => <<y, x>> \in R
    BY <2>1
  <2>3. QED
    BY <1>3, <2>1, <2>2
<1>5. QED
  BY <1>4

(* Induction: a set that has each number whose predecessors it has. *)
LEMMA Numbers ==
    ASSUME NEW S, \A n \in Nat : (\A m \in 0..(n - 1) : m \in S) => n \in S
    PROVE  Nat \subseteq S
<1>1. SUFFICES ASSUME Nat \ S # {}
               PROVE  FALSE
  OBVIOUS
<1>2. PICK n \in Nat \ S : \A m \in Nat \ S : n =< m
  BY <1>1, Least
<1>3. \A m \in 0..(n - 1) : m \in S
  BY <1>2
<1>4. QED
  BY <1>2, <1>3

-----------------------------------------------------------------------------
(* The lexical structure of a table. *)

(* The innermost of some blocks is the one that is in all others. *)
LEMMA InnermostIs ==
    ASSUME NEW k \in Nat, NEW S, S \subseteq 0..k, S # {}
    PROVE  /\ Innermost(S) \in S
           /\ \A c \in S : c =< Innermost(S)
           /\ \A b \in S : (\A c \in S : c =< b) => Innermost(S) = b
<1> DEFINE T == {n \in 0..k : k - n \in S}
<1>1. PICK c \in S : c \in 0..k
  OBVIOUS
<1>2. k - c \in T
  BY <1>1
<1>3. PICK n \in T : \A m \in T : n =< m
  <2>1. T \in SUBSET Nat /\ T # {}
    BY <1>2
  <2> HIDE DEF T
  <2>2. QED
    BY <2>1, Least
<1>4. k - n \in S /\ k - n \in 0..k
  BY <1>3
<1>5. \A d \in S : d =< k - n
  <2> TAKE d \in S
  <2>1. d \in 0..k
    OBVIOUS
  <2>2. k - d \in T
    BY <2>1
  <2>3. QED
    BY <1>3, <2>1, <2>2
<1>6. Innermost(S) \in S /\ \A d \in S : d =< Innermost(S)
  BY <1>4, <1>5 DEF Innermost
<1>7. ASSUME NEW b \in S, \A d \in S : d =< b
      PROVE  Innermost(S) = b
  <2>1. b =< Innermost(S) /\ Innermost(S) =< b
    BY <1>6, <1>7
  <2>2. b \in 0..k /\ Innermost(S) \in 0..k
    BY <1>6
  <2>3. QED
    BY <2>1, <2>2
<1>8. QED
  BY <1>6, <1>7

(* What a table is made of. *)
LEMMA Cells ==
    ASSUME NEW p, WellFormed(p)
    PROVE  /\ Len(p) \in Nat /\ DOMAIN p = 1..Len(p)
           /\ End(p, 0) = Len(p) + 1 /\ Op(p, 0) = "table"
           /\ \A i \in 1..Len(p) :
                /\ Op(p, i) = p[i].op /\ Op(p, i) \in BlockOp \cup PlainOp
                /\ End(p, i) \in Nat /\ i < End(p, i)
                /\ Op(p, i) \in PlainOp => End(p, i) = i + 1
           /\ \A i \in 0..Len(p) : End(p, i) \in Nat /\ i < End(p, i)
<1>1. p \in Seq(Cell)
  BY DEF WellFormed
<1>2. Len(p) \in Nat /\ DOMAIN p = 1..Len(p) /\ \A i \in 1..Len(p) : p[i] \in Cell
  BY <1>1
<1>3. \A i \in 1..Len(p) : /\ p[i].op \in BlockOp \cup PlainOp
                           /\ p[i].size \in Nat \ {0}
                           /\ p[i].op \in PlainOp => p[i].size = 1
  BY <1>2 DEF Cell, WellFormed
<1>4. \A i \in 1..Len(p) :
         /\ Op(p, i) = p[i].op /\ Op(p, i) \in BlockOp \cup PlainOp
         /\ End(p, i) \in Nat /\ i < End(p, i)
         /\ Op(p, i) \in PlainOp => End(p, i) = i + 1
  BY <1>2, <1>3 DEF Op, End
<1>5. End(p, 0) = Len(p) + 1 /\ Op(p, 0) = "table"
  BY DEF End, Op
<1>6. QED
  BY <1>2, <1>4, <1>5

(* The parent of a cell is the innermost block around it. *)
LEMMA Parents ==
    ASSUME NEW p, WellFormed(p), NEW i \in 1..Len(p)
    PROVE  /\ Parent(p, i) \in 0..(i - 1) /\ Parent(p, i) \in Around(p, i)
           /\ i < End(p, Parent(p, i)) /\ End(p, i) =< End(p, Parent(p, i))
           /\ \A c \in Around(p, i) : c =< Parent(p, i)
           /\ \A b \in Around(p, i) :
                (\A c \in Around(p, i) : c =< b) => Parent(p, i) = b
           /\ 0 \in Around(p, i)
           /\ \A b : b \in Around(p, i) <=> b \in 0..(i - 1) /\ i < End(p, b)
<1>1. Len(p) \in Nat /\ End(p, 0) = Len(p) + 1 /\ DOMAIN p = 1..Len(p)
      /\ \A b \in 0..Len(p) : End(p, b) \in Nat
  BY Cells
<1>2. \A b : b \in Around(p, i) <=> b \in 0..(i - 1) /\ i < End(p, b)
  BY <1>1 DEF Around, Body
<1>3. 0 \in Around(p, i) /\ Around(p, i) \subseteq 0..(i - 1) /\ i - 1 \in Nat
  BY <1>1, <1>2
<1>4. /\ Parent(p, i) \in Around(p, i)
      /\ \A c \in Around(p, i) : c =< Parent(p, i)
      /\ \A b \in Around(p, i) : (\A c \in Around(p, i) : c =< b) => Parent(p, i) = b
  BY <1>3, InnermostIs DEF Parent
<1>5. End(p, i) =< End(p, Parent(p, i))
  BY <1>1 DEF WellFormed
<1>6. QED
  BY <1>2, <1>3, <1>4, <1>5

(* A block ends within all blocks around it. *)
LEMMA Nesting ==
    ASSUME NEW p, WellFormed(p)
    PROVE  \A i \in 1..Len(p) : \A b \in Around(p, i) : End(p, i) =< End(p, b)
<1> DEFINE S == {n \in Nat : n \in 1..Len(p) =>
                               \A b \in Around(p, n) : End(p, n) =< End(p, b)}
<1>1. ASSUME NEW n \in Nat, \A m \in 0..(n - 1) : m \in S, n \in 1..Len(p),
             NEW b \in Around(p, n)
      PROVE  End(p, n) =< End(p, b)
  <2> DEFINE c == Parent(p, n)
  <2>1. /\ c \in 0..(n - 1) /\ End(p, n) =< End(p, c) /\ b =< c
        /\ b \in 0..(n - 1) /\ n < End(p, b) /\ Len(p) \in Nat
        /\ \A j \in 0..Len(p) : End(p, j) \in Nat
    BY <1>1, Parents, Cells
  <2> HIDE DEF c
  <2>2. CASE b = c
    BY <2>1, <2>2
  <2>3. CASE b < c
    <3>1. c \in 1..Len(p) /\ c \in S
      BY <1>1, <2>1, <2>3
    <3>2. b \in 0..(c - 1) /\ c < End(p, b)
      BY <1>1, <2>1, <2>3
    <3>3. b \in Around(p, c)
      BY <3>1, <3>2, Parents
    <3>4. End(p, c) =< End(p, b)
      BY <3>1, <3>3
    <3>5. QED
      BY <1>1, <2>1, <3>4
  <2>4. QED
    BY <2>1, <2>2, <2>3
<1>2. \A n \in Nat : (\A m \in 0..(n - 1) : m \in S) => n \in S
  BY <1>1
<1>3. Nat \subseteq S
  <2> HIDE DEF S
  <2>1. QED
    BY <1>2, Numbers
<1>4. QED
  <2> TAKE i \in 1..Len(p)
  <2>1. i \in S
    BY <1>3
  <2>2. QED
    BY <2>1

(* A block with terms begins with one of its own, and not with an Else. *)
LEMMA FirstTerm ==
    ASSUME NEW p, WellFormed(p), NEW b \in 0..Len(p), b + 1 < End(p, b)
    PROVE  /\ b + 1 \in 1..Len(p)
           /\ Parent(p, b + 1) = b
           /\ Op(p, b + 1) # "else"
<1>1. /\ Len(p) \in Nat /\ End(p, 0) = Len(p) + 1 /\ DOMAIN p = 1..Len(p)
      /\ \A i \in 1..Len(p) : Op(p, i) = p[i].op
      /\ \A i \in 0..Len(p) : End(p, i) \in Nat /\ i < End(p, i)
  BY Cells
<1>2. End(p, b) =< Len(p) + 1
  <2>1. ASSUME b # 0
        PROVE  End(p, b) =< Len(p) + 1
    <3>1. b \in 1..Len(p) /\ 0 \in Around(p, b)
      BY <1>1, <2>1, Parents
    <3>2. QED
      BY <1>1, <3>1, Nesting
  <2>2. QED
    BY <1>1, <2>1
<1>3. b + 1 \in 1..Len(p)
  BY <1>1, <1>2
<1>4. b \in Around(p, b + 1) /\ \A c \in Around(p, b + 1) : c =< b
  BY <1>3, Parents
<1>5. Parent(p, b + 1) = b
  BY <1>3, <1>4, Parents
<1>6. ASSUME Op(p, b + 1) = "else"
      PROVE  FALSE
  <2>1. PICK c \in DOMAIN p : End(p, c) = b + 1 /\ Parent(p, c) = Parent(p, b + 1)
    BY <1>1, <1>3, <1>6 DEF WellFormed
  <2>2. c \in 1..Len(p) /\ c < b + 1 /\ Parent(p, c) < c
    BY <1>1, <2>1, Parents
  <2>3. QED
    BY <1>5, <2>1, <2>2
<1>7. QED
  BY <1>3, <1>5, <1>6

(* Terms of one list follow each other: no two end at the same place. *)
LEMMA Siblings ==
    ASSUME NEW p, WellFormed(p), NEW i \in 1..Len(p), NEW j \in 1..Len(p),
           Parent(p, i) = Parent(p, j), i < j
    PROVE  End(p, i) =< j
<1>1. SUFFICES ASSUME j < End(p, i)
               PROVE  FALSE
  BY Cells
<1>2. i \in Around(p, j)
  BY <1>1, Parents
<1>3. i =< Parent(p, j)
  BY <1>2, Parents
<1>4. QED
  BY <1>3, Parents

(* Behind a term comes the next one of its list, or the end of the list.   *)
(* Only an If of the list has an Else behind it.                           *)
LEMMA NextTerm ==
    ASSUME NEW p, WellFormed(p), NEW i \in 1..Len(p),
           End(p, i) # End(p, Parent(p, i))
    PROVE  /\ End(p, i) \in 1..Len(p)
           /\ End(p, i) < End(p, Parent(p, i))
           /\ Parent(p, End(p, i)) = Parent(p, i)
           /\ Op(p, End(p, i)) = "else" => Op(p, i) = "if"
<1> DEFINE b == Parent(p, i)
           n == End(p, i)
<1>1. /\ Len(p) \in Nat /\ End(p, 0) = Len(p) + 1 /\ DOMAIN p = 1..Len(p)
      /\ \A j \in 1..Len(p) : Op(p, j) = p[j].op /\ End(p, j) \in Nat /\ j < End(p, j)
      /\ \A j \in 0..Len(p) : End(p, j) \in Nat /\ j < End(p, j)
  BY Cells
<1>2. /\ b \in 0..(i - 1) /\ i < End(p, b) /\ n =< End(p, b)
      /\ \A c \in Around(p, i) : c =< b
      /\ 0 \in Around(p, i)
  BY Parents
<1>3. n \in 1..Len(p) /\ n < End(p, b) /\ i < n
  <2>1. End(p, b) =< Len(p) + 1
    <3>1. ASSUME b # 0
          PROVE  End(p, b) =< Len(p) + 1
      <4>1. b \in 1..Len(p)
        BY <1>1, <1>2, <3>1
      <4>2. 0 \in Around(p, b)
        BY <4>1, Parents
      <4>3. QED
        BY <1>1, <4>1, <4>2, Nesting
    <3>2. QED
      BY <1>1, <3>1
  <2>2. n # End(p, b)
    OBVIOUS
  <2> HIDE DEF b, n
  <2>3. End(p, i) = n
    BY DEF n
  <2>4. QED
    BY <1>1, <1>2, <2>1, <2>2, <2>3
<1>4. b \in Around(p, n)
  BY <1>1, <1>2, <1>3, Parents
<1>5. ASSUME NEW c \in Around(p, n), b < c
      PROVE  FALSE
  <2>1. c \in 0..(n - 1) /\ n < End(p, c) /\ c \in 1..Len(p)
    BY <1>1, <1>2, <1>3, <1>5, Parents
  <2>2. CASE c < i
    <3>1. c \in Around(p, i)
      <4>1. c \in 0..(i - 1) /\ i < End(p, c)
        BY <1>1, <1>3, <2>1, <2>2
      <4>2. QED
        BY <4>1, Parents
    <3>2. QED
      BY <1>2, <1>5, <2>1, <3>1
  <2>3. CASE c = i
    BY <1>1, <2>1, <2>3
  <2>4. CASE i < c
    <3>1. i \in Around(p, c)
      <4>1. i \in 0..(c - 1) /\ c < End(p, i)
        BY <1>1, <2>1, <2>4
      <4>2. QED
        BY <2>1, <4>1, Parents
    <3>2. End(p, c) =< End(p, i)
      BY <2>1, <3>1, Nesting
    <3>3. QED
      BY <1>1, <2>1, <3>2
  <2>5. QED
    BY <2>1, <2>2, <2>3, <2>4
<1>6. \A c \in Around(p, n) : c =< b
  <2> TAKE c \in Around(p, n)
  <2>1. c \in 0..(n - 1)
    BY <1>3, Parents
  <2>2. QED
    BY <1>2, <1>5, <2>1
<1>7. Parent(p, n) = b
  BY <1>3, <1>4, <1>6, Parents
<1>8. ASSUME Op(p, n) = "else"
      PROVE  Op(p, i) = "if"
  <2>1. PICK c \in DOMAIN p : /\ p[c].op = "if" /\ End(p, c) = n
                              /\ Parent(p, c) = Parent(p, n)
    BY <1>1, <1>3, <1>8 DEF WellFormed
  <2>2. c \in 1..Len(p) /\ Parent(p, c) = Parent(p, i)
    BY <1>1, <1>7, <2>1
  <2>3. ~(c < i) /\ ~(i < c)
    BY <1>1, <2>1, <2>2, Siblings
  <2>4. c = i
    BY <1>1, <2>2, <2>3
  <2>5. QED
    BY <1>1, <2>1, <2>4
<1>9. QED
  BY <1>3, <1>7, <1>8

(* A list goes on behind a term, unless that is an If with an Else. *)
LEMMA GoesOn ==
    ASSUME NEW p, WellFormed(p), NEW i \in 1..Len(p),
           Op(p, i) = "if" => ~IsAt(p, End(p, i), "else")
    PROVE  AtTerm(p, End(p, i), Parent(p, i))
<1>1. SUFFICES ASSUME End(p, i) # End(p, Parent(p, i))
               PROVE  AtTerm(p, End(p, i), Parent(p, i))
  BY DEF AtTerm
<1>2. /\ End(p, i) \in 1..Len(p) /\ End(p, i) < End(p, Parent(p, i))
      /\ Parent(p, End(p, i)) = Parent(p, i)
      /\ Op(p, End(p, i)) = "else" => Op(p, i) = "if"
  BY <1>1, NextTerm
<1>3. Op(p, End(p, i)) # "else"
  <2>1. DOMAIN p = 1..Len(p) /\ Op(p, End(p, i)) = p[End(p, i)].op
    BY <1>2, Cells
  <2>2. QED
    BY <1>2, <2>1 DEF IsAt
<1>4. End(p, i) \in Body(p, Parent(p, i))
  <2>1. /\ Parent(p, i) \in 0..(i - 1) /\ i < End(p, i)
        /\ End(p, Parent(p, i)) \in Nat /\ Len(p) \in Nat
    BY Parents, Cells
  <2>2. QED
    BY <1>2, <2>1 DEF Body
<1>5. QED
  BY <1>2, <1>3, <1>4 DEF AtTerm

(* A list begins at its first term, or at its end. *)
LEMMA Begins ==
    ASSUME NEW p, WellFormed(p), NEW b \in 0..Len(p)
    PROVE  AtTerm(p, b + 1, b)
<1>1. Len(p) \in Nat /\ End(p, b) \in Nat /\ b < End(p, b) /\ b \in Nat
  BY Cells
<1>2. CASE b + 1 < End(p, b)
  <2>1. Parent(p, b + 1) = b /\ Op(p, b + 1) # "else"
    BY <1>2, FirstTerm
  <2>2. b + 1 \in Body(p, b)
    BY <1>1, <1>2 DEF Body
  <2>3. QED
    BY <2>1, <2>2 DEF AtTerm
<1>3. CASE ~(b + 1 < End(p, b))
  <2>1. End(p, b) = b + 1
    BY <1>1, <1>3
  <2>2. QED
    BY <2>1 DEF AtTerm
<1>4. QED
  BY <1>2, <1>3

(* The Else behind an If is the If's. *)
LEMMA ElseOf ==
    ASSUME NEW p, WellFormed(p), Separated(p), NEW i \in 1..Len(p),
           Op(p, i) = "if", IsAt(p, End(p, i), "else")
    PROVE  /\ End(p, i) \in 1..Len(p) /\ Op(p, End(p, i)) = "else"
           /\ Parent(p, End(p, i)) = Parent(p, i)
<1>1. DOMAIN p = 1..Len(p) /\ \A j \in 1..Len(p) : Op(p, j) = p[j].op
  BY Cells
<1>2. End(p, i) \in 1..Len(p) /\ Op(p, End(p, i)) = "else"
  BY <1>1 DEF IsAt
<1>3. QED
  BY <1>1, <1>2 DEF Separated

(* The scope of a term is that of the list it belongs to. *)
LEMMA ScopeOfTerm ==
    ASSUME NEW p, WellFormed(p), NEW i \in 1..Len(p)
    PROVE  ScopeOf(p, i) = ScopeIn(p, Parent(p, i))
<1> DEFINE b == Parent(p, i)
           Naming(c) == Op(p, c) \in {"scope", "method"}
           S == {0} \cup {c \in Around(p, i) : Naming(c)}
<1>1. /\ Len(p) \in Nat /\ Op(p, 0) = "table"
      /\ \A j \in 0..Len(p) : End(p, j) \in Nat
  BY Cells
<1>2. /\ b \in 0..(i - 1) /\ i < End(p, b) /\ b \in Around(p, i)
      /\ \A c \in Around(p, i) : c =< b
      /\ \A c : c \in Around(p, i) <=> c \in 0..(i - 1) /\ i < End(p, c)
  BY Parents
<1>3. S \subseteq 0..i /\ S # {} /\ ScopeOf(p, i) = Innermost(S)
  BY <1>1, <1>2 DEF ScopeOf
<1>4. CASE Op(p, b) \in {"table", "scope", "method"}
  <2>1. b \in S
    <3>1. ASSUME Op(p, b) = "table"
          PROVE  b = 0
      <4>1. b # 0 => Op(p, b) \in BlockOp \cup PlainOp
        BY <1>1, <1>2, Cells
      <4>2. QED
        BY <3>1, <4>1 DEF BlockOp, PlainOp
    <3>2. QED
      BY <1>2, <1>4, <3>1
  <2>2. \A c \in S : c =< b
    BY <1>2
  <2>3. Innermost(S) = b
    <3> HIDE DEF S, b
    <3>1. i \in Nat /\ S \subseteq 0..i /\ S # {}
      BY <1>3
    <3>2. \A d \in S : (\A c \in S : c =< d) => Innermost(S) = d
      BY <3>1, InnermostIs
    <3>3. QED
      BY <2>1, <2>2, <3>2
  <2>4. QED
    BY <1>3, <1>4, <2>3 DEF ScopeIn
<1>5. CASE Op(p, b) \notin {"table", "scope", "method"}
  <2>1. b \in 1..Len(p)
    BY <1>1, <1>2, <1>5
  <2>2. \A c : c \in Around(p, b) <=> c \in 0..(b - 1) /\ b < End(p, c)
    BY <2>1, Parents
  <2>3. ASSUME NEW c \in Around(p, b)
        PROVE  c \in Around(p, i)
    <3>1. End(p, b) =< End(p, c) /\ c \in 0..(b - 1)
      BY <2>1, <2>2, <2>3, Nesting
    <3>2. End(p, b) \in Nat /\ End(p, c) \in Nat
      BY <1>1, <2>1, <3>1
    <3>3. QED
      BY <1>2, <2>1, <3>1, <3>2
  <2>4. ASSUME NEW c \in Around(p, i), Naming(c)
        PROVE  c \in Around(p, b)
    <3>1. c # b /\ c =< b /\ c \in 0..(i - 1) /\ i < End(p, c)
      BY <1>2, <1>5, <2>4
    <3>2. End(p, c) \in Nat
      BY <1>1, <3>1
    <3>3. QED
      BY <1>2, <2>1, <2>2, <3>1, <3>2
  <2>5. S = {0} \cup {c \in Around(p, b) : Naming(c)}
    BY <2>3, <2>4
  <2>6. QED
    BY <1>3, <1>5, <2>5 DEF ScopeIn, ScopeOf
<1>6. QED
  BY <1>4, <1>5

-----------------------------------------------------------------------------
(* The C stack. *)

(* The state_t of a record is one more than that of the record under it if *)
(* the record is the first of its state_t, and the same otherwise.         *)
LEMMA Levels ==
    ASSUME NEW s, NEW k \in Nat
    PROVE  /\ Level(s, k) \in Nat
           /\ Level(s, k + 1) = Level(s, k) + (IF IsBase(s[k + 1]) THEN 1 ELSE 0)
           /\ \A j \in 0..k : /\ Level(s, j) =< Level(s, k)
                              /\ Level(s, j) \in Nat
           /\ k # 0 /\ IsBase(s[1]) => Level(s, k) # 0
<1> DEFINE B(j) == {i \in 1..j : IsBase(s[i])}
<1>1. ASSUME NEW j \in Nat
      PROVE  IsFiniteSet(B(j)) /\ Cardinality(B(j)) \in Nat
  <2>1. IsFiniteSet(1..j)
    BY FS_Interval
  <2>2. B(j) \subseteq 1..j
    OBVIOUS
  <2>3. QED
    BY <2>1, <2>2, FS_Subset, FS_CardinalityType
<1>2. \A j \in Nat : Level(s, j) = Cardinality(B(j)) /\ Level(s, j) \in Nat
  BY <1>1 DEF Level
<1>3. Level(s, k + 1) = Level(s, k) + (IF IsBase(s[k + 1]) THEN 1 ELSE 0)
  <2>1. CASE IsBase(s[k + 1])
    <3>1. B(k + 1) = B(k) \cup {k + 1} /\ k + 1 \notin B(k)
      BY <2>1
    <3>2. Cardinality(B(k) \cup {k + 1}) = Cardinality(B(k)) + 1
      <4>1. IsFiniteSet(B(k)) /\ k + 1 \notin B(k)
        BY <1>1, <3>1
      <4> HIDE DEF B
      <4>2. QED
        BY <4>1, FS_AddElement
    <3>3. k + 1 \in Nat
      OBVIOUS
    <3>4. QED
      BY <1>2, <2>1, <3>1, <3>2, <3>3
  <2>2. CASE ~IsBase(s[k + 1])
    <3>1. B(k + 1) = B(k)
      BY <2>2
    <3>2. k + 1 \in Nat
      OBVIOUS
    <3>3. Level(s, k + 1) = Level(s, k) /\ Level(s, k) \in Nat
      <4>1. Level(s, k + 1) = Cardinality(B(k + 1)) /\ Level(s, k) = Cardinality(B(k))
        BY <1>2, <3>2
      <4>2. QED
        BY <1>2, <3>1, <4>1
    <3>4. QED
      BY <2>2, <3>3
  <2>3. QED
    BY <2>1, <2>2
<1>4. ASSUME NEW j \in 0..k
      PROVE  Level(s, j) =< Level(s, k)
  <2>1. B(j) \subseteq B(k) /\ IsFiniteSet(B(k)) /\ j \in Nat
    BY <1>1
  <2>2. Cardinality(B(j)) =< Cardinality(B(k))
    <3> HIDE DEF B
    <3>1. QED
      BY <2>1, FS_Subset
  <2>3. QED
    BY <1>2, <2>1, <2>2
<1>5. ASSUME k # 0, IsBase(s[1])
      PROVE  Level(s, k) # 0
  <2>1. 1 \in B(k) /\ IsFiniteSet(B(k))
    BY <1>1, <1>5
  <2>2. Cardinality(B(k)) # 0
    <3> HIDE DEF B
    <3>1. QED
      BY <2>1, FS_EmptySet
  <2>3. QED
    BY <1>2, <2>2
<1>6. \A j \in 0..k : Level(s, j) \in Nat
  <2> TAKE j \in 0..k
  <2>1. j \in Nat
    OBVIOUS
  <2>2. QED
    BY <1>2, <2>1
<1>7. QED
  BY <1>2, <1>3, <1>4, <1>5, <1>6

(* It depends on nothing above the record, and no record that is not the   *)
(* first of its state_t changes it.                                        *)
LEMMA SameLevel ==
    ASSUME NEW s, NEW t, NEW n \in Nat, NEW k \in Nat, n =< k,
           \A j \in 1..n : t[j] = s[j],
           \A j \in (n + 1)..k : ~IsBase(t[j])
    PROVE  /\ Level(t, k) = Level(s, n)
           /\ \A j \in 0..n : Level(t, j) = Level(s, j)
<1>1. {j \in 1..k : IsBase(t[j])} = {j \in 1..n : IsBase(s[j])}
  OBVIOUS
<1>2. ASSUME NEW m \in 0..n
      PROVE  Level(t, m) = Level(s, m)
  <2>1. {j \in 1..m : IsBase(t[j])} = {j \in 1..m : IsBase(s[j])}
    OBVIOUS
  <2>2. QED
    BY <2>1 DEF Level
<1>3. QED
  BY <1>1, <1>2 DEF Level

(* A state_t that waits for a call is not the running one. *)
LEMMA WaitingBelow ==
    ASSUME NEW p, NEW fr \in Seq(StateT), NEW s \in Seq(Record), s # <<>>, Sound(p, s, fr),
           NEW k \in 1..(Len(s) - 1), s[k].fn = "operand"
    PROVE  /\ Level(s, k) \in 1..(Len(fr) - 1)
           /\ \A n \in (k + 1)..Len(s) : Level(s, k) < Level(s, n)
<1>1. Len(s) \in Nat /\ k \in Nat /\ Len(fr) \in Nat
  OBVIOUS
<1>2. s[k + 1].fn = "method" /\ IsBase(s[1]) /\ Level(s, Len(s)) = Len(fr)
  BY DEF Sound, Fits
<1>3. Level(s, k + 1) = Level(s, k) + 1 /\ Level(s, k) \in Nat \ {0}
  <2>1. IsBase(s[k + 1])
    BY <1>2 DEF IsBase
  <2>2. /\ Level(s, k) \in Nat
        /\ Level(s, k + 1) = Level(s, k) + (IF IsBase(s[k + 1]) THEN 1 ELSE 0)
        /\ k # 0 /\ IsBase(s[1]) => Level(s, k) # 0
    BY <1>1, Levels
  <2>3. QED
    BY <1>2, <2>1, <2>2
<1>4. ASSUME NEW n \in (k + 1)..Len(s)
      PROVE  Level(s, k) < Level(s, n)
  <2>1. n \in Nat /\ k + 1 \in 0..n
    BY <1>1
  <2>2. Level(s, k + 1) =< Level(s, n) /\ Level(s, n) \in Nat
    BY <2>1, Levels
  <2>3. QED
    BY <1>3, <2>2
<1>5. Level(s, k) < Level(s, Len(s))
  BY <1>1, <1>4
<1>6. QED
  BY <1>1, <1>2, <1>3, <1>4, <1>5

(* A step within the running state_t: the records above the first n are    *)
(* exchanged for others, and only the running state_t changes.             *)
LEMMA Moved ==
    ASSUME NEW p, NEW s \in Seq(Record), s # <<>>, NEW fr \in Seq(StateT), Sound(p, s, fr),
           NEW n \in 1..Len(s), \A k \in (n + 1)..Len(s) : ~IsBase(s[k]),
           NEW t \in Seq(Record), n =< Len(t),
           \A k \in 1..n : t[k] = s[k],
           \A k \in (n + 1)..Len(t) : ~IsBase(t[k]),
           NEW g \in Seq(StateT), Len(g) = Len(fr),
           \A d \in 1..(Len(fr) - 1) : g[d] = fr[d],
           \A k \in n..(Len(t) - 1) : Fits(p, t[k], t[k + 1]) /\ t[k].fn # "operand"
    PROVE  Sound(p, t, g)
<1>1. n \in Nat /\ Len(s) \in Nat /\ Len(t) \in Nat /\ n >= 1
  OBVIOUS
<1>2. /\ IsBase(s[1]) /\ Level(s, Len(s)) = Len(fr)
      /\ \A k \in 1..(Len(s) - 1) :
           /\ Fits(p, s[k], s[k + 1])
           /\ s[k].fn = "operand" => AtOperand(p, fr[Level(s, k)], s[k].cell)
  BY DEF Sound
<1>3. IsBase(t[1])
  BY <1>1, <1>2
<1>4. Level(t, Len(t)) = Level(s, n) /\ \A j \in 0..n : Level(t, j) = Level(s, j)
  <2> DEFINE k == Len(t)
  <2>1. /\ n \in Nat /\ k \in Nat /\ n =< k
        /\ \A j \in 1..n : t[j] = s[j]
        /\ \A j \in (n + 1)..k : ~IsBase(t[j])
    BY <1>1
  <2> HIDE DEF k
  <2>2. Level(t, k) = Level(s, n) /\ \A j \in 0..n : Level(t, j) = Level(s, j)
    BY <2>1, SameLevel
  <2>3. QED
    BY <2>2 DEF k
<1>5. Level(s, Len(s)) = Level(s, n)
  BY <1>1, SameLevel
<1>6. ASSUME NEW k \in 1..(Len(t) - 1)
      PROVE  /\ Fits(p, t[k], t[k + 1])
             /\ t[k].fn = "operand" => AtOperand(p, g[Level(t, k)], t[k].cell)
  <2>1. CASE k < n
    <3>1. t[k] = s[k] /\ t[k + 1] = s[k + 1] /\ k \in 1..(Len(s) - 1) /\ k \in 0..n
      BY <1>1, <2>1
    <3>2. Fits(p, t[k], t[k + 1]) /\ Level(t, k) = Level(s, k)
      BY <1>2, <1>4, <3>1
    <3>3. ASSUME s[k].fn = "operand"
          PROVE  g[Level(s, k)] = fr[Level(s, k)]
      BY <3>1, <3>3, WaitingBelow
    <3>4. QED
      BY <1>2, <3>1, <3>2, <3>3
  <2>2. CASE n =< k
    BY <1>1, <2>2
  <2>3. QED
    BY <1>1, <2>1, <2>2
<1>7. QED
  BY <1>2, <1>3, <1>4, <1>5, <1>6 DEF Sound

(* A new last element is put on the one that was the last. *)
LEMMA OneMore ==
    ASSUME NEW T, NEW s \in Seq(T), s # <<>>, NEW b \in T
    PROVE  Append(s, b) = SubSeq(s, 1, Len(s) - 1) \o <<s[Len(s)], b>>
<1> DEFINE a == s[Len(s)]
           u == SubSeq(s, 1, Len(s) - 1)
<1>1. Len(s) \in Nat \ {0} /\ a \in T
  BY EmptySeq
<1>2. s = u \o <<a>>
  <2>1. 1 \in 1..Len(s) /\ Len(s) \in 1..Len(s)
    BY <1>1
  <2>2. SubSeq(s, 1, Len(s)) = SubSeq(s, 1, Len(s) - 1) \o <<s[Len(s)]>>
    BY <2>1, SubSeqRecursiveSecond
  <2>3. SubSeq(s, 1, Len(s)) = s
    BY SubSeqFull
  <2>4. QED
    BY <2>2, <2>3
<1>3. u \in Seq(T)
  <2>1. \A i \in 1..(Len(s) - 1) : s[i] \in T
    BY <1>1
  <2>2. Len(s) - 1 \in Int
    BY <1>1
  <2>3. QED
    BY <2>1, <2>2, SubSeqProperties
<1> HIDE DEF a, u
<1>4. Append(s, b) = s \o <<b>>
  BY AppendIsConcat
<1>5. (u \o <<a>>) \o <<b>> = u \o (<<a>> \o <<b>>)
  <2>1. <<a>> \in Seq(T) /\ <<b>> \in Seq(T)
    BY <1>1
  <2>2. QED
    BY <1>3, <2>1, ConcatAssociative
<1>6. <<a>> \o <<b>> = <<a, b>>
  <2> DEFINE x == <<a>> \o <<b>>
             y == <<a, b>>
  <2>1. /\ <<a>> \in Seq(T) /\ Len(<<a>>) = 1 /\ <<a>>[1] = a
        /\ <<b>> \in Seq(T) /\ Len(<<b>>) = 1 /\ <<b>>[1] = b
    BY <1>1
  <2>2. x \in Seq(T) /\ Len(x) = 2 /\ x[1] = a /\ x[2] = b
    <3>1. /\ x \in Seq(T) /\ Len(x) = Len(<<a>>) + Len(<<b>>)
          /\ \A i \in 1..(Len(<<a>>) + Len(<<b>>)) :
                x[i] = IF i =< Len(<<a>>) THEN <<a>>[i] ELSE <<b>>[i - Len(<<a>>)]
      BY <2>1, ConcatProperties
    <3> HIDE DEF x
    <3>2. 1 \in 1..(Len(<<a>>) + Len(<<b>>)) /\ 2 \in 1..(Len(<<a>>) + Len(<<b>>))
      BY <2>1
    <3>3. QED
      BY <2>1, <3>1, <3>2
  <2>3. y \in Seq(T) /\ Len(y) = 2 /\ y[1] = a /\ y[2] = b
    BY <1>1
  <2> HIDE DEF x, y
  <2>4. \A i \in 1..Len(x) : x[i] = y[i]
    <3>1. \A i \in 1..2 : i = 1 \/ i = 2
      OBVIOUS
    <3>2. QED
      BY <2>2, <2>3, <3>1
  <2>5. x = y
    BY <2>2, <2>3, <2>4, SeqEqual
  <2>6. QED
    BY <2>5 DEF x, y
<1>7. Append(s, b) = u \o <<a, b>>
  BY <1>2, <1>4, <1>5, <1>6
<1>8. QED
  BY <1>7 DEF a, u

(* The first n records with some others on top. *)
LEMMA Stacked ==
    ASSUME NEW T, NEW s \in Seq(T), NEW n \in 0..Len(s), NEW new \in Seq(T)
    PROVE  LET t == SubSeq(s, 1, n) \o new
           IN  /\ t \in Seq(T) /\ Len(t) = n + Len(new)
               /\ \A k \in 1..n : t[k] = s[k]
               /\ \A k \in 1..Len(new) : t[n + k] = new[k]
               /\ new = <<>> => t = SubSeq(s, 1, n)
<1> DEFINE u == SubSeq(s, 1, n)
<1>1. /\ u \in Seq(T) /\ Len(u) = n /\ \A k \in 1..n : u[k] = s[k]
  <2>1. n =< Len(s) /\ n \in Nat
    OBVIOUS
  <2>2. CASE n = 0
    BY <2>2, SubSeqEmpty
  <2>3. CASE n # 0
    BY <2>1, <2>3, SubSeqProperties
  <2>4. QED
    BY <2>2, <2>3
<1> HIDE DEF u
<1>2. /\ u \o new \in Seq(T) /\ Len(u \o new) = n + Len(new)
      /\ \A k \in 1..n : (u \o new)[k] = u[k]
      /\ \A k \in 1..Len(new) : (u \o new)[n + k] = new[k]
  <2>1. /\ u \o new \in Seq(T) /\ Len(u \o new) = n + Len(new)
        /\ \A k \in 1..(n + Len(new)) :
             (u \o new)[k] = IF k =< n THEN u[k] ELSE new[k - n]
    BY <1>1, ConcatProperties
  <2>2. n \in Nat /\ Len(new) \in Nat
    OBVIOUS
  <2> DEFINE t == u \o new
  <2> HIDE DEF t
  <2>3. \A k \in 1..n : t[k] = u[k]
    BY <2>1, <2>2 DEF t
  <2>4. \A k \in 1..Len(new) : t[n + k] = new[k]
    <3> TAKE k \in 1..Len(new)
    <3>1. n + k \in 1..(n + Len(new)) /\ ~(n + k =< n) /\ (n + k) - n = k
      BY <2>2
    <3>2. t[n + k] = IF n + k =< n THEN u[n + k] ELSE new[(n + k) - n]
      BY <2>1, <3>1 DEF t
    <3>3. QED
      BY <3>1, <3>2
  <2>5. QED
    BY <2>1, <2>3, <2>4 DEF t
<1>3. new = <<>> => u \o new = u
  BY <1>1, ConcatEmptySeq
<1>4. QED
  BY <1>1, <1>2, <1>3 DEF u

(* t is s with the records new in the place of those above the first n.    *)
Exchanged(s, n, new, t) ==
    /\ t \in Seq(Record) /\ Len(t) = n + Len(new)
    /\ \A k \in 1..n : t[k] = s[k]
    /\ \A k \in 1..Len(new) : t[n + k] = new[k]

(* Records of one state_t that may stand on each other. *)
Pile(p, new) ==
    /\ new \in Seq(Record)
    /\ \A k \in 1..Len(new) : Proper(p, new[k]) /\ ~IsBase(new[k])
    /\ \A k \in 1..(Len(new) - 1) : Fits(p, new[k], new[k + 1]) /\ new[k].fn # "operand"

(* The last n records are all of the running state_t. *)
Within(s, n) == n \in 1..Len(s) /\ \A k \in (n + 1)..Len(s) : ~IsBase(s[k])

(* Only the running state_t is another one. *)
OthersKept(fr, g) ==
    /\ g \in Seq(StateT) /\ Len(g) = Len(fr)
    /\ \A d \in 1..(Len(fr) - 1) : g[d] = fr[d]

(* A C stack s with the states fr, and all its records. *)
Stands(p, s, fr) ==
    /\ s \in Seq(Record) /\ s # <<>> /\ fr \in Seq(StateT)
    /\ Sound(p, s, fr)
    /\ \A k \in 1..Len(s) : Proper(p, s[k])

(* Cutting a sequence at n and appending new gives such a stack. *)
LEMMA Exchange ==
    ASSUME NEW s \in Seq(Record), NEW n \in 1..Len(s), NEW new \in Seq(Record)
    PROVE  Exchanged(s, n, new, SubSeq(s, 1, n) \o new)
<1> DEFINE t == SubSeq(s, 1, n) \o new
<1>1. /\ t \in Seq(Record) /\ Len(t) = n + Len(new)
      /\ \A k \in 1..n : t[k] = s[k]
      /\ \A k \in 1..Len(new) : t[n + k] = new[k]
  <2>1. n \in 0..Len(s)
    OBVIOUS
  <2>2. QED
    BY <2>1, Stacked
<1> HIDE DEF t
<1>2. QED
  BY <1>1 DEF Exchanged, t

(* The C stack stays sound if the new records fit. *)
LEMMA Replaced ==
    ASSUME NEW p, NEW s, NEW fr, Stands(p, s, fr),
           NEW n, Within(s, n), s[n].fn # "operand",
           NEW new, Pile(p, new), new # <<>> => Fits(p, s[n], new[1]),
           NEW g, OthersKept(fr, g),
           NEW t, Exchanged(s, n, new, t)
    PROVE  /\ Stands(p, t, g)
           /\ t[Len(t)] = IF new = <<>> THEN s[n] ELSE new[Len(new)]
<1>1. /\ n \in Nat \ {0} /\ Len(new) \in Nat /\ Len(s) \in Nat /\ n =< Len(s)
      /\ n \in 1..Len(s) /\ s # <<>>
      /\ new \in Seq(Record)
      /\ t \in Seq(Record) /\ Len(t) = n + Len(new)
      /\ s \in Seq(Record) /\ fr \in Seq(StateT)
  BY DEF Within, Pile, Exchanged, Stands
<1>2. \A k \in 1..n : t[k] = s[k]
  BY DEF Exchanged
<1>3. ASSUME NEW k \in (n + 1)..Len(t)
      PROVE  k - n \in 1..Len(new) /\ t[k] = new[k - n]
  <2>1. k - n \in 1..Len(new) /\ n + (k - n) = k
    BY <1>1
  <2>2. t[n + (k - n)] = new[k - n]
    BY <2>1 DEF Exchanged
  <2>3. QED
    BY <2>1, <2>2
<1>4. \A k \in (n + 1)..Len(t) : Proper(p, t[k]) /\ ~IsBase(t[k])
  BY <1>3 DEF Pile
<1>5. \A k \in 1..Len(t) : Proper(p, t[k])
  <2> TAKE k \in 1..Len(t)
  <2>1. k =< n => k \in 1..n /\ k \in 1..Len(s)
    BY <1>1
  <2>2. ~(k =< n) => k \in (n + 1)..Len(t)
    BY <1>1
  <2>3. \A j \in 1..Len(s) : Proper(p, s[j])
    BY DEF Stands
  <2>4. QED
    BY <1>2, <1>4, <2>1, <2>2, <2>3
<1>6. ASSUME NEW k \in n..(Len(t) - 1)
      PROVE  Fits(p, t[k], t[k + 1]) /\ t[k].fn # "operand"
  <2>1. CASE k = n
    <3>1. Len(new) # 0 /\ k + 1 \in (n + 1)..Len(t) /\ (k + 1) - n = 1 /\ k \in 1..n
      BY <1>1, <2>1
    <3>2. t[k] = s[n] /\ t[k + 1] = new[1]
      BY <1>2, <1>3, <2>1, <3>1
    <3>3. new # <<>>
      BY <3>1
    <3>4. QED
      BY <3>2, <3>3
  <2>2. CASE k # n
    <3>1. k \in (n + 1)..Len(t) /\ k + 1 \in (n + 1)..Len(t) /\ (k + 1) - n = (k - n) + 1
      <4>1. k \in Nat /\ n < k /\ k + 1 =< Len(t) /\ Len(t) \in Nat
        BY <1>1, <2>2
      <4>2. QED
        BY <1>1, <4>1
    <3>2. t[k] = new[k - n] /\ t[k + 1] = new[(k - n) + 1]
      BY <1>3, <3>1
    <3>3. k - n \in 1..(Len(new) - 1)
      BY <1>1, <3>1
    <3>4. QED
      BY <3>2, <3>3 DEF Pile
  <2>3. QED
    BY <2>1, <2>2
<1>7. n =< Len(t) /\ t # <<>>
  BY <1>1
<1>8. Sound(p, t, g)
  <2>1. \A k \in (n + 1)..Len(s) : ~IsBase(s[k])
    BY DEF Within
  <2>2. \A k \in (n + 1)..Len(t) : ~IsBase(t[k])
    BY <1>4
  <2>3. /\ g \in Seq(StateT) /\ Len(g) = Len(fr)
        /\ \A d \in 1..(Len(fr) - 1) : g[d] = fr[d]
    BY DEF OthersKept
  <2>4. \A k \in n..(Len(t) - 1) : Fits(p, t[k], t[k + 1]) /\ t[k].fn # "operand"
    BY <1>6
  <2>5. Sound(p, s, fr)
    BY DEF Stands
  <2>6. QED
    BY <1>1, <1>2, <1>7, <2>1, <2>2, <2>3, <2>4, <2>5, Moved
<1>9. t[Len(t)] = IF new = <<>> THEN s[n] ELSE new[Len(new)]
  <2>1. CASE new = <<>>
    <3>1. Len(t) = n /\ n \in 1..n
      BY <1>1, <2>1
    <3>2. QED
      BY <1>2, <2>1, <3>1
  <2>2. CASE new # <<>>
    <3>1. Len(t) \in (n + 1)..Len(t) /\ Len(t) - n = Len(new)
      BY <1>1, <2>2
    <3>2. QED
      BY <1>3, <2>2, <3>1
  <2>3. QED
    BY <2>1, <2>2
<1>10. Stands(p, t, g)
  BY <1>1, <1>5, <1>7, <1>8 DEF Stands, OthersKept
<1>11. QED
  BY <1>9, <1>10

(* Small piles. *)
LEMMA Piles ==
    ASSUME NEW p, NEW a \in Record, Proper(p, a), ~IsBase(a)
    PROVE  /\ Pile(p, <<>>)
           /\ Pile(p, <<a>>)
           /\ \A b \in Record :
                Proper(p, b) /\ ~IsBase(b) /\ Fits(p, a, b) /\ a.fn # "operand"
                  => Pile(p, <<a, b>>)
<1>1. <<>> \in Seq(Record) /\ Len(<<>>) = 0
  OBVIOUS
<1>2. Pile(p, <<>>)
  BY <1>1 DEF Pile
<1>3. <<a>> \in Seq(Record) /\ Len(<<a>>) = 1 /\ <<a>>[1] = a
  OBVIOUS
<1>4. Pile(p, <<a>>)
  <2> DEFINE t == <<a>>
  <2>1. t \in Seq(Record) /\ Len(t) = 1 /\ t[1] = a
    BY <1>3
  <2> HIDE DEF t
  <2>2. Pile(p, t)
    BY <2>1 DEF Pile
  <2>3. QED
    BY <2>2 DEF t
<1>5. ASSUME NEW b \in Record, Proper(p, b), ~IsBase(b), Fits(p, a, b), a.fn # "operand"
      PROVE  Pile(p, <<a, b>>)
  <2> DEFINE t == <<a, b>>
  <2>1. t \in Seq(Record) /\ Len(t) = 2 /\ t[1] = a /\ t[2] = b
    OBVIOUS
  <2> HIDE DEF t
  <2>2. \A k \in 1..Len(t) : k = 1 \/ k = 2
    BY <2>1
  <2>3. \A k \in 1..Len(t) : Proper(p, t[k]) /\ ~IsBase(t[k])
    BY <1>5, <2>1, <2>2
  <2>4. \A k \in 1..(Len(t) - 1) : k = 1
    BY <2>1
  <2>5. \A k \in 1..(Len(t) - 1) : Fits(p, t[k], t[k + 1]) /\ t[k].fn # "operand"
    <3> TAKE k \in 1..(Len(t) - 1)
    <3>1. k = 1 /\ k + 1 = 2
      BY <2>4
    <3>2. QED
      BY <1>5, <2>1, <3>1
  <2>6. Pile(p, t)
    BY <2>1, <2>3, <2>5 DEF Pile
  <2>7. QED
    BY <2>6 DEF t
<1>6. QED
  BY <1>2, <1>4, <1>5

(* A pile on a record is a pile. *)
Onto(a, new) == <<a>> \o new
Topped(p, a, new, t) ==
    /\ Pile(p, t) /\ t # <<>> /\ t[1] = a
    /\ t[Len(t)] = IF new = <<>> THEN a ELSE new[Len(new)]

(* The record may be a handler or a list that has begun. *)
LEMMA PileOn ==
    ASSUME NEW p, NEW a \in Record, Proper(p, a), ~IsBase(a), a.fn # "operand",
           NEW new, Pile(p, new), new # <<>> => Fits(p, a, new[1])
    PROVE  Topped(p, a, new, Onto(a, new))
<1> DEFINE t == <<a>> \o new
<1>1. new \in Seq(Record) /\ Len(new) \in Nat
  BY DEF Pile
<1>2. /\ t \in Seq(Record) /\ Len(t) = 1 + Len(new) /\ t[1] = a
      /\ \A k \in 1..Len(new) : t[k + 1] = new[k]
  <2>1. <<a>> \in Seq(Record) /\ Len(<<a>>) = 1 /\ <<a>>[1] = a
    OBVIOUS
  <2>2. /\ t \in Seq(Record) /\ Len(t) = 1 + Len(new)
        /\ \A k \in 1..(1 + Len(new)) : t[k] = IF k =< 1 THEN <<a>>[k] ELSE new[k - 1]
    BY <1>1, <2>1, ConcatProperties
  <2> HIDE DEF t
  <2>3. 1 \in 1..(1 + Len(new))
    BY <1>1
  <2>4. t[1] = a
    BY <2>1, <2>2, <2>3
  <2>5. ASSUME NEW k \in 1..Len(new)
        PROVE  t[k + 1] = new[k]
    <3>1. k + 1 \in 1..(1 + Len(new)) /\ ~(k + 1 =< 1) /\ (k + 1) - 1 = k
      BY <1>1
    <3>2. QED
      BY <2>2, <3>1
  <2>6. QED
    BY <2>2, <2>4, <2>5
<1> HIDE DEF t
<1>3. \A k \in 1..Len(t) : k # 1 => k - 1 \in 1..Len(new) /\ t[k] = new[k - 1]
  <2> TAKE k \in 1..Len(t)
  <2> HAVE k # 1
  <2>1. k - 1 \in 1..Len(new) /\ (k - 1) + 1 = k
    BY <1>1, <1>2
  <2>2. t[(k - 1) + 1] = new[k - 1]
    BY <1>2, <2>1
  <2>3. QED
    BY <2>1, <2>2
<1>4. \A k \in 1..Len(t) : Proper(p, t[k]) /\ ~IsBase(t[k])
  BY <1>2, <1>3 DEF Pile
<1>5. ASSUME NEW k \in 1..(Len(t) - 1)
      PROVE  Fits(p, t[k], t[k + 1]) /\ t[k].fn # "operand"
  <2>1. k \in 1..Len(new) /\ k \in 1..Len(t)
    BY <1>1, <1>2
  <2>2. t[k + 1] = new[k]
    BY <1>2, <2>1
  <2>3. CASE k = 1
    <3>1. new # <<>>
      BY <1>1, <2>1
    <3>2. QED
      BY <1>2, <2>2, <2>3, <3>1
  <2>4. CASE k # 1
    <3>1. t[k] = new[k - 1]
      BY <1>3, <2>1, <2>4
    <3>2. k - 1 \in 1..(Len(new) - 1) /\ (k - 1) + 1 = k
      BY <1>1, <2>1, <2>4
    <3>3. Fits(p, new[k - 1], new[(k - 1) + 1]) /\ new[k - 1].fn # "operand"
      BY <3>2 DEF Pile
    <3>4. QED
      BY <2>2, <3>1, <3>2, <3>3
  <2>5. QED
    BY <2>3, <2>4
<1>6. Pile(p, t)
  BY <1>2, <1>4, <1>5 DEF Pile
<1>7. t # <<>>
  BY <1>1, <1>2
<1>8. t[Len(t)] = IF new = <<>> THEN a ELSE new[Len(new)]
  <2>1. CASE new = <<>>
    BY <1>2, <2>1
  <2>2. CASE new # <<>>
    <3>1. Len(new) \in 1..Len(new) /\ Len(t) = Len(new) + 1
      BY <1>1, <1>2, <2>2
    <3>2. QED
      BY <1>2, <2>2, <3>1
  <2>3. QED
    BY <2>1, <2>2
<1>9. QED
  BY <1>2, <1>6, <1>7, <1>8 DEF t, Onto, Topped

(* What fits on a record depends on the function and the cell. *)
LEMMA FitsLike ==
    ASSUME NEW p, NEW r, NEW q, NEW u, Fits(p, r, q), u.fn = q.fn, u.cell = q.cell
    PROVE  Fits(p, r, u)
BY DEF Fits

-----------------------------------------------------------------------------
(* The actions. *)

(* The running state_t and the record on top. *)
LEMMA OnTop ==
    ASSUME Inv, stack # <<>>
    PROVE  /\ frames # <<>> /\ Depth \in Nat \ {0} /\ State \in StateT
           /\ Len(stack) \in Nat \ {0} /\ Act \in Record /\ Proper(prog, Act)
           /\ Rests(prog, State, Act) /\ Sound(prog, stack, frames)
           /\ \A k \in 1..Len(stack) : Proper(prog, stack[k])
           /\ \A m \in State.methods : IsAt(prog, m, "method")
           /\ frames \in Seq(StateT) /\ stack \in Seq(Record)
<1>1. frames \in Seq(StateT) /\ stack \in Seq(Record) /\ frames # <<>>
  BY DEF Inv, TypeInv, StackInv
<1>2. Depth \in Nat \ {0} /\ Len(stack) \in Nat \ {0} /\ DOMAIN stack = 1..Len(stack)
      /\ DOMAIN frames = 1..Len(frames)
  BY <1>1 DEF Depth
<1>3. State \in StateT /\ Act \in Record /\ Depth \in DOMAIN frames /\ Len(stack) \in DOMAIN stack
  BY <1>1, <1>2 DEF State, Act, Depth
<1>4. \A k \in 1..Len(stack) : Proper(prog, stack[k])
  BY <1>2 DEF Inv, StackInv
<1>5. QED
  BY <1>1, <1>2, <1>3, <1>4 DEF Inv, StackInv, MethodsInv, State, Act

(* The record under one that is not the first of its state_t. *)
LEMMA Below ==
    ASSUME Inv, stack # <<>>, ~IsBase(Act), NEW r, r = stack[Len(stack) - 1]
    PROVE  /\ Len(stack) - 1 \in 1..Len(stack)
           /\ r \in Record /\ Proper(prog, r) /\ Fits(prog, r, Act) /\ r.fn # "operand"
<1>1. /\ stack \in Seq(Record) /\ Len(stack) \in Nat \ {0} /\ Sound(prog, stack, frames)
      /\ \A k \in 1..Len(stack) : Proper(prog, stack[k])
  BY OnTop
<1>2. IsBase(stack[1]) /\ \A k \in 1..(Len(stack) - 1) : Fits(prog, stack[k], stack[k + 1])
  BY <1>1 DEF Sound
<1>3. Len(stack) # 1
  BY <1>2 DEF Act
<1>4. Len(stack) - 1 \in 1..(Len(stack) - 1) /\ (Len(stack) - 1) + 1 = Len(stack)
  <2>1. \A k \in Nat \ {0} : k # 1 => k - 1 \in 1..(k - 1) /\ (k - 1) + 1 = k
    OBVIOUS
  <2>2. QED
    BY <1>1, <1>3, <2>1
<1>5. Fits(prog, r, Act)
  BY <1>2, <1>4 DEF Act
<1>6. r \in Record /\ Proper(prog, r)
  BY <1>1, <1>4
<1>7. r.fn # "operand"
  BY <1>5 DEF Fits, IsBase
<1>8. QED
  BY <1>4, <1>5, <1>6, <1>7

(* A step of the running state_t keeps the invariant if the new records    *)
(* stand where they may, and the state_t is where the one on top says.     *)
LEMMA InFrame ==
    ASSUME Inv, stack # <<>>, UNCHANGED <<prog, known>>,
           NEW n, Within(stack, n), stack[n].fn # "operand",
           NEW new, Pile(prog, new), new # <<>> => Fits(prog, stack[n], new[1]),
           Exchanged(stack, n, new, stack'),
           NEW f \in StateT, Set(f), \A m \in f.methods : IsAt(prog, m, "method"),
           Rests(prog, f, IF new = <<>> THEN stack[n] ELSE new[Len(new)])
    PROVE  Inv'
<1>1. /\ frames \in Seq(StateT) /\ Depth \in Nat \ {0} /\ stack \in Seq(Record)
      /\ Sound(prog, stack, frames) /\ \A k \in 1..Len(stack) : Proper(prog, stack[k])
  BY OnTop
<1>2. frames' = [frames EXCEPT ![Depth] = f] /\ Depth = Len(frames) /\ Depth \in 1..Len(frames)
  BY <1>1 DEF Set, Depth
<1>3. /\ frames' \in Seq(StateT) /\ Len(frames') = Len(frames)
      /\ \A d \in 1..Len(frames) : frames'[d] = IF d = Depth THEN f ELSE frames[d]
  BY <1>1, <1>2, ExceptSeq
<1>4. /\ \A d \in 1..(Len(frames) - 1) : frames'[d] = frames[d]
      /\ frames'[Len(frames')] = f /\ frames' # <<>>
      /\ DOMAIN frames' = 1..Len(frames) /\ DOMAIN frames = 1..Len(frames)
  BY <1>1, <1>2, <1>3
<1>5. /\ stack' \in Seq(Record) /\ stack' # <<>>
      /\ \A k \in 1..Len(stack') : Proper(prog, stack'[k])
      /\ Sound(prog, stack', frames')
      /\ stack'[Len(stack')] = IF new = <<>> THEN stack[n] ELSE new[Len(new)]
  <2>1. OthersKept(frames, frames')
    BY <1>3, <1>4 DEF OthersKept
  <2>2. Stands(prog, stack, frames)
    BY <1>1 DEF Stands
  <2>3. /\ Stands(prog, stack', frames')
        /\ stack'[Len(stack')] = IF new = <<>> THEN stack[n] ELSE new[Len(new)]
    BY <2>1, <2>2, Replaced
  <2>4. QED
    BY <2>3 DEF Stands
<1>6. prog' = prog /\ known' = known
  OBVIOUS
<1>7. TypeInv'
  BY <1>3, <1>5, <1>6 DEF Inv, TypeInv
<1>8. MethodsInv'
  <2>1. \A d \in DOMAIN frames : \A m \in frames[d].methods : IsAt(prog, m, "method")
    BY DEF Inv, MethodsInv
  <2>2. \A d \in DOMAIN frames' : \A m \in frames'[d].methods : IsAt(prog, m, "method")
    BY <1>3, <1>4, <2>1
  <2>3. QED
    BY <1>6, <2>2 DEF Inv, MethodsInv
<1>9. StackInv'
  <2>1. Rests(prog, frames'[Len(frames')], stack'[Len(stack')])
    BY <1>4, <1>5
  <2>2. DOMAIN stack' = 1..Len(stack')
    BY <1>5
  <2>3. QED
    BY <1>4, <1>5, <1>6, <2>1, <2>2 DEF StackInv, State, Act, Depth
<1>10. QED
  BY <1>7, <1>8, <1>9 DEF Inv

(* The top record returns. *)
LEMMA Pops ==
    ASSUME Inv, stack # <<>>, UNCHANGED <<prog, known>>, ~IsBase(Act),
           stack' = Under,
           NEW f \in StateT, Set(f), \A m \in f.methods : IsAt(prog, m, "method"),
           Rests(prog, f, stack[Len(stack) - 1])
    PROVE  Inv'
<1> DEFINE n == Len(stack) - 1
           none == <<>>
<1>1. Len(stack) \in Nat \ {0} /\ stack \in Seq(Record)
  BY OnTop
<1>2. n \in 1..Len(stack) /\ stack[n].fn # "operand"
  BY Below
<1>3. Within(stack, n)
  <2>1. \A k \in (n + 1)..Len(stack) : k = Len(stack)
    BY <1>1
  <2>2. QED
    BY <1>2, <2>1 DEF Within, Act
<1>4. Pile(prog, none) /\ none \in Seq(Record)
  <2>1. none \in Seq(Record) /\ Len(none) = 0
    OBVIOUS
  <2>2. QED
    BY <2>1 DEF Pile
<1>5. Exchanged(stack, n, none, stack')
  <2>1. SubSeq(stack, 1, n) \o none = SubSeq(stack, 1, n)
    <3>1. n \in 0..Len(stack)
      BY <1>2
    <3>2. QED
      BY <1>1, <1>4, <3>1, Stacked
  <2>2. Exchanged(stack, n, none, SubSeq(stack, 1, n) \o none)
    <3> HIDE DEF n, none
    <3>1. QED
      BY <1>1, <1>2, <1>4, Exchange
  <2>3. stack' = SubSeq(stack, 1, n)
    BY DEF Under
  <2>4. QED
    BY <2>1, <2>2, <2>3
<1>6. Rests(prog, f, stack[n])
  OBVIOUS
<1>7. none = <<>>
  OBVIOUS
<1> HIDE DEF n, none
<1>8. QED
  BY <1>2, <1>3, <1>4, <1>5, <1>6, <1>7, InFrame

(* Others take the place of the top record. *)
LEMMA Replaces ==
    ASSUME Inv, stack # <<>>, UNCHANGED <<prog, known>>, ~IsBase(Act),
           NEW new, Pile(prog, new), new # <<>>,
           Fits(prog, stack[Len(stack) - 1], new[1]),
           stack' = Under \o new,
           NEW f \in StateT, Set(f), \A m \in f.methods : IsAt(prog, m, "method"),
           Rests(prog, f, new[Len(new)])
    PROVE  Inv'
<1> DEFINE n == Len(stack) - 1
<1>1. Len(stack) \in Nat \ {0} /\ stack \in Seq(Record)
  BY OnTop
<1>2. n \in 1..Len(stack) /\ stack[n].fn # "operand"
  BY Below
<1>3. Within(stack, n)
  <2>1. \A k \in (n + 1)..Len(stack) : k = Len(stack)
    BY <1>1
  <2>2. QED
    BY <1>2, <2>1 DEF Within, Act
<1>4. new \in Seq(Record)
  BY DEF Pile
<1>5. Exchanged(stack, n, new, stack')
  <2>1. Exchanged(stack, n, new, SubSeq(stack, 1, n) \o new)
    <3> HIDE DEF n
    <3>1. QED
      BY <1>1, <1>2, <1>4, Exchange
  <2>2. stack' = SubSeq(stack, 1, n) \o new
    BY DEF Under
  <2>3. QED
    BY <2>1, <2>2
<1>6. Fits(prog, stack[n], new[1])
  OBVIOUS
<1> HIDE DEF n
<1>7. QED
  BY <1>2, <1>3, <1>5, <1>6, InFrame

(* The same for the two on top. *)
LEMMA ReplacesTwo ==
    ASSUME Inv, stack # <<>>, UNCHANGED <<prog, known>>, ~IsBase(Act),
           ~IsBase(stack[Len(stack) - 1]),
           Len(stack) - 2 \in 1..Len(stack), stack[Len(stack) - 2].fn # "operand",
           NEW new, Pile(prog, new),
           new # <<>> => Fits(prog, stack[Len(stack) - 2], new[1]),
           stack' = SubSeq(stack, 1, Len(stack) - 2) \o new,
           NEW f \in StateT, Set(f), \A m \in f.methods : IsAt(prog, m, "method"),
           Rests(prog, f, IF new = <<>> THEN stack[Len(stack) - 2] ELSE new[Len(new)])
    PROVE  Inv'
<1> DEFINE n == Len(stack) - 2
<1>1. Len(stack) \in Nat \ {0} /\ stack \in Seq(Record)
  BY OnTop
<1>2. n \in 1..Len(stack) /\ stack[n].fn # "operand"
  OBVIOUS
<1>3. Within(stack, n)
  <2>1. \A k \in (n + 1)..Len(stack) : k = Len(stack) \/ k = Len(stack) - 1
    BY <1>1
  <2>2. ~IsBase(stack[Len(stack)])
    BY DEF Act
  <2>3. \A k \in (n + 1)..Len(stack) : ~IsBase(stack[k])
    BY <2>1, <2>2
  <2>4. QED
    BY <1>2, <2>3 DEF Within
<1>4. new \in Seq(Record)
  BY DEF Pile
<1>5. Exchanged(stack, n, new, stack')
  <2>1. Exchanged(stack, n, new, SubSeq(stack, 1, n) \o new)
    <3> HIDE DEF n
    <3>1. QED
      BY <1>1, <1>2, <1>4, Exchange
  <2>2. QED
    BY <2>1
<1>6. new # <<>> => Fits(prog, stack[n], new[1])
  OBVIOUS
<1>7. Rests(prog, f, IF new = <<>> THEN stack[n] ELSE new[Len(new)])
  OBVIOUS
<1> HIDE DEF n
<1>8. QED
  BY <1>2, <1>3, <1>5, <1>6, <1>7, InFrame

(* A term list that fetches a term is at one of its own. *)
LEMMA OwnTerm ==
    ASSUME Inv, \A q \in Programs : Separated(q), Continues
    PROVE  /\ aml \in 1..Len(prog) /\ Parent(prog, aml) = Act.cell
           /\ Op(prog, aml) = prog[aml].op /\ Op(prog, aml) # "else"
           /\ intr = "none" /\ State.scope = ScopeOf(prog, aml)
           /\ WellFormed(prog) /\ Separated(prog)
<1>1. stack # <<>> /\ Act.fn = "termlist" /\ aml < End(prog, Act.cell)
      /\ (Act.first \/ intr = "none")
  BY DEF Continues, Running
<1>2. WellFormed(prog) /\ Separated(prog)
  BY ProgramsAssumption DEF Inv, TypeInv
<1>3. State \in StateT /\ Rests(prog, State, Act) /\ Proper(prog, Act)
  BY <1>1, OnTop
<1>4. intr = "none" /\ State.scope = ScopeIn(prog, Act.cell) /\ AtTerm(prog, aml, Act.cell)
  BY <1>1, <1>3 DEF Rests, intr, aml
<1>5. aml \in Body(prog, Act.cell) /\ Parent(prog, aml) = Act.cell /\ Op(prog, aml) # "else"
  <2>1. aml \in Nat /\ Act.cell \in 0..Len(prog) /\ Len(prog) \in Nat
    BY <1>2, <1>3, Cells DEF StateT, aml, Proper
  <2>2. End(prog, Act.cell) \in Nat
    BY <1>2, <2>1, Cells
  <2>3. aml # End(prog, Act.cell)
    BY <1>1, <2>1, <2>2
  <2>4. QED
    BY <1>4, <2>3 DEF AtTerm
<1>6. aml \in 1..Len(prog)
  <2>1. Act.cell \in 0..Len(prog) /\ End(prog, Act.cell) =< Len(prog) + 1
    <3>1. Act.cell \in 0..Len(prog)
      BY <1>3 DEF Proper
    <3>2. CASE Act.cell = 0
      BY <1>2, <3>1, <3>2, Cells
    <3>3. CASE Act.cell # 0
      <4>1. Act.cell \in 1..Len(prog) /\ End(prog, 0) = Len(prog) + 1
        BY <1>2, <3>1, <3>3, Cells
      <4>2. 0 \in Around(prog, Act.cell)
        BY <1>2, <4>1, Parents
      <4>3. QED
        BY <1>2, <3>1, <4>1, <4>2, Nesting
    <3>4. QED
      BY <3>2, <3>3
  <2>2. End(prog, Act.cell) \in Nat /\ Len(prog) \in Nat
    BY <1>2, <2>1, Cells
  <2>3. QED
    BY <1>5, <2>1, <2>2 DEF Body
<1>7. Op(prog, aml) = prog[aml].op
  BY <1>2, <1>6, Cells
<1>8. State.scope = ScopeOf(prog, aml)
  BY <1>2, <1>4, <1>5, <1>6, ScopeOfTerm
<1>9. QED
  BY <1>2, <1>4, <1>5, <1>6, <1>7, <1>8

(* Records of the functions. *)
LEMMA Records ==
    ASSUME NEW i \in Nat
    PROVE  /\ TermList(i) \in Record /\ Operand(i) \in Record /\ Else(i) \in Record
           /\ While(i) \in Record /\ Method(i) \in Record /\ Load \in Record
           /\ \A c \in BOOLEAN : IfElse(i, c) \in Record
           /\ \A c \in Nat : Scope(i, c) \in Record
  BY DEF Record, TermList, Operand, Else, While, Method, Load, IfElse, Scope

(* A record's fields. *)
LEMMA Fields ==
    ASSUME NEW r \in Record
    PROVE  /\ r.cell \in Nat
           /\ r.fn \in {"termlist", "operand", "if_else", "scope",
                       "else", "while", "table", "method"}
           /\ r.fn \in {"termlist", "operand"} =>
                /\ r.first \in BOOLEAN
                /\ [r EXCEPT !.first = FALSE] =
                     [fn |-> r.fn, cell |-> r.cell, first |-> FALSE]
           /\ r.fn = "if_else" => r.cond \in BOOLEAN
           /\ r.fn = "scope" => r.scope \in Nat
<1>1. CASE r \in [fn : {"termlist", "operand"}, cell : Nat, first : BOOLEAN]
  <2>1. r.fn \in {"termlist", "operand"} /\ r.cell \in Nat /\ r.first \in BOOLEAN
    BY <1>1
  <2> DEFINE w == [r EXCEPT !.first = FALSE]
  <2>2. w \in [fn : {"termlist", "operand"}, cell : Nat, first : BOOLEAN]
    BY <1>1
  <2>3. w.fn = r.fn /\ w.cell = r.cell /\ w.first = FALSE
    BY <1>1
  <2> HIDE DEF w
  <2>4. w = [fn |-> r.fn, cell |-> r.cell, first |-> FALSE]
    BY <2>2, <2>3
  <2>5. QED
    BY <2>1, <2>4 DEF w
<1>2. CASE r \in [fn : {"if_else"}, cell : Nat, cond : BOOLEAN]
  BY <1>2
<1>3. CASE r \in [fn : {"scope"}, cell : Nat, scope : Nat]
  BY <1>3
<1>4. CASE r \in [fn : {"else", "while", "table", "method"}, cell : Nat]
  BY <1>4
<1>5. QED
  BY <1>1, <1>2, <1>3, <1>4 DEF Record

(* A list that has begun. *)
List(b) == [fn |-> "termlist", cell |-> b, first |-> FALSE]

(* A term list fetches a term and calls its handler. *)
LEMMA Entering ==
    ASSUME Inv, Continues, UNCHANGED <<prog, known>>,
           NEW calls, Pile(prog, calls), Enter(calls),
           calls # <<>> => Fits(prog, List(Act.cell), calls[1]),
           NEW f \in StateT, Set(f), \A m \in f.methods : IsAt(prog, m, "method"),
           Rests(prog, f, IF calls = <<>> THEN List(Act.cell) ELSE calls[Len(calls)])
    PROVE  Inv'
<1> DEFINE a == List(Act.cell)
           new == Onto(a, calls)
<1>1. /\ stack # <<>> /\ Act.fn = "termlist" /\ Act \in Record /\ Proper(prog, Act)
      /\ stack \in Seq(Record) /\ Len(stack) \in Nat \ {0}
  BY OnTop DEF Continues, Running
<1>2. a = [Act EXCEPT !.first = FALSE] /\ a \in Record /\ a.fn = Act.fn /\ a.cell = Act.cell
  BY <1>1, Fields DEF List, Record
<1>3. Proper(prog, a) /\ ~IsBase(a) /\ a.fn # "operand" /\ ~IsBase(Act)
  BY <1>1, <1>2 DEF Proper, IsBase
<1> HIDE DEF a
<1>4. /\ Pile(prog, new) /\ new # <<>> /\ new[1] = a
      /\ new[Len(new)] = IF calls = <<>> THEN a ELSE calls[Len(calls)]
  <2>1. calls # <<>> => Fits(prog, a, calls[1])
    BY DEF a
  <2>2. Topped(prog, a, calls, new)
    BY <1>2, <1>3, <2>1, PileOn
  <2> HIDE DEF new
  <2>3. QED
    BY <2>2 DEF Topped
<1>5. Fits(prog, stack[Len(stack) - 1], a)
  <2>1. Fits(prog, stack[Len(stack) - 1], Act)
    BY <1>1, <1>3, Below
  <2>2. QED
    BY <1>2, <2>1, FitsLike
<1>6. stack' = Under \o new
  <2>1. Under \in Seq(Record)
    <3>1. Len(stack) - 1 \in 0..Len(stack)
      BY <1>1
    <3>2. <<>> \in Seq(Record)
      OBVIOUS
    <3>3. SubSeq(stack, 1, Len(stack) - 1) \in Seq(Record)
      BY <1>1, <3>1, <3>2, Stacked
    <3>4. QED
      BY <3>3 DEF Under
  <2>2. <<a>> \in Seq(Record) /\ calls \in Seq(Record)
    BY <1>2 DEF Pile
  <2>3. stack' = (Under \o <<a>>) \o calls
    BY <1>2 DEF Enter
  <2>4. (Under \o <<a>>) \o calls = Under \o (<<a>> \o calls)
    BY <2>1, <2>2, ConcatAssociative
  <2>5. QED
    BY <2>3, <2>4 DEF Onto
<1>7. Rests(prog, f, new[Len(new)])
  BY <1>4 DEF a
<1>8. Fits(prog, stack[Len(stack) - 1], new[1])
  BY <1>4, <1>5
<1> HIDE DEF new
<1>9. QED
  BY <1>1, <1>3, <1>4, <1>6, <1>7, <1>8, Replaces

(* A handler returns to the list that its term belongs to: the next term   *)
(* is behind its own.                                                      *)
LEMMA Returns ==
    ASSUME Inv, \A q \in Programs : Separated(q), stack # <<>>,
           stack[Len(stack) - 1].fn = "termlist", ~IsBase(Act),
           UNCHANGED <<prog, known>>, stack' = Under,
           NEW f \in StateT, Set(f), \A m \in f.methods : IsAt(prog, m, "method"),
           f.scope = ScopeOf(prog, Act.cell),
           f.intr = "none" =>
             \/ /\ f.aml = End(prog, Act.cell)
                /\ Op(prog, Act.cell) = "if" => ~IsAt(prog, End(prog, Act.cell), "else")
             \/ /\ Op(prog, Act.cell) = "if" /\ IsAt(prog, End(prog, Act.cell), "else")
                /\ f.aml = End(prog, End(prog, Act.cell))
    PROVE  Inv'
<1> DEFINE r == stack[Len(stack) - 1]
           i == Act.cell
<1>1. Act \in Record /\ Proper(prog, Act) /\ WellFormed(prog) /\ Separated(prog)
  BY OnTop, ProgramsAssumption DEF Inv, TypeInv
<1>2. r \in Record /\ Fits(prog, r, Act) /\ r.fn = "termlist"
  BY Below
<1>3. ~r.first /\ i # 0 /\ Parent(prog, i) = r.cell /\ i \in 1..Len(prog)
  <2>1. i \in 0..Len(prog) /\ Len(prog) \in Nat
    BY <1>1, Cells DEF Proper
  <2>2. QED
    BY <1>2, <2>1 DEF Fits
<1>4. f.scope = ScopeIn(prog, r.cell)
  BY <1>1, <1>3, ScopeOfTerm
<1>5. ASSUME f.intr = "none"
      PROVE  AtTerm(prog, f.aml, r.cell)
  <2>1. CASE Op(prog, i) = "if" => ~IsAt(prog, End(prog, i), "else")
    BY <1>1, <1>3, <1>5, <2>1, GoesOn
  <2>2. CASE Op(prog, i) = "if" /\ IsAt(prog, End(prog, i), "else")
    <3>1. /\ End(prog, i) \in 1..Len(prog) /\ Op(prog, End(prog, i)) = "else"
          /\ Parent(prog, End(prog, i)) = Parent(prog, i)
      BY <1>1, <1>3, <2>2, ElseOf
    <3>2. AtTerm(prog, End(prog, End(prog, i)), Parent(prog, End(prog, i)))
      BY <1>1, <3>1, GoesOn
    <3>3. f.aml = End(prog, End(prog, i))
      BY <1>5, <2>2
    <3>4. QED
      BY <1>3, <3>1, <3>2, <3>3
  <2>3. QED
    BY <2>1, <2>2
<1>6. Rests(prog, f, r)
  BY <1>2, <1>3, <1>4, <1>5 DEF Rests
<1> HIDE DEF r
<1>7. QED
  BY <1>6, Pops DEF r

(* The fields of a state_t after an assignment. *)
LEMMA Assigned ==
    ASSUME NEW r \in StateT, NEW a \in Nat, NEW w \in {"operand", "body", "past"}
    PROVE  /\ LET f == [r EXCEPT !.aml = a]
              IN  /\ f \in StateT /\ f.aml = a /\ f.intr = r.intr
                  /\ f.scope = r.scope /\ f.methods = r.methods
           /\ LET f == [r EXCEPT !.way = w]
              IN  /\ f \in StateT /\ f.aml = r.aml /\ f.intr = r.intr
                  /\ f.scope = r.scope /\ f.methods = r.methods
           /\ LET f == [r EXCEPT !.aml = a, !.way = w]
              IN  /\ f \in StateT /\ f.aml = a /\ f.intr = r.intr
                  /\ f.scope = r.scope /\ f.methods = r.methods
<1>1. LET f == [r EXCEPT !.aml = a]
      IN  /\ f \in StateT /\ f.aml = a /\ f.intr = r.intr
          /\ f.scope = r.scope /\ f.methods = r.methods
  BY DEF StateT
<1>2. LET f == [r EXCEPT !.way = w]
      IN  /\ f \in StateT /\ f.aml = r.aml /\ f.intr = r.intr
          /\ f.scope = r.scope /\ f.methods = r.methods
  BY DEF StateT
<1>3. LET f == [r EXCEPT !.aml = a, !.way = w]
      IN  /\ f \in StateT /\ f.aml = a /\ f.intr = r.intr
          /\ f.scope = r.scope /\ f.methods = r.methods
  BY DEF StateT
<1>4. QED
  BY <1>1, <1>2, <1>3

(* A fetch moves aml on by one cell and leaves the rest. *)
LEMMA FetchedIs ==
    ASSUME State \in StateT, NEW w \in {"operand", "body", "past"}
    PROVE  /\ Fetched(w) \in StateT /\ Fetched(w).aml = aml + 1
           /\ Fetched(w).intr = intr /\ Fetched(w).scope = State.scope
           /\ Fetched(w).methods = State.methods /\ aml \in Nat
           /\ Fetched(w).at = aml /\ Fetched(w).way = w
<1>1. aml \in Nat /\ aml = State.aml
  BY DEF StateT, aml
<1>2. Fetched(w) \in StateT
  <2>1. \A a, b \in Nat : [State EXCEPT !.aml = a, !.at = b, !.way = w] \in StateT
    BY DEF StateT
  <2>2. State.aml + 1 \in Nat
    BY <1>1
  <2>3. QED
    BY <1>1, <2>1, <2>2 DEF Fetched
<1>3. /\ Fetched(w).aml = aml + 1 /\ Fetched(w).intr = intr
      /\ Fetched(w).scope = State.scope /\ Fetched(w).methods = State.methods
      /\ Fetched(w).at = aml /\ Fetched(w).way = w
  BY <1>1 DEF Fetched, StateT, intr
<1>4. QED
  BY <1>1, <1>2, <1>3

(* A handler that evaluates an operand, with nothing under it but the list. *)
LEMMA StatementStep ==
    ASSUME Inv, \A q \in Programs : Separated(q), Statement \/ DefReturn
    PROVE  Inv'
<1> DEFINE q == Operand(aml)
           calls == <<q>>
<1>1. /\ Continues /\ UNCHANGED <<prog, known>> /\ Enter(calls)
      /\ prog[aml].op \in {"stmt", "return"}
  BY DEF Statement, DefReturn, Fetches
<1>2. stack # <<>> /\ State \in StateT /\ \A m \in State.methods : IsAt(prog, m, "method")
  BY <1>1, OnTop DEF Continues, Running
<1>3. /\ aml \in 1..Len(prog) /\ Parent(prog, aml) = Act.cell
      /\ Op(prog, aml) = prog[aml].op /\ Op(prog, aml) # "else"
      /\ intr = "none" /\ State.scope = ScopeOf(prog, aml)
      /\ WellFormed(prog) /\ Separated(prog)
  BY <1>1, OwnTerm
<1>4. aml \in Nat /\ Len(prog) \in Nat
  BY <1>3, Cells
<1>5. q \in Record /\ q.fn = "operand" /\ q.cell = aml
  BY <1>4, Records DEF Operand
<1>6. Proper(prog, q) /\ ~IsBase(q) /\ Fits(prog, List(Act.cell), q)
  BY <1>1, <1>3, <1>4, <1>5 DEF Proper, IsBase, Fits, List
<1> HIDE DEF q
<1>7. Pile(prog, calls)
  BY <1>5, <1>6, Piles
<1>8. calls # <<>> /\ calls[1] = q /\ calls[Len(calls)] = q
  OBVIOUS
<1>9. PICK f \in StateT : /\ Set(f)
                          /\ f.intr = IF prog[aml].op = "return" THEN "return" ELSE "none"
                          /\ f.aml = aml + 1 /\ f.scope = State.scope
                          /\ f.methods = State.methods
                          /\ f.at = aml /\ f.way = "operand"
  <2>1. CASE Statement
    <3>1. prog[aml].op = "stmt" /\ Set(Fetched("operand"))
      BY <2>1 DEF Statement, Fetches
    <3>2. QED
      BY <1>2, <1>3, <3>1, FetchedIs
  <2>2. CASE DefReturn
    <3> DEFINE g == Fetched("operand")
               h == [g EXCEPT !.intr = "return"]
    <3>1. prog[aml].op = "return" /\ Set(h)
      BY <2>2 DEF DefReturn, Fetches
    <3>2. /\ g \in StateT /\ g.aml = aml + 1
          /\ g.scope = State.scope /\ g.methods = State.methods
          /\ g.at = aml /\ g.way = "operand"
      BY <1>2, FetchedIs
    <3> HIDE DEF g
    <3>3. h \in StateT
      BY <3>2 DEF StateT, Intr
    <3>4. /\ h.intr = "return" /\ h.aml = aml + 1
          /\ h.scope = State.scope /\ h.methods = State.methods
          /\ h.at = aml /\ h.way = "operand"
      BY <3>2 DEF StateT
    <3>5. QED
      BY <3>1, <3>3, <3>4
  <2>3. QED
    BY <2>1, <2>2, <1>1 DEF Statement, DefReturn
<1>10. Rests(prog, f, q)
  BY <1>3, <1>5, <1>9 DEF Rests, AtOperand
<1>11. \A m \in f.methods : IsAt(prog, m, "method")
  BY <1>2, <1>9
<1> HIDE DEF calls
<1>12. QED
  BY <1>1, <1>6, <1>7, <1>8, <1>9, <1>10, <1>11, Entering

(* A handler that leaves no record: Break, Continue and Method. *)
LEMMA PassedStep ==
    ASSUME Inv, \A q \in Programs : Separated(q), DefBreak \/ DefMethod
    PROVE  Inv'
<1> DEFINE none == <<>>
           l == List(Act.cell)
<1>1. /\ Continues /\ UNCHANGED <<prog, known>> /\ Enter(none)
  BY DEF DefBreak, DefMethod, Fetches
<1>2. stack # <<>> /\ State \in StateT /\ \A m \in State.methods : IsAt(prog, m, "method")
  BY <1>1, OnTop DEF Continues, Running
<1>3. /\ aml \in 1..Len(prog) /\ Parent(prog, aml) = Act.cell
      /\ Op(prog, aml) = prog[aml].op
      /\ intr = "none" /\ State.scope = ScopeOf(prog, aml)
      /\ WellFormed(prog) /\ Separated(prog)
  BY <1>1, OwnTerm
<1>4. State.scope = ScopeIn(prog, l.cell)
  BY <1>3, ScopeOfTerm DEF List
<1>5. Pile(prog, none) /\ none = <<>>
  <2>1. none \in Seq(Record) /\ Len(none) = 0
    OBVIOUS
  <2>2. QED
    BY <2>1 DEF Pile
<1> HIDE DEF none
<1>6. l.fn = "termlist" /\ ~l.first /\ l.cell = Act.cell
  BY DEF List
<1>7. CASE DefBreak
  <2>1. PICK op \in {"break", "continue"} :
          Set([Fetched("past") EXCEPT !.intr = op])
    BY <1>7 DEF DefBreak
  <2> DEFINE g == Fetched("past")
             h == [g EXCEPT !.intr = op]
  <2>2. g \in StateT /\ g.scope = State.scope /\ g.methods = State.methods
    BY <1>2, FetchedIs
  <2>3. Set(h)
    BY <2>1
  <2> HIDE DEF g
  <2>4. h \in StateT
    BY <2>2 DEF StateT, Intr
  <2>5. h.intr = op /\ h.scope = State.scope /\ h.methods = State.methods
    BY <2>2 DEF StateT
  <2> HIDE DEF h
  <2>6. Rests(prog, h, l)
    BY <1>4, <1>6, <2>5 DEF Rests
  <2>7. \A m \in h.methods : IsAt(prog, m, "method")
    BY <1>2, <2>5
  <2> HIDE DEF l
  <2>8. Rests(prog, h, List(Act.cell))
    BY <2>6 DEF l
  <2>9. QED
    BY <1>1, <1>5, <2>3, <2>4, <2>7, <2>8, Entering
<1>8. CASE DefMethod
  <2> DEFINE g == Fetched("past")
             ms == {aml} \ Callable
             h == [g EXCEPT !.aml = End(prog, aml), !.methods = @ \cup ms]
  <2>1. Set(h) /\ prog[aml].op = "method"
    BY <1>8 DEF DefMethod, Fetches
  <2>2. /\ g \in StateT /\ g.scope = State.scope /\ g.methods = State.methods
        /\ g.intr = intr
    BY <1>2, FetchedIs
  <2>3. ms \subseteq Nat /\ \A m \in ms : IsAt(prog, m, "method")
    <3>1. aml \in DOMAIN prog /\ aml \in Nat
      BY <1>3, Cells
    <3>2. QED
      BY <2>1, <3>1 DEF IsAt
  <2>4. End(prog, aml) \in Nat
    BY <1>3, Cells
  <2> HIDE DEF g, ms
  <2>5. h \in StateT
    <3>1. g.methods \cup ms \in SUBSET Nat
      BY <2>2, <2>3 DEF StateT
    <3>2. QED
      BY <2>2, <2>4, <3>1 DEF StateT
  <2>6. /\ h.intr = "none" /\ h.scope = State.scope
        /\ h.methods = State.methods \cup ms /\ h.aml = End(prog, aml)
    BY <1>3, <2>2 DEF StateT
  <2> HIDE DEF h
  <2>7. AtTerm(prog, End(prog, aml), Act.cell)
    <3>1. Op(prog, aml) # "if"
      BY <1>3, <2>1
    <3>2. QED
      BY <1>3, <3>1, GoesOn
  <2>8. Rests(prog, h, l)
    BY <1>4, <1>6, <2>6, <2>7 DEF Rests
  <2>9. \A m \in h.methods : IsAt(prog, m, "method")
    BY <1>2, <2>3, <2>6
  <2> HIDE DEF l
  <2>10. Rests(prog, h, List(Act.cell))
    BY <2>8 DEF l
  <2>11. QED
    BY <1>1, <1>5, <2>1, <2>5, <2>9, <2>10, Entering
<1>9. QED
  BY <1>7, <1>8

(* A handler that waits for an operand or for the terms of its block. *)
LEMMA BlockStep ==
    ASSUME Inv, \A q \in Programs : Separated(q), DefScope \/ DefIfElse \/ DefWhile
    PROVE  Inv'
<1>1. /\ Continues /\ UNCHANGED <<prog, known>>
  BY DEF DefScope, DefIfElse, DefWhile, Fetches
<1>2. stack # <<>> /\ State \in StateT /\ \A m \in State.methods : IsAt(prog, m, "method")
  BY <1>1, OnTop DEF Continues, Running
<1>3. /\ aml \in 1..Len(prog) /\ Parent(prog, aml) = Act.cell
      /\ Op(prog, aml) = prog[aml].op
      /\ intr = "none" /\ State.scope = ScopeOf(prog, aml)
      /\ WellFormed(prog) /\ Separated(prog)
  BY <1>1, OwnTerm
<1>4. aml \in Nat /\ Len(prog) \in Nat
  BY <1>3, Cells
<1>5. PICK a \in Record, b \in Record :
        /\ Enter(<<a, b>>)
        /\ Proper(prog, a) /\ ~IsBase(a) /\ Proper(prog, b) /\ ~IsBase(b)
        /\ Fits(prog, List(Act.cell), a) /\ Fits(prog, a, b) /\ a.fn # "operand"
        /\ \E f \in StateT : /\ Set(f) /\ Rests(prog, f, b)
                            /\ f.methods = State.methods
  <2>1. CASE DefScope
    <3> DEFINE a == Scope(aml, State.scope)
               b == TermList(aml)
               g == Fetched("body")
               h == [g EXCEPT !.scope = aml]
    <3>1. prog[aml].op = "scope" /\ Set(h) /\ Enter(<<a, b>>)
      BY <2>1 DEF DefScope, Fetches
    <3>2. State.scope \in Nat
      BY <1>2 DEF StateT
    <3>3. a \in Record /\ b \in Record
      BY <1>4, <3>2, Records
    <3>4. /\ a.fn = "scope" /\ a.cell = aml /\ a.scope = State.scope
          /\ b.fn = "termlist" /\ b.cell = aml /\ b.first = TRUE
      BY DEF Scope, TermList
    <3> HIDE DEF a, b
    <3>5. /\ Proper(prog, a) /\ ~IsBase(a) /\ Proper(prog, b) /\ ~IsBase(b)
          /\ Fits(prog, List(Act.cell), a) /\ Fits(prog, a, b)
      BY <1>3, <1>4, <3>1, <3>4 DEF Proper, IsBase, Fits, List, BlockOp
    <3>6. /\ g \in StateT /\ g.aml = aml + 1 /\ g.intr = intr /\ g.methods = State.methods
      BY <1>2, FetchedIs
    <3> HIDE DEF g
    <3>7. h \in StateT
      BY <1>4, <3>6 DEF StateT
    <3>8. /\ h.aml = aml + 1 /\ h.intr = "none" /\ h.methods = State.methods
          /\ h.scope = aml
      BY <1>3, <3>6 DEF StateT
    <3> HIDE DEF h
    <3>9. AtTerm(prog, aml + 1, aml)
      BY <1>3, <1>4, Begins
    <3>10. ScopeIn(prog, aml) = aml
      BY <1>3, <3>1 DEF ScopeIn
    <3>11. Rests(prog, h, b)
      BY <3>4, <3>8, <3>9, <3>10 DEF Rests
    <3>12. QED
      BY <3>1, <3>3, <3>4, <3>5, <3>7, <3>8, <3>11
  <2>2. ASSUME NEW a \in Record, a.cell = aml,
               \/ prog[aml].op = "if" /\ a.fn = "if_else" /\ ~a.cond
               \/ prog[aml].op = "while" /\ a.fn = "while",
               Enter(<<a, Operand(aml)>>), Set(Fetched("operand"))
        PROVE  \E b \in Record :
                 /\ Enter(<<a, b>>)
                 /\ Proper(prog, a) /\ ~IsBase(a) /\ Proper(prog, b) /\ ~IsBase(b)
                 /\ Fits(prog, List(Act.cell), a) /\ Fits(prog, a, b) /\ a.fn # "operand"
                 /\ \E f \in StateT : /\ Set(f) /\ Rests(prog, f, b)
                                     /\ f.methods = State.methods
    <3> DEFINE b == Operand(aml)
               h == Fetched("operand")
    <3>1. b \in Record /\ b.fn = "operand" /\ b.cell = aml
      BY <1>4, Records DEF Operand
    <3>2. /\ h \in StateT /\ h.aml = aml + 1 /\ h.intr = intr
          /\ h.scope = State.scope /\ h.methods = State.methods
          /\ h.at = aml /\ h.way = "operand"
      BY <1>2, FetchedIs
    <3>3. Enter(<<a, b>>) /\ Set(h)
      BY <2>2
    <3> HIDE DEF b, h
    <3>4. /\ Proper(prog, a) /\ ~IsBase(a) /\ Proper(prog, b) /\ ~IsBase(b)
          /\ Fits(prog, List(Act.cell), a) /\ Fits(prog, a, b) /\ a.fn # "operand"
      BY <1>3, <1>4, <2>2, <3>1 DEF Proper, IsBase, Fits, List
    <3>5. Rests(prog, h, b)
      BY <1>3, <2>2, <3>1, <3>2 DEF Rests, AtOperand
    <3>6. QED
      BY <3>1, <3>2, <3>3, <3>4, <3>5
  <2>3. CASE DefIfElse
    <3> DEFINE a == IfElse(aml, FALSE)
    <3>1. /\ prog[aml].op = "if" /\ Enter(<<a, Operand(aml)>>) /\ Set(Fetched("operand"))
      BY <2>3 DEF DefIfElse, Fetches
    <3>2. a \in Record
      BY <1>4, Records
    <3>3. a.fn = "if_else" /\ a.cell = aml /\ a.cond = FALSE
      BY DEF IfElse
    <3> HIDE DEF a
    <3>4. QED
      BY <2>2, <3>1, <3>2, <3>3
  <2>4. CASE DefWhile
    <3> DEFINE a == While(aml)
    <3>1. /\ prog[aml].op = "while" /\ Enter(<<a, Operand(aml)>>) /\ Set(Fetched("operand"))
      BY <2>4 DEF DefWhile, Fetches
    <3>2. a \in Record
      BY <1>4, Records
    <3>3. a.fn = "while" /\ a.cell = aml
      BY DEF While
    <3> HIDE DEF a
    <3>4. QED
      BY <2>2, <3>1, <3>2, <3>3
  <2>5. QED
    BY <2>1, <2>3, <2>4
<1>6. PICK f \in StateT : Set(f) /\ Rests(prog, f, b) /\ f.methods = State.methods
  BY <1>5
<1> DEFINE calls == <<a, b>>
<1>7. Pile(prog, calls)
  BY <1>5, Piles
<1>8. calls # <<>> /\ calls[1] = a /\ calls[Len(calls)] = b
  OBVIOUS
<1>9. Enter(calls)
  BY <1>5
<1>10. \A m \in f.methods : IsAt(prog, m, "method")
  BY <1>2, <1>6
<1> HIDE DEF calls
<1>11. Fits(prog, List(Act.cell), calls[1]) /\ Rests(prog, f, calls[Len(calls)])
  BY <1>5, <1>6, <1>8
<1>12. QED
  BY <1>1, <1>6, <1>7, <1>8, <1>9, <1>10, <1>11, Entering

(* The end of a term list: its function goes on behind the block. *)
LEMMA EndTermlistStep ==
    ASSUME Inv, EndTermlist
    PROVE  Inv'
<1> DEFINE r == stack[Len(stack) - 1]
           f == [State EXCEPT !.aml = End(prog, Act.cell)]
<1>1. /\ stack # <<>> /\ Act.fn = "termlist" /\ UNCHANGED <<prog, known>>
      /\ stack' = Under /\ Set(f)
  BY DEF EndTermlist, Running
<1>2. /\ State \in StateT /\ \A m \in State.methods : IsAt(prog, m, "method")
      /\ Rests(prog, State, Act) /\ Proper(prog, Act) /\ Act \in Record /\ WellFormed(prog)
  BY <1>1, OnTop, ProgramsAssumption DEF Inv, TypeInv
<1>3. ~IsBase(Act)
  BY <1>1 DEF IsBase
<1>4. r \in Record /\ Proper(prog, r) /\ Fits(prog, r, Act)
  BY <1>1, <1>3, Below
<1>5. /\ r.fn \in {"table", "method", "scope", "else", "if_else", "while"}
      /\ r.cell = Act.cell
      /\ r.fn = "if_else" => r.cond
  <2>1. /\ r.fn \in {"termlist", "operand", "if_else", "scope",
                     "else", "while", "table", "method"}
        /\ r.fn = "if_else" => r.cond \in BOOLEAN
    BY <1>4, Fields
  <2> HIDE DEF r
  <2>2. QED
    BY <1>1, <1>4, <2>1 DEF Fits
<1>6. End(prog, Act.cell) \in Nat
  BY <1>2, Cells DEF Proper
<1>7. /\ f \in StateT /\ f.aml = End(prog, Act.cell)
      /\ f.scope = State.scope /\ f.methods = State.methods
  BY <1>2, <1>6, Assigned
<1>8. State.scope = ScopeIn(prog, Act.cell)
  BY <1>1, <1>2 DEF Rests
<1> HIDE DEF f, r
<1>9. r.fn \in {"if_else", "else", "while"} => f.scope = ScopeOf(prog, r.cell)
  <2> HAVE r.fn \in {"if_else", "else", "while"}
  <2>1. Op(prog, r.cell) \in {"if", "else", "while"}
    BY <1>4 DEF Proper
  <2>2. QED
    BY <1>5, <1>7, <1>8, <2>1 DEF ScopeIn
<1>10. Rests(prog, f, r)
  BY <1>5, <1>7, <1>9 DEF Rests
<1>11. \A m \in f.methods : IsAt(prog, m, "method")
  BY <1>2, <1>7
<1>12. Rests(prog, f, stack[Len(stack) - 1])
  BY <1>10 DEF r
<1>13. QED
  BY <1>1, <1>3, <1>7, <1>11, <1>12, Pops

(* The record under an operand is of the same term, or its list. *)
LEMMA UnderOperand ==
    ASSUME Inv, Running("operand"), NEW r, r = stack[Len(stack) - 1]
    PROVE  /\ Act \in Record /\ Act.fn = "operand" /\ ~IsBase(Act) /\ stack # <<>>
           /\ Act.cell \in 1..Len(prog) /\ Op(prog, Act.cell) = prog[Act.cell].op
           /\ Op(prog, Act.cell) \in {"stmt", "return", "if", "while"}
           /\ AtOperand(prog, State, Act.cell) /\ State \in StateT
           /\ \A m \in State.methods : IsAt(prog, m, "method")
           /\ WellFormed(prog)
           /\ r \in Record /\ Proper(prog, r) /\ Fits(prog, r, Act) /\ r.fn # "operand"
           /\ Op(prog, Act.cell) \in {"stmt", "return"} => r.fn = "termlist"
           /\ Op(prog, Act.cell) = "if" =>
                r.fn = "if_else" /\ r.cell = Act.cell /\ ~r.cond
           /\ Op(prog, Act.cell) = "while" => r.fn = "while" /\ r.cell = Act.cell
<1>1. stack # <<>> /\ Act.fn = "operand"
  BY DEF Running
<1>2. /\ State \in StateT /\ \A m \in State.methods : IsAt(prog, m, "method")
      /\ Rests(prog, State, Act) /\ Proper(prog, Act) /\ Act \in Record /\ WellFormed(prog)
  BY <1>1, OnTop, ProgramsAssumption DEF Inv, TypeInv
<1>3. ~IsBase(Act)
  BY <1>1 DEF IsBase
<1>4. r \in Record /\ Proper(prog, r) /\ Fits(prog, r, Act) /\ r.fn # "operand"
  BY <1>1, <1>3, Below
<1>5. Op(prog, Act.cell) \in {"stmt", "return", "if", "while"} /\ Act.cell \in 0..Len(prog)
  BY <1>1, <1>2 DEF Proper
<1>6. Act.cell \in 1..Len(prog) /\ Op(prog, Act.cell) = prog[Act.cell].op
  <2>1. Len(prog) \in Nat /\ Op(prog, 0) = "table"
    BY <1>2, Cells
  <2>2. Act.cell \in 1..Len(prog)
    BY <1>5, <2>1
  <2>3. QED
    BY <1>2, <2>2, Cells
<1>7. AtOperand(prog, State, Act.cell)
  BY <1>1, <1>2 DEF Rests
<1>8. r.fn \in {"termlist", "if_else", "while"}
  <2>1. r.fn \in {"termlist", "operand", "if_else", "scope", "else", "while", "table", "method"}
    BY <1>4, Fields
  <2>2. QED
    BY <1>1, <1>4, <2>1 DEF Fits
<1>9. r.fn = "termlist" => Op(prog, Act.cell) \in {"stmt", "return"}
  BY <1>1, <1>4 DEF Fits
<1>10. r.fn = "if_else" => Op(prog, Act.cell) = "if" /\ r.cell = Act.cell /\ ~r.cond
  BY <1>1, <1>4 DEF Fits, Proper
<1>11. r.fn = "while" => Op(prog, Act.cell) = "while" /\ r.cell = Act.cell
  BY <1>1, <1>4 DEF Fits, Proper
<1>12. QED
  BY <1>1, <1>2, <1>3, <1>4, <1>5, <1>6, <1>7, <1>8, <1>9, <1>10, <1>11

(* The operand of a statement has been read. *)
LEMMA EvaluatedStep ==
    ASSUME Inv, \A q \in Programs : Separated(q), Evaluated
    PROVE  Inv'
<1> DEFINE f == [State EXCEPT !.way = "past"]
<1>1. /\ Running("operand") /\ prog[Act.cell].op \in {"stmt", "return"}
      /\ UNCHANGED <<prog, known>> /\ stack' = Under /\ Set(f)
  BY DEF Evaluated
<1>2. /\ stack # <<>> /\ ~IsBase(Act) /\ Act.cell \in 1..Len(prog)
      /\ Op(prog, Act.cell) \in {"stmt", "return"}
      /\ AtOperand(prog, State, Act.cell) /\ State \in StateT
      /\ \A m \in State.methods : IsAt(prog, m, "method")
      /\ WellFormed(prog)
      /\ stack[Len(stack) - 1].fn = "termlist"
  BY <1>1, UnderOperand
<1>3. f \in StateT /\ f.aml = State.aml /\ f.scope = State.scope /\ f.methods = State.methods
  BY <1>2, Assigned
<1> HIDE DEF f
<1>4. f.aml = End(prog, Act.cell)
  <2>1. End(prog, Act.cell) = Act.cell + 1
    BY <1>2, Cells DEF PlainOp
  <2>2. QED
    BY <1>2, <1>3, <2>1 DEF AtOperand
<1>5. f.scope = ScopeOf(prog, Act.cell)
  BY <1>2, <1>3 DEF AtOperand
<1>6. \A m \in f.methods : IsAt(prog, m, "method")
  BY <1>2, <1>3
<1>7. Op(prog, Act.cell) # "if"
  BY <1>2
<1>8. QED
  BY <1>1, <1>2, <1>3, <1>4, <1>5, <1>6, <1>7, Returns

(* The record two below an operand that a handler waits for is the list of *)
(* the handler's term.                                                     *)
LEMMA UnderHandler ==
    ASSUME Inv, Running("operand"), Op(prog, Act.cell) \in {"if", "while"},
           NEW l, l = stack[Len(stack) - 2]
    PROVE  /\ Len(stack) - 2 \in 1..Len(stack) /\ ~IsBase(stack[Len(stack) - 1])
           /\ l \in Record /\ l.fn = "termlist" /\ ~l.first
           /\ Parent(prog, Act.cell) = l.cell
           /\ Fits(prog, l, stack[Len(stack) - 1])
<1> DEFINE r == stack[Len(stack) - 1]
           n == Len(stack)
<1>1. /\ Act.fn = "operand" /\ ~IsBase(Act) /\ stack # <<>>
      /\ r.fn \in {"if_else", "while"} /\ r.cell = Act.cell
  BY UnderOperand
<1>2. n \in Nat \ {0} /\ stack \in Seq(Record) /\ Sound(prog, stack, frames)
  BY <1>1, OnTop
<1>3. n - 1 \in 1..n
  BY <1>1, Below
<1>4. ~IsBase(r)
  BY <1>1 DEF IsBase
<1>5. IsBase(stack[1]) /\ \A k \in 1..(n - 1) : Fits(prog, stack[k], stack[k + 1])
  BY <1>2 DEF Sound
<1>6. n - 1 # 1
  BY <1>4, <1>5
<1>7. n - 2 \in 1..(n - 1) /\ (n - 2) + 1 = n - 1 /\ n - 2 \in 1..n
  <2> HIDE DEF n
  <2>1. QED
    BY <1>2, <1>3, <1>6
<1>8. Fits(prog, l, r)
  BY <1>5, <1>7
<1>9. l \in Record
  BY <1>2, <1>7
<1>10. l.fn = "termlist"
  <2>1. l.fn \in {"termlist", "operand", "if_else", "scope", "else", "while", "table", "method"}
        /\ (l.fn = "if_else" => l.cond \in BOOLEAN)
    BY <1>9, Fields
  <2> HIDE DEF r
  <2>2. QED
    BY <1>1, <1>8, <2>1 DEF Fits
<1>11. ~l.first /\ Parent(prog, Act.cell) = l.cell
  BY <1>1, <1>8, <1>10 DEF Fits
<1>12. QED
  BY <1>4, <1>7, <1>8, <1>9, <1>10, <1>11

(* The condition of an If is false. *)
LEMMA IfFalseStep ==
    ASSUME Inv, IfFalse
    PROVE  Inv'
<1> DEFINE i == Act.cell
           f == [State EXCEPT !.aml = End(prog, i), !.way = "past"]
           r == stack[Len(stack) - 1]
<1>1. /\ Running("operand") /\ prog[i].op = "if"
      /\ UNCHANGED <<prog, known>> /\ stack' = Under /\ Set(f)
  BY DEF IfFalse
<1>2. /\ stack # <<>> /\ ~IsBase(Act) /\ i \in 1..Len(prog) /\ Op(prog, i) = "if"
      /\ AtOperand(prog, State, i) /\ State \in StateT
      /\ \A m \in State.methods : IsAt(prog, m, "method")
      /\ WellFormed(prog)
      /\ r.fn = "if_else" /\ r.cell = i /\ ~r.cond
  BY <1>1, UnderOperand
<1>3. End(prog, i) \in Nat
  BY <1>2, Cells
<1>4. /\ f \in StateT /\ f.aml = End(prog, i) /\ f.intr = State.intr
      /\ f.scope = State.scope /\ f.methods = State.methods
  BY <1>2, <1>3, Assigned
<1> HIDE DEF f
<1>5. Rests(prog, f, r)
  <2>1. f.scope = ScopeOf(prog, i) /\ f.intr = "none"
    BY <1>2, <1>4 DEF AtOperand
  <2> HIDE DEF r
  <2>2. QED
    BY <1>2, <1>4, <2>1 DEF Rests
<1>6. \A m \in f.methods : IsAt(prog, m, "method")
  BY <1>2, <1>4
<1>7. QED
  BY <1>1, <1>2, <1>4, <1>5, <1>6, Pops

(* The condition of an If is true. *)
LEMMA IfTrueStep ==
    ASSUME Inv, IfTrue
    PROVE  Inv'
<1> DEFINE i == Act.cell
           f == [State EXCEPT !.way = "body"]
           a == IfElse(i, TRUE)
           b == TermList(i)
           new == <<a, b>>
<1>1. /\ Running("operand") /\ prog[i].op = "if"
      /\ UNCHANGED <<prog, known>> /\ Set(f)
      /\ stack' = SubSeq(stack, 1, Len(stack) - 2) \o new
  BY DEF IfTrue
<1>2. /\ stack # <<>> /\ ~IsBase(Act) /\ i \in 1..Len(prog) /\ Op(prog, i) = "if"
      /\ AtOperand(prog, State, i) /\ State \in StateT
      /\ \A m \in State.methods : IsAt(prog, m, "method")
      /\ WellFormed(prog)
      /\ stack[Len(stack) - 1].fn = "if_else" /\ stack[Len(stack) - 1].cell = i
  BY <1>1, UnderOperand
<1>3. /\ Len(stack) - 2 \in 1..Len(stack) /\ ~IsBase(stack[Len(stack) - 1])
      /\ stack[Len(stack) - 2].fn = "termlist"
      /\ Fits(prog, stack[Len(stack) - 2], stack[Len(stack) - 1])
  BY <1>1, <1>2, UnderHandler
<1>4. i \in Nat /\ Len(prog) \in Nat
  BY <1>2, Cells
<1>5. a \in Record /\ b \in Record
  BY <1>4, Records
<1>6. /\ a.fn = "if_else" /\ a.cell = i /\ a.cond = TRUE
      /\ b.fn = "termlist" /\ b.cell = i /\ b.first = TRUE
  BY DEF IfElse, TermList
<1> HIDE DEF a, b
<1>7. /\ Proper(prog, a) /\ ~IsBase(a) /\ Proper(prog, b) /\ ~IsBase(b)
      /\ Fits(prog, a, b) /\ a.fn # "operand"
  BY <1>2, <1>4, <1>6 DEF Proper, IsBase, Fits, BlockOp
<1>8. Pile(prog, new)
  BY <1>5, <1>7, Piles
<1>9. new # <<>> /\ new[1] = a /\ new[Len(new)] = b
  OBVIOUS
<1>10. Fits(prog, stack[Len(stack) - 2], a)
  BY <1>2, <1>3, <1>6, FitsLike
<1>11. /\ f \in StateT /\ f.aml = State.aml /\ f.intr = State.intr
       /\ f.scope = State.scope /\ f.methods = State.methods
  BY <1>2, Assigned
<1> HIDE DEF f
<1>12. Rests(prog, f, b)
  <2>1. f.aml = i + 1 /\ f.scope = ScopeOf(prog, i) /\ f.intr = "none"
    BY <1>2, <1>11 DEF AtOperand
  <2>2. ScopeIn(prog, i) = ScopeOf(prog, i)
    BY <1>2 DEF ScopeIn
  <2>3. AtTerm(prog, i + 1, i)
    <3>1. i \in 0..Len(prog)
      BY <1>2
    <3>2. QED
      BY <1>2, <3>1, Begins
  <2>4. QED
    BY <1>6, <2>1, <2>2, <2>3 DEF Rests
<1>13. \A m \in f.methods : IsAt(prog, m, "method")
  BY <1>2, <1>11
<1> HIDE DEF new
<1>14. /\ new # <<>> => Fits(prog, stack[Len(stack) - 2], new[1])
       /\ Rests(prog, f, IF new = <<>> THEN stack[Len(stack) - 2] ELSE new[Len(new)])
       /\ stack[Len(stack) - 2].fn # "operand"
  BY <1>3, <1>9, <1>10, <1>12
<1>15. QED
  BY <1>1, <1>2, <1>3, <1>8, <1>11, <1>13, <1>14, ReplacesTwo

(* The condition of a While is true. *)
LEMMA WhileTrueStep ==
    ASSUME Inv, WhileTrue
    PROVE  Inv'
<1> DEFINE i == Act.cell
           f == [State EXCEPT !.way = "body"]
           b == TermList(i)
           new == <<b>>
<1>1. /\ Running("operand") /\ prog[i].op = "while"
      /\ UNCHANGED <<prog, known>> /\ Set(f)
      /\ stack' = Under \o new
  BY DEF WhileTrue
<1>2. /\ stack # <<>> /\ ~IsBase(Act) /\ i \in 1..Len(prog) /\ Op(prog, i) = "while"
      /\ AtOperand(prog, State, i) /\ State \in StateT
      /\ \A m \in State.methods : IsAt(prog, m, "method")
      /\ WellFormed(prog)
      /\ stack[Len(stack) - 1].fn = "while" /\ stack[Len(stack) - 1].cell = i
  BY <1>1, UnderOperand
<1>3. i \in Nat /\ Len(prog) \in Nat
  BY <1>2, Cells
<1>4. b \in Record
  BY <1>3, Records
<1>5. b.fn = "termlist" /\ b.cell = i /\ b.first = TRUE
  BY DEF TermList
<1> HIDE DEF b
<1>6. Proper(prog, b) /\ ~IsBase(b)
  BY <1>2, <1>3, <1>5 DEF Proper, IsBase, BlockOp
<1>7. Pile(prog, new)
  BY <1>4, <1>6, Piles
<1>8. new # <<>> /\ new[1] = b /\ new[Len(new)] = b
  OBVIOUS
<1>9. Fits(prog, stack[Len(stack) - 1], b)
  BY <1>2, <1>5 DEF Fits
<1>10. /\ f \in StateT /\ f.aml = State.aml /\ f.intr = State.intr
       /\ f.scope = State.scope /\ f.methods = State.methods
  BY <1>2, Assigned
<1> HIDE DEF f
<1>11. Rests(prog, f, b)
  <2>1. f.aml = i + 1 /\ f.scope = ScopeOf(prog, i) /\ f.intr = "none"
    BY <1>2, <1>10 DEF AtOperand
  <2>2. ScopeIn(prog, i) = ScopeOf(prog, i)
    BY <1>2 DEF ScopeIn
  <2>3. AtTerm(prog, i + 1, i)
    <3>1. i \in 0..Len(prog)
      BY <1>2
    <3>2. QED
      BY <1>2, <3>1, Begins
  <2>4. QED
    BY <1>5, <2>1, <2>2, <2>3 DEF Rests
<1>12. \A m \in f.methods : IsAt(prog, m, "method")
  BY <1>2, <1>10
<1> HIDE DEF new
<1>13. Fits(prog, stack[Len(stack) - 1], new[1]) /\ Rests(prog, f, new[Len(new)])
  BY <1>8, <1>9, <1>11
<1>14. QED
  BY <1>1, <1>2, <1>7, <1>8, <1>10, <1>12, <1>13, Replaces

(* The condition of a While is false. *)
LEMMA WhileFalseStep ==
    ASSUME Inv, \A q \in Programs : Separated(q), WhileFalse
    PROVE  Inv'
<1> DEFINE i == Act.cell
           f == [State EXCEPT !.aml = End(prog, i), !.way = "past"]
           l == stack[Len(stack) - 2]
           none == <<>>
<1>1. /\ Running("operand") /\ prog[i].op = "while"
      /\ UNCHANGED <<prog, known>> /\ Set(f)
      /\ stack' = SubSeq(stack, 1, Len(stack) - 2)
  BY DEF WhileFalse
<1>2. /\ stack # <<>> /\ ~IsBase(Act) /\ i \in 1..Len(prog) /\ Op(prog, i) = "while"
      /\ AtOperand(prog, State, i) /\ State \in StateT
      /\ \A m \in State.methods : IsAt(prog, m, "method")
      /\ WellFormed(prog)
  BY <1>1, UnderOperand
<1>3. /\ Len(stack) - 2 \in 1..Len(stack) /\ ~IsBase(stack[Len(stack) - 1])
      /\ l.fn = "termlist" /\ ~l.first /\ Parent(prog, i) = l.cell
  BY <1>1, <1>2, UnderHandler
<1>4. Pile(prog, none) /\ none = <<>> /\ none \in Seq(Record)
  <2>1. none \in Seq(Record) /\ Len(none) = 0
    OBVIOUS
  <2>2. QED
    BY <2>1 DEF Pile
<1>5. stack' = SubSeq(stack, 1, Len(stack) - 2) \o none
  <2>1. stack \in Seq(Record) /\ Len(stack) - 2 \in 0..Len(stack)
    BY <1>2, <1>3, OnTop
  <2>2. QED
    BY <1>1, <1>4, <2>1, Stacked
<1>6. End(prog, i) \in Nat
  BY <1>2, Cells
<1>7. /\ f \in StateT /\ f.aml = End(prog, i) /\ f.scope = State.scope
      /\ f.methods = State.methods
  BY <1>2, <1>6, Assigned
<1> HIDE DEF f, none
<1>8. Rests(prog, f, l)
  <2>1. f.scope = ScopeIn(prog, l.cell)
    BY <1>2, <1>3, <1>7, ScopeOfTerm DEF AtOperand
  <2>2. AtTerm(prog, End(prog, i), l.cell)
    BY <1>2, <1>3, GoesOn
  <2> HIDE DEF l
  <2>3. QED
    BY <1>3, <1>7, <2>1, <2>2 DEF Rests
<1>9. \A m \in f.methods : IsAt(prog, m, "method")
  BY <1>2, <1>7
<1>10. Rests(prog, f, IF none = <<>> THEN stack[Len(stack) - 2] ELSE none[Len(none)])
       /\ stack[Len(stack) - 2].fn # "operand"
  BY <1>3, <1>4, <1>8
<1> HIDE DEF l
<1>11. QED
  BY <1>1, <1>2, <1>3, <1>4, <1>5, <1>7, <1>9, <1>10, ReplacesTwo

(* The record under a block's is the list that the block is a term of. *)
LEMMA UnderBlock ==
    ASSUME Inv, \A q \in Programs : Separated(q), stack # <<>>,
           Act.fn \in {"if_else", "else", "while", "scope"},
           NEW r, r = stack[Len(stack) - 1]
    PROVE  /\ ~IsBase(Act) /\ Act \in Record /\ Proper(prog, Act)
           /\ Act.cell \in 1..Len(prog) /\ Len(prog) \in Nat
           /\ r \in Record /\ r.fn = "termlist" /\ Fits(prog, r, Act) /\ ~r.first
           /\ Parent(prog, Act.cell) = r.cell
           /\ State \in StateT /\ Rests(prog, State, Act)
           /\ \A m \in State.methods : IsAt(prog, m, "method")
           /\ WellFormed(prog) /\ Separated(prog)
<1>1. /\ State \in StateT /\ \A m \in State.methods : IsAt(prog, m, "method")
      /\ Rests(prog, State, Act) /\ Proper(prog, Act) /\ Act \in Record
      /\ WellFormed(prog) /\ Separated(prog)
  BY OnTop, ProgramsAssumption DEF Inv, TypeInv
<1>2. ~IsBase(Act)
  BY DEF IsBase
<1>3. r \in Record /\ Fits(prog, r, Act)
  BY <1>2, Below
<1>4. r.fn = "termlist"
  <2>1. r.fn \in {"termlist", "operand", "if_else", "scope", "else", "while", "table", "method"}
        /\ (r.fn = "if_else" => r.cond \in BOOLEAN)
    BY <1>3, Fields
  <2>2. QED
    BY <1>3, <2>1 DEF Fits
<1>5. ~r.first /\ Act.cell # 0 /\ Parent(prog, Act.cell) = r.cell
  BY <1>3, <1>4 DEF Fits
<1>6. Act.cell \in 1..Len(prog) /\ Len(prog) \in Nat
  <2>1. Act.cell \in 0..Len(prog) /\ Len(prog) \in Nat
    BY <1>1, Cells DEF Proper
  <2>2. QED
    BY <1>5, <2>1
<1>7. QED
  BY <1>1, <1>2, <1>3, <1>4, <1>5, <1>6

(* The end of an If that has been taken: an Else behind it is skipped. *)
LEMMA SkipElseStep ==
    ASSUME Inv, \A q \in Programs : Separated(q), SkipElse
    PROVE  Inv'
<1> DEFINE f == [State EXCEPT !.aml = End(prog, aml)]
<1>1. /\ stack # <<>> /\ Act.fn = "if_else" /\ IsAt(prog, aml, "else")
      /\ UNCHANGED <<prog, known>> /\ Set(f) /\ stack' = Under
  BY DEF SkipElse, Running
<1>2. /\ ~IsBase(Act) /\ Proper(prog, Act) /\ Act.cell \in 1..Len(prog)
      /\ stack[Len(stack) - 1].fn = "termlist"
      /\ State \in StateT /\ Rests(prog, State, Act)
      /\ \A m \in State.methods : IsAt(prog, m, "method")
      /\ WellFormed(prog)
  BY <1>1, UnderBlock
<1>3. aml = End(prog, Act.cell) /\ State.scope = ScopeOf(prog, Act.cell)
      /\ Op(prog, Act.cell) = "if"
  BY <1>1, <1>2 DEF Rests, aml, Proper
<1>4. aml \in 1..Len(prog) /\ End(prog, aml) \in Nat
  <2>1. aml \in 1..Len(prog)
    BY <1>1, <1>2, Cells DEF IsAt
  <2>2. QED
    BY <1>2, <2>1, Cells
<1>5. /\ f \in StateT /\ f.aml = End(prog, aml) /\ f.scope = State.scope
      /\ f.methods = State.methods
  BY <1>2, <1>4, Assigned
<1> HIDE DEF f
<1>6. /\ f.scope = ScopeOf(prog, Act.cell)
      /\ \A m \in f.methods : IsAt(prog, m, "method")
      /\ IsAt(prog, End(prog, Act.cell), "else")
      /\ f.aml = End(prog, End(prog, Act.cell))
  BY <1>1, <1>2, <1>3, <1>5
<1>7. QED
  BY <1>1, <1>2, <1>3, <1>5, <1>6, Returns

(* The end of an If that has not been taken: its Else is run. *)
LEMMA TakeElseStep ==
    ASSUME Inv, \A q \in Programs : Separated(q), TakeElse
    PROVE  Inv'
<1> DEFINE a == Else(aml)
           b == TermList(aml)
           new == <<a, b>>
           f == [State EXCEPT !.aml = @ + 1]
           r == stack[Len(stack) - 1]
<1>1. /\ stack # <<>> /\ Act.fn = "if_else" /\ IsAt(prog, aml, "else") /\ ~Act.cond
      /\ UNCHANGED <<prog, known>> /\ Set(f) /\ stack' = Under \o new
  BY DEF TakeElse, Running
<1>2. /\ ~IsBase(Act) /\ Proper(prog, Act) /\ Act.cell \in 1..Len(prog)
      /\ r.fn = "termlist" /\ ~r.first /\ Parent(prog, Act.cell) = r.cell
      /\ State \in StateT /\ Rests(prog, State, Act)
      /\ \A m \in State.methods : IsAt(prog, m, "method")
      /\ WellFormed(prog) /\ Separated(prog) /\ Len(prog) \in Nat
  BY <1>1, UnderBlock
<1>3. /\ aml = End(prog, Act.cell) /\ State.scope = ScopeOf(prog, Act.cell)
      /\ Op(prog, Act.cell) = "if" /\ State.intr = "none" /\ aml = State.aml
  BY <1>1, <1>2 DEF Rests, aml, Proper
<1>4. /\ aml \in 1..Len(prog) /\ Op(prog, aml) = "else"
      /\ Parent(prog, aml) = Parent(prog, Act.cell)
  <2> DEFINE i == Act.cell
  <2>1. i \in 1..Len(prog) /\ Op(prog, i) = "if" /\ IsAt(prog, End(prog, i), "else")
    BY <1>1, <1>2, <1>3
  <2> HIDE DEF i
  <2>2. /\ End(prog, i) \in 1..Len(prog) /\ Op(prog, End(prog, i)) = "else"
        /\ Parent(prog, End(prog, i)) = Parent(prog, i)
    BY <1>2, <2>1, ElseOf
  <2>3. aml = End(prog, i)
    BY <1>3 DEF i
  <2>4. QED
    BY <2>2, <2>3 DEF i
<1>5. aml \in Nat
  BY <1>2, <1>4
<1>6. a \in Record /\ b \in Record
  BY <1>5, Records
<1>7. /\ a.fn = "else" /\ a.cell = aml
      /\ b.fn = "termlist" /\ b.cell = aml /\ b.first = TRUE
  BY DEF Else, TermList
<1>8. /\ f \in StateT /\ f.aml = aml + 1 /\ f.intr = State.intr
      /\ f.scope = State.scope /\ f.methods = State.methods
  <2>1. State.aml + 1 \in Nat
    BY <1>3, <1>5
  <2> DEFINE g(x) == [State EXCEPT !.aml = x]
  <2>2. \A x \in Nat : /\ g(x) \in StateT /\ g(x).aml = x /\ g(x).intr = State.intr
                       /\ g(x).scope = State.scope /\ g(x).methods = State.methods
    BY <1>2, Assigned
  <2>3. f = g(State.aml + 1)
    OBVIOUS
  <2> HIDE DEF f, g
  <2>4. QED
    BY <1>3, <2>1, <2>2, <2>3
<1> HIDE DEF a, b, r, f
<1>9. /\ Proper(prog, a) /\ ~IsBase(a) /\ Proper(prog, b) /\ ~IsBase(b)
      /\ Fits(prog, a, b) /\ a.fn # "operand"
  BY <1>2, <1>4, <1>5, <1>7 DEF Proper, IsBase, Fits, BlockOp
<1>10. Pile(prog, new)
  BY <1>6, <1>9, Piles
<1>11. new # <<>> /\ new[1] = a /\ new[Len(new)] = b
  OBVIOUS
<1>12. Fits(prog, r, a)
  BY <1>2, <1>4, <1>5, <1>7 DEF Fits
<1>13. Rests(prog, f, b)
  <2>1. f.scope = ScopeIn(prog, aml)
    <3>1. ScopeOf(prog, Act.cell) = ScopeIn(prog, Parent(prog, Act.cell))
      BY <1>2, ScopeOfTerm
    <3>2. ScopeOf(prog, aml) = ScopeIn(prog, Parent(prog, aml))
      BY <1>2, <1>4, ScopeOfTerm
    <3>3. ScopeIn(prog, aml) = ScopeOf(prog, aml)
      BY <1>4 DEF ScopeIn
    <3>4. QED
      BY <1>3, <1>4, <1>8, <3>1, <3>2, <3>3
  <2>2. AtTerm(prog, aml + 1, aml)
    <3>1. aml \in 0..Len(prog)
      BY <1>4
    <3>2. QED
      BY <1>2, <3>1, Begins
  <2>3. QED
    BY <1>3, <1>7, <1>8, <2>1, <2>2 DEF Rests
<1>14. \A m \in f.methods : IsAt(prog, m, "method")
  BY <1>2, <1>8
<1> HIDE DEF new
<1>15. Fits(prog, stack[Len(stack) - 1], new[1]) /\ Rests(prog, f, new[Len(new)])
  BY <1>11, <1>12, <1>13 DEF r
<1>16. QED
  BY <1>1, <1>2, <1>8, <1>10, <1>11, <1>14, <1>15, Replaces

(* The end of an If without an Else. *)
LEMMA EndIfStep ==
    ASSUME Inv, \A q \in Programs : Separated(q), EndIf
    PROVE  Inv'
<1>1. /\ stack # <<>> /\ Act.fn = "if_else" /\ ~IsAt(prog, aml, "else")
      /\ UNCHANGED <<prog, frames, known>> /\ stack' = Under
  BY DEF EndIf, Running
<1>2. /\ ~IsBase(Act) /\ Proper(prog, Act) /\ Act.cell \in 1..Len(prog)
      /\ stack[Len(stack) - 1].fn = "termlist"
      /\ State \in StateT /\ Rests(prog, State, Act)
      /\ \A m \in State.methods : IsAt(prog, m, "method")
  BY <1>1, UnderBlock
<1>3. State.aml = End(prog, Act.cell) /\ State.scope = ScopeOf(prog, Act.cell)
      /\ ~IsAt(prog, End(prog, Act.cell), "else")
  BY <1>1, <1>2 DEF Rests, aml
<1>4. Set(State)
  <2>1. frames \in Seq(StateT) /\ Depth \in Nat \ {0}
    BY <1>1, OnTop
  <2>2. frames = [frames EXCEPT ![Depth] = frames[Depth]]
    BY <2>1
  <2>3. QED
    BY <1>1, <2>2 DEF Set, State
<1>5. UNCHANGED <<prog, known>>
  BY <1>1
<1>6. QED
  BY <1>1, <1>2, <1>3, <1>4, <1>5, Returns

(* The end of the terms of an Else. *)
LEMMA EndElseStep ==
    ASSUME Inv, \A q \in Programs : Separated(q), EndElse
    PROVE  Inv'
<1> DEFINE f == [State EXCEPT !.aml = End(prog, Act.cell)]
<1>1. /\ stack # <<>> /\ Act.fn = "else"
      /\ UNCHANGED <<prog, known>> /\ Set(f) /\ stack' = Under
  BY DEF EndElse, Running
<1>2. /\ ~IsBase(Act) /\ Proper(prog, Act) /\ Act.cell \in 1..Len(prog)
      /\ stack[Len(stack) - 1].fn = "termlist"
      /\ State \in StateT /\ Rests(prog, State, Act)
      /\ \A m \in State.methods : IsAt(prog, m, "method")
      /\ WellFormed(prog)
  BY <1>1, UnderBlock
<1>3. State.scope = ScopeOf(prog, Act.cell) /\ Op(prog, Act.cell) = "else"
  BY <1>1, <1>2 DEF Rests, Proper
<1>4. End(prog, Act.cell) \in Nat
  BY <1>2, Cells
<1>5. /\ f \in StateT /\ f.aml = End(prog, Act.cell) /\ f.scope = State.scope
      /\ f.methods = State.methods
  BY <1>2, <1>4, Assigned
<1> HIDE DEF f
<1>6. /\ f.scope = ScopeOf(prog, Act.cell) /\ Op(prog, Act.cell) # "if"
      /\ \A m \in f.methods : IsAt(prog, m, "method")
  BY <1>2, <1>3, <1>5
<1>7. QED
  BY <1>1, <1>2, <1>5, <1>6, Returns

(* The end of the terms of a block with a name. *)
LEMMA EndScopeStep ==
    ASSUME Inv, \A q \in Programs : Separated(q), EndScope
    PROVE  Inv'
<1> DEFINE f == [State EXCEPT !.scope = Act.scope]
<1>1. /\ stack # <<>> /\ Act.fn = "scope"
      /\ UNCHANGED <<prog, known>> /\ Set(f) /\ stack' = Under
  BY DEF EndScope, Running
<1>2. /\ ~IsBase(Act) /\ Proper(prog, Act) /\ Act.cell \in 1..Len(prog) /\ Act \in Record
      /\ stack[Len(stack) - 1].fn = "termlist"
      /\ State \in StateT /\ Rests(prog, State, Act)
      /\ \A m \in State.methods : IsAt(prog, m, "method")
      /\ WellFormed(prog)
  BY <1>1, UnderBlock
<1>3. /\ State.aml = End(prog, Act.cell) /\ Op(prog, Act.cell) = "scope"
      /\ Act.scope = ScopeOf(prog, Act.cell) /\ Act.scope \in Nat
  BY <1>1, <1>2, Fields DEF Rests, Proper
<1>4. f \in StateT
  BY <1>2, <1>3 DEF StateT
<1>5. f.aml = State.aml /\ f.scope = Act.scope /\ f.methods = State.methods
  BY <1>2, <1>3 DEF StateT
<1> HIDE DEF f
<1>6. /\ f.scope = ScopeOf(prog, Act.cell) /\ Op(prog, Act.cell) # "if"
      /\ f.aml = End(prog, Act.cell)
      /\ \A m \in f.methods : IsAt(prog, m, "method")
  BY <1>2, <1>3, <1>5
<1>7. QED
  BY <1>1, <1>2, <1>4, <1>6, Returns

(* The end of a loop. *)
LEMMA EndWhileStep ==
    ASSUME Inv, \A q \in Programs : Separated(q), EndWhile
    PROVE  Inv'
<1> DEFINE f == [State EXCEPT !.intr = IF @ = "break" THEN "none" ELSE @,
                              !.aml = End(prog, Act.cell)]
<1>1. /\ stack # <<>> /\ Act.fn = "while"
      /\ UNCHANGED <<prog, known>> /\ Set(f) /\ stack' = Under
  BY DEF EndWhile, Running
<1>2. /\ ~IsBase(Act) /\ Proper(prog, Act) /\ Act.cell \in 1..Len(prog)
      /\ stack[Len(stack) - 1].fn = "termlist"
      /\ State \in StateT /\ Rests(prog, State, Act)
      /\ \A m \in State.methods : IsAt(prog, m, "method")
      /\ WellFormed(prog)
  BY <1>1, UnderBlock
<1>3. State.scope = ScopeOf(prog, Act.cell) /\ Op(prog, Act.cell) = "while"
  BY <1>1, <1>2 DEF Rests, Proper
<1>4. End(prog, Act.cell) \in Nat
  BY <1>2, Cells
<1>5. f \in StateT /\ f.aml = End(prog, Act.cell) /\ f.scope = State.scope
      /\ f.methods = State.methods
  <2> DEFINE c == IF State.intr = "break" THEN "none" ELSE State.intr
             g(x, a) == [State EXCEPT !.intr = x, !.aml = a]
  <2>1. c \in Intr
    BY <1>2 DEF StateT, Intr
  <2>2. \A x \in Intr : \A a \in Nat : g(x, a) \in StateT
    BY <1>2 DEF StateT
  <2>3. \A x \in Intr : \A a \in Nat : /\ g(x, a).aml = a /\ g(x, a).scope = State.scope
                                       /\ g(x, a).methods = State.methods
    BY <1>2 DEF StateT
  <2>4. f = g(c, End(prog, Act.cell))
    OBVIOUS
  <2> HIDE DEF f, c, g
  <2>5. QED
    BY <1>4, <2>1, <2>2, <2>3, <2>4
<1> HIDE DEF f
<1>6. /\ f.scope = ScopeOf(prog, Act.cell) /\ Op(prog, Act.cell) # "if"
      /\ \A m \in f.methods : IsAt(prog, m, "method")
  BY <1>2, <1>3, <1>5
<1>7. QED
  BY <1>1, <1>2, <1>5, <1>6, Returns

(* A loop's condition is evaluated once more. *)
LEMMA WhileAgainStep ==
    ASSUME Inv, \A q \in Programs : Separated(q), WhileAgain
    PROVE  Inv'
<1> DEFINE i == Act.cell
           b == Operand(i)
           new == <<Act, b>>
           f == [State EXCEPT !.intr = "none", !.aml = i + 1, !.at = i, !.way = "operand"]
<1>1. /\ stack # <<>> /\ Act.fn = "while"
      /\ UNCHANGED <<prog, known>> /\ Set(f) /\ stack' = Append(stack, b)
  BY DEF WhileAgain, Running
<1>2. /\ ~IsBase(Act) /\ Act \in Record /\ Proper(prog, Act) /\ i \in 1..Len(prog)
      /\ Fits(prog, stack[Len(stack) - 1], Act)
      /\ State \in StateT /\ Rests(prog, State, Act)
      /\ \A m \in State.methods : IsAt(prog, m, "method")
      /\ Len(prog) \in Nat
  BY <1>1, UnderBlock
<1>3. State.scope = ScopeOf(prog, i) /\ Op(prog, i) = "while" /\ i \in Nat
  BY <1>1, <1>2 DEF Rests, Proper
<1>4. b \in Record /\ b.fn = "operand" /\ b.cell = i
  BY <1>3, Records DEF Operand
<1>5. /\ Proper(prog, b) /\ ~IsBase(b) /\ Fits(prog, Act, b) /\ Act.fn # "operand"
  BY <1>1, <1>2, <1>3, <1>4 DEF Proper, IsBase, Fits
<1>6. stack' = Under \o new
  <2>1. stack \in Seq(Record)
    BY <1>1, OnTop
  <2> HIDE DEF b
  <2>2. Append(stack, b) = SubSeq(stack, 1, Len(stack) - 1) \o <<stack[Len(stack)], b>>
    BY <1>1, <1>4, <2>1, OneMore
  <2>3. QED
    BY <1>1, <2>2 DEF Under, Act
<1> HIDE DEF b
<1>7. Pile(prog, new)
  BY <1>2, <1>4, <1>5, Piles
<1>8. new # <<>> /\ new[1] = Act /\ new[Len(new)] = b
  OBVIOUS
<1>9. f \in StateT
  <2>1. i + 1 \in Nat
    BY <1>3
  <2>2. QED
    BY <1>2, <1>3, <2>1 DEF StateT, Intr
<1>10. /\ f.aml = i + 1 /\ f.intr = "none" /\ f.scope = State.scope
       /\ f.methods = State.methods /\ f.at = i /\ f.way = "operand"
  BY <1>2 DEF StateT
<1> HIDE DEF f
<1>11. Rests(prog, f, b)
  BY <1>3, <1>4, <1>10 DEF Rests, AtOperand
<1>12. \A m \in f.methods : IsAt(prog, m, "method")
  BY <1>2, <1>10
<1> HIDE DEF new
<1>13. Fits(prog, stack[Len(stack) - 1], new[1]) /\ Rests(prog, f, new[Len(new)])
  BY <1>2, <1>8, <1>11
<1>14. QED
  BY <1>1, <1>2, <1>6, <1>7, <1>8, <1>9, <1>12, <1>13, Replaces

(* Record a is r once its operand has called.                              *)
Waiting(p, r, a) ==
    /\ a \in Record /\ Proper(p, a) /\ a.fn = "operand" /\ ~a.first
    /\ r.fn = "operand" /\ a.cell = r.cell

(* Records b and c start a method. *)
Callee(p, b, c) ==
    /\ b \in Record /\ Proper(p, b) /\ b.fn = "method"
    /\ c \in Record /\ Proper(p, c) /\ ~IsBase(c) /\ Fits(p, b, c)

(* There is one state_t more. *)
Extended(fr, g) ==
    /\ g \in Seq(StateT) /\ Len(g) = Len(fr) + 1
    /\ \A d \in 1..Len(fr) : g[d] = fr[d]

(* The three records of a call. *)
Three(a, b, c) == <<a, b, c>>

(* An operand calls a method: the C stack and the states stay sound. *)
LEMMA Called ==
    ASSUME NEW p, NEW s, NEW fr, Stands(p, s, fr), AtOperand(p, fr[Len(fr)], s[Len(s)].cell),
           NEW a, Waiting(p, s[Len(s)], a), NEW b, NEW c, Callee(p, b, c),
           NEW t, Exchanged(s, Len(s) - 1, Three(a, b, c), t), NEW g, Extended(fr, g)
    PROVE  Stands(p, t, g) /\ t[Len(t)] = c
<1> DEFINE n == Len(s) - 1
           m == Len(s)
           new == Three(a, b, c)
<1>0. /\ a \in Record /\ Proper(p, a) /\ a.fn = "operand" /\ ~a.first
      /\ s[m].fn = "operand" /\ a.cell = s[m].cell
      /\ b \in Record /\ Proper(p, b) /\ b.fn = "method"
      /\ c \in Record /\ Proper(p, c) /\ ~IsBase(c) /\ Fits(p, b, c)
      /\ g \in Seq(StateT) /\ Len(g) = Len(fr) + 1
      /\ \A d \in 1..Len(fr) : g[d] = fr[d]
  BY DEF Waiting, Callee, Extended
<1>1. /\ s \in Seq(Record) /\ m \in Nat \ {0} /\ fr \in Seq(StateT) /\ Len(fr) \in Nat
      /\ Sound(p, s, fr) /\ \A k \in 1..m : Proper(p, s[k])
  <2>1. s \in Seq(Record) /\ s # <<>>
    BY DEF Stands
  <2>2. QED
    BY <2>1, EmptySeq DEF Stands
<1>2. /\ IsBase(s[1]) /\ Level(s, m) = Len(fr)
      /\ \A k \in 1..n : /\ Fits(p, s[k], s[k + 1])
                         /\ s[k].fn = "operand" => AtOperand(p, fr[Level(s, k)], s[k].cell)
  BY <1>1 DEF Sound
<1>3. ~IsBase(s[m]) /\ ~IsBase(a) /\ IsBase(b)
  BY <1>0 DEF IsBase
<1>4. n \in Nat \ {0} /\ m = n + 1
  <2>1. m # 1
    BY <1>2, <1>3
  <2>2. QED
    BY <1>1, <2>1
<1>5. Len(new) = 3 /\ new[1] = a /\ new[2] = b /\ new[3] = c
  BY DEF Three
<1>6. /\ t \in Seq(Record) /\ Len(t) = n + 3 /\ \A k \in 1..n : t[k] = s[k]
      /\ \A k \in 1..3 : t[n + k] = new[k]
  BY <1>5 DEF Exchanged
<1> HIDE DEF n, m
<1>7. t[n + 1] = a /\ t[n + 2] = b /\ t[n + 3] = c
  <2>1. 1 \in 1..3 /\ 2 \in 1..3 /\ 3 \in 1..3
    OBVIOUS
  <2>2. QED
    BY <1>5, <1>6, <2>1
<1>8. \A k \in 1..Len(t) : k \in 1..n \/ k = n + 1 \/ k = n + 2 \/ k = n + 3
  BY <1>4, <1>6
<1>9. \A k \in 1..n : k \in 1..m
  BY <1>4
<1>10. \A k \in 1..Len(t) : Proper(p, t[k])
  BY <1>0, <1>1, <1>6, <1>7, <1>8, <1>9
<1>11. \A j \in 0..n : Level(t, j) = Level(s, j)
  <2> TAKE j \in 0..n
  <2>1. \A i \in 1..j : i \in 1..n
    BY <1>4
  <2>2. \A i \in 1..j : t[i] = s[i]
    BY <1>6, <2>1
  <2>3. {i \in 1..j : IsBase(t[i])} = {i \in 1..j : IsBase(s[i])}
    BY <2>2
  <2>4. QED
    BY <2>3 DEF Level
<1>12. Level(t, n + 1) = Len(fr) /\ Level(t, n + 3) = Len(fr) + 1
  <2>1. n \in Nat /\ n + 1 \in Nat /\ n + 2 \in Nat /\ n \in 0..n
        /\ (n + 1) + 1 = n + 2 /\ (n + 2) + 1 = n + 3
    BY <1>4
  <2>2. Level(s, n) \in Nat /\ Level(s, n + 1) = Level(s, n) + (IF IsBase(s[n + 1]) THEN 1 ELSE 0)
    BY <2>1, Levels
  <2>3. Level(s, n) = Len(fr)
    BY <1>2, <1>3, <1>4, <2>2
  <2>4. Level(t, n + 1) = Level(t, n) + (IF IsBase(t[n + 1]) THEN 1 ELSE 0)
    BY <2>1, Levels
  <2>5. Level(t, n + 1) = Len(fr)
    BY <1>1, <1>3, <1>7, <1>11, <2>1, <2>3, <2>4
  <2>6. Level(t, n + 2) = Level(t, n + 1) + (IF IsBase(t[n + 2]) THEN 1 ELSE 0)
    <3>1. Level(t, (n + 1) + 1) = Level(t, n + 1) + (IF IsBase(t[(n + 1) + 1]) THEN 1 ELSE 0)
      BY <2>1, Levels
    <3>2. QED
      BY <2>1, <3>1
  <2>7. Level(t, n + 3) = Level(t, n + 2) + (IF IsBase(t[n + 3]) THEN 1 ELSE 0)
    <3>1. Level(t, (n + 2) + 1) = Level(t, n + 2) + (IF IsBase(t[(n + 2) + 1]) THEN 1 ELSE 0)
      BY <2>1, Levels
    <3>2. QED
      BY <2>1, <3>1
  <2>8. QED
    BY <1>0, <1>1, <1>3, <1>7, <2>5, <2>6, <2>7
<1>13. ASSUME NEW k \in 1..(Len(t) - 1)
       PROVE  /\ Fits(p, t[k], t[k + 1])
              /\ t[k].fn = "operand" => AtOperand(p, g[Level(t, k)], t[k].cell)
  <2>1. CASE k \in 1..(n - 1)
    <3>1. k \in 1..n /\ k + 1 \in 1..n /\ k \in 0..n
      BY <1>4, <2>1
    <3>2. t[k] = s[k] /\ t[k + 1] = s[k + 1] /\ Level(t, k) = Level(s, k)
      BY <1>6, <1>11, <3>1
    <3>3. ASSUME s[k].fn = "operand"
          PROVE  g[Level(s, k)] = fr[Level(s, k)]
      <4>1. k \in 1..(Len(s) - 1)
        BY <3>1 DEF n
      <4>2. s # <<>>
        BY DEF Stands
      <4>3. Level(s, k) \in 1..(Len(fr) - 1)
        BY <1>1, <3>3, <4>1, <4>2, WaitingBelow
      <4>4. Level(s, k) \in 1..Len(fr)
        BY <1>1, <4>3
      <4>5. QED
        BY <1>0, <4>4
    <3>4. QED
      BY <1>2, <3>1, <3>2, <3>3
  <2>2. CASE k = n
    <3>1. k \in 1..n
      BY <1>4, <2>2
    <3>2. t[k] = s[k] /\ t[k + 1] = a /\ Fits(p, s[k], s[m])
      BY <1>2, <1>4, <1>6, <1>7, <2>2, <3>1
    <3>3. Fits(p, s[k], a)
      BY <1>0, <3>2, FitsLike
    <3>4. s[k].fn # "operand"
      <4>1. s[m].fn = "operand"
        BY <1>0
      <4>2. QED
        BY <3>2, <4>1 DEF Fits
    <3>5. QED
      BY <3>2, <3>3, <3>4
  <2>3. CASE k = n + 1
    <3>1. t[k] = a /\ t[k + 1] = b
      <4>1. k + 1 = n + 2
        BY <1>4, <2>3
      <4>2. QED
        BY <1>7, <2>3, <4>1
    <3>2. Fits(p, a, b)
      BY <1>0 DEF Fits
    <3>3. Level(t, k) = Len(fr) /\ Len(fr) # 0
      <4>1. m \in Nat /\ m # 0
        BY <1>1
      <4>2. Level(s, m) # 0
        BY <1>2, <4>1, Levels
      <4>3. QED
        BY <1>2, <1>12, <2>3, <4>2
    <3>4. g[Len(fr)] = fr[Len(fr)]
      <4>1. Len(fr) \in 1..Len(fr)
        BY <1>1, <3>3
      <4>2. QED
        BY <1>0, <4>1
    <3>5. AtOperand(p, fr[Len(fr)], a.cell)
      BY <1>0 DEF m
    <3>6. QED
      BY <3>1, <3>2, <3>3, <3>4, <3>5
  <2>4. CASE k = n + 2
    <3>1. t[k] = b /\ t[k + 1] = c
      <4>1. k + 1 = n + 3
        BY <1>4, <2>4
      <4>2. QED
        BY <1>7, <2>4, <4>1
    <3>2. b.fn # "operand"
      BY <1>0
    <3>3. QED
      BY <1>0, <3>1, <3>2
  <2>5. QED
    <3>1. k \in 1..(n - 1) \/ k = n \/ k = n + 1 \/ k = n + 2
      BY <1>4, <1>6
    <3>2. QED
      BY <2>1, <2>2, <2>3, <2>4, <3>1
<1>14. Sound(p, t, g)
  <2>1. IsBase(t[1])
    <3>1. 1 \in 1..n
      BY <1>4
    <3>2. QED
      BY <1>2, <1>6, <3>1
  <2>2. QED
    BY <1>0, <1>6, <1>12, <1>13, <2>1 DEF Sound
<1>15. t # <<>>
  BY <1>4, <1>6
<1>16. QED
  BY <1>0, <1>6, <1>7, <1>10, <1>14, <1>15 DEF Stands

(* A method or table starts on a C stack of its own. *)
LEMMA Starts ==
    ASSUME NEW p, NEW q \in Record, IsBase(q), Proper(p, q),
           NEW c \in Record, ~IsBase(c), Proper(p, c), Fits(p, q, c),
           NEW f \in StateT
    PROVE  Stands(p, <<q, c>>, <<f>>)
<1> DEFINE s == <<q, c>>
           fr == <<f>>
<1>1. /\ s \in Seq(Record) /\ s # <<>> /\ Len(s) = 2 /\ s[1] = q /\ s[2] = c
      /\ fr \in Seq(StateT) /\ Len(fr) = 1
  OBVIOUS
<1> HIDE DEF s, fr
<1>2. \A k \in 1..2 : k = 1 \/ k = 2
  OBVIOUS
<1>3. Level(s, 2) = 1
  <2>1. 0 \in Nat /\ 1 \in Nat /\ 0 + 1 = 1 /\ 1 + 1 = 2
    OBVIOUS
  <2>2. Level(s, 0) = 0
    <3>1. {j \in 1..0 : IsBase(s[j])} = {}
      OBVIOUS
    <3>2. QED
      BY <3>1, FS_EmptySet DEF Level
  <2>3. Level(s, 0 + 1) = Level(s, 0) + (IF IsBase(s[0 + 1]) THEN 1 ELSE 0)
    BY <2>1, Levels
  <2>4. Level(s, 1 + 1) = Level(s, 1) + (IF IsBase(s[1 + 1]) THEN 1 ELSE 0)
    BY <2>1, Levels
  <2>5. Level(s, 1) = 1
    BY <1>1, <2>1, <2>2, <2>3
  <2>6. QED
    BY <1>1, <2>1, <2>4, <2>5
<1>4. \A k \in 1..(2 - 1) : k = 1 /\ k + 1 = 2
  OBVIOUS
<1>5. q.fn # "operand"
  BY DEF IsBase
<1>6. Sound(p, s, fr)
  BY <1>1, <1>3, <1>4, <1>5 DEF Sound
<1>7. \A k \in 1..Len(s) : Proper(p, s[k])
  BY <1>1, <1>2
<1>8. Stands(p, s, fr)
  BY <1>1, <1>6, <1>7 DEF Stands
<1>9. QED
  BY <1>8 DEF s, fr

(* The last element is gone.                                               *)
Cut(s, t) == t = SubSeq(s, 1, Len(s) - 1)

(* The C stack t with the states g goes on, with states of fr. *)
Resumes(p, fr, t, g) ==
    /\ t \in Seq(Record) /\ g \in Seq(StateT)
    /\ t = <<>> <=> g = <<>>
    /\ t # <<>> => /\ Stands(p, t, g) /\ Rests(p, g[Len(g)], t[Len(t)])
                   /\ \A d \in 1..Len(g) : d \in 1..Len(fr) /\ g[d] = fr[d]

(* A method returns to the operand that has called it. *)
LEMMA Back ==
    ASSUME NEW p, NEW s, NEW fr, Stands(p, s, fr), s[Len(s)].fn = "method",
           NEW t, Cut(s, t), NEW g, Cut(fr, g)
    PROVE  Resumes(p, fr, t, g)
<1> DEFINE n == Len(s) - 1
           e == Len(fr) - 1
<1>0. t = SubSeq(s, 1, n) /\ g = SubSeq(fr, 1, e)
  BY DEF Cut
<1>1. /\ s \in Seq(Record) /\ Len(s) \in Nat \ {0} /\ fr \in Seq(StateT) /\ Len(fr) \in Nat
      /\ Sound(p, s, fr) /\ \A k \in 1..Len(s) : Proper(p, s[k])
  <2>1. s \in Seq(Record) /\ s # <<>>
    BY DEF Stands
  <2>2. QED
    BY <2>1, EmptySeq DEF Stands
<1>2. /\ IsBase(s[1]) /\ Level(s, Len(s)) = Len(fr)
      /\ \A k \in 1..n : /\ Fits(p, s[k], s[k + 1])
                         /\ s[k].fn = "operand" => AtOperand(p, fr[Level(s, k)], s[k].cell)
  BY <1>1 DEF Sound
<1>3. n \in Nat /\ n + 1 = Len(s) /\ n \in 0..Len(s)
  BY <1>1
<1>4. /\ Level(s, n) \in Nat /\ Level(s, n) + 1 = Len(fr)
      /\ n # 0 => Level(s, n) # 0
      /\ n = 0 => Level(s, n) = 0
  <2>1. IsBase(s[n + 1])
    BY <1>3 DEF IsBase
  <2>2. /\ Level(s, n) \in Nat
        /\ Level(s, n + 1) = Level(s, n) + (IF IsBase(s[n + 1]) THEN 1 ELSE 0)
        /\ n # 0 /\ IsBase(s[1]) => Level(s, n) # 0
    <3> HIDE DEF n
    <3>1. QED
      BY <1>3, Levels
  <2>3. ASSUME n = 0
        PROVE  Level(s, n) = 0
    <3> HIDE DEF n
    <3>1. {j \in 1..n : IsBase(s[j])} = {}
      BY <2>3
    <3>2. QED
      BY <3>1, FS_EmptySet DEF Level
  <2>4. QED
    BY <1>2, <1>3, <2>1, <2>2, <2>3
<1>5. e = Level(s, n) /\ e \in Nat /\ e \in 0..Len(fr)
  BY <1>1, <1>4
<1>6. /\ t \in Seq(Record) /\ Len(t) = n /\ \A k \in 1..n : t[k] = s[k]
  <2> DEFINE none == <<>>
  <2>1. none \in Seq(Record) /\ Len(none) = 0
    OBVIOUS
  <2> HIDE DEF none
  <2>2. Exchanged(s, n, none, SubSeq(s, 1, n) \o none) \/ n = 0
    <3> HIDE DEF n
    <3>1. n # 0 => n \in 1..Len(s)
      BY <1>1, <1>3
    <3>2. QED
      BY <1>1, <2>1, <3>1, Exchange
  <2>3. CASE n = 0
    <3>1. t = <<>>
      BY <1>0, <1>1, <2>3, SubSeqEmpty
    <3> HIDE DEF n
    <3>2. t \in Seq(Record) /\ Len(t) = 0 /\ \A k \in 1..0 : t[k] = s[k]
      <4>1. \A k \in 1..0 : FALSE
        OBVIOUS
      <4>2. t \in Seq(Record) /\ Len(t) = 0
        BY <3>1, EmptySeq
      <4>3. QED
        BY <4>1, <4>2
    <3>3. QED
      BY <2>3, <3>2
  <2>4. CASE n # 0
    <3>1. n \in 1..Len(s)
      BY <1>1, <1>3, <2>4
    <3>2. t = SubSeq(s, 1, n)
      BY <1>0
    <3> HIDE DEF n
    <3>3. n =< Len(s) /\ 1 =< n /\ n \in Nat
      BY <1>1, <3>1
    <3>4. \A i \in 1..n : s[i] \in Record
      BY <1>1, <3>3
    <3>5. QED
      BY <1>1, <3>2, <3>3, <3>4, SubSeqProperties
  <2>5. QED
    BY <2>3, <2>4
<1>7. /\ g \in Seq(StateT) /\ Len(g) = e /\ \A d \in 1..e : g[d] = fr[d]
  <2>1. CASE e = 0
    <3>1. g = <<>>
      BY <1>0, <1>1, <2>1, SubSeqEmpty
    <3> HIDE DEF e
    <3>2. g \in Seq(StateT) /\ Len(g) = 0 /\ \A d \in 1..0 : g[d] = fr[d]
      <4>1. \A d \in 1..0 : FALSE
        OBVIOUS
      <4>2. g \in Seq(StateT) /\ Len(g) = 0
        BY <3>1, EmptySeq
      <4>3. QED
        BY <4>1, <4>2
    <3>3. QED
      BY <2>1, <3>2
  <2>2. CASE e # 0
    <3>1. e \in 1..Len(fr)
      <4> HIDE DEF e
      <4>1. QED
        BY <1>1, <1>5, <2>2
    <3>2. g = SubSeq(fr, 1, e)
      BY <1>0
    <3> HIDE DEF e
    <3>3. e =< Len(fr) /\ 1 =< e /\ e \in Nat
      BY <1>1, <3>1
    <3>4. \A i \in 1..e : fr[i] \in StateT
      BY <1>1, <3>3
    <3>5. QED
      BY <1>1, <3>2, <3>3, <3>4, SubSeqProperties
  <2>3. QED
    BY <2>1, <2>2
<1>8. /\ t = <<>> <=> n = 0
      /\ g = <<>> <=> e = 0
  BY <1>3, <1>5, <1>6, <1>7, EmptySeq
<1> HIDE DEF n, e
<1>9. t = <<>> <=> g = <<>>
  BY <1>4, <1>5, <1>8
<1>10. ASSUME n # 0
       PROVE  /\ Stands(p, t, g) /\ Rests(p, g[Len(g)], t[Len(t)])
              /\ \A d \in 1..Len(g) : d \in 1..Len(fr) /\ g[d] = fr[d]
  <2>1. n \in 1..n /\ 1 \in 1..n /\ n \in 0..n /\ e \in 1..e
    BY <1>3, <1>4, <1>5, <1>10
  <2>2. /\ Level(t, n) = Level(s, n)
        /\ \A j \in 0..n : Level(t, j) = Level(s, j)
    <3>1. n \in Nat /\ n =< n /\ \A j \in (n + 1)..n : ~IsBase(t[j])
      BY <1>3
    <3>2. \A k \in 1..n : t[k] = s[k]
      BY <1>6
    <3>3. \A j \in 0..n : Level(t, j) = Level(s, j)
      <4> TAKE j \in 0..n
      <4>1. \A i \in 1..j : i \in 1..n
        BY <3>1
      <4>2. \A i \in 1..j : t[i] = s[i]
        BY <3>2, <4>1
      <4>3. {i \in 1..j : IsBase(t[i])} = {i \in 1..j : IsBase(s[i])}
        BY <4>2
      <4>4. QED
        BY <4>3 DEF Level
    <3>4. QED
      BY <2>1, <3>3
  <2>3. ASSUME NEW k \in 1..(n - 1)
        PROVE  /\ Fits(p, t[k], t[k + 1])
               /\ t[k].fn = "operand" => AtOperand(p, g[Level(t, k)], t[k].cell)
    <3>1. k \in 1..n /\ k + 1 \in 1..n /\ k \in 0..n
      BY <1>3
    <3>2. t[k] = s[k] /\ t[k + 1] = s[k + 1] /\ Level(t, k) = Level(s, k)
      BY <1>6, <2>2, <3>1
    <3>3. ASSUME s[k].fn = "operand"
          PROVE  g[Level(s, k)] = fr[Level(s, k)]
      <4>1. k \in 1..(Len(s) - 1)
        BY <3>1 DEF n
      <4>2. s # <<>>
        BY DEF Stands
      <4>3. Level(s, k) \in 1..(Len(fr) - 1)
        BY <1>1, <3>3, <4>1, <4>2, WaitingBelow
      <4>4. Level(s, k) \in 1..e
        BY <4>3 DEF e
      <4>5. QED
        BY <1>7, <4>4
    <3>4. QED
      BY <1>2, <3>1, <3>2, <3>3
  <2>4. Sound(p, t, g)
    <3>1. IsBase(t[1])
      BY <1>2, <1>6, <2>1
    <3>2. Level(t, Len(t)) = Len(g)
      BY <1>5, <1>6, <1>7, <2>2
    <3>3. QED
      BY <1>6, <2>3, <3>1, <3>2 DEF Sound
  <2>5. \A k \in 1..Len(t) : Proper(p, t[k])
    <3>1. \A k \in 1..n : k \in 1..Len(s)
      BY <1>3
    <3>2. QED
      BY <1>1, <1>6, <3>1
  <2>6. Stands(p, t, g)
    BY <1>6, <1>7, <1>8, <1>10, <2>4, <2>5 DEF Stands
  <2>7. Rests(p, g[Len(g)], t[Len(t)])
    <3>1. t[Len(t)] = s[n] /\ g[Len(g)] = fr[Level(s, n)]
      BY <1>5, <1>6, <1>7, <2>1
    <3>2. Fits(p, s[n], s[Len(s)])
      BY <1>2, <1>3, <2>1
    <3>3. s[n].fn = "operand"
      <4>1. s[n] \in Record
        BY <1>1, <1>3, <2>1
      <4>2. s[n].fn \in {"termlist", "operand", "if_else", "scope",
                         "else", "while", "table", "method"}
            /\ (s[n].fn = "if_else" => s[n].cond \in BOOLEAN)
        BY <4>1, Fields
      <4>3. QED
        BY <3>2, <4>2 DEF Fits
    <3>4. AtOperand(p, fr[Level(s, n)], s[n].cell)
      BY <1>2, <2>1, <3>3
    <3>5. QED
      BY <3>1, <3>3, <3>4 DEF Rests
  <2>8. \A d \in 1..Len(g) : d \in 1..Len(fr) /\ g[d] = fr[d]
    <3>1. \A d \in 1..e : d \in 1..Len(fr)
      BY <1>1, <1>5
    <3>2. QED
      BY <1>7, <3>1
  <2>9. QED
    BY <2>6, <2>7, <2>8
<1>11. QED
  BY <1>6, <1>7, <1>8, <1>9, <1>10 DEF Resumes

(* What a step that changes the records of more than one state_t keeps.    *)
LEMMA Standing ==
    ASSUME Inv, UNCHANGED prog, Stands(prog, stack', frames'),
           Rests(prog, frames'[Len(frames')], stack'[Len(stack')]),
           known' \in SUBSET Nat,
           \A m \in known' : IsAt(prog, m, "method"),
           \A d \in 1..Len(frames') : \A m \in frames'[d].methods : IsAt(prog, m, "method")
    PROVE  Inv'
<1>1. /\ prog' = prog /\ prog \in Programs
      /\ stack' \in Seq(Record) /\ stack' # <<>> /\ frames' \in Seq(StateT)
      /\ Sound(prog, stack', frames')
      /\ \A k \in 1..Len(stack') : Proper(prog, stack'[k])
  BY DEF Inv, TypeInv, Stands
<1>2. DOMAIN stack' = 1..Len(stack') /\ DOMAIN frames' = 1..Len(frames')
  BY <1>1
<1>3. TypeInv'
  BY <1>1 DEF TypeInv
<1>4. MethodsInv'
  BY <1>1, <1>2 DEF MethodsInv
<1>5. frames' # <<>>
  <2>1. Level(stack', Len(stack')) = Len(frames') /\ IsBase(stack'[1])
    BY <1>1 DEF Sound
  <2>2. Len(stack') \in Nat /\ Len(stack') # 0
    BY <1>1, EmptySeq
  <2> DEFINE s == stack'
  <2>3. Level(s, Len(s)) = Len(frames') /\ IsBase(s[1]) /\ Len(s) \in Nat /\ Len(s) # 0
    BY <2>1, <2>2
  <2> HIDE DEF s
  <2>4. Level(s, Len(s)) # 0
    BY <2>3, Levels
  <2>5. Len(frames') # 0
    BY <2>3, <2>4
  <2>6. QED
    BY <1>1, <2>5, EmptySeq
<1>6. StackInv'
  BY <1>1, <1>2, <1>5 DEF StackInv, State, Act, Depth
<1>7. QED
  BY <1>3, <1>4, <1>6 DEF Inv

(* A new state_t, and the records that start on it. *)
LEMMA Fresh ==
    ASSUME NEW p, WellFormed(p), NEW m \in 0..Len(p), Op(p, m) \in {"table", "method"}
    PROVE  /\ NewState(m) \in StateT /\ NewState(m).methods = {}
           /\ TermList(m) \in Record /\ ~IsBase(TermList(m)) /\ Proper(p, TermList(m))
           /\ Rests(p, NewState(m), TermList(m))
           /\ \A q \in Record : IsBase(q) /\ q.cell = m => Fits(p, q, TermList(m))
<1> DEFINE f == NewState(m)
           c == TermList(m)
<1>1. m \in Nat
  BY Cells
<1>2. /\ f.aml = m + 1 /\ f.intr = "none" /\ f.scope = m /\ f.methods = {}
      /\ f \in StateT
  BY <1>1 DEF NewState, StateT, Intr
<1>3. c.fn = "termlist" /\ c.cell = m /\ c.first = TRUE /\ c \in Record
  BY <1>1, Records DEF TermList
<1> HIDE DEF f, c
<1>4. ~IsBase(c) /\ Proper(p, c)
  BY <1>3 DEF IsBase, Proper, BlockOp
<1>5. Rests(p, f, c)
  <2>1. AtTerm(p, m + 1, m)
    BY Begins DEF BlockOp
  <2>2. ScopeIn(p, m) = m
    BY DEF ScopeIn
  <2>3. QED
    BY <1>2, <1>3, <2>1, <2>2 DEF Rests
<1>6. \A q \in Record : IsBase(q) /\ q.cell = m => Fits(p, q, c)
  BY <1>3 DEF IsBase, Fits
<1>7. QED
  BY <1>2, <1>3, <1>4, <1>5, <1>6 DEF f, c

(* The load of a table, or a call from outside, starts. *)
LEMMA StartStep ==
    ASSUME Inv, NEW m \in 0..Len(prog), Op(prog, m) \in {"table", "method"},
           NEW q \in Record, IsBase(q), Proper(prog, q), q.cell = m,
           frames' = <<NewState(m)>>, stack' = <<q, TermList(m)>>,
           UNCHANGED <<prog, known>>
    PROVE  Inv'
<1> DEFINE f == NewState(m)
           c == TermList(m)
<1>1. WellFormed(prog) /\ known \in SUBSET Nat /\ \A k \in known : IsAt(prog, k, "method")
  BY ProgramsAssumption DEF Inv, TypeInv, MethodsInv
<1>2. /\ f \in StateT /\ f.methods = {} /\ c \in Record /\ ~IsBase(c) /\ Proper(prog, c)
      /\ Rests(prog, f, c) /\ Fits(prog, q, c)
  BY <1>1, Fresh
<1>3. frames' = <<f>> /\ stack' = <<q, c>>
  OBVIOUS
<1> HIDE DEF f, c
<1>4. Stands(prog, <<q, c>>, <<f>>)
  BY <1>2, Starts
<1>5. frames'[Len(frames')] = f /\ stack'[Len(stack')] = c /\ 1..Len(frames') = {1}
      /\ frames'[1] = f
  BY <1>3
<1>6. Stands(prog, stack', frames')
  BY <1>3, <1>4
<1>7. Rests(prog, frames'[Len(frames')], stack'[Len(stack')])
  BY <1>2, <1>5
<1>8. \A d \in 1..Len(frames') : \A k \in frames'[d].methods : IsAt(prog, k, "method")
  BY <1>2, <1>5
<1>9. known' \in SUBSET Nat /\ \A k \in known' : IsAt(prog, k, "method")
  BY <1>1
<1>10. prog' = prog
  OBVIOUS
<1>11. QED
  BY <1>6, <1>7, <1>8, <1>9, <1>10, Standing

(* parse_table starts. *)
LEMMA RegisterTableStep ==
    ASSUME Inv, RegisterTable
    PROVE  Inv'
<1>1. WellFormed(prog)
  BY ProgramsAssumption DEF Inv, TypeInv
<1>2. 0 \in 0..Len(prog) /\ Op(prog, 0) = "table"
  BY <1>1, Cells
<1>3. Load \in Record /\ Load.fn = "table" /\ Load.cell = 0
  BY Records DEF Load
<1>4. IsBase(Load) /\ Proper(prog, Load)
  BY <1>2, <1>3 DEF IsBase, Proper
<1>5. /\ frames' = <<NewState(0)>> /\ stack' = <<Load, TermList(0)>>
      /\ UNCHANGED <<prog, known>>
  BY DEF RegisterTable
<1>6. QED
  BY <1>2, <1>3, <1>4, <1>5, StartStep

(* sabi_eval_method starts. *)
LEMMA EvalMethodStep ==
    ASSUME Inv, NEW m, EvalMethod(m)
    PROVE  Inv'
<1>1. WellFormed(prog) /\ IsAt(prog, m, "method")
  BY ProgramsAssumption DEF Inv, TypeInv, MethodsInv, EvalMethod
<1>2. m \in 1..Len(prog) /\ m \in 0..Len(prog) /\ m \in Nat /\ Op(prog, m) = "method"
  BY <1>1, Cells DEF IsAt
<1>3. Method(m) \in Record /\ Method(m).fn = "method" /\ Method(m).cell = m
  BY <1>2, Records DEF Method
<1>4. IsBase(Method(m)) /\ Proper(prog, Method(m))
  BY <1>2, <1>3 DEF IsBase, Proper
<1>5. /\ frames' = <<NewState(m)>> /\ stack' = <<Method(m), TermList(m)>>
      /\ UNCHANGED <<prog, known>>
  BY DEF EvalMethod
<1>6. QED
  BY <1>2, <1>3, <1>4, <1>5, StartStep

(* The end of parse_table. *)
LEMMA EndTableStep ==
    ASSUME Inv, EndTable
    PROVE  Inv'
<1>1. stack # <<>> /\ known' = State.methods /\ frames' = <<>> /\ stack' = <<>>
      /\ prog' = prog
  BY DEF EndTable, Running
<1>2. State \in StateT /\ \A m \in State.methods : IsAt(prog, m, "method")
  BY <1>1, OnTop
<1>3. State.methods \in SUBSET Nat
  BY <1>2 DEF StateT
<1>4. TypeInv'
  BY <1>1, <1>3, EmptySeq DEF Inv, TypeInv
<1>5. DOMAIN frames' = {} /\ DOMAIN stack' = {}
  BY <1>1
<1>6. MethodsInv'
  BY <1>1, <1>2, <1>5 DEF MethodsInv
<1>7. StackInv'
  BY <1>1, <1>5 DEF StackInv
<1>8. QED
  BY <1>4, <1>6, <1>7 DEF Inv

(* An operand calls a method. *)
LEMMA CallMethodStep ==
    ASSUME Inv, NEW m, CallMethod(m)
    PROVE  Inv'
<1> DEFINE a == [Act EXCEPT !.first = FALSE]
           b == Method(m)
           c == TermList(m)
           f == NewState(m)
           new == <<a, b, c>>
           n == Len(stack) - 1
<1>1. /\ stack # <<>> /\ Act.fn = "operand" /\ m \in Callable
      /\ frames' = Append(frames, f) /\ stack' = SubSeq(stack, 1, n) \o new
      /\ UNCHANGED <<prog, known>>
  BY DEF CallMethod, Running, Under
<1>2. WellFormed(prog) /\ IsAt(prog, m, "method")
  BY <1>1, ProgramsAssumption DEF Inv, TypeInv, MethodsInv, Callable
<1>3. m \in 1..Len(prog) /\ m \in 0..Len(prog) /\ m \in Nat /\ Op(prog, m) = "method"
  BY <1>2, Cells DEF IsAt
<1>4. /\ frames \in Seq(StateT) /\ Depth \in Nat \ {0} /\ State \in StateT
      /\ Len(stack) \in Nat \ {0} /\ Act \in Record /\ Proper(prog, Act)
      /\ Rests(prog, State, Act) /\ stack \in Seq(Record) /\ Sound(prog, stack, frames)
      /\ \A k \in 1..Len(stack) : Proper(prog, stack[k])
  BY <1>1, OnTop
<1>5. /\ a.fn = "operand" /\ a.cell = Act.cell /\ a.first = FALSE /\ a \in Record
  <2>1. Act.cell \in Nat /\ a = [fn |-> Act.fn, cell |-> Act.cell, first |-> FALSE]
    BY <1>1, <1>4, Fields
  <2>2. QED
    BY <1>1, <2>1 DEF Record
<1>6. b \in Record /\ b.fn = "method" /\ b.cell = m
  BY <1>3, Records DEF Method
<1> HIDE DEF a, b
<1>7. Proper(prog, a) /\ Proper(prog, b) /\ IsBase(b)
  BY <1>1, <1>3, <1>4, <1>5, <1>6 DEF Proper, IsBase
<1>8. /\ f \in StateT /\ f.methods = {} /\ c \in Record /\ ~IsBase(c) /\ Proper(prog, c)
      /\ Rests(prog, f, c) /\ Fits(prog, b, c)
  BY <1>2, <1>3, <1>6, <1>7, Fresh
<1> HIDE DEF c, f
<1>9. new \in Seq(Record)
  BY <1>5, <1>6, <1>8
<1>10. n \in 1..Len(stack)
  <2>1. ~IsBase(Act)
    BY <1>1 DEF IsBase
  <2>2. QED
    BY <1>1, <2>1, Below
<1>11. Exchanged(stack, n, new, stack')
  <2> HIDE DEF n, new
  <2>1. QED
    BY <1>1, <1>4, <1>9, <1>10, Exchange
<1>12. /\ frames' \in Seq(StateT) /\ Len(frames') = Len(frames) + 1
       /\ \A d \in 1..Len(frames) : frames'[d] = frames[d]
       /\ frames'[Len(frames')] = f
  BY <1>1, <1>4, <1>8, AppendProperties
<1>13. AtOperand(prog, frames[Len(frames)], stack[Len(stack)].cell)
       /\ stack[Len(stack)].fn = "operand" /\ a.cell = stack[Len(stack)].cell
  BY <1>1, <1>4, <1>5 DEF Rests, State, Depth, Act
<1>14. Stands(prog, stack, frames)
  BY <1>1, <1>4 DEF Stands
<1>15. Stands(prog, stack', frames') /\ stack'[Len(stack')] = c
  <2>1. Waiting(prog, stack[Len(stack)], a)
    BY <1>5, <1>7, <1>13 DEF Waiting
  <2>2. Callee(prog, b, c)
    BY <1>6, <1>7, <1>8 DEF Callee
  <2>3. Extended(frames, frames')
    BY <1>12 DEF Extended
  <2>4. Exchanged(stack, Len(stack) - 1, Three(a, b, c), stack')
    BY <1>11 DEF Three
  <2>5. QED
    BY <1>13, <1>14, <2>1, <2>2, <2>3, <2>4, Called
<1>16. \A d \in 1..Len(frames') : \A k \in frames'[d].methods : IsAt(prog, k, "method")
  <2>1. \A d \in 1..Len(frames') : d \in 1..Len(frames) \/ d = Len(frames')
    BY <1>4, <1>12
  <2>2. \A d \in 1..Len(frames) : \A k \in frames[d].methods : IsAt(prog, k, "method")
    BY <1>4 DEF Inv, MethodsInv
  <2>3. QED
    BY <1>8, <1>12, <2>1, <2>2
<1>17. known' \in SUBSET Nat /\ (\A k \in known' : IsAt(prog, k, "method")) /\ prog' = prog
  BY <1>1 DEF Inv, TypeInv, MethodsInv
<1>18. Rests(prog, frames'[Len(frames')], stack'[Len(stack')])
  BY <1>8, <1>12, <1>15
<1>19. QED
  BY <1>15, <1>16, <1>17, <1>18, Standing

(* A method ends. *)
LEMMA EndMethodStep ==
    ASSUME Inv, EndMethod
    PROVE  Inv'
<1> DEFINE t == SubSeq(stack, 1, Len(stack) - 1)
           g == SubSeq(frames, 1, Len(frames) - 1)
<1>1. /\ stack # <<>> /\ Act.fn = "method" /\ stack' = t /\ frames' = g
      /\ prog' = prog /\ known' = known
      /\ t = SubSeq(stack, 1, Len(stack) - 1) /\ g = SubSeq(frames, 1, Len(frames) - 1)
  BY DEF EndMethod, Running, Under, Depth
<1> HIDE DEF t, g
<1>2. /\ frames \in Seq(StateT) /\ stack \in Seq(Record) /\ Sound(prog, stack, frames)
      /\ \A k \in 1..Len(stack) : Proper(prog, stack[k])
  BY <1>1, OnTop
<1>3. Stands(prog, stack, frames) /\ stack[Len(stack)].fn = "method"
  BY <1>1, <1>2 DEF Stands, Act
<1>4. /\ t \in Seq(Record) /\ g \in Seq(StateT)
      /\ t = <<>> <=> g = <<>>
      /\ t # <<>> => /\ Stands(prog, t, g) /\ Rests(prog, g[Len(g)], t[Len(t)])
                     /\ \A d \in 1..Len(g) : d \in 1..Len(frames) /\ g[d] = frames[d]
  <2>1. Cut(stack, t) /\ Cut(frames, g)
    BY <1>1 DEF Cut
  <2>2. Resumes(prog, frames, t, g)
    BY <1>3, <2>1, Back
  <2>3. QED
    BY <2>2 DEF Resumes
<1>5. known' \in SUBSET Nat /\ \A k \in known' : IsAt(prog, k, "method")
  BY <1>1 DEF Inv, TypeInv, MethodsInv
<1>6. CASE t = <<>>
  <2>1. frames' = <<>> /\ stack' = <<>> /\ prog' = prog
    BY <1>1, <1>4, <1>6
  <2>2. TypeInv'
    BY <1>5, <2>1, EmptySeq DEF Inv, TypeInv
  <2>3. DOMAIN frames' = {} /\ DOMAIN stack' = {}
    BY <2>1
  <2>4. MethodsInv'
    BY <1>5, <2>1, <2>3 DEF MethodsInv
  <2>5. StackInv'
    BY <2>1, <2>3 DEF StackInv
  <2>6. QED
    BY <2>2, <2>4, <2>5 DEF Inv
<1>7. CASE t # <<>>
  <2>1. \A d \in 1..Len(frames) : \A k \in frames[d].methods : IsAt(prog, k, "method")
    BY <1>2 DEF Inv, MethodsInv
  <2>2. \A d \in 1..Len(g) : \A k \in g[d].methods : IsAt(prog, k, "method")
    BY <1>4, <1>7, <2>1
  <2>3. QED
    BY <1>1, <1>4, <1>5, <1>7, <2>2, Standing
<1>8. QED
  BY <1>6, <1>7

-----------------------------------------------------------------------------
(* The theorems. *)

(* Nothing has run. *)
LEMMA Initially == Init => Inv
<1> SUFFICES ASSUME Init
             PROVE  Inv
  OBVIOUS
<1>1. prog \in Programs /\ frames = <<>> /\ stack = <<>> /\ known = {}
  BY DEF Init
<1>2. TypeInv
  BY <1>1, EmptySeq DEF TypeInv
<1>3. DOMAIN frames = {} /\ DOMAIN stack = {}
  BY <1>1
<1>4. QED
  BY <1>1, <1>2, <1>3 DEF Inv, MethodsInv, StackInv

(* Every step keeps the invariant. *)
LEMMA Step ==
    ASSUME Inv, \A q \in Programs : Separated(q), [Next]_vars
    PROVE  Inv'
<1>1. CASE UNCHANGED vars
  BY <1>1 DEF vars, Inv, TypeInv, MethodsInv, StackInv, State, Act, Depth
<1>2. CASE RegisterTable
  BY <1>2, RegisterTableStep
<1>3. ASSUME NEW m \in DOMAIN prog, EvalMethod(m)
      PROVE  Inv'
  BY <1>3, EvalMethodStep
<1>4. ASSUME NEW m \in DOMAIN prog, CallMethod(m)
      PROVE  Inv'
  BY <1>4, CallMethodStep
<1>5. CASE Terms
  BY <1>5, StatementStep, PassedStep, BlockStep, EndTermlistStep DEF Terms
<1>6. CASE Operands
  BY <1>6, EvaluatedStep, IfTrueStep, IfFalseStep, WhileTrueStep, WhileFalseStep DEF Operands
<1>7. CASE Ends
  BY <1>7, SkipElseStep, TakeElseStep, EndIfStep, EndElseStep, WhileAgainStep, EndWhileStep,
     EndScopeStep, EndMethodStep, EndTableStep DEF Ends
<1>8. QED
  BY <1>1, <1>2, <1>3, <1>4, <1>5, <1>6, <1>7 DEF Next

(* The C stack and the state_t agree on the lexical structure of the code, *)
(* in every table in which no If ends a block that an Else follows.        *)
THEOREM Invariance ==
    ASSUME \A q \in Programs : Separated(q)
    PROVE  Spec => []Inv
<1>1. Init => Inv
  BY Initially
<1>2. Inv /\ [Next]_vars => Inv'
  BY Step
<1>3. QED
  BY <1>1, <1>2, PTL DEF Spec

(* A term list only ever fetches terms of its own block, one it has not    *)
(* been told to leave, and never an Else.                                  *)
THEOREM OwnTermsFetched ==
    ASSUME \A q \in Programs : Separated(q)
    PROVE  Spec => []FetchesOwnTerms
<1>1. Inv => FetchesOwnTerms
  BY OwnTerm DEF FetchesOwnTerms
<1>2. QED
  BY <1>1, Invariance, PTL

(* A term list that no interrupt has cut short ends where its block does.  *)
THEOREM ListsEnd ==
    ASSUME \A q \in Programs : Separated(q)
    PROVE  Spec => []ListsEndAtEnd
<1>1. ASSUME Inv, Running("termlist"), ~Continues, intr = "none"
      PROVE  aml = End(prog, Act.cell)
  <2>1. stack # <<>> /\ Act.fn = "termlist"
    BY <1>1 DEF Running
  <2>2. State \in StateT /\ Rests(prog, State, Act) /\ Proper(prog, Act) /\ WellFormed(prog)
    BY <1>1, <2>1, OnTop, ProgramsAssumption DEF Inv, TypeInv
  <2>3. AtTerm(prog, aml, Act.cell)
    BY <1>1, <2>1, <2>2 DEF Rests, intr, aml
  <2>4. aml \in Nat /\ End(prog, Act.cell) \in Nat
    <3>1. Act.cell \in 0..Len(prog)
      BY <2>2 DEF Proper
    <3>2. QED
      BY <2>2, <3>1, Cells DEF StateT, aml
  <2>5. ~(aml < End(prog, Act.cell))
    BY <1>1 DEF Continues
  <2>6. QED
    BY <2>3, <2>4, <2>5 DEF AtTerm, Body
<1>2. Inv => ListsEndAtEnd
  BY <1>1 DEF ListsEndAtEnd
<1>3. QED
  BY <1>2, Invariance, PTL

(* Terms run in the scope of the innermost Scope, Device or Method around  *)
(* them, however control has left the blocks before.                       *)
THEOREM LexicalScope ==
    ASSUME \A q \in Programs : Separated(q)
    PROVE  Spec => []ScopeIsLexical
<1>1. Inv => ScopeIsLexical
  BY OwnTerm DEF ScopeIsLexical, ScopeOf
<1>2. QED
  BY <1>1, Invariance, PTL

-----------------------------------------------------------------------------
(***************************************************************************)
(* Control implements Flow: the C stack, the jumps and the interrupts lead *)
(* from cell to cell as the structure of the code says.                    *)
(***************************************************************************)

(* The operators of Flow. *)

(* Both modules speak of the same structure. *)
LEMMA SameStructure ==
    \A p, i : /\ Structured!End(p, i) = End(p, i) /\ Structured!Op(p, i) = Op(p, i)
              /\ Structured!Body(p, i) = Body(p, i)
              /\ Structured!Around(p, i) = Around(p, i)
              /\ Structured!Parent(p, i) = Parent(p, i)
              /\ \A op : Structured!IsAt(p, i, op) <=> IsAt(p, i, op)
              /\ \A S : Structured!Innermost(S) = Innermost(S)
<1> TAKE p, i
<1>1. \A j : Structured!End(p, j) = End(p, j) /\ Structured!Op(p, j) = Op(p, j)
  BY DEF Structured!End, End, Structured!Op, Op
<1>2. Structured!Body(p, i) = Body(p, i)
  BY DEF Structured!End, End, Structured!Body, Body
<1>3. Structured!Around(p, i) = Around(p, i)
  BY DEF Structured!End, End, Structured!Body, Body, Structured!Around, Around
<1>4. \A S : Structured!Innermost(S) = Innermost(S)
  BY DEF Structured!Innermost, Innermost
<1>5. Structured!Parent(p, i) = Parent(p, i)
  BY <1>3, <1>4 DEF Structured!Parent, Parent
<1>6. \A op : Structured!IsAt(p, i, op) <=> IsAt(p, i, op)
  BY DEF Structured!IsAt, IsAt
<1>7. QED
  BY <1>1, <1>2, <1>3, <1>4, <1>5, <1>6

(* Where control goes behind cell i, if it is known for the blocks around. *)
Behaves(p, f, i) ==
    LET b == Structured!Parent(p, i)
        n == IF Structured!HasElse(p, i) THEN Structured!End(p, Structured!End(p, i))
             ELSE Structured!End(p, i)
    IN  IF n \in Structured!Body(p, b) THEN n
        ELSE IF Structured!Op(p, b) \in {"table", "method"} THEN Structured!Done
        ELSE IF Structured!Op(p, b) = "while" THEN b
        ELSE f[b]

(* The same in the words of Control. *)
LEMMA BehavesAs ==
    ASSUME NEW p, NEW f, NEW i
    PROVE  Behaves(p, f, i) = IF Behind(p, i) \in Body(p, Parent(p, i)) THEN Behind(p, i)
                              ELSE IF Op(p, Parent(p, i)) \in {"table", "method"} THEN Done
                              ELSE IF Op(p, Parent(p, i)) = "while" THEN Parent(p, i)
                              ELSE f[Parent(p, i)]
BY SameStructure DEF Behaves, Behind, Done

(* It depends on the blocks around only. *)
LEMMA OnlyAround ==
    ASSUME NEW p, WellFormed(p), NEW i \in 1..Len(p), NEW f, NEW g,
           \A j \in 1..(i - 1) : f[j] = g[j]
    PROVE  Behaves(p, f, i) = Behaves(p, g, i)
<1> DEFINE b == Parent(p, i)
<1>1. b \in 0..(i - 1) /\ Op(p, 0) = "table" /\ Len(p) \in Nat
  BY Parents, Cells
<1>2. b = 0 => Op(p, b) = "table"
  BY <1>1
<1>3. b # 0 => f[b] = g[b]
  BY <1>1
<1> HIDE DEF b
<1>4. QED
  BY <1>2, <1>3, BehavesAs DEF b

(* A function of the first n cells that says so. *)
Behaved(p, n, f) == f = [i \in 1..n |-> Behaves(p, f, i)]

(* There is one for each n, *)
LEMMA AfterExists ==
    ASSUME NEW p, WellFormed(p)
    PROVE  \A n \in Nat : n =< Len(p) => \E f : Behaved(p, n, f)
<1> DEFINE S == {n \in Nat : n =< Len(p) => \E f : Behaved(p, n, f)}
<1>1. Len(p) \in Nat
  BY Cells
<1>2. ASSUME NEW n \in Nat, \A m \in 0..(n - 1) : m \in S, n =< Len(p)
      PROVE  \E f : Behaved(p, n, f)
  <2>1. CASE n = 0
    <3> DEFINE f == [i \in 1..0 |-> 0]
    <3>1. f = [i \in 1..0 |-> Behaves(p, f, i)]
      OBVIOUS
    <3> HIDE DEF f
    <3>2. QED
      BY <2>1, <3>1 DEF Behaved
  <2>2. CASE n # 0
    <3>1. n - 1 \in 0..(n - 1) /\ n - 1 =< Len(p) /\ n \in 1..Len(p)
      BY <1>1, <1>2, <2>2
    <3>2. \E f : Behaved(p, n - 1, f)
      BY <1>2, <3>1
    <3>3. PICK f : Behaved(p, n - 1, f)
      BY <3>2
    <3>4. f = [i \in 1..(n - 1) |-> Behaves(p, f, i)]
      BY <3>3 DEF Behaved
    <3> DEFINE g == [i \in 1..n |-> IF i = n THEN Behaves(p, f, n) ELSE f[i]]
    <3>5. ASSUME NEW i \in 1..n
          PROVE  g[i] = Behaves(p, g, i)
      <4>1. i \in 1..Len(p) /\ \A j \in 1..(i - 1) : j \in 1..n /\ j # n
        BY <1>1, <1>2, <3>1
      <4>2. \A j \in 1..(i - 1) : f[j] = g[j]
        BY <4>1
      <4> HIDE DEF g
      <4>3. Behaves(p, f, i) = Behaves(p, g, i)
        BY <4>1, <4>2, OnlyAround
      <4>4. g[i] = Behaves(p, f, i)
        <5>1. CASE i = n
          BY <5>1 DEF g
        <5>2. CASE i # n
          <6>1. i \in 1..(n - 1)
            BY <1>2, <5>2
          <6>2. f[i] = Behaves(p, f, i)
            BY <3>4, <6>1
          <6>3. g[i] = f[i]
            BY <5>2 DEF g
          <6>4. QED
            BY <6>2, <6>3
        <5>3. QED
          BY <5>1, <5>2
      <4>5. QED
        BY <4>3, <4>4
    <3>6. g = [i \in 1..n |-> g[i]]
      OBVIOUS
    <3> HIDE DEF g
    <3>7. [i \in 1..n |-> g[i]] = [i \in 1..n |-> Behaves(p, g, i)]
      BY <3>5
    <3>8. Behaved(p, n, g)
      BY <3>6, <3>7 DEF Behaved
    <3>9. QED
      BY <3>8
  <2>3. QED
    BY <2>1, <2>2
<1>3. \A n \in Nat : (\A m \in 0..(n - 1) : m \in S) => n \in S
  BY <1>2
<1>4. Nat \subseteq S
  <2> HIDE DEF S
  <2>1. QED
    BY <1>3, Numbers
<1>5. QED
  BY <1>4

(* so After is what its definition says. *)
LEMMA AfterIs ==
    ASSUME NEW p, WellFormed(p), NEW i \in 1..Len(p)
    PROVE  Structured!After(p)[i] = IF Behind(p, i) < End(p, Parent(p, i)) THEN Behind(p, i)
                                    ELSE Leaves(p, Parent(p, i))
<1> DEFINE F == Structured!After(p)
<1>1. Len(p) \in Nat /\ DOMAIN p = 1..Len(p)
  BY Cells
<1>2. PICK f : Behaved(p, Len(p), f)
  BY <1>1, AfterExists
<1>3. f = [j \in DOMAIN p |-> Behaves(p, f, j)]
  BY <1>1, <1>2 DEF Behaved
<1>4. F = CHOOSE h : h = [j \in DOMAIN p |-> Behaves(p, h, j)]
  BY DEF Structured!After, Behaves
<1>5. F = [j \in DOMAIN p |-> Behaves(p, F, j)]
  <2> HIDE DEF F
  <2>1. QED
    BY <1>3, <1>4
<1>6. F[i] = Behaves(p, F, i)
  <2> HIDE DEF F
  <2>1. QED
    BY <1>1, <1>5
<1>7. Behind(p, i) \in Body(p, Parent(p, i)) <=> Behind(p, i) < End(p, Parent(p, i))
  <2>1. /\ Parent(p, i) \in 0..(i - 1) /\ End(p, i) \in Nat /\ i < End(p, i)
        /\ End(p, Parent(p, i)) \in Nat
    BY <1>1, Parents, Cells
  <2>2. Behind(p, i) \in Nat /\ i < Behind(p, i)
    <3>1. CASE Structured!HasElse(p, i)
      <4>1. End(p, i) \in 1..Len(p)
        BY <1>1, <3>1, SameStructure DEF Structured!HasElse, IsAt
      <4>2. End(p, End(p, i)) \in Nat /\ End(p, i) < End(p, End(p, i))
        BY <4>1, Cells
      <4>3. QED
        BY <2>1, <3>1, <4>2 DEF Behind
    <3>2. CASE ~Structured!HasElse(p, i)
      BY <2>1, <3>2 DEF Behind
    <3>3. QED
      BY <3>1, <3>2
  <2> DEFINE n == Behind(p, i)
             e == End(p, Parent(p, i))
             b == Parent(p, i)
  <2>3. n \in Nat /\ i < n /\ e \in Nat /\ b \in 0..(i - 1)
    BY <2>1, <2>2
  <2>4. Body(p, b) = (b + 1)..(e - 1)
    BY DEF Body
  <2> HIDE DEF n, e, b
  <2>5. n \in Body(p, b) <=> n < e
    BY <2>3, <2>4
  <2>6. QED
    BY <2>5 DEF n, e, b
<1>8. QED
  BY <1>6, <1>7, BehavesAs DEF Leaves

(* On entry to a block: its first term, or what is behind its last one.    *)
LEMMA FirstIs ==
    ASSUME NEW p, WellFormed(p), NEW b \in 0..Len(p)
    PROVE  Structured!First(p, b) = IF b + 1 < End(p, b) THEN b + 1 ELSE Leaves(p, b)
<1>1. b \in Nat /\ End(p, b) \in Nat
  BY Cells
<1>2. Body(p, b) # {} <=> b + 1 < End(p, b)
  <2>1. Body(p, b) = (b + 1)..(End(p, b) - 1)
    BY DEF Body
  <2> DEFINE e == End(p, b)
  <2> HIDE DEF e
  <2>2. (b + 1)..(e - 1) # {} <=> b + 1 < e
    <3>1. e \in Nat
      BY <1>1 DEF e
    <3>2. b + 1 < e => b + 1 \in (b + 1)..(e - 1)
      BY <1>1, <3>1
    <3>3. ~(b + 1 < e) => (b + 1)..(e - 1) = {}
      BY <1>1, <3>1
    <3>4. QED
      BY <3>2, <3>3
  <2>3. QED
    BY <2>1, <2>2 DEF e
<1>3. QED
  BY <1>2, SameStructure DEF Structured!First, Leaves, Done

(* The loop that a term is in is that of the list it belongs to. *)
LEMMA LoopOfTerm ==
    ASSUME NEW p, WellFormed(p), NEW i \in 1..Len(p)
    PROVE  Structured!Loop(p, i) = LoopIn(p, Parent(p, i))
<1> DEFINE b == Parent(p, i)
           Bound(c) == Op(p, c) \in {"while", "method"}
           S(j) == {c \in Around(p, j) : Bound(c)}
<1>1. /\ Len(p) \in Nat /\ Op(p, 0) = "table"
      /\ \A j \in 0..Len(p) : End(p, j) \in Nat
  BY Cells
<1>2. /\ b \in 0..(i - 1) /\ i < End(p, b) /\ b \in Around(p, i)
      /\ \A c \in Around(p, i) : c =< b
      /\ \A c : c \in Around(p, i) <=> c \in 0..(i - 1) /\ i < End(p, c)
  BY Parents
<1>3. \A j : Structured!Loop(p, j) =
               IF S(j) # {} /\ Op(p, Innermost(S(j))) = "while" THEN Innermost(S(j)) ELSE Done
  BY SameStructure DEF Structured!Loop, Done
<1>4. CASE Bound(b)
  <2>1. b \in S(i) /\ S(i) \subseteq 0..i /\ \A c \in S(i) : c =< b
    BY <1>2, <1>4
  <2>2. Innermost(S(i)) = b /\ S(i) # {}
    <3> DEFINE T == S(i)
    <3>1. b \in T /\ T \subseteq 0..i /\ (\A c \in T : c =< b) /\ i \in Nat /\ T # {}
      BY <1>1, <2>1
    <3> HIDE DEF T, b
    <3>2. \A d \in T : (\A c \in T : c =< d) => Innermost(T) = d
      BY <3>1, InnermostIs
    <3>3. Innermost(T) = b /\ T # {}
      BY <3>1, <3>2
    <3>4. QED
      BY <3>3 DEF T
  <2>3. Structured!Loop(p, i) = IF Op(p, b) = "while" THEN b ELSE Done
    <3> HIDE DEF S, b
    <3>1. QED
      BY <1>3, <2>2
  <2>4. QED
    <3> HIDE DEF S
    <3>1. QED
      BY <1>4, <2>3 DEF LoopIn
<1>5. CASE ~Bound(b) /\ b = 0
  <2>1. S(i) = {}
    <3>1. \A c \in Around(p, i) : c = 0
      BY <1>2, <1>5
    <3>2. QED
      BY <1>5, <3>1
  <2>2. Structured!Loop(p, i) = Done
    <3> HIDE DEF S, b
    <3>1. QED
      BY <1>3, <2>1
  <2>3. QED
    <3> HIDE DEF S
    <3>1. QED
      BY <1>1, <1>5, <2>2 DEF LoopIn
<1>6. CASE ~Bound(b) /\ b # 0
  <2>1. b \in 1..Len(p) /\ Op(p, b) # "table"
    <3>1. b \in 1..Len(p)
      BY <1>1, <1>2, <1>6
    <3>2. Op(p, b) \in BlockOp \cup PlainOp
      BY <3>1, Cells
    <3>3. QED
      BY <3>1, <3>2 DEF BlockOp, PlainOp
  <2>2. \A c : c \in Around(p, b) <=> c \in 0..(b - 1) /\ b < End(p, c)
    BY <2>1, Parents
  <2>3. ASSUME NEW c \in Around(p, b)
        PROVE  c \in Around(p, i)
    <3>1. End(p, b) =< End(p, c) /\ c \in 0..(b - 1)
      BY <2>1, <2>2, <2>3, Nesting
    <3>2. End(p, b) \in Nat /\ End(p, c) \in Nat
      BY <1>1, <2>1, <3>1
    <3>3. QED
      BY <1>2, <2>1, <3>1, <3>2
  <2>4. ASSUME NEW c \in Around(p, i), Bound(c)
        PROVE  c \in Around(p, b)
    <3>1. c # b /\ c =< b /\ c \in 0..(i - 1) /\ i < End(p, c)
      BY <1>2, <1>6, <2>4
    <3>2. End(p, c) \in Nat
      BY <1>1, <3>1
    <3>3. QED
      BY <1>2, <2>1, <2>2, <3>1, <3>2
  <2>5. S(i) = S(b)
    BY <2>3, <2>4
  <2>6. Structured!Loop(p, i) = Structured!Loop(p, b)
    <3> HIDE DEF S, b
    <3>1. QED
      BY <1>3, <2>5
  <2>7. QED
    <3> HIDE DEF S
    <3>1. QED
      BY <1>6, <2>1, <2>6 DEF LoopIn
<1>7. QED
  BY <1>4, <1>5, <1>6

(* Only an If has an Else, and any Else behind it is its own.              *)
LEMMA ElseBehind ==
    ASSUME NEW p, WellFormed(p), Separated(p), NEW i \in 1..Len(p)
    PROVE  /\ Op(p, i) # "if" => Behind(p, i) = End(p, i)
           /\ ~IsAt(p, End(p, i), "else") => Behind(p, i) = End(p, i)
           /\ Op(p, i) = "if" /\ IsAt(p, End(p, i), "else") =>
                Behind(p, i) = End(p, End(p, i)) /\ Structured!HasElse(p, i)
           /\ Structured!HasElse(p, i) => Op(p, i) = "if" /\ IsAt(p, End(p, i), "else")
<1>1. Structured!HasElse(p, i) <=> /\ Op(p, i) = "if"
                                   /\ IsAt(p, End(p, i), "else")
                                   /\ Parent(p, End(p, i)) = Parent(p, i)
  BY SameStructure DEF Structured!HasElse
<1>2. Op(p, i) = "if" /\ IsAt(p, End(p, i), "else") => Parent(p, End(p, i)) = Parent(p, i)
  BY ElseOf
<1>3. QED
  BY <1>1, <1>2 DEF Behind

(* Past a cell. *)
LEMMA PastIs ==
    ASSUME NEW p, NEW i
    PROVE  /\ Op(p, i) = "return" => Structured!Past(p, i) = Done
           /\ Op(p, i) \in {"break", "continue"} =>
                Structured!Past(p, i) = Exit(p, Op(p, i), Structured!Loop(p, i))
           /\ Op(p, i) \notin {"return", "break", "continue"} =>
                Structured!Past(p, i) = IF Structured!HasElse(p, i)
                                        THEN Structured!First(p, End(p, i))
                                        ELSE Structured!After(p)[i]
BY SameStructure DEF Structured!Past, Exit, Done

(* The ways on from a cell. *)
LEMMA WaysAre ==
    ASSUME NEW p, NEW i
    PROVE  /\ Op(p, i) \in {"if", "while"} => Structured!Ways(p, i) = {"body", "past"}
           /\ Op(p, i) = "scope" => Structured!Ways(p, i) = {"body"}
           /\ Op(p, i) \notin {"if", "while", "scope"} => Structured!Ways(p, i) = {"past"}
BY SameStructure DEF Structured!Ways

(* Where a state_t is led to. *)
LEMMA GoalIs ==
    ASSUME NEW p, NEW f
    PROVE  /\ f.way = "body" => Goal(p, f) = Structured!First(p, f.at)
           /\ f.way # "body" => Goal(p, f) = Structured!Past(p, f.at)
           /\ \A h : h.at = f.at /\ h.way = f.way => Goal(p, h) = Goal(p, f)
<1> DEFINE c == [at |-> f.at, way |-> f.way]
<1>1. c.at = f.at /\ c.way = f.way
  OBVIOUS
<1>2. Goal(p, f) = Structured!Successor(p, c)
  BY DEF Goal
<1> HIDE DEF c
<1>3. Structured!Successor(p, c) = IF c.way = "body" THEN Structured!First(p, c.at)
                                   ELSE Structured!Past(p, c.at)
  BY DEF Structured!Successor
<1>4. \A h : h.at = f.at /\ h.way = f.way => Goal(p, h) = Goal(p, f)
  BY DEF Goal
<1>5. QED
  BY <1>1, <1>2, <1>3, <1>4

(* A list whose term at cell i is over is led to what is behind it.        *)
LEMMA LedBehind ==
    ASSUME NEW p, WellFormed(p), NEW i \in 1..Len(p), NEW f,
           Led(p, f, Structured!After(p)[i], Structured!Loop(p, i)),
           f.intr = "none" => f.aml = Behind(p, i), f.way # "operand",
           NEW r, r.fn = "termlist", r.cell = Parent(p, i)
    PROVE  Leads(p, f, r)
<1>1. Structured!After(p)[i] = IF Behind(p, i) < End(p, Parent(p, i)) THEN Behind(p, i)
                               ELSE Leaves(p, Parent(p, i))
  BY AfterIs
<1>2. Structured!Loop(p, i) = LoopIn(p, Parent(p, i))
  BY LoopOfTerm
<1>3. Led(p, f, IF f.aml < End(p, r.cell) THEN f.aml ELSE Leaves(p, r.cell),
          LoopIn(p, r.cell))
  BY <1>1, <1>2 DEF Led
<1>4. QED
  BY <1>3 DEF Leads

(* A list that begins is led to its first term. *)
LEMMA LedFirst ==
    ASSUME NEW p, WellFormed(p), NEW b \in 0..Len(p), NEW f,
           Goal(p, f) = Structured!First(p, b), f.way # "operand",
           f.aml = b + 1, f.intr = "none",
           NEW r, r.fn = "termlist", r.cell = b
    PROVE  Leads(p, f, r)
<1>1. Structured!First(p, b) = IF b + 1 < End(p, b) THEN b + 1 ELSE Leaves(p, b)
  BY FirstIs
<1>2. QED
  BY <1>1 DEF Leads, Led

-----------------------------------------------------------------------------
(* Steps. *)

(* What a change of the running state_t is for its call. *)
Moves(p, h, f) ==
    \/ f.at = h.at /\ f.way = h.way
    \/ /\ h.way # "operand" /\ f.at = Goal(p, h) /\ f.at # Done
       /\ f.way \in {"operand"} \cup Structured!Ways(p, f.at)
    \/ h.way = "operand" /\ f.at = h.at /\ f.way \in Structured!Ways(p, f.at)

(* A step of Control is a step of Flow or none, and it keeps LeadsInv.     *)
Follows == (Structured!Next \/ UNCHANGED Structured!vars) /\ LeadsInv'

(* The calls of Flow. *)
LEMMA CallsAre ==
    ASSUME Inv, stack # <<>>
    PROVE  /\ Len(Calls) = Depth /\ Calls # <<>> /\ DOMAIN Calls = 1..Depth
           /\ Structured!Top = [at |-> State.at, way |-> State.way]
           /\ Structured!Successor(prog, Structured!Top) = Goal(prog, State)
           /\ \A d \in 1..Depth : Calls[d] = [at |-> frames[d].at, way |-> frames[d].way]
<1>1. frames \in Seq(StateT) /\ Depth \in Nat \ {0} /\ DOMAIN frames = 1..Depth
  BY OnTop DEF Depth
<1>2. Calls = [d \in 1..Depth |-> [at |-> frames[d].at, way |-> frames[d].way]]
  BY <1>1 DEF Calls
<1>3. Len(Calls) = Depth /\ DOMAIN Calls = 1..Depth
  BY <1>1, <1>2
<1>4. Calls # <<>> /\ Depth \in 1..Depth
  BY <1>1, <1>3
<1>5. Structured!Top = [at |-> State.at, way |-> State.way]
  BY <1>2, <1>3, <1>4 DEF Structured!Top, State
<1>6. QED
  BY <1>2, <1>3, <1>4, <1>5 DEF Goal

(* A change of the running state_t that Moves allows. *)
LEMMA Does ==
    ASSUME Inv, stack # <<>>, prog' = prog, NEW f \in StateT, Set(f),
           Moves(prog, State, f), NEW r, stack' # <<>> => Act' = r, Leads(prog, f, r)
    PROVE  Follows
<1>1. frames \in Seq(StateT) /\ Depth \in Nat \ {0} /\ DOMAIN frames = 1..Depth
      /\ Depth = Len(frames) /\ Depth \in 1..Len(frames)
  BY OnTop DEF Depth
<1>2. /\ frames' \in Seq(StateT) /\ Len(frames') = Len(frames)
      /\ \A d \in 1..Len(frames) : frames'[d] = IF d = Depth THEN f ELSE frames[d]
  BY <1>1, ExceptSeq DEF Set
<1>3. State' = f
  <2>1. frames'[Len(frames')] = f
    BY <1>1, <1>2
  <2>2. QED
    BY <2>1 DEF State, Depth
<1>4. LeadsInv'
  BY <1>3 DEF LeadsInv
<1> DEFINE c == [at |-> f.at, way |-> f.way]
<1>5. Calls' = [Calls EXCEPT ![Len(Calls)] = c]
  <2>1. Calls = [d \in 1..Depth |-> [at |-> frames[d].at, way |-> frames[d].way]]
    BY <1>1 DEF Calls
  <2>2. Calls' = [d \in 1..Depth |-> [at |-> frames'[d].at, way |-> frames'[d].way]]
    <3>1. DOMAIN frames' = 1..Depth
      <4> DEFINE g == frames'
      <4>1. g \in Seq(StateT) /\ Len(g) = Len(frames)
        BY <1>2
      <4> HIDE DEF g
      <4>2. DOMAIN g = 1..Len(g)
        BY <4>1
      <4>3. DOMAIN g = 1..Depth
        BY <1>1, <4>1, <4>2
      <4>4. QED
        BY <4>3 DEF g
    <3>2. QED
      BY <3>1 DEF Calls
  <2>3. Len(Calls) = Depth
    BY CallsAre
  <2>4. \A d \in 1..Depth : Calls'[d] = IF d = Depth THEN c ELSE Calls[d]
    BY <1>1, <1>2, <2>1, <2>2
  <2> HIDE DEF c
  <2>5. Calls' = [d \in 1..Depth |-> IF d = Depth THEN c ELSE Calls[d]]
    BY <2>2, <2>4
  <2>6. [Calls EXCEPT ![Depth] = c] = [d \in 1..Depth |-> IF d = Depth THEN c ELSE Calls[d]]
    BY <2>1
  <2>7. QED
    BY <2>3, <2>5, <2>6
<1>6. Structured!Goes(c)
  BY <1>5 DEF Structured!Goes
<1>7. CASE f.at = State.at /\ f.way = State.way
  <2>1. c = Structured!Top /\ Len(Calls) = Depth /\ DOMAIN Calls = 1..Depth
    BY <1>7, CallsAre
  <2>2. c = Calls[Len(Calls)]
    BY <2>1 DEF Structured!Top
  <2> HIDE DEF c
  <2>3. Calls' = Calls
    <3>1. Calls = [d \in 1..Depth |-> Calls[d]]
      BY <1>1 DEF Calls
    <3> DEFINE C == Calls
    <3> HIDE DEF C
    <3>2. [C EXCEPT ![Len(C)] = C[Len(C)]] = C
      BY <3>1 DEF C
    <3>3. QED
      BY <1>5, <2>2, <3>2 DEF C
  <2>4. UNCHANGED Structured!vars
    BY <2>3 DEF Structured!vars
  <2>5. QED
    BY <1>4, <2>4 DEF Follows
<1>8. CASE /\ State.way # "operand" /\ f.at = Goal(prog, State) /\ f.at # Done
           /\ f.way \in {"operand"} \cup Structured!Ways(prog, f.at)
  <2>1. /\ Calls # <<>> /\ Structured!Top.way # "operand"
        /\ Structured!Successor(prog, Structured!Top) = f.at
    BY <1>8, CallsAre
  <2>2. Structured!Goes([at |-> Structured!Successor(prog, Structured!Top), way |-> f.way])
    BY <1>6, <2>1
  <2>3. Structured!Step
    BY <1>8, <2>1, <2>2 DEF Structured!Step, Done
  <2>4. QED
    BY <1>4, <2>3 DEF Follows, Structured!Next
<1>9. CASE /\ State.way = "operand" /\ f.at = State.at
           /\ f.way \in Structured!Ways(prog, f.at)
  <2>1. /\ Calls # <<>> /\ Structured!Top.way = "operand" /\ Structured!Top.at = f.at
        /\ Structured!Top = [at |-> State.at, way |-> State.way]
    BY <1>9, CallsAre
  <2>2. [Structured!Top EXCEPT !.way = f.way] = c
    BY <1>9, <2>1
  <2>3. Structured!Decide
    <3> HIDE DEF c
    <3>1. QED
      BY <1>6, <1>9, <2>1, <2>2 DEF Structured!Decide
  <2>4. QED
    BY <1>4, <2>3 DEF Follows, Structured!Next
<1>10. QED
  BY <1>7, <1>8, <1>9 DEF Moves

(* The record on top after a step. *)
LEMMA PoppedTo ==
    ASSUME Inv, stack # <<>>, NEW n, n \in 1..Len(stack), stack' = SubSeq(stack, 1, n)
    PROVE  Act' = stack[n]
<1>1. stack \in Seq(Record)
  BY OnTop
<1>2. n \in 0..Len(stack) /\ <<>> \in Seq(Record) /\ Len(<<>>) = 0 /\ n \in 1..n
  OBVIOUS
<1>3. LET t == SubSeq(stack, 1, n) \o <<>>
      IN  /\ t \in Seq(Record) /\ Len(t) = n + Len(<<>>)
          /\ \A k \in 1..n : t[k] = stack[k]
          /\ t = SubSeq(stack, 1, n)
  BY <1>1, <1>2, Stacked
<1>4. Len(stack') = n /\ \A k \in 1..n : stack'[k] = stack[k]
  BY <1>2, <1>3
<1>5. QED
  BY <1>2, <1>4 DEF Act

(* The top of the stack after records have been put on the first n. *)
LEMMA PushedTo ==
    ASSUME Inv, stack # <<>>, NEW n, n \in 0..Len(stack),
           NEW new \in Seq(Record), new # <<>>, stack' = SubSeq(stack, 1, n) \o new
    PROVE  Act' = new[Len(new)]
<1>1. stack \in Seq(Record)
  BY OnTop
<1>2. /\ Len(SubSeq(stack, 1, n) \o new) = n + Len(new)
      /\ \A k \in 1..Len(new) : (SubSeq(stack, 1, n) \o new)[n + k] = new[k]
  BY <1>1, Stacked
<1>3. Len(new) \in 1..Len(new)
  BY EmptySeq
<1>4. stack'[Len(stack')] = new[Len(new)]
  BY <1>2, <1>3
<1>5. QED
  BY <1>4 DEF Act

(* The top of the stack after a list has called a handler, or none. *)
LEMMA EnteredTo ==
    ASSUME Inv, Continues, NEW calls \in Seq(Record), Enter(calls)
    PROVE  Act' = IF calls = <<>> THEN List(Act.cell) ELSE calls[Len(calls)]
<1> DEFINE a == List(Act.cell)
           n == Len(stack) - 1
           u == SubSeq(stack, 1, n) \o <<a>>
<1>1. stack # <<>> /\ Act.fn = "termlist" /\ Act \in Record /\ stack \in Seq(Record)
      /\ Len(stack) \in Nat \ {0}
  BY OnTop DEF Continues, Running
<1>2. a = [Act EXCEPT !.first = FALSE] /\ a \in Record
  BY <1>1, Fields DEF List, Record
<1> HIDE DEF a
<1>3. stack' = u \o calls
  BY <1>2 DEF Enter, Under
<1>4. <<a>> \in Seq(Record) /\ Len(<<a>>) = 1 /\ <<a>>[1] = a /\ n \in 0..Len(stack) /\ n \in Nat
  BY <1>1, <1>2
<1> HIDE DEF n
<1>5. u \in Seq(Record) /\ Len(u) = n + 1 /\ u[n + 1] = a
  <2> DEFINE w == <<a>>
             v == SubSeq(stack, 1, n) \o w
  <2>1. w \in Seq(Record) /\ Len(w) = 1 /\ w[1] = a
    BY <1>4
  <2>2. n \in 1..Len(stack)
    BY <1>1, Below DEF IsBase, n
  <2> HIDE DEF w
  <2>3. Exchanged(stack, n, w, v)
    BY <1>1, <2>1, <2>2, Exchange
  <2> HIDE DEF v
  <2>4. v \in Seq(Record) /\ Len(v) = n + 1
    BY <2>1, <2>3 DEF Exchanged
  <2>5. v[n + 1] = a
    BY <2>1, <2>3 DEF Exchanged
  <2>6. QED
    BY <2>4, <2>5 DEF u, v, w
<1> HIDE DEF u
<1>6. CASE calls = <<>>
  <2>1. u \o calls = u
    BY <1>5, <1>6, ConcatEmptySeq
  <2>2. QED
    BY <1>3, <1>5, <1>6, <2>1 DEF Act, a
<1>7. CASE calls # <<>>
  <2>1. /\ Len(u \o calls) = Len(u) + Len(calls)
        /\ \A k \in 1..(Len(u) + Len(calls)) :
              (u \o calls)[k] = IF k =< Len(u) THEN u[k] ELSE calls[k - Len(u)]
    BY <1>5, ConcatProperties
  <2>2. Len(calls) \in Nat \ {0}
    BY <1>7, EmptySeq
  <2> DEFINE m == Len(u) + Len(calls)
  <2>3. m \in 1..m /\ ~(m =< Len(u)) /\ m - Len(u) = Len(calls)
    BY <1>4, <1>5, <2>2
  <2> HIDE DEF m
  <2>4. (u \o calls)[m] = calls[Len(calls)]
    BY <2>1, <2>3 DEF m
  <2>5. QED
    BY <1>3, <1>7, <2>1, <2>4 DEF Act, m
<1>8. QED
  BY <1>6, <1>7

(* A list that fetches a term is led to it. *)
LEMMA Fetching ==
    ASSUME Inv, LeadsInv, \A q \in Programs : Separated(q), Continues
    PROVE  State.way # "operand" /\ Goal(prog, State) = aml /\ aml # Done
<1>1. /\ aml \in 1..Len(prog) /\ intr = "none" /\ WellFormed(prog)
  BY OwnTerm
<1>2. stack # <<>> /\ Act.fn = "termlist" /\ aml < End(prog, Act.cell)
  BY DEF Continues, Running
<1>3. Leads(prog, State, Act)
  BY <1>2 DEF LeadsInv
<1>4. aml # Done
  BY <1>1 DEF Done, Structured!Done
<1>5. QED
  BY <1>1, <1>2, <1>3, <1>4 DEF Leads, Led, intr, aml

(* A term whose operands come first. *)
LEMMA OperandFollows ==
    ASSUME Inv, LeadsInv, \A q \in Programs : Separated(q),
           Statement \/ DefReturn \/ DefIfElse \/ DefWhile
    PROVE  Follows
<1>1. Continues /\ prog' = prog /\ aml \in Nat
  <2>1. Continues /\ prog' = prog
    BY DEF Statement, DefReturn, DefIfElse, DefWhile, Fetches
  <2>2. aml \in 1..Len(prog) /\ WellFormed(prog)
    BY <2>1, OwnTerm
  <2>3. QED
    BY <2>1, <2>2, Cells
<1>2. stack # <<>> /\ State \in StateT
  BY <1>1, OnTop DEF Continues, Running
<1>3. PICK f \in StateT : Set(f) /\ f.at = aml /\ f.way = "operand"
  <2> DEFINE g == Fetched("operand")
             h == [g EXCEPT !.intr = "return"]
  <2>1. g \in StateT /\ g.at = aml /\ g.way = "operand"
    BY <1>2, FetchedIs
  <2>2. Set(g) \/ Set(h)
    BY DEF Statement, DefReturn, DefIfElse, DefWhile
  <2> HIDE DEF g
  <2>3. h \in StateT
    BY <2>1 DEF StateT, Intr
  <2>4. h.at = aml /\ h.way = "operand"
    BY <2>1 DEF StateT
  <2>5. QED
    BY <2>1, <2>2, <2>3, <2>4
<1>4. Moves(prog, State, f)
  BY <1>1, <1>3, Fetching DEF Moves
<1>5. PICK calls \in Seq(Record) :
         Enter(calls) /\ calls # <<>> /\ calls[Len(calls)] = Operand(aml)
  <2> DEFINE q == Operand(aml)
             i == IfElse(aml, FALSE)
             w == While(aml)
  <2>1. q \in Record /\ i \in Record /\ w \in Record
    BY <1>1, Records
  <2>2. Enter(<<q>>) \/ Enter(<<i, q>>) \/ Enter(<<w, q>>)
    BY DEF Statement, DefReturn, DefIfElse, DefWhile
  <2> HIDE DEF q, i, w
  <2>3. \A c \in Record : /\ <<c, q>> \in Seq(Record) /\ <<c, q>> # <<>>
                          /\ <<c, q>>[Len(<<c, q>>)] = q
    BY <2>1
  <2>4. <<q>> \in Seq(Record) /\ <<q>> # <<>> /\ <<q>>[Len(<<q>>)] = q
    BY <2>1
  <2>5. QED
    BY <2>1, <2>2, <2>3, <2>4 DEF q
<1>6. Act' = Operand(aml)
  BY <1>1, <1>5, EnteredTo
<1>7. Leads(prog, f, Operand(aml))
  <2> DEFINE q == Operand(aml)
  <2>1. q.fn = "operand"
    BY DEF Operand
  <2> HIDE DEF q
  <2>2. Leads(prog, f, q)
    BY <2>1 DEF Leads
  <2>3. QED
    BY <2>2 DEF q
<1>8. QED
  BY <1>1, <1>2, <1>3, <1>4, <1>6, <1>7, Does

(* A handler that takes its term. *)
LEMMA TermFollows ==
    ASSUME Inv, LeadsInv, \A q \in Programs : Separated(q), Continues, prog' = prog,
           NEW f \in StateT, Set(f), f.at = aml, f.way \in Structured!Ways(prog, aml),
           NEW calls \in Seq(Record), Enter(calls),
           Leads(prog, f, IF calls = <<>> THEN List(Act.cell) ELSE calls[Len(calls)])
    PROVE  Follows
<1>1. Moves(prog, State, f)
  BY Fetching DEF Moves
<1>2. Act' = IF calls = <<>> THEN List(Act.cell) ELSE calls[Len(calls)]
  BY EnteredTo
<1>3. stack # <<>>
  BY DEF Continues, Running
<1>4. QED
  BY <1>1, <1>2, <1>3, Does

(* Break and Continue. *)
LEMMA DefBreakFollows ==
    ASSUME Inv, LeadsInv, \A q \in Programs : Separated(q), DefBreak
    PROVE  Follows
<1>1. PICK op \in {"break", "continue"} :
        Fetches(op) /\ Set([Fetched("past") EXCEPT !.intr = op])
  BY DEF DefBreak
<1>2. Continues /\ prog' = prog /\ Enter(<<>>)
  BY <1>1 DEF DefBreak, Fetches
<1>3. /\ aml \in 1..Len(prog) /\ Op(prog, aml) = op /\ WellFormed(prog)
      /\ Parent(prog, aml) = Act.cell
  BY <1>1, <1>2, OwnTerm DEF Fetches
<1> DEFINE g == Fetched("past")
           f == [g EXCEPT !.intr = op]
<1>4. g \in StateT /\ g.at = aml /\ g.way = "past"
  BY <1>2, OnTop, FetchedIs DEF Continues, Running
<1>5. Set(f)
  BY <1>1
<1> HIDE DEF g
<1>6. f \in StateT
  BY <1>1, <1>4 DEF StateT, Intr
<1>7. f.at = aml /\ f.way = "past" /\ f.intr = op
  BY <1>4 DEF StateT
<1> HIDE DEF f
<1>8. Goal(prog, f) = Exit(prog, op, LoopIn(prog, Act.cell))
  BY <1>3, <1>7, GoalIs, PastIs, LoopOfTerm
<1>9. Leads(prog, f, List(Act.cell))
  <2> DEFINE r == List(Act.cell)
  <2>1. r.fn = "termlist" /\ r.cell = Act.cell
    BY DEF List
  <2> HIDE DEF r
  <2>2. Led(prog, f, IF f.aml < End(prog, r.cell) THEN f.aml ELSE Leaves(prog, r.cell),
            LoopIn(prog, r.cell))
    BY <1>1, <1>7, <1>8, <2>1 DEF Led
  <2>3. Leads(prog, f, r)
    BY <1>7, <2>1, <2>2 DEF Leads
  <2>4. QED
    BY <2>3 DEF r
<1>10. f.way \in Structured!Ways(prog, aml)
  BY <1>3, <1>7, WaysAre
<1>11. <<>> \in Seq(Record)
  BY EmptySeq
<1>12. QED
  BY <1>2, <1>5, <1>6, <1>7, <1>9, <1>10, <1>11, TermFollows

(* A Method, whose terms are skipped. *)
LEMMA DefMethodFollows ==
    ASSUME Inv, LeadsInv, \A q \in Programs : Separated(q), DefMethod
    PROVE  Follows
<1>1. Continues /\ prog' = prog /\ Enter(<<>>)
  BY DEF DefMethod, Fetches
<1>2. /\ aml \in 1..Len(prog) /\ Op(prog, aml) = "method" /\ WellFormed(prog)
      /\ Parent(prog, aml) = Act.cell /\ Separated(prog) /\ intr = "none"
  BY <1>1, OwnTerm DEF DefMethod, Fetches
<1>3. PICK f \in StateT : /\ Set(f) /\ f.at = aml /\ f.way = "past" /\ f.intr = "none"
                          /\ f.aml = End(prog, aml)
  <2> DEFINE g == Fetched("past")
             e == End(prog, aml)
             n == {aml} \ Callable
             h == [g EXCEPT !.aml = e, !.methods = @ \cup n]
  <2>1. g \in StateT /\ g.at = aml /\ g.way = "past" /\ g.intr = "none"
    BY <1>1, <1>2, OnTop, FetchedIs DEF Continues, Running
  <2>2. Set(h)
    BY DEF DefMethod
  <2>3. e \in Nat /\ n \in SUBSET Nat
    BY <1>2, Cells
  <2> HIDE DEF g, e, n
  <2>4. h \in StateT
    BY <2>1, <2>3 DEF StateT
  <2>5. h.at = aml /\ h.way = "past" /\ h.intr = "none" /\ h.aml = e
    BY <2>1 DEF StateT
  <2> HIDE DEF h
  <2>6. QED
    BY <2>2, <2>4, <2>5 DEF e
<1>4. Behind(prog, aml) = End(prog, aml) /\ ~Structured!HasElse(prog, aml)
  BY <1>2, ElseBehind
<1>5. Goal(prog, f) = Structured!After(prog)[aml]
  BY <1>2, <1>3, <1>4, GoalIs, PastIs
<1>6. Led(prog, f, Structured!After(prog)[aml], Structured!Loop(prog, aml))
  BY <1>3, <1>5 DEF Led
<1>7. Leads(prog, f, List(Act.cell))
  <2> DEFINE r == List(Act.cell)
  <2>1. r.fn = "termlist" /\ r.cell = Parent(prog, aml)
    BY <1>2 DEF List
  <2> HIDE DEF r
  <2>2. Leads(prog, f, r)
    BY <1>2, <1>3, <1>4, <1>6, <2>1, LedBehind
  <2>3. QED
    BY <2>2 DEF r
<1>8. f.way \in Structured!Ways(prog, aml) /\ <<>> \in Seq(Record)
  BY <1>2, <1>3, WaysAre, EmptySeq
<1>9. QED
  BY <1>1, <1>3, <1>7, <1>8, TermFollows

(* A Scope or Device. *)
LEMMA DefScopeFollows ==
    ASSUME Inv, LeadsInv, \A q \in Programs : Separated(q), DefScope
    PROVE  Follows
<1> DEFINE s == Scope(aml, State.scope)
           t == TermList(aml)
<1>1. Continues /\ prog' = prog /\ Enter(<<s, t>>)
  BY DEF DefScope, Fetches
<1>2. /\ aml \in 1..Len(prog) /\ Op(prog, aml) = "scope" /\ WellFormed(prog)
      /\ intr = "none"
  BY <1>1, OwnTerm DEF DefScope, Fetches
<1>3. State \in StateT /\ Len(prog) \in Nat /\ aml \in 0..Len(prog) /\ aml \in Nat
  BY <1>1, <1>2, OnTop, Cells DEF Continues, Running
<1>4. PICK f \in StateT : /\ Set(f) /\ f.at = aml /\ f.way = "body" /\ f.intr = "none"
                          /\ f.aml = aml + 1
  <2> DEFINE g == Fetched("body")
             h == [g EXCEPT !.scope = aml]
  <2>1. /\ g \in StateT /\ g.at = aml /\ g.way = "body" /\ g.intr = "none"
        /\ g.aml = aml + 1
    BY <1>2, <1>3, FetchedIs
  <2>2. Set(h)
    BY DEF DefScope
  <2> HIDE DEF g
  <2>3. h \in StateT
    BY <1>3, <2>1 DEF StateT
  <2>4. h.at = aml /\ h.way = "body" /\ h.intr = "none" /\ h.aml = aml + 1
    BY <2>1 DEF StateT
  <2> HIDE DEF h
  <2>5. QED
    BY <2>2, <2>3, <2>4
<1>5. s \in Record /\ t \in Record
  BY <1>3, Records DEF StateT
<1>6. t.fn = "termlist" /\ t.cell = aml
  BY DEF TermList
<1> HIDE DEF s, t
<1>7. Leads(prog, f, t)
  BY <1>2, <1>3, <1>4, <1>6, GoalIs, LedFirst
<1>8. f.way \in Structured!Ways(prog, aml)
  BY <1>2, <1>4, WaysAre
<1>9. <<s, t>> \in Seq(Record) /\ <<s, t>> # <<>> /\ <<s, t>>[Len(<<s, t>>)] = t
  BY <1>5
<1>10. QED
  BY <1>1, <1>4, <1>7, <1>8, <1>9, TermFollows

-----------------------------------------------------------------------------
(* Operands that have been read. *)

(* Back to the record under Act. *)
LEMMA PopFollows ==
    ASSUME Inv, LeadsInv, stack # <<>>, ~IsBase(Act), prog' = prog, stack' = Under,
           NEW f \in StateT, Set(f), Moves(prog, State, f),
           Leads(prog, f, stack[Len(stack) - 1])
    PROVE  Follows
<1> DEFINE n == Len(stack) - 1
<1>1. n \in 1..Len(stack)
  BY Below
<1>2. stack' = SubSeq(stack, 1, n)
  BY DEF Under
<1> HIDE DEF n
<1>3. Act' = stack[n]
  BY <1>1, <1>2, PoppedTo
<1>4. QED
  BY <1>3, Does DEF n

(* The fields of a state_t after an assignment to way, *)
LEMMA WayAssigned ==
    ASSUME NEW h \in StateT, NEW w \in {"operand", "body", "past"},
           NEW f, f = [h EXCEPT !.way = w]
    PROVE  f \in StateT /\ f.at = h.at /\ f.way = w /\ f.intr = h.intr
<1>1. f \in StateT
  BY DEF StateT
<1>2. f.at = h.at /\ f.way = w /\ f.intr = h.intr
  BY DEF StateT
<1>3. QED
  BY <1>1, <1>2

(* and to aml and way. *)
Jumps(h, a, w, f) == f = [h EXCEPT !.aml = a, !.way = w]
(* Only these two fields change. *)
LEMMA BothAssigned ==
    ASSUME NEW h \in StateT, NEW a \in Nat, NEW w \in {"operand", "body", "past"},
           NEW f, Jumps(h, a, w, f)
    PROVE  f \in StateT /\ f.at = h.at /\ f.way = w /\ f.intr = h.intr /\ f.aml = a
<1>1. f \in StateT
  BY DEF StateT, Jumps
<1>2. f.at = h.at /\ f.way = w /\ f.intr = h.intr /\ f.aml = a
  BY DEF StateT, Jumps
<1>3. QED
  BY <1>1, <1>2

(* The state_t decides for a way. *)
LEMMA Decided ==
    ASSUME Inv, Running("operand"), NEW f, f.at = State.at,
           f.way \in Structured!Ways(prog, Act.cell)
    PROVE  Moves(prog, State, f) /\ f.at = Act.cell
<1>1. AtOperand(prog, State, Act.cell)
  BY UnderOperand
<1>2. State.at = Act.cell /\ State.way = "operand"
  BY <1>1 DEF AtOperand
<1>3. QED
  BY <1>2 DEF Moves

(* A statement is over. *)
LEMMA EvaluatedFollows ==
    ASSUME Inv, LeadsInv, \A q \in Programs : Separated(q), Evaluated
    PROVE  Follows
<1> DEFINE i == Act.cell
           f == [State EXCEPT !.way = "past"]
           r == stack[Len(stack) - 1]
<1>1. Running("operand") /\ prog' = prog /\ stack' = Under /\ Set(f)
  BY DEF Evaluated
<1>2. /\ ~IsBase(Act) /\ stack # <<>> /\ i \in 1..Len(prog) /\ Op(prog, i) = prog[i].op
      /\ AtOperand(prog, State, i) /\ State \in StateT /\ WellFormed(prog)
      /\ Fits(prog, r, Act) /\ (Op(prog, i) \in {"stmt", "return"} => r.fn = "termlist")
  BY <1>1, UnderOperand
<1>3. Op(prog, i) \in {"stmt", "return"} /\ r.fn = "termlist" /\ Separated(prog)
  BY <1>2 DEF Evaluated, Inv, TypeInv
<1>4. r.cell = Parent(prog, i)
  BY <1>2, <1>3 DEF Fits
<1>5. State.aml = i + 1 /\ State.intr = IF Op(prog, i) = "return" THEN "return" ELSE "none"
  BY <1>2 DEF AtOperand
<1>6. f \in StateT /\ f.at = State.at /\ f.way = "past" /\ f.intr = State.intr
  BY <1>2, WayAssigned
<1>7. f.aml = State.aml
  BY <1>2 DEF StateT
<1> HIDE DEF f, i, r
<1>8. f.way \in Structured!Ways(prog, i)
  BY <1>3, <1>6, WaysAre
<1>9. Moves(prog, State, f) /\ f.at = i
  BY <1>1, <1>6, <1>8, Decided DEF i
<1>10. ~Structured!HasElse(prog, i) /\ Behind(prog, i) = End(prog, i) /\ End(prog, i) = i + 1
  BY <1>2, <1>3, ElseBehind, Cells DEF PlainOp
<1>11. Goal(prog, f) = IF Op(prog, i) = "return" THEN Done ELSE Structured!After(prog)[i]
  BY <1>3, <1>6, <1>9, <1>10, GoalIs, PastIs
<1>12. Led(prog, f, Structured!After(prog)[i], Structured!Loop(prog, i))
  BY <1>5, <1>6, <1>11 DEF Led, Exit
<1>13. Leads(prog, f, r)
  BY <1>2, <1>3, <1>4, <1>5, <1>6, <1>7, <1>10, <1>12, LedBehind
<1>14. QED
  BY <1>1, <1>2, <1>6, <1>9, <1>13, PopFollows DEF r

(* The condition of an If is false. *)
LEMMA IfFalseFollows ==
    ASSUME Inv, LeadsInv, IfFalse
    PROVE  Follows
<1> DEFINE i == Act.cell
           e == End(prog, i)
           f == [State EXCEPT !.aml = e, !.way = "past"]
           r == stack[Len(stack) - 1]
<1>1. Running("operand") /\ prog' = prog /\ stack' = Under /\ Set(f) /\ prog[i].op = "if"
  BY DEF IfFalse
<1>2. /\ ~IsBase(Act) /\ stack # <<>> /\ i \in 1..Len(prog) /\ Op(prog, i) = prog[i].op
      /\ State \in StateT /\ WellFormed(prog)
      /\ (Op(prog, i) = "if" => r.fn = "if_else" /\ r.cell = i /\ ~r.cond)
  BY <1>1, UnderOperand
<1>3. Op(prog, i) = "if" /\ r.fn = "if_else" /\ r.cell = i /\ ~r.cond
  BY <1>1, <1>2
<1>4. e \in Nat
  BY <1>2, Cells
<1> HIDE DEF e
<1>5. f \in StateT /\ f.at = State.at /\ f.way = "past"
  <2> DEFINE h == State
             w == "past"
  <2>1. h \in StateT /\ e \in Nat /\ w \in {"operand", "body", "past"}
    BY <1>2, <1>4
  <2>2. Jumps(h, e, w, f)
    BY DEF Jumps
  <2> HIDE DEF f, h, w
  <2>3. f \in StateT /\ f.at = h.at /\ f.way = w
    BY <2>1, <2>2, BothAssigned
  <2>4. QED
    BY <2>3 DEF h, w
<1> HIDE DEF f, i, r
<1>6. f.way \in Structured!Ways(prog, i)
  BY <1>3, <1>5, WaysAre
<1>7. Moves(prog, State, f) /\ f.at = i
  BY <1>1, <1>5, <1>6, Decided DEF i
<1>8. Goal(prog, f) = Structured!Past(prog, i)
  BY <1>5, <1>7, GoalIs
<1>9. Leads(prog, f, r)
  BY <1>3, <1>5, <1>8 DEF Leads
<1>10. QED
  BY <1>1, <1>2, <1>5, <1>7, <1>9, PopFollows DEF r

(* The condition of an If or a While is true. *)
LEMMA BodyFollows ==
    ASSUME Inv, LeadsInv, IfTrue \/ WhileTrue
    PROVE  Follows
<1> DEFINE i == Act.cell
           f == [State EXCEPT !.way = "body"]
           t == TermList(i)
           c == IfElse(i, TRUE)
<1>1. Running("operand") /\ prog' = prog /\ Set(f) /\ prog[i].op \in {"if", "while"}
  BY DEF IfTrue, WhileTrue
<1>2. /\ ~IsBase(Act) /\ stack # <<>> /\ i \in 1..Len(prog) /\ Op(prog, i) = prog[i].op
      /\ AtOperand(prog, State, i) /\ State \in StateT /\ WellFormed(prog)
  BY <1>1, UnderOperand
<1>3. Op(prog, i) \in {"if", "while"} /\ i \in 0..Len(prog) /\ i \in Nat
  BY <1>1, <1>2, Cells
<1>4. State.aml = i + 1 /\ State.intr = "none"
  BY <1>2, <1>3 DEF AtOperand
<1>5. f \in StateT /\ f.at = State.at /\ f.way = "body" /\ f.intr = State.intr
  BY <1>2, WayAssigned
<1>6. f.aml = State.aml
  BY <1>2 DEF StateT
<1>7. t \in Record /\ c \in Record /\ t.fn = "termlist" /\ t.cell = i
  BY <1>3, Records DEF TermList
<1>8. PICK n \in 0..Len(stack), new \in Seq(Record) :
        /\ stack' = SubSeq(stack, 1, n) \o new
        /\ new # <<>> /\ new[Len(new)] = t
  <2>1. Len(stack) - 1 \in 1..Len(stack)
    BY <1>2, Below
  <2>2. CASE IfTrue
    <3>1. Len(stack) - 2 \in 1..Len(stack)
      BY <1>1, <1>2, <1>3, UnderHandler
    <3>2. stack' = SubSeq(stack, 1, Len(stack) - 2) \o <<c, t>>
      BY <2>2 DEF IfTrue
    <3> HIDE DEF c, t, f, i
    <3> DEFINE n == Len(stack) - 2
               new == <<c, t>>
    <3>3. new \in Seq(Record) /\ new # <<>> /\ new[Len(new)] = t /\ n \in 0..Len(stack)
      BY <1>7, <3>1
    <3> HIDE DEF n, new
    <3>4. QED
      BY <3>2, <3>3 DEF n, new
  <2>3. CASE WhileTrue
    <3>1. stack' = SubSeq(stack, 1, Len(stack) - 1) \o <<t>>
      BY <2>3 DEF WhileTrue, Under
    <3> HIDE DEF c, t, f, i
    <3> DEFINE n == Len(stack) - 1
               new == <<t>>
    <3>2. new \in Seq(Record) /\ new # <<>> /\ new[Len(new)] = t /\ n \in 0..Len(stack)
      BY <1>7, <2>1
    <3> HIDE DEF n, new
    <3>3. QED
      BY <3>1, <3>2 DEF n, new
  <2>4. QED
    BY <2>2, <2>3
<1> HIDE DEF f, i, t
<1>9. Act' = t
  BY <1>2, <1>8, PushedTo
<1>10. f.way \in Structured!Ways(prog, i)
  BY <1>3, <1>5, WaysAre
<1>11. Moves(prog, State, f) /\ f.at = i
  BY <1>1, <1>5, <1>10, Decided DEF i
<1>12. Goal(prog, f) = Structured!First(prog, i)
  BY <1>5, <1>11, GoalIs
<1>13. Leads(prog, f, t)
  BY <1>2, <1>3, <1>4, <1>5, <1>6, <1>7, <1>12, LedFirst
<1>14. QED
  BY <1>1, <1>2, <1>5, <1>9, <1>11, <1>13, Does

(* The condition of a While is false. *)
LEMMA WhileFalseFollows ==
    ASSUME Inv, LeadsInv, \A q \in Programs : Separated(q), WhileFalse
    PROVE  Follows
<1> DEFINE i == Act.cell
           e == End(prog, i)
           f == [State EXCEPT !.aml = e, !.way = "past"]
           n == Len(stack) - 2
           l == stack[n]
<1>1. /\ Running("operand") /\ prog' = prog /\ Set(f) /\ prog[i].op = "while"
      /\ stack' = SubSeq(stack, 1, n)
  BY DEF WhileFalse
<1>2. /\ ~IsBase(Act) /\ stack # <<>> /\ i \in 1..Len(prog) /\ Op(prog, i) = prog[i].op
      /\ AtOperand(prog, State, i) /\ State \in StateT /\ WellFormed(prog)
  BY <1>1, UnderOperand
<1>3. Op(prog, i) = "while" /\ Separated(prog)
  BY <1>1, <1>2 DEF Inv, TypeInv
<1>4. n \in 1..Len(stack) /\ l.fn = "termlist" /\ Parent(prog, i) = l.cell
  BY <1>1, <1>3, UnderHandler
<1>5. State.intr = "none"
  BY <1>2, <1>3 DEF AtOperand
<1>6. e \in Nat
  BY <1>2, Cells
<1> HIDE DEF e
<1>7. f \in StateT /\ f.at = State.at /\ f.way = "past" /\ f.intr = "none"
  <2> DEFINE h == State
             w == "past"
  <2>1. h \in StateT /\ e \in Nat /\ w \in {"operand", "body", "past"}
    BY <1>2, <1>6
  <2>2. Jumps(h, e, w, f)
    BY DEF Jumps
  <2> HIDE DEF f, h, w
  <2>3. f \in StateT /\ f.at = h.at /\ f.way = w /\ f.intr = h.intr
    BY <2>1, <2>2, BothAssigned
  <2>4. QED
    BY <1>5, <2>3 DEF h, w, intr
<1>8. f.aml = e
  BY <1>2 DEF StateT
<1> HIDE DEF f, i, n
<1>9. Act' = stack[n]
  BY <1>1, <1>2, <1>4, PoppedTo
<1> HIDE DEF l
<1>10. f.way \in Structured!Ways(prog, i)
  BY <1>3, <1>7, WaysAre
<1>11. Moves(prog, State, f) /\ f.at = i
  BY <1>1, <1>7, <1>10, Decided DEF i
<1>12. ~Structured!HasElse(prog, i) /\ Behind(prog, i) = e
  BY <1>2, <1>3, ElseBehind DEF e
<1>13. Goal(prog, f) = Structured!After(prog)[i]
  BY <1>3, <1>7, <1>11, <1>12, GoalIs, PastIs
<1>14. Led(prog, f, Structured!After(prog)[i], Structured!Loop(prog, i))
  BY <1>7, <1>13 DEF Led
<1>15. Leads(prog, f, l)
  BY <1>2, <1>4, <1>7, <1>8, <1>12, <1>14, LedBehind
<1>16. QED
  BY <1>1, <1>2, <1>7, <1>9, <1>11, <1>15, Does DEF l

-----------------------------------------------------------------------------
(* Blocks that are over. *)

(* The list around the block goes on. *)
LEMMA PassFollows ==
    ASSUME Inv, LeadsInv, \A q \in Programs : Separated(q), stack # <<>>,
           Act.fn \in {"if_else", "else", "while", "scope"},
           prog' = prog, stack' = Under,
           NEW f \in StateT, Set(f), f.at = State.at, f.way = State.way,
           Led(prog, f, Structured!After(prog)[Act.cell], Structured!Loop(prog, Act.cell)),
           f.intr = "none" => f.aml = Behind(prog, Act.cell)
    PROVE  Follows
<1> DEFINE r == stack[Len(stack) - 1]
<1>1. /\ ~IsBase(Act) /\ Act.cell \in 1..Len(prog) /\ WellFormed(prog)
      /\ r.fn = "termlist" /\ r.cell = Parent(prog, Act.cell)
  BY UnderBlock
<1> HIDE DEF r
<1>2. f.way # "operand"
  BY DEF LeadsInv, Leads
<1>3. Leads(prog, f, r)
  BY <1>1, <1>2, LedBehind
<1>4. Moves(prog, State, f)
  BY DEF Moves
<1>5. QED
  BY <1>1, <1>3, <1>4, PopFollows DEF r

(* The end of the handlers of Else and Scope. *)
LEMMA EndElseFollows ==
    ASSUME Inv, LeadsInv, \A q \in Programs : Separated(q), EndElse \/ EndScope
    PROVE  Follows
<1> DEFINE i == Act.cell
           e == End(prog, i)
<1>1. /\ stack # <<>> /\ Act.fn \in {"else", "scope"} /\ prog' = prog /\ stack' = Under
      /\ (Act.fn = "else" /\ EndElse) \/ (Act.fn = "scope" /\ EndScope)
  BY DEF EndElse, EndScope, Running
<1>2. /\ i \in 1..Len(prog) /\ WellFormed(prog) /\ Separated(prog) /\ State \in StateT
      /\ Proper(prog, Act) /\ Rests(prog, State, Act) /\ Act \in Record
  BY <1>1, UnderBlock
<1>3. Op(prog, i) # "if" /\ e \in Nat
  BY <1>1, <1>2, Cells DEF Proper
<1>4. Led(prog, State, Structured!After(prog)[i], Structured!Loop(prog, i))
  BY <1>1 DEF LeadsInv, Leads
<1>5. Behind(prog, i) = e
  BY <1>2, <1>3, ElseBehind
<1>6. PICK f \in StateT : /\ Set(f) /\ f.at = State.at /\ f.way = State.way
                          /\ f.intr = State.intr /\ f.aml = e
  <2> DEFINE h == State
             g == [h EXCEPT !.aml = e]
             s == Act.scope
             k == [h EXCEPT !.scope = s]
  <2>1. h \in StateT
    BY <1>2
  <2>2. CASE EndElse
    <3>1. Set(g)
      BY <2>2 DEF EndElse
    <3> HIDE DEF h, e
    <3>2. g \in StateT
      BY <1>3, <2>1 DEF StateT
    <3>3. g.at = h.at /\ g.way = h.way /\ g.intr = h.intr /\ g.aml = e
      BY <2>1 DEF StateT
    <3> HIDE DEF g
    <3>4. QED
      BY <3>1, <3>2, <3>3 DEF h
  <2>3. CASE EndScope
    <3>1. Set(k) /\ Act.fn = "scope"
      BY <2>3 DEF EndScope, Running
    <3>2. h.aml = e /\ s \in Nat
      BY <1>2, <3>1, Fields DEF Rests
    <3> HIDE DEF h, s
    <3>3. k \in StateT
      BY <2>1, <3>2 DEF StateT
    <3>4. k.at = h.at /\ k.way = h.way /\ k.intr = h.intr /\ k.aml = h.aml
      BY <2>1 DEF StateT
    <3> HIDE DEF k
    <3>5. QED
      BY <3>1, <3>2, <3>3, <3>4 DEF h
  <2>4. QED
    BY <2>2, <2>3
<1>7. Goal(prog, f) = Goal(prog, State)
  BY <1>6, GoalIs
<1>8. Led(prog, f, Structured!After(prog)[i], Structured!Loop(prog, i))
  BY <1>4, <1>6, <1>7 DEF Led
<1>9. QED
  BY <1>1, <1>5, <1>6, <1>8, PassFollows

(* An If whose terms have run, or that has no Else. *)
LEMMA EndIfFollows ==
    ASSUME Inv, LeadsInv, \A q \in Programs : Separated(q), EndIf \/ SkipElse
    PROVE  Follows
<1> DEFINE i == Act.cell
           e == End(prog, i)
<1>1. /\ stack # <<>> /\ Act.fn = "if_else" /\ prog' = prog /\ stack' = Under
      /\ \/ ~IsAt(prog, aml, "else") /\ EndIf
         \/ IsAt(prog, aml, "else") /\ Act.cond /\ SkipElse
  BY DEF EndIf, SkipElse, Running
<1>2. /\ i \in 1..Len(prog) /\ WellFormed(prog) /\ Separated(prog) /\ State \in StateT
      /\ Proper(prog, Act) /\ Rests(prog, State, Act) /\ Act \in Record
  BY <1>1, UnderBlock
<1>3. Op(prog, i) = "if" /\ aml = e /\ e \in Nat /\ (~Act.cond => intr = "none")
  BY <1>1, <1>2, Cells DEF Proper, Rests, aml, intr
<1>4. /\ ~IsAt(prog, e, "else") => Behind(prog, i) = e /\ ~Structured!HasElse(prog, i)
      /\ IsAt(prog, e, "else") => Behind(prog, i) = End(prog, e) /\ End(prog, e) \in Nat
  <2>1. /\ ~IsAt(prog, e, "else") => Behind(prog, i) = e /\ ~Structured!HasElse(prog, i)
        /\ IsAt(prog, e, "else") => Behind(prog, i) = End(prog, e)
    BY <1>2, <1>3, ElseBehind
  <2>2. IsAt(prog, e, "else") => e \in 1..Len(prog)
    BY <1>2, Cells DEF IsAt
  <2>3. IsAt(prog, e, "else") => End(prog, e) \in Nat
    <3> HIDE DEF e
    <3>1. QED
      BY <1>2, <2>2, Cells
  <2>4. QED
    BY <2>1, <2>3
<1>5. Leads(prog, State, Act)
  BY <1>1 DEF LeadsInv
<1>6. Led(prog, State, Structured!After(prog)[i], Structured!Loop(prog, i))
  <2>1. CASE Act.cond
    BY <1>1, <1>5, <2>1 DEF Leads
  <2>2. CASE ~Act.cond
    <3>1. Goal(prog, State) = Structured!Past(prog, i) /\ ~Structured!HasElse(prog, i)
      BY <1>1, <1>3, <1>4, <1>5, <2>2 DEF Leads
    <3>2. Structured!Past(prog, i) = Structured!After(prog)[i]
      BY <1>3, <3>1, PastIs
    <3>3. QED
      BY <1>3, <2>2, <3>1, <3>2 DEF Led, intr
  <2>3. QED
    BY <2>1, <2>2
<1>7. PICK f \in StateT : /\ Set(f) /\ f.at = State.at /\ f.way = State.way
                          /\ f.intr = State.intr /\ f.aml = Behind(prog, i)
  <2> DEFINE h == State
             a == End(prog, aml)
             g == [h EXCEPT !.aml = a]
  <2>1. h \in StateT
    BY <1>2
  <2>2. CASE SkipElse /\ IsAt(prog, aml, "else")
    <3>1. Set(g)
      BY <2>2 DEF SkipElse
    <3>2. a \in Nat /\ a = Behind(prog, i)
      BY <1>3, <1>4, <2>2
    <3> HIDE DEF h, a
    <3>3. g \in StateT
      BY <2>1, <3>2 DEF StateT
    <3>4. g.at = h.at /\ g.way = h.way /\ g.intr = h.intr /\ g.aml = a
      BY <2>1 DEF StateT
    <3> HIDE DEF g
    <3>5. QED
      BY <3>1, <3>2, <3>3, <3>4 DEF h
  <2>3. CASE EndIf /\ ~IsAt(prog, aml, "else")
    <3>1. Set(h)
      <4>1. frames' = frames
        BY <2>3 DEF EndIf
      <4>2. [frames EXCEPT ![Depth] = frames[Depth]] = frames
        BY <1>1, OnTop
      <4>3. QED
        BY <4>1, <4>2 DEF Set, State
    <3>2. h.aml = Behind(prog, i)
      BY <1>3, <1>4, <2>3 DEF aml
    <3> HIDE DEF h
    <3>3. QED
      BY <2>1, <3>1, <3>2 DEF h
  <2>4. QED
    BY <1>1, <2>2, <2>3
<1>8. Goal(prog, f) = Goal(prog, State)
  BY <1>7, GoalIs
<1>9. Led(prog, f, Structured!After(prog)[i], Structured!Loop(prog, i))
  BY <1>6, <1>7, <1>8 DEF Led
<1>10. QED
  BY <1>1, <1>7, <1>9, PassFollows

(* The Else of an If whose condition is false. *)
LEMMA TakeElseFollows ==
    ASSUME Inv, LeadsInv, \A q \in Programs : Separated(q), TakeElse
    PROVE  Follows
<1> DEFINE i == Act.cell
           e == End(prog, i)
           t == TermList(e)
           c == Else(e)
<1>1. /\ stack # <<>> /\ Act.fn = "if_else" /\ prog' = prog /\ ~Act.cond
      /\ IsAt(prog, aml, "else")
  BY DEF TakeElse, Running
<1>2. /\ ~IsBase(Act) /\ i \in 1..Len(prog) /\ WellFormed(prog) /\ Separated(prog)
      /\ State \in StateT /\ Proper(prog, Act) /\ Rests(prog, State, Act)
  BY <1>1, UnderBlock
<1>3. Op(prog, i) = "if" /\ aml = e /\ intr = "none"
  BY <1>1, <1>2 DEF Proper, Rests, aml, intr
<1>4. e \in 1..Len(prog) /\ e \in 0..Len(prog) /\ e \in Nat
  BY <1>1, <1>2, <1>3, Cells DEF IsAt
<1>5. Structured!HasElse(prog, i)
  BY <1>1, <1>2, <1>3, ElseBehind
<1>6. Goal(prog, State) = Structured!Past(prog, i) /\ State.way # "operand"
  BY <1>1 DEF LeadsInv, Leads
<1>7. Structured!Past(prog, i) = Structured!First(prog, e)
  BY <1>3, <1>5, PastIs
<1>8. PICK f \in StateT : /\ Set(f) /\ f.at = State.at /\ f.way = State.way
                          /\ f.intr = State.intr /\ f.aml = e + 1
  <2> DEFINE h == State
             g == [h EXCEPT !.aml = @ + 1]
  <2>1. h \in StateT /\ h.aml = e
    BY <1>2, <1>3 DEF aml
  <2>2. Set(g)
    BY DEF TakeElse
  <2> HIDE DEF h, e
  <2>3. g \in StateT
    BY <1>4, <2>1 DEF StateT
  <2>4. g.at = h.at /\ g.way = h.way /\ g.intr = h.intr /\ g.aml = e + 1
    BY <2>1 DEF StateT
  <2> HIDE DEF g
  <2>5. QED
    BY <2>2, <2>3, <2>4 DEF h
<1>9. t \in Record /\ c \in Record /\ t.fn = "termlist" /\ t.cell = e
  <2> HIDE DEF e
  <2>1. QED
    BY <1>4, Records DEF TermList
<1>10. Act' = t
  <2> DEFINE n == Len(stack) - 1
             new == <<c, t>>
  <2>1. n \in 1..Len(stack)
    BY <1>1, <1>2, Below
  <2>2. stack' = SubSeq(stack, 1, n) \o new
    BY <1>3 DEF TakeElse, Under
  <2> HIDE DEF c, t
  <2>3. new \in Seq(Record) /\ new # <<>> /\ new[Len(new)] = t /\ n \in 0..Len(stack)
    BY <1>9, <2>1
  <2> HIDE DEF n, new
  <2>4. QED
    BY <1>1, <2>2, <2>3, PushedTo
<1>11. Goal(prog, f) = Goal(prog, State) /\ Moves(prog, State, f)
  BY <1>8, GoalIs DEF Moves
<1>12. f.intr = "none" /\ f.way # "operand" /\ Goal(prog, f) = Structured!First(prog, e)
  BY <1>3, <1>6, <1>7, <1>8, <1>11 DEF intr
<1> HIDE DEF t, e
<1>13. Leads(prog, f, t)
  BY <1>2, <1>4, <1>8, <1>9, <1>12, LedFirst
<1>14. QED
  BY <1>1, <1>8, <1>10, <1>11, <1>13, Does

(* A loop that is left. *)
LEMMA EndWhileFollows ==
    ASSUME Inv, LeadsInv, \A q \in Programs : Separated(q), EndWhile
    PROVE  Follows
<1> DEFINE i == Act.cell
           e == End(prog, i)
<1>1. /\ stack # <<>> /\ Act.fn = "while" /\ prog' = prog /\ stack' = Under
      /\ intr \in {"break", "return"}
  BY DEF EndWhile, Running
<1>2. /\ i \in 1..Len(prog) /\ WellFormed(prog) /\ Separated(prog)
      /\ State \in StateT /\ Proper(prog, Act)
  BY <1>1, UnderBlock
<1>3. Op(prog, i) = "while" /\ e \in Nat /\ i # Done
  BY <1>1, <1>2, Cells DEF Proper, Done, Structured!Done
<1>4. Behind(prog, i) = e
  BY <1>2, <1>3, ElseBehind
<1>5. Led(prog, State, i, i)
  BY <1>1 DEF LeadsInv, Leads
<1>6. Goal(prog, State) = IF intr = "return" THEN Done ELSE Structured!After(prog)[i]
  BY <1>1, <1>3, <1>5 DEF Led, Exit, intr
<1>7. PICK f \in StateT : /\ Set(f) /\ f.at = State.at /\ f.way = State.way /\ f.aml = e
                          /\ f.intr = IF intr = "break" THEN "none" ELSE intr
  <2> DEFINE h == State
             c == IF h.intr = "break" THEN "none" ELSE h.intr
             g == [h EXCEPT !.intr = c, !.aml = e]
  <2>1. h \in StateT
    BY <1>2
  <2>2. Set(g)
    BY DEF EndWhile
  <2>3. c \in Intr /\ c = IF intr = "break" THEN "none" ELSE intr
    BY <2>1 DEF StateT, Intr, intr
  <2> HIDE DEF h, e, c
  <2>4. g \in StateT
    BY <1>3, <2>1, <2>3 DEF StateT
  <2>5. g.at = h.at /\ g.way = h.way /\ g.intr = c /\ g.aml = e
    BY <2>1 DEF StateT
  <2> HIDE DEF g
  <2>6. QED
    BY <2>2, <2>3, <2>4, <2>5 DEF h
<1>8. Goal(prog, f) = Goal(prog, State)
  BY <1>7, GoalIs
<1>9. Led(prog, f, Structured!After(prog)[i], Structured!Loop(prog, i))
  BY <1>1, <1>6, <1>7, <1>8 DEF Led, Exit
<1>10. QED
  BY <1>1, <1>4, <1>7, <1>9, PassFollows

(* A loop's condition is evaluated once more. *)
LEMMA WhileAgainFollows ==
    ASSUME Inv, LeadsInv, \A q \in Programs : Separated(q), WhileAgain
    PROVE  Follows
<1> DEFINE i == Act.cell
           o == Operand(i)
<1>1. /\ stack # <<>> /\ Act.fn = "while" /\ prog' = prog /\ stack' = Append(stack, o)
      /\ intr \in {"none", "continue"}
  BY DEF WhileAgain, Running
<1>2. i \in 1..Len(prog) /\ WellFormed(prog) /\ State \in StateT /\ Proper(prog, Act)
  BY <1>1, UnderBlock
<1>3. Op(prog, i) = "while" /\ i \in Nat /\ i # Done
  BY <1>1, <1>2, Cells DEF Proper, Done, Structured!Done
<1>4. Led(prog, State, i, i) /\ State.way # "operand"
  BY <1>1 DEF LeadsInv, Leads
<1>5. Goal(prog, State) = i
  BY <1>1, <1>4 DEF Led, Exit, intr
<1>6. PICK f \in StateT : Set(f) /\ f.at = i /\ f.way = "operand"
  <2> DEFINE h == State
             n == i + 1
             g == [h EXCEPT !.intr = "none", !.aml = n, !.at = i, !.way = "operand"]
  <2>1. h \in StateT /\ n \in Nat
    BY <1>2, <1>3
  <2>2. Set(g)
    BY DEF WhileAgain
  <2> HIDE DEF h, i, n
  <2>3. g \in StateT
    BY <1>3, <2>1 DEF StateT, Intr
  <2>4. g.at = i /\ g.way = "operand"
    BY <2>1 DEF StateT
  <2> HIDE DEF g
  <2>5. QED
    BY <2>2, <2>3, <2>4
<1>7. o \in Record /\ o.fn = "operand"
  BY <1>3, Records DEF Operand
<1> HIDE DEF o, i
<1>8. Act' = o
  <2>1. stack \in Seq(Record)
    BY <1>1, OnTop
  <2>2. stack'[Len(stack')] = o
    BY <1>1, <1>7, <2>1
  <2>3. QED
    BY <2>2 DEF Act
<1>9. Leads(prog, f, o)
  BY <1>7 DEF Leads
<1>10. Moves(prog, State, f)
  BY <1>3, <1>4, <1>5, <1>6 DEF Moves
<1>11. QED
  BY <1>1, <1>6, <1>8, <1>9, <1>10, Does

(* A list of terms that is over, at its end or because of an interrupt. *)
LEMMA EndTermlistFollows ==
    ASSUME Inv, LeadsInv, EndTermlist
    PROVE  Follows
<1> DEFINE b == Act.cell
           e == End(prog, b)
           f == [State EXCEPT !.aml = e]
           r == stack[Len(stack) - 1]
<1>1. /\ stack # <<>> /\ Act.fn = "termlist" /\ ~Continues /\ prog' = prog
      /\ stack' = Under /\ Set(f)
  BY DEF EndTermlist, Running
<1>2. ~IsBase(Act)
  BY <1>1 DEF IsBase
<1>3. State \in StateT /\ Proper(prog, Act) /\ WellFormed(prog)
  BY <1>1, OnTop, ProgramsAssumption DEF Inv, TypeInv
<1>4. b \in 0..Len(prog) /\ e \in Nat
  BY <1>3, Cells DEF Proper
<1>5. r \in Record /\ Proper(prog, r) /\ Fits(prog, r, Act) /\ r.fn # "operand"
  BY <1>1, <1>2, Below
<1>6. f \in StateT
  <2> HIDE DEF e
  <2>1. QED
    BY <1>3, <1>4 DEF StateT
<1>7. f.at = State.at /\ f.way = State.way /\ f.intr = State.intr
  BY <1>3 DEF StateT
<1> HIDE DEF f, r
<1>8. Led(prog, f, Leaves(prog, b), LoopIn(prog, b)) /\ f.way # "operand"
  <2>1. /\ State.way # "operand"
        /\ Led(prog, State, IF aml < e THEN aml ELSE Leaves(prog, b), LoopIn(prog, b))
    BY <1>1 DEF LeadsInv, Leads, aml
  <2>2. intr = "none" => ~(aml < e)
    BY <1>1 DEF Continues, Running
  <2>3. Goal(prog, f) = Goal(prog, State)
    BY <1>7, GoalIs
  <2>4. QED
    BY <1>7, <2>1, <2>2, <2>3 DEF Led, intr
<1>9. /\ r.cell = b
      /\ r.fn \in {"table", "method", "scope", "else", "while"} => Op(prog, b) = r.fn
      /\ r.fn = "if_else" => Op(prog, b) = "if" /\ r.cond
      /\ r.fn \in {"table", "method", "scope", "else", "while", "if_else"}
  <2>1. r.fn \in {"termlist", "operand", "if_else", "scope", "else", "while", "table",
                  "method"}
    BY <1>5, Fields
  <2>2. r.fn # "termlist"
    BY <1>1, <1>5 DEF Fits
  <2>3. r.cell = b
    BY <1>1, <1>5, <2>1, <2>2 DEF Fits
  <2>4. r.fn = "if_else" => r.cond
    BY <1>1, <1>5 DEF Fits
  <2>5. QED
    BY <1>5, <2>1, <2>2, <2>3, <2>4 DEF Proper
<1> HIDE DEF b
<1>10. Leads(prog, f, r)
  <2>1. CASE r.fn \in {"table", "method"}
    <3>1. Leaves(prog, b) = Done /\ LoopIn(prog, b) = Done
      BY <1>9, <2>1 DEF Leaves, LoopIn
    <3>2. f.intr \in Intr
      BY <1>6 DEF StateT
    <3>3. Goal(prog, f) = Done
      BY <1>8, <3>1, <3>2 DEF Led, Exit, Intr
    <3>4. QED
      BY <1>8, <2>1, <3>3 DEF Leads
  <2>2. CASE r.fn \in {"scope", "else", "if_else"}
    <3>1. Op(prog, b) \in {"scope", "else", "if"}
      BY <1>9, <2>2
    <3>2. Leaves(prog, b) = Structured!After(prog)[b] /\ LoopIn(prog, b) = Structured!Loop(prog, b)
      BY <3>1 DEF Leaves, LoopIn
    <3>3. Led(prog, f, Structured!After(prog)[b], Structured!Loop(prog, b))
      BY <1>8, <3>2
    <3>4. QED
      BY <1>8, <1>9, <2>2, <3>3 DEF Leads
  <2>3. CASE r.fn = "while"
    <3>1. Leaves(prog, b) = b /\ LoopIn(prog, b) = b
      BY <1>9, <2>3 DEF Leaves, LoopIn
    <3>2. QED
      BY <1>8, <1>9, <2>3, <3>1 DEF Leads
  <2>4. QED
    BY <1>9, <2>1, <2>2, <2>3
<1>11. Moves(prog, State, f)
  BY <1>7 DEF Moves
<1>12. QED
  BY <1>1, <1>2, <1>6, <1>10, <1>11, PopFollows DEF r

-----------------------------------------------------------------------------
(* Calls and returns. *)

(* The call of a state_t, and those of a sequence of states. *)
CallT == [at : Nat, way : {"operand", "body", "past"}]
CallOf(f) == [at |-> f.at, way |-> f.way]
CallsOf(fr) == [d \in DOMAIN fr |-> CallOf(fr[d])]

(* They are a sequence. *)
LEMMA CallsSeq ==
    ASSUME NEW fr \in Seq(StateT)
    PROVE  /\ CallsOf(fr) \in Seq(CallT) /\ Len(CallsOf(fr)) = Len(fr)
           /\ \A d \in 1..Len(fr) : CallsOf(fr)[d] = CallOf(fr[d])
<1>1. Len(fr) \in Nat /\ DOMAIN fr = 1..Len(fr) /\ \A d \in 1..Len(fr) : fr[d] \in StateT
  OBVIOUS
<1>2. \A f \in StateT : CallOf(f) \in CallT
  BY DEF CallOf, CallT, StateT
<1>3. CallsOf(fr) = [d \in 1..Len(fr) |-> CallOf(fr[d])]
  BY <1>1 DEF CallsOf
<1>4. \A d \in 1..Len(fr) : CallOf(fr[d]) \in CallT
  BY <1>1, <1>2
<1> DEFINE n == Len(fr)
           e(d) == CallOf(fr[d])
<1> HIDE DEF e
<1>5. n \in Nat /\ \A d \in 1..n : e(d) \in CallT
  BY <1>1, <1>4 DEF e
<1> HIDE DEF n
<1>6. [d \in 1..n |-> e(d)] \in [1..n -> CallT]
  BY <1>5
<1>7. [d \in 1..n |-> e(d)] \in Seq(CallT) /\ Len([d \in 1..n |-> e(d)]) = n
  BY <1>5, <1>6
<1>8. QED
  BY <1>3, <1>7 DEF n, e

(* A call adds one. *)
LEMMA CallsMore ==
    ASSUME NEW fr \in Seq(StateT), NEW f \in StateT
    PROVE  CallsOf(Append(fr, f)) = Append(CallsOf(fr), CallOf(f))
<1> DEFINE g == Append(fr, f)
           s == CallsOf(g)
           t == Append(CallsOf(fr), CallOf(f))
           n == Len(fr)
<1>1. /\ g \in Seq(StateT) /\ Len(g) = n + 1 /\ g[n + 1] = f
      /\ \A d \in 1..n : g[d] = fr[d]
  BY AppendProperties
<1>2. CallOf(f) \in CallT /\ n \in Nat
  BY DEF CallOf, CallT, StateT
<1>3. /\ CallsOf(fr) \in Seq(CallT) /\ Len(CallsOf(fr)) = n
      /\ \A d \in 1..n : CallsOf(fr)[d] = CallOf(fr[d])
  BY CallsSeq
<1> HIDE DEF g, n
<1>4. /\ s \in Seq(CallT) /\ Len(s) = n + 1
      /\ \A d \in 1..(n + 1) : s[d] = CallOf(g[d])
  BY <1>1, CallsSeq
<1>5. /\ t \in Seq(CallT) /\ Len(t) = n + 1 /\ t[n + 1] = CallOf(f)
      /\ \A d \in 1..n : t[d] = CallsOf(fr)[d]
  BY <1>2, <1>3, AppendProperties
<1> HIDE DEF s, t
<1>6. ASSUME NEW d \in 1..(n + 1)
      PROVE  s[d] = t[d]
  <2>1. CASE d = n + 1
    BY <1>1, <1>4, <1>5, <2>1
  <2>2. CASE d # n + 1
    <3>1. d \in 1..n
      BY <1>2, <2>2
    <3>2. s[d] = CallOf(fr[d]) /\ t[d] = CallOf(fr[d])
      BY <1>1, <1>3, <1>4, <1>5, <3>1
    <3>3. QED
      BY <3>2
  <2>3. QED
    BY <2>1, <2>2
<1>7. s = t
  BY <1>4, <1>5, <1>6, SeqEqual
<1>8. QED
  BY <1>7 DEF s, t, g

(* A return takes one away. *)
LEMMA CallsLess ==
    ASSUME NEW fr \in Seq(StateT), fr # <<>>, NEW g, Cut(fr, g)
    PROVE  /\ CallsOf(g) = SubSeq(CallsOf(fr), 1, Len(CallsOf(fr)) - 1)
           /\ g \in Seq(StateT) /\ Len(g) = Len(fr) - 1
<1> DEFINE n == Len(fr) - 1
           s == CallsOf(g)
           c == CallsOf(fr)
           t == SubSeq(c, 1, n)
<1>1. n \in Nat /\ Len(fr) = n + 1 /\ g = SubSeq(fr, 1, n)
  BY EmptySeq DEF Cut
<1>2. /\ c \in Seq(CallT) /\ Len(c) = n + 1
      /\ \A d \in 1..(n + 1) : c[d] = CallOf(fr[d])
  BY <1>1, CallsSeq
<1> HIDE DEF n, c
<1>3. \A d \in 1..n : d \in 1..(n + 1) /\ fr[d] \in StateT /\ c[d] \in CallT
  BY <1>1, <1>2
<1>4. /\ g \in Seq(StateT) /\ Len(g) = n
      /\ \A d \in 1..n : g[d] = fr[d]
  BY <1>1, <1>3, SubSeqProperties
<1>5. /\ t \in Seq(CallT) /\ Len(t) = n
      /\ \A d \in 1..n : t[d] = c[d]
  BY <1>1, <1>3, SubSeqProperties
<1>6. s \in Seq(CallT) /\ Len(s) = n /\ \A d \in 1..n : s[d] = CallOf(g[d])
  BY <1>4, CallsSeq
<1> HIDE DEF s, t
<1>7. \A d \in 1..n : s[d] = t[d]
  BY <1>2, <1>3, <1>4, <1>5, <1>6
<1>8. s = t
  BY <1>5, <1>6, <1>7, SeqEqual
<1>9. Len(c) - 1 = n
  BY <1>1, <1>2
<1>10. QED
  BY <1>4, <1>8, <1>9 DEF s, t, c, n

(* No state_t, no call. *)
LEMMA NoCalls ==
    ASSUME NEW fr \in Seq(StateT)
    PROVE  fr = <<>> <=> CallsOf(fr) = <<>>
<1>1. CallsOf(fr) \in Seq(CallT) /\ Len(CallsOf(fr)) = Len(fr)
  BY CallsSeq
<1>2. QED
  BY <1>1, EmptySeq

(* Where a new state_t is led to. *)
LEMMA Starting ==
    ASSUME NEW p, WellFormed(p), NEW m \in 0..Len(p)
    PROVE  CallOf(NewState(m)) = [at |-> m, way |-> "body"]
           /\ Leads(p, NewState(m), TermList(m))
<1> DEFINE f == NewState(m)
           t == TermList(m)
<1>1. f.at = m /\ f.way = "body" /\ f.aml = m + 1 /\ f.intr = "none"
  BY DEF NewState
<1>2. t.fn = "termlist" /\ t.cell = m
  BY DEF TermList
<1> HIDE DEF f, t
<1>3. Goal(p, f) = Structured!First(p, m)
  BY <1>1, GoalIs
<1>4. Leads(p, f, t)
  BY <1>1, <1>2, <1>3, LedFirst
<1>5. CallOf(f) = [at |-> m, way |-> "body"]
  BY <1>1 DEF CallOf
<1>6. QED
  BY <1>4, <1>5 DEF f, t

(* A state_t is added, with its list of terms on top of the stack. *)
LEMMA CallFollows ==
    ASSUME Inv, NEW m \in 0..Len(prog), prog' = prog,
           Op(prog, m) \in {"table", "method"}, m # 0 => IsAt(prog, m, "method"),
           frames # <<>> => m # 0 /\ stack # <<>> /\ State.way = "operand",
           frames' = Append(frames, NewState(m)), Act' = TermList(m)
    PROVE  Follows
<1> DEFINE f == NewState(m)
<1>1. frames \in Seq(StateT) /\ WellFormed(prog)
  BY ProgramsAssumption DEF Inv, TypeInv
<1>2. f \in StateT
  BY <1>1, Fresh
<1>3. CallOf(f) = [at |-> m, way |-> "body"] /\ Leads(prog, f, TermList(m))
  BY <1>1, Starting
<1> HIDE DEF f
<1>4. frames' = Append(frames, f)
  BY DEF f
<1>5. Calls = CallsOf(frames) /\ Calls' = CallsOf(frames')
  BY DEF Calls, CallsOf, CallOf
<1>6. Calls' = Append(Calls, [at |-> m, way |-> "body"])
  BY <1>1, <1>2, <1>3, <1>4, <1>5, CallsMore
<1>7. Calls # <<>> => m # 0 /\ Structured!Top.way = "operand"
  <2>1. Calls # <<>> => frames # <<>>
    BY <1>1, <1>5, NoCalls
  <2>2. stack # <<>> => Structured!Top.way = State.way
    BY CallsAre
  <2>3. QED
    BY <2>1, <2>2
<1>8. m # 0 => Structured!IsAt(prog, m, "method")
  BY SameStructure
<1>9. Structured!Call(m)
  BY <1>6, <1>7, <1>8 DEF Structured!Call
<1>10. State' = f
  <2>1. Len(frames') = Len(frames) + 1 /\ frames'[Len(frames) + 1] = f
    BY <1>1, <1>2, <1>4, AppendProperties
  <2>2. QED
    BY <2>1 DEF State, Depth
<1>11. LeadsInv'
  BY <1>3, <1>10 DEF LeadsInv
<1>12. QED
  BY <1>9, <1>11 DEF Follows, Structured!Next

(* A table load or a call from outside. *)
LEMMA StartFollows ==
    ASSUME Inv, RegisterTable \/ \E k \in DOMAIN prog : EvalMethod(k)
    PROVE  Follows
<1>1. WellFormed(prog) /\ frames = <<>> /\ prog' = prog
  BY ProgramsAssumption DEF Inv, TypeInv, RegisterTable, EvalMethod
<1>2. PICK m \in 0..Len(prog), q \in Record :
        /\ Op(prog, m) \in {"table", "method"} /\ (m # 0 => IsAt(prog, m, "method"))
        /\ frames' = <<NewState(m)>> /\ stack' = <<q, TermList(m)>>
  <2>1. CASE RegisterTable
    <3>1. 0 \in 0..Len(prog) /\ Op(prog, 0) = "table" /\ Load \in Record
      BY <1>1, Cells, Records
    <3>2. frames' = <<NewState(0)>> /\ stack' = <<Load, TermList(0)>>
      BY <2>1 DEF RegisterTable
    <3>3. QED
      BY <3>1, <3>2
  <2>2. CASE \E k \in DOMAIN prog : EvalMethod(k)
    <3>1. PICK k \in DOMAIN prog : EvalMethod(k)
      BY <2>2
    <3>2. IsAt(prog, k, "method")
      BY <3>1 DEF Inv, MethodsInv, EvalMethod
    <3>3. k \in 0..Len(prog) /\ k \in Nat /\ Op(prog, k) = "method"
      BY <1>1, <3>2, Cells DEF IsAt
    <3>4. Method(k) \in Record
      BY <3>3, Records
    <3>5. frames' = <<NewState(k)>> /\ stack' = <<Method(k), TermList(k)>>
      BY <3>1 DEF EvalMethod
    <3>6. QED
      BY <3>2, <3>3, <3>4, <3>5
  <2>3. QED
    BY <2>1, <2>2
<1> DEFINE f == NewState(m)
           t == TermList(m)
<1>3. f \in StateT /\ t \in Record
  BY <1>1, <1>2, Fresh
<1>4. frames' = <<f>> /\ stack' = <<q, t>>
  BY <1>2
<1> HIDE DEF f, t
<1>5. frames' = Append(frames, f)
  BY <1>1, <1>3, <1>4
<1>6. Act' = t
  <2>1. stack'[Len(stack')] = t
    BY <1>3, <1>4
  <2>2. QED
    BY <2>1 DEF Act
<1>7. QED
  BY <1>1, <1>2, <1>5, <1>6, CallFollows DEF f, t

(* A call by an operand. *)
LEMMA CallMethodFollows ==
    ASSUME Inv, NEW m, CallMethod(m)
    PROVE  Follows
<1> DEFINE a == [Act EXCEPT !.first = FALSE]
           b == Method(m)
           c == TermList(m)
           new == <<a, b, c>>
           n == Len(stack) - 1
<1>1. /\ stack # <<>> /\ Act.fn = "operand" /\ m \in Callable /\ Running("operand")
      /\ frames' = Append(frames, NewState(m)) /\ stack' = SubSeq(stack, 1, n) \o new
      /\ prog' = prog
  BY DEF CallMethod, Running, Under
<1>2. WellFormed(prog) /\ IsAt(prog, m, "method")
  BY <1>1, ProgramsAssumption DEF Inv, TypeInv, MethodsInv, Callable
<1>3. m \in 1..Len(prog) /\ m \in 0..Len(prog) /\ m \in Nat /\ Op(prog, m) = "method"
  BY <1>2, Cells DEF IsAt
<1>4. ~IsBase(Act) /\ Act \in Record /\ AtOperand(prog, State, Act.cell)
  BY <1>1, UnderOperand
<1>5. a \in Record
  <2>1. Act.cell \in Nat /\ a = [fn |-> Act.fn, cell |-> Act.cell, first |-> FALSE]
    BY <1>1, <1>4, Fields
  <2>2. QED
    BY <1>1, <2>1 DEF Record
<1>6. b \in Record /\ c \in Record
  BY <1>3, Records
<1> HIDE DEF a, b, c
<1>7. new \in Seq(Record) /\ new # <<>> /\ new[Len(new)] = c
  BY <1>5, <1>6
<1>8. n \in 0..Len(stack)
  BY <1>1, <1>4, Below
<1> HIDE DEF new, n
<1>9. Act' = c
  BY <1>1, <1>7, <1>8, PushedTo
<1>10. State.way = "operand" /\ m # 0
  BY <1>3, <1>4 DEF AtOperand
<1>11. QED
  BY <1>1, <1>2, <1>3, <1>9, <1>10, CallFollows DEF c

(* A method or the table ends. *)
LEMMA ReturnFollows ==
    ASSUME Inv, LeadsInv, EndMethod \/ EndTable
    PROVE  Follows
<1>1. stack # <<>> /\ Act.fn \in {"table", "method"} /\ prog' = prog
  BY DEF EndMethod, EndTable, Running
<1>2. /\ frames \in Seq(StateT) /\ frames # <<>> /\ stack \in Seq(Record)
      /\ Len(stack) \in Nat \ {0} /\ Sound(prog, stack, frames)
  BY <1>1, OnTop
<1>3. Goal(prog, State) = Done /\ State.way # "operand"
  BY <1>1 DEF LeadsInv, Leads
<1> DEFINE n == Len(stack) - 1
           r == stack[n]
<1>4. n \in Nat /\ (n # 0 => r.fn = "operand" /\ Act.fn = "method" /\ n \in 1..Len(stack))
  <2>1. n \in Nat /\ n + 1 = Len(stack)
    BY <1>2
  <2>2. ASSUME n # 0
        PROVE  r.fn = "operand" /\ Act.fn = "method" /\ n \in 1..Len(stack)
    <3>1. n \in 1..(Len(stack) - 1) /\ n \in 1..Len(stack)
      BY <2>1, <2>2
    <3>2. Fits(prog, stack[n], stack[n + 1])
      BY <1>2, <3>1 DEF Sound
    <3>3. Fits(prog, r, Act)
      BY <2>1, <3>2 DEF Act
    <3>4. r \in Record
      BY <1>2, <3>1
    <3>5. r.fn \in {"termlist", "operand", "if_else", "scope", "else", "while", "table",
                    "method"}
      BY <3>4, Fields
    <3> HIDE DEF r
    <3>6. r.fn = "operand" /\ Act.fn = "method"
      BY <1>1, <3>3, <3>5 DEF Fits
    <3>7. QED
      BY <3>1, <3>6
  <2>3. QED
    BY <2>1, <2>2
<1>5. Cut(frames, frames') /\ (stack' # <<>> => Act'.fn = "operand")
  <2>1. CASE EndMethod
    <3>1. Cut(frames, frames') /\ stack' = SubSeq(stack, 1, n)
      BY <2>1 DEF EndMethod, Cut, Depth, Under
    <3>2. CASE n = 0
      <4>1. stack' = <<>>
        BY <1>2, <3>1, <3>2
      <4>2. QED
        BY <3>1, <4>1
    <3>3. CASE n # 0
      <4> HIDE DEF n
      <4>1. Act' = stack[n]
        BY <1>1, <1>4, <3>1, <3>3, PoppedTo
      <4>2. QED
        BY <1>4, <3>1, <3>3, <4>1
    <3>4. QED
      BY <3>2, <3>3
  <2>2. CASE EndTable
    <3>1. Act.fn = "table" /\ frames' = <<>> /\ stack' = <<>>
      BY <2>2 DEF EndTable, Running
    <3>2. Len(stack) = 1
      BY <1>2, <1>4, <3>1
    <3>3. Level(stack, 1) = Len(frames) /\ IsBase(stack[1])
      BY <1>2, <3>2 DEF Sound
    <3>4. Level(stack, 0) = 0
      <4>1. {j \in 1..0 : IsBase(stack[j])} = {}
        OBVIOUS
      <4>2. QED
        BY <4>1, FS_EmptySet DEF Level
    <3>5. Len(frames) = 1
      <4>1. 0 \in Nat /\ 0 + 1 = 1
        OBVIOUS
      <4>2. Level(stack, 0 + 1) = Level(stack, 0) + (IF IsBase(stack[0 + 1]) THEN 1 ELSE 0)
        BY <4>1, Levels
      <4>3. QED
        BY <3>3, <3>4, <4>1, <4>2
    <3>6. SubSeq(frames, 1, Len(frames) - 1) = <<>>
      BY <1>2, <3>5
    <3>7. QED
      BY <3>1, <3>6 DEF Cut
  <2>3. QED
    BY <2>1, <2>2
<1>6. Calls = CallsOf(frames) /\ Calls' = CallsOf(frames')
  BY DEF Calls, CallsOf, CallOf
<1>7. Calls' = SubSeq(Calls, 1, Len(Calls) - 1)
  BY <1>2, <1>5, <1>6, CallsLess
<1>8. /\ Calls # <<>> /\ Structured!Top.way # "operand"
      /\ Structured!Successor(prog, Structured!Top) = Structured!Done
  BY <1>1, <1>3, CallsAre DEF Done
<1>9. Structured!Return
  BY <1>1, <1>7, <1>8 DEF Structured!Return
<1>10. LeadsInv'
  BY <1>5 DEF LeadsInv, Leads
<1>11. QED
  BY <1>9, <1>10 DEF Follows, Structured!Next

-----------------------------------------------------------------------------
(* The theorem. *)

(* At first nothing is called. *)
LEMMA StructuredInit == Init => Structured!Init /\ LeadsInv
<1> SUFFICES ASSUME Init
             PROVE  Structured!Init /\ LeadsInv
  OBVIOUS
<1>1. frames = <<>> /\ stack = <<>> /\ frames \in Seq(StateT)
  BY EmptySeq DEF Init
<1>2. Calls = CallsOf(frames)
  BY DEF Calls, CallsOf, CallOf
<1>3. Calls = <<>>
  BY <1>1, <1>2, NoCalls
<1>4. QED
  BY <1>1, <1>3 DEF Structured!Init, LeadsInv

(* Every step of Control is a step of Flow or none. *)
LEMMA StructuredStep ==
    ASSUME Inv, LeadsInv, \A q \in Programs : Separated(q), [Next]_vars
    PROVE  Follows
<1>1. CASE RegisterTable
  BY <1>1, StartFollows
<1>2. CASE \E m \in DOMAIN prog : EvalMethod(m) \/ CallMethod(m)
  BY <1>2, StartFollows, CallMethodFollows
<1>3. CASE Terms
  BY <1>3, OperandFollows, DefBreakFollows, DefMethodFollows, DefScopeFollows,
     EndTermlistFollows DEF Terms
<1>4. CASE Operands
  BY <1>4, EvaluatedFollows, IfFalseFollows, BodyFollows, WhileFalseFollows DEF Operands
<1>5. CASE Ends
  BY <1>5, TakeElseFollows, EndElseFollows, EndIfFollows, EndWhileFollows,
     WhileAgainFollows, ReturnFollows DEF Ends
<1>6. CASE UNCHANGED vars
  <2>1. Calls' = Calls
    BY <1>6 DEF vars, Calls
  <2>2. LeadsInv'
    <3>1. State' = State /\ Act' = Act
      BY <1>6 DEF vars, State, Depth, Act
    <3>2. QED
      BY <1>6, <3>1 DEF vars, LeadsInv
  <2>3. QED
    BY <1>6, <2>1, <2>2 DEF vars, Follows, Structured!vars
<1>7. QED
  BY <1>1, <1>2, <1>3, <1>4, <1>5, <1>6 DEF Next

(* Running a table or a method follows the lexical structure of the code:  *)
(* after a term comes what is behind it in its list, the loop or block     *)
(* around it, or the end of its method; Break, Continue and Return, an     *)
(* If with an Else, and calls from within operands lead where the          *)
(* structure says, for every table in which no If ends a block that an     *)
(* Else follows, and every bound on the C stack.                           *)
THEOREM Implements ==
    ASSUME \A q \in Programs : Separated(q)
    PROVE  Spec => FlowSpec
<1>1. Init => Inv /\ LeadsInv /\ Structured!Init
  BY Initially, StructuredInit
<1>2. Inv /\ LeadsInv /\ [Next]_vars =>
        (Inv /\ LeadsInv)' /\ [Structured!Next]_(Structured!vars)
  <2> SUFFICES ASSUME Inv, LeadsInv, [Next]_vars
               PROVE  (Inv /\ LeadsInv)' /\ [Structured!Next]_(Structured!vars)
    OBVIOUS
  <2>1. Inv'
    BY Step
  <2>2. Follows
    BY StructuredStep
  <2>3. QED
    BY <2>1, <2>2 DEF Follows
<1>3. QED
  BY <1>1, <1>2, PTL DEF Spec, FlowSpec, Structured!Spec

=============================================================================
