--------------------------- MODULE NodeWalkProofs ---------------------------
(***************************************************************************)
(* Proofs that NodeWalk keeps what TreeWalk promises: whatever the tree,   *)
(* its kinds of nodes and the bound on their number, a walk visits each    *)
(* node once and leaves none out, even where tables are loaded meanwhile.  *)
(***************************************************************************)
EXTENDS NodeWalk, TLAPS, NaturalsInduction, WellFoundedInduction

(* The tree: a node is younger than its parent, and none is missing. *)
TreeInv ==
    \E size \in 0..MaxNodes : /\ parent \in [1..size -> 0..size]
                              /\ \A n \in 1..size : parent[n] < n

(* The nodes P lead from node a up to the root. *)
Path(P, a) ==
    /\ P \subseteq Present
    /\ a \in P
    /\ \A x \in P : x =< a /\ parent[x] \in P \cup {Root}
    /\ \A x, y \in P : x < y => x =< parent[y]

(* What is still to come: the older siblings of the nodes on the path to   *)
(* the one that the walk is at, and its children.                          *)
Older(P) == {m \in Present : \E s \in P : parent[m] = parent[s] /\ m < s}
Ahead(P) == Older(P) \cup {m \in Present : parent[m] = at}

(* A node that the walk has come to: no node ahead has been visited, and   *)
(* all that it has left out of those it may visit are ahead.               *)
AtNode ==
    /\ at \in visited
    /\ at \in admitted <=> child
    /\ \E P \in SUBSET visited :
         /\ Path(P, at)
         /\ Ahead(P) \cap visited = {}
         /\ \A n \in old : parent[n] \in admitted => n \in visited \cup Ahead(P)

WalkInv ==
    /\ walker = "none" =>
         phase = "outside" /\ old = {} /\ visited = {} /\ admitted = {}
    /\ walker # "none" =>
         /\ old \subseteq Present /\ visited \subseteq Present
         /\ Root \in admitted /\ admitted \subseteq visited \cup {Root}
         /\ \A v \in visited : parent[v] \in admitted
         /\ phase # "next" => at # NULL /\ ~child
         /\ at = NULL => visited = {}
         /\ at # NULL => AtNode

Inv == TreeInv /\ child \in BOOLEAN /\ WalkInv

-----------------------------------------------------------------------------
(* Numbers and lists. *)

(* Every set of naturals has a least element. *)
LEMMA Least ==
    ASSUME NEW S \in SUBSET Nat, S # {}
    PROVE  \E x \in S : \A y \in S : x =< y
<1> DEFINE R == {r \in Nat \X Nat : r[1] < r[2]}
<1>1. OpToRel(<, Nat) = R
  BY Zenon DEF OpToRel
<1>2. IsWellFoundedOn(R, Nat)
  BY <1>1, NatLessThanWellFounded
<1>3. PICK x \in S : \A y \in S : ~(<<y, x>> \in R)
  <2> HIDE DEF R
  <2>1. QED
    BY <1>2, WFMin
<1>4. \A y \in S : y \in Nat /\ ~(y < x)
  <2> TAKE y \in S
  <2>1. y \in Nat /\ x \in Nat
    OBVIOUS
  <2>2. y < x => <<y, x>> \in R
    BY <2>1
  <2>3. QED
    BY <1>3, <2>1, <2>2
<1>5. QED
  BY <1>4

(* Induction: a set that has each number whose predecessors it has. *)
LEMMA Numbers ==
    ASSUME NEW S, \A n \in Nat : (\A m \in 0..(n - 1) : m \in S) => n \in S
    PROVE  Nat \subseteq S
<1>1. SUFFICES ASSUME Nat \ S # {}
               PROVE  FALSE
  OBVIOUS
<1>2. PICK n \in Nat \ S : \A m \in Nat \ S : n =< m
  BY <1>1, Least
<1>3. \A m \in 0..(n - 1) : m \in S
  BY <1>2
<1>4. QED
  BY <1>2, <1>3

(* The youngest of some nodes. *)
LEMMA LatestIs ==
    ASSUME NEW k \in Nat, NEW S, S \subseteq 0..k
    PROVE  /\ S = {} => Latest(S) = NULL
           /\ S # {} => /\ Latest(S) \in S /\ Latest(S) # NULL
                        /\ \A m \in S : m =< Latest(S)
<1>1. CASE S = {}
  BY <1>1 DEF Latest
<1>2. CASE S # {}
  <2> DEFINE T == {n \in 0..k : k - n \in S}
  <2>1. PICK c \in S : c \in 0..k
    BY <1>2
  <2>2. k - c \in T
    BY <2>1
  <2>3. PICK n \in T : \A m \in T : n =< m
    <3>1. T # {}
      BY <2>2
    <3>2. T \in SUBSET Nat
      <4>1. 0..k \subseteq Nat /\ T \subseteq 0..k
        OBVIOUS
      <4>2. QED
        BY <4>1
    <3> HIDE DEF T
    <3>3. QED
      BY <3>1, <3>2, Least
  <2>4. k - n \in S
    BY <2>3
  <2>5. \A d \in S : d =< k - n
    <3> TAKE d \in S
    <3>1. d \in 0..k
      OBVIOUS
    <3>2. k - d \in T
      BY <3>1
    <3>3. n =< k - d
      BY <2>3, <3>2
    <3>4. n \in 0..k
      OBVIOUS
    <3>5. QED
      BY <3>1, <3>3, <3>4
  <2>6. Latest(S) \in S /\ \A d \in S : d =< Latest(S)
    BY <1>2, <2>4, <2>5 DEF Latest
  <2>7. Latest(S) # NULL
    BY <2>6 DEF NULL
  <2>8. QED
    BY <1>2, <2>6, <2>7
<1>3. QED
  BY <1>1, <1>2

(* The tree of a given size. *)
Sized(n) == /\ n \in 0..MaxNodes
            /\ parent \in [1..n -> 0..n]
            /\ \A m \in 1..n : parent[m] \in 0..n /\ parent[m] < m

(* The tree has a size. *)
LEMMA TreeSize ==
    ASSUME TreeInv
    PROVE  \E n \in 0..MaxNodes : Sized(n) /\ Present = 1..n /\ n \in Nat
<1>1. PICK n \in 0..MaxNodes : /\ parent \in [1..n -> 0..n]
                               /\ \A m \in 1..n : parent[m] < m
  BY DEF TreeInv
<1>2. n \in Nat
  BY MaxNodesAssumption
<1>3. Present = 1..n
  BY <1>1 DEF Present
<1>4. \A m \in 1..n : parent[m] \in 0..n
  BY <1>1
<1>5. QED
  BY <1>1, <1>2, <1>3, <1>4 DEF Sized

(* What the tree is made of. *)
LEMMA Nodes ==
    ASSUME TreeInv
    PROVE  /\ Present \subseteq Nat \ {0} /\ Present \subseteq Node
           /\ \A m \in Present : /\ m \in Nat /\ m # Root /\ m # NULL
                                 /\ parent[m] \in Present \cup {Root}
                                 /\ parent[m] \in Nat /\ parent[m] < m
<1>1. PICK n \in 0..MaxNodes : Sized(n) /\ Present = 1..n /\ n \in Nat
  BY TreeSize
<1>2. \A m \in 1..n : m \in Nat /\ m # Root /\ m # NULL /\ m \in Node
  BY MaxNodesAssumption DEF Root, NULL, Node
<1>3. \A m \in 1..n : /\ parent[m] \in 1..n \cup {Root}
                      /\ parent[m] \in Nat /\ parent[m] < m
  BY <1>1 DEF Sized, Root
<1>4. QED
  BY <1>1, <1>2, <1>3

(* The first of a list of children is the youngest, *)
LEMMA FirstChildIs ==
    ASSUME TreeInv, NEW p
    PROVE  /\ FirstChild(p) = NULL => \A m \in Present : parent[m] # p
           /\ FirstChild(p) # NULL =>
                /\ FirstChild(p) \in Present /\ parent[FirstChild(p)] = p
                /\ \A m \in Present : parent[m] = p => m =< FirstChild(p)
<1> DEFINE S == {m \in Present : parent[m] = p}
<1>1. PICK n \in 0..MaxNodes : Sized(n) /\ Present = 1..n /\ n \in Nat
  BY TreeSize
<1>2. S \subseteq 0..n /\ FirstChild(p) = Latest(S)
  BY <1>1 DEF FirstChild
<1> HIDE DEF S
<1>3. /\ S = {} => Latest(S) = NULL
      /\ S # {} => Latest(S) \in S /\ Latest(S) # NULL /\ \A m \in S : m =< Latest(S)
  BY <1>1, <1>2, LatestIs
<1>4. QED
  BY <1>2, <1>3 DEF S

(* and its older siblings follow, the youngest of them first. *)
LEMMA NextSiblingIs ==
    ASSUME TreeInv, NEW n \in Present
    PROVE  /\ NextSibling(n) = NULL =>
                \A m \in Present : parent[m] = parent[n] => ~(m < n)
           /\ NextSibling(n) # NULL =>
                /\ NextSibling(n) \in Present /\ parent[NextSibling(n)] = parent[n]
                /\ NextSibling(n) < n
                /\ \A m \in Present : parent[m] = parent[n] /\ m < n
                                         => m =< NextSibling(n)
<1> DEFINE S == {m \in Present : parent[m] = parent[n] /\ m < n}
<1>1. PICK k \in 0..MaxNodes : Sized(k) /\ Present = 1..k /\ k \in Nat
  BY TreeSize
<1>2. S \subseteq 0..k /\ NextSibling(n) = Latest(S)
  BY <1>1, Nodes DEF NextSibling
<1> HIDE DEF S
<1>3. /\ S = {} => Latest(S) = NULL
      /\ S # {} => Latest(S) \in S /\ Latest(S) # NULL /\ \A m \in S : m =< Latest(S)
  BY <1>1, <1>2, LatestIs
<1>4. QED
  BY <1>2, <1>3 DEF S

-----------------------------------------------------------------------------
(* sabi_next_node. *)

(* Where it gets to from node m, if it is known for m's parent. *)
Climbs(h, m) == IF NextSibling(m) # NULL THEN NextSibling(m)
                ELSE IF m = Root THEN NULL
                ELSE h[parent[m]]
Climb == CHOOSE h : h = [m \in Present \cup {Root} |-> Climbs(h, m)]

(* sabi_next_node, with the climb as a function of the node. *)
LEMMA NextNodeIs ==
    \A n, down : NextNode(n, down) = IF n = NULL THEN FirstChild(Root)
                                     ELSE IF down /\ FirstChild(n) # NULL THEN FirstChild(n)
                                     ELSE Climb[n]
BY DEF NextNode, Climb, Climbs

(* A function of the first nodes that says so; there is one for each n, *)
Climbed(n, f) == f = [m \in 0..n |-> Climbs(f, m)]

(* by induction over the nodes, since a parent is older than its child. *)
LEMMA ClimbExists ==
    ASSUME NEW size, Sized(size)
    PROVE  \A n \in Nat : n =< size => \E f : Climbed(n, f)
<1> DEFINE S == {n \in Nat : n =< size => \E f : Climbed(n, f)}
<1>1. size \in Nat
  BY MaxNodesAssumption DEF Sized
<1>2. ASSUME NEW n \in Nat, \A m \in 0..(n - 1) : m \in S, n =< size
      PROVE  \E f : Climbed(n, f)
  <2>1. CASE n = 0
    <3> DEFINE f == [m \in 0..0 |-> NULL]
    <3>1. NextSibling(0) = NULL
      BY DEF NextSibling, Root
    <3>2. Climbs(f, 0) = NULL
      BY <3>1 DEF Climbs, Root
    <3>3. \A m \in 0..0 : Climbs(f, m) = NULL
      BY <3>2
    <3>4. [m \in 0..0 |-> Climbs(f, m)] = [m \in 0..0 |-> NULL]
      BY <3>3
    <3>5. f = [m \in 0..0 |-> Climbs(f, m)]
      BY <3>4
    <3> HIDE DEF f
    <3>6. QED
      BY <2>1, <3>5 DEF Climbed
  <2>2. CASE n # 0
    <3>1. n - 1 \in 0..(n - 1) /\ n - 1 =< size /\ n - 1 \in Nat /\ n \in 1..size
      BY <1>1, <1>2, <2>2
    <3>2. \E f : Climbed(n - 1, f)
      BY <1>2, <3>1
    <3>3. PICK f : Climbed(n - 1, f)
      BY <3>2
    <3> DEFINE g == [m \in 0..n |-> IF m = n THEN Climbs(f, n) ELSE f[m]]
    <3>4. ASSUME NEW m \in 0..n
          PROVE  g[m] = Climbs(g, m)
      <4>1. m # Root => parent[m] \in 0..(n - 1) /\ parent[m] \in 0..n /\ parent[m] # n
        <5>1. m # Root => m \in 1..size
          BY <1>1, <1>2 DEF Root
        <5>2. m # Root => parent[m] \in 0..size /\ parent[m] < m
          BY <5>1 DEF Sized
        <5>3. QED
          BY <1>1, <1>2, <5>2
      <4>2. m # Root => g[parent[m]] = f[parent[m]]
        BY <4>1
      <4>3. Climbs(g, m) = Climbs(f, m)
        <5> HIDE DEF g
        <5>1. QED
          BY <4>2 DEF Climbs
      <4>4. CASE m = n
        BY <4>3, <4>4
      <4>5. CASE m # n
        <5>1. m \in 0..(n - 1)
          BY <1>2, <4>5
        <5>2. f[m] = Climbs(f, m)
          BY <3>3, <5>1 DEF Climbed
        <5>3. g[m] = f[m]
          BY <4>5
        <5> HIDE DEF g
        <5>4. QED
          BY <4>3, <5>2, <5>3
      <4>6. QED
        BY <4>4, <4>5
    <3>5. g = [m \in 0..n |-> g[m]]
      OBVIOUS
    <3> HIDE DEF g
    <3>6. [m \in 0..n |-> g[m]] = [m \in 0..n |-> Climbs(g, m)]
      BY <3>4
    <3>7. Climbed(n, g)
      BY <3>5, <3>6 DEF Climbed
    <3>8. QED
      BY <3>7
  <2>3. QED
    BY <2>1, <2>2
<1>3. \A n \in Nat : (\A m \in 0..(n - 1) : m \in S) => n \in S
  BY <1>2
<1>4. Nat \subseteq S
  <2> HIDE DEF S
  <2>1. QED
    BY <1>3, Numbers
<1>5. QED
  BY <1>4

(* so it climbs as its definition says. *)
LEMMA ClimbIs ==
    ASSUME TreeInv, NEW n \in Present \cup {Root}
    PROVE  Climb[n] = Climbs(Climb, n)
<1>1. PICK size \in 0..MaxNodes : Sized(size) /\ Present = 1..size /\ size \in Nat
  BY TreeSize
<1>2. PICK f : Climbed(size, f)
  BY <1>1, ClimbExists
<1>3. Present \cup {Root} = 0..size
  BY <1>1 DEF Root
<1>4. f = [m \in Present \cup {Root} |-> Climbs(f, m)]
  BY <1>2, <1>3 DEF Climbed
<1>5. Climb = [m \in Present \cup {Root} |-> Climbs(Climb, m)]
  BY <1>4 DEF Climb
<1>6. QED
  BY <1>5

(* The nodes P lead from a to the root, or a is the root. *)
Up(P, a) == Path(P, a) \/ (a = Root /\ P = {})

(* Node r is the first older sibling of a node in P, from its youngest     *)
(* node on; it is NULL if there is none.                                   *)
Found(P, r) ==
    \/ r = NULL /\ \A x \in P : NextSibling(x) = NULL
    \/ \E m \in P : /\ NextSibling(m) # NULL /\ r = NextSibling(m)
                    /\ \A x \in P : m < x => NextSibling(x) = NULL

(* The rest of a path leads up from the parent. *)
LEMMA PathUp ==
    ASSUME TreeInv, NEW a \in Present, NEW P, Path(P, a)
    PROVE  Up(P \ {a}, parent[a])
<1> DEFINE q == parent[a]
           R == P \ {a}
<1>1. /\ P \subseteq Present /\ a \in P
      /\ \A x \in P : x =< a /\ parent[x] \in P \cup {Root}
      /\ \A x, y \in P : x < y => x =< parent[y]
  BY DEF Path
<1>2. \A x \in P : x \in Nat /\ x # Root /\ parent[x] \in Nat /\ parent[x] < x
  BY <1>1, Nodes
<1>3. q \in Nat /\ q < a /\ a \in Nat
  BY <1>1, <1>2
<1>4. \A x \in R : x =< q
  <2>1. \A x \in R : x \in P /\ x \in Nat /\ x < a
    BY <1>1, <1>2, <1>3
  <2>2. QED
    BY <1>1, <2>1
<1>5. CASE q = Root
  <2>1. \A x \in R : FALSE
    BY <1>2, <1>4, <1>5 DEF Root
  <2>2. R = {}
    BY <2>1
  <2>3. QED
    BY <1>5, <2>2 DEF Up
<1>6. CASE q # Root
  <2>1. q \in R
    BY <1>1, <1>3, <1>6
  <2>2. ASSUME NEW x \in R
        PROVE  parent[x] \in R \cup {Root}
    <3>1. x \in Nat /\ x =< q /\ parent[x] \in Nat /\ parent[x] < x
          /\ parent[x] \in P \cup {Root}
      BY <1>1, <1>2, <1>4
    <3>2. parent[x] # a
      BY <1>3, <3>1
    <3>3. QED
      BY <3>1, <3>2
  <2>3. R \subseteq Present /\ \A x, y \in R : x < y => x =< parent[y]
    BY <1>1
  <2>4. Path(R, q)
    BY <1>4, <2>1, <2>2, <2>3 DEF Path
  <2> HIDE DEF q, R
  <2>5. Up(R, q)
    BY <2>4 DEF Up
  <2>6. QED
    BY <2>5 DEF q, R
<1>7. QED
  BY <1>5, <1>6

(* It climbs to the next node. *)
LEMMA ClimbFinds ==
    ASSUME TreeInv, NEW a \in Present \cup {Root}, NEW P, Up(P, a)
    PROVE  Found(P, Climb[a])
<1> DEFINE S == {n \in Nat : n \in Present \cup {Root} =>
                               \A Q : Up(Q, n) => Found(Q, Climb[n])}
<1>1. ASSUME NEW n \in Nat, \A m \in 0..(n - 1) : m \in S, n \in Present \cup {Root},
             NEW Q, Up(Q, n)
      PROVE  Found(Q, Climb[n])
  <2>1. Climb[n] = Climbs(Climb, n)
    BY <1>1, ClimbIs
  <2>2. CASE n = Root
    <3>1. NextSibling(n) = NULL
      BY <2>2 DEF NextSibling
    <3>2. Climb[n] = NULL
      BY <2>1, <2>2, <3>1 DEF Climbs
    <3>3. ~Path(Q, n)
      BY <2>2, Nodes DEF Path
    <3>4. Q = {}
      BY <1>1, <3>3 DEF Up
    <3>5. QED
      BY <3>2, <3>4 DEF Found
  <2>3. CASE n # Root
    <3>1. n \in Present /\ Path(Q, n)
      BY <1>1, <2>3 DEF Up
    <3>2. n \in Q /\ Q \subseteq Present /\ \A x \in Q : x =< n
      BY <3>1 DEF Path
    <3>3. CASE NextSibling(n) # NULL
      <4>1. Climb[n] = NextSibling(n)
        BY <2>1, <3>3 DEF Climbs
      <4>2. \A x \in Q : ~(n < x)
        <5>1. \A x \in Q : x \in Nat
          BY <3>2, Nodes
        <5>2. QED
          BY <1>1, <3>2, <5>1
      <4>3. QED
        BY <3>2, <3>3, <4>1, <4>2 DEF Found
    <3>4. CASE NextSibling(n) = NULL
      <4> DEFINE q == parent[n]
                 R == Q \ {n}
      <4>1. q \in Nat /\ q < n /\ q \in Present \cup {Root}
        BY <3>1, Nodes
      <4>2. Up(R, q)
        BY <3>1, PathUp
      <4>3. Climb[n] = Climb[q]
        BY <2>1, <2>3, <3>4 DEF Climbs
      <4> HIDE DEF q, R
      <4>4. q \in S
        BY <1>1, <4>1
      <4>5. Found(R, Climb[q])
        BY <4>1, <4>2, <4>4
      <4>6. Found(Q, Climb[q])
        <5>1. \A x \in Q : x = n \/ x \in R
          BY DEF R
        <5>2. \A x \in Q : x \in R \/ NextSibling(x) = NULL
          BY <3>4, <5>1
        <5>3. R \subseteq Q
          BY DEF R
        <5>4. QED
          BY <4>5, <5>2, <5>3 DEF Found
      <4>7. QED
        BY <4>3, <4>6
    <3>5. QED
      BY <3>3, <3>4
  <2>4. QED
    BY <2>2, <2>3
<1>2. \A n \in Nat : (\A m \in 0..(n - 1) : m \in S) => n \in S
  BY <1>1
<1>3. Nat \subseteq S
  <2> HIDE DEF S
  <2>1. QED
    BY <1>2, Numbers
<1>4. a \in Nat
  BY Nodes DEF Root
<1>5. QED
  BY <1>3, <1>4

-----------------------------------------------------------------------------
(* The next node. *)

(* Node n, with the nodes P on its path, may be the next one: it has not   *)
(* been visited, its parent admits it, and what is left out is ahead.      *)
Comes(n, P) ==
    /\ n \in Present \ visited /\ parent[n] \in admitted
    /\ P \subseteq visited \cup {n} /\ Path(P, n)
    /\ Older(P) \cap (visited \cup {n}) = {}
    /\ \A m \in old : parent[m] \in admitted => m \in visited \cup {n} \cup Older(P)

(* The first node. *)
LEMMA FirstComes ==
    ASSUME Inv, walker # "none", at = NULL
    PROVE  /\ FirstChild(Root) # NULL => Comes(FirstChild(Root), {FirstChild(Root)})
           /\ FirstChild(Root) = NULL =>
                \A m \in old : parent[m] \in admitted => m \in visited
<1> DEFINE n == FirstChild(Root)
           P == {n}
<1>1. /\ TreeInv /\ old \subseteq Present /\ visited = {} /\ Root \in admitted
      /\ admitted \subseteq visited \cup {Root}
  BY DEF Inv, WalkInv
<1>2. \A m \in old : parent[m] \in admitted => parent[m] = Root /\ m \in Present
  BY <1>1
<1>3. /\ n = NULL => \A m \in Present : parent[m] # Root
      /\ n # NULL => /\ n \in Present /\ parent[n] = Root
                     /\ \A m \in Present : parent[m] = Root => m =< n
  BY <1>1, FirstChildIs
<1> HIDE DEF n
<1>4. ASSUME n # NULL
      PROVE  Comes(n, P)
  <2>1. n \in Nat /\ \A m \in Present : m \in Nat
    BY <1>1, <1>3, <1>4, Nodes
  <2>2. P \subseteq Present /\ n \in P /\ \A x \in P : x = n
    BY <1>3, <1>4
  <2>3. Path(P, n)
    BY <1>3, <1>4, <2>1, <2>2 DEF Path
  <2>4. Older(P) = {m \in Present : parent[m] = Root /\ m < n}
    BY <1>3, <1>4 DEF Older
  <2>5. n \notin Older(P)
    BY <2>1, <2>4
  <2>6. ASSUME NEW m \in old, parent[m] \in admitted
        PROVE  m = n \/ m \in Older(P)
    <3>1. m \in Present /\ parent[m] = Root /\ m =< n /\ m \in Nat
      BY <1>2, <1>3, <1>4, <2>1, <2>6
    <3>2. QED
      BY <2>1, <2>4, <3>1
  <2>7. n \in Present \ visited /\ parent[n] \in admitted /\ P \subseteq visited \cup {n}
    BY <1>1, <1>3, <1>4
  <2>8. Older(P) \cap (visited \cup {n}) = {}
    BY <1>1, <2>5
  <2>9. QED
    BY <2>3, <2>6, <2>7, <2>8 DEF Comes
<1>5. ASSUME n = NULL, NEW m \in old, parent[m] \in admitted
      PROVE  FALSE
  BY <1>2, <1>3, <1>5
<1>6. QED
  BY <1>4, <1>5 DEF n

(* What Inv says of a walk that is at a node. *)
LEMMA Here ==
    ASSUME Inv, walker # "none", at # NULL
    PROVE  /\ TreeInv /\ at \in visited /\ (at \in admitted <=> child)
           /\ old \subseteq Present /\ visited \subseteq Present
           /\ Root \in admitted /\ admitted \subseteq visited \cup {Root}
           /\ \A v \in visited : parent[v] \in admitted
           /\ \E P \in SUBSET visited :
                /\ Path(P, at) /\ Ahead(P) \cap visited = {}
                /\ \A n \in old : parent[n] \in admitted => n \in visited \cup Ahead(P)
BY DEF Inv, WalkInv, AtNode

(* The first child. *)
LEMMA ChildComes ==
    ASSUME Inv, walker # "none", at # NULL, child, FirstChild(at) # NULL
    PROVE  \E P : Comes(FirstChild(at), P)
<1> DEFINE n == FirstChild(at)
<1>1. PICK P \in SUBSET visited :
        /\ Path(P, at) /\ Ahead(P) \cap visited = {}
        /\ \A m \in old : parent[m] \in admitted => m \in visited \cup Ahead(P)
  BY Here
<1>2. /\ TreeInv /\ at \in visited /\ at \in admitted /\ old \subseteq Present
      /\ visited \subseteq Present
  BY Here
<1>3. /\ n \in Present /\ parent[n] = at
      /\ \A m \in Present : parent[m] = at => m =< n
  BY <1>2, FirstChildIs
<1> DEFINE Q == P \cup {n}
<1> HIDE DEF n
<1>4. \A m \in Present : m \in Nat /\ parent[m] \in Nat /\ parent[m] < m
  BY <1>2, Nodes
<1>5. /\ at \in P /\ P \subseteq Present
      /\ \A x \in P : x =< at /\ parent[x] \in P \cup {Root}
      /\ \A x, y \in P : x < y => x =< parent[y]
  BY <1>1 DEF Path
<1>6. at \in Nat /\ n \in Nat /\ at < n
  BY <1>2, <1>3, <1>4
<1>7. \A x \in P : x \in Nat /\ x =< at /\ x < n
  BY <1>4, <1>5, <1>6
<1>8. Path(Q, n)
  <2>1. Q \subseteq Present /\ n \in Q
    BY <1>3, <1>5
  <2>2. \A x \in Q : x =< n /\ parent[x] \in Q \cup {Root}
    BY <1>3, <1>5, <1>6, <1>7
  <2>3. ASSUME NEW x \in Q, NEW y \in Q, x < y
        PROVE  x =< parent[y]
    <3>1. x \in P
      BY <1>6, <1>7, <2>3
    <3>2. CASE y = n
      BY <1>3, <1>7, <3>1, <3>2
    <3>3. CASE y \in P
      BY <1>5, <2>3, <3>1, <3>3
    <3>4. QED
      BY <3>2, <3>3
  <2>4. QED
    BY <2>1, <2>2, <2>3 DEF Path
<1>9. \A m \in Ahead(P) : m \notin visited
  BY <1>1
<1>10. n \notin visited /\ n \in Present
  BY <1>3, <1>9 DEF Ahead
<1>11. ASSUME NEW m \in Older(Q)
       PROVE  m \notin visited /\ m # n
  <2>1. PICK s \in Q : parent[m] = parent[s] /\ m < s /\ m \in Present
    BY <1>11 DEF Older
  <2>2. CASE s = n
    <3>1. m \in Ahead(P)
      BY <1>3, <2>1, <2>2 DEF Ahead
    <3>2. QED
      BY <1>4, <1>6, <1>9, <2>1, <2>2, <3>1
  <2>3. CASE s \in P
    <3>1. m \in Ahead(P)
      BY <2>1, <2>3 DEF Ahead, Older
    <3>2. m \in Nat /\ s \in Nat /\ m < s /\ s < n
      BY <1>4, <1>7, <2>1, <2>3
    <3>3. QED
      BY <1>6, <1>9, <3>1, <3>2
  <2>4. QED
    BY <2>1, <2>2, <2>3
<1>12. ASSUME NEW m \in old, parent[m] \in admitted
       PROVE  m \in visited \cup {n} \cup Older(Q)
  <2>1. m \in Present
    BY <1>2
  <2>2. CASE parent[m] = at
    <3>1. m =< n /\ m \in Nat
      BY <1>3, <1>4, <2>1, <2>2
    <3>2. CASE m = n
      BY <3>2
    <3>3. CASE m # n
      <4>1. m < n /\ n \in Q /\ parent[m] = parent[n]
        BY <1>3, <1>6, <2>2, <3>1, <3>3
      <4>2. QED
        BY <2>1, <4>1 DEF Older
    <3>4. QED
      BY <3>2, <3>3
  <2>3. CASE m \in Older(P)
    BY <2>3 DEF Older
  <2>4. QED
    BY <1>1, <1>12, <2>2, <2>3 DEF Ahead
<1>13. /\ n \in Present \ visited /\ parent[n] \in admitted
       /\ Q \subseteq visited \cup {n} /\ Older(Q) \cap (visited \cup {n}) = {}
  BY <1>1, <1>2, <1>3, <1>10, <1>11
<1> HIDE DEF Q
<1>14. Comes(n, Q)
  BY <1>8, <1>12, <1>13 DEF Comes
<1>15. QED
  BY <1>14 DEF n

(* An older sibling of the node, or of one it is under. *)
LEMMA SiblingComes ==
    ASSUME Inv, walker # "none", at # NULL, ~child \/ FirstChild(at) = NULL
    PROVE  /\ Climb[at] # NULL => \E P : Comes(Climb[at], P)
           /\ Climb[at] = NULL => \A m \in old : parent[m] \in admitted => m \in visited
<1> DEFINE n == Climb[at]
<1>1. PICK P \in SUBSET visited :
        /\ Path(P, at) /\ Ahead(P) \cap visited = {}
        /\ \A m \in old : parent[m] \in admitted => m \in visited \cup Ahead(P)
  BY Here
<1>2. /\ TreeInv /\ at \in visited /\ (at \in admitted <=> child) /\ old \subseteq Present
      /\ visited \subseteq Present /\ \A v \in visited : parent[v] \in admitted
  BY Here
<1>3. \A m \in Present : m \in Nat /\ parent[m] \in Nat /\ parent[m] < m
  BY <1>2, Nodes
<1>4. /\ at \in P /\ P \subseteq Present
      /\ \A x \in P : x =< at /\ parent[x] \in P \cup {Root}
      /\ \A x, y \in P : x < y => x =< parent[y]
  BY <1>1 DEF Path
<1>5. Found(P, n)
  <2>1. Up(P, at)
    BY <1>1 DEF Up
  <2>2. QED
    BY <1>2, <2>1, ClimbFinds
<1> HIDE DEF n
<1>6. ASSUME NEW m \in old, parent[m] \in admitted, m \notin visited
      PROVE  m \in Present /\ \E s \in P : parent[m] = parent[s] /\ m < s
  <2>1. m \in Ahead(P) /\ m \in Present
    BY <1>1, <1>2, <1>6
  <2>2. parent[m] # at
    BY <1>2, <1>6, <2>1, FirstChildIs
  <2>3. m \in Older(P)
    BY <2>1, <2>2 DEF Ahead
  <2>4. QED
    BY <2>1, <2>3 DEF Older
<1>7. \A s \in P : s \in Present /\ s \in visited /\ s \in Nat
  BY <1>3, <1>4
<1>8. CASE n = NULL
  <2>1. \A x \in P : NextSibling(x) = NULL
    BY <1>5, <1>8 DEF Found
  <2>2. \A x \in P : \A m \in Present : parent[m] = parent[x] => ~(m < x)
    BY <1>2, <1>7, <2>1, NextSiblingIs
  <2>3. \A m \in old : parent[m] \in admitted => m \in visited
    BY <1>6, <2>2
  <2>4. QED
    BY <1>8, <2>3 DEF n
<1>9. CASE n # NULL
  <2>1. PICK k \in P : /\ NextSibling(k) # NULL /\ n = NextSibling(k)
                       /\ \A x \in P : k < x => NextSibling(x) = NULL
    BY <1>5, <1>9 DEF Found
  <2>2. /\ n \in Present /\ parent[n] = parent[k] /\ n < k
        /\ \A m \in Present : parent[m] = parent[k] /\ m < k => m =< n
    BY <1>2, <1>7, <2>1, NextSiblingIs
  <2>3. \A x \in P : k < x => \A m \in Present : parent[m] = parent[x] => ~(m < x)
    BY <1>2, <1>7, <2>1, NextSiblingIs
  <2> DEFINE R == {x \in P : x < k}
             Q == R \cup {n}
  <2>4. /\ n \in Nat /\ k \in Nat /\ parent[n] \in Nat /\ parent[n] < n
        /\ parent[n] \in P \cup {Root}
    BY <1>3, <1>4, <1>7, <2>2
  <2>5. \A x \in R : /\ x \in P /\ x \in Nat /\ x < k /\ x =< parent[n] /\ x < n
                     /\ parent[x] \in R \cup {Root}
    <3> TAKE x \in R
    <3>1. x \in P /\ x \in Nat /\ x < k /\ x =< parent[n]
      BY <1>4, <1>7, <2>2
    <3>2. x < n
      BY <2>4, <3>1
    <3>3. parent[x] \in P \cup {Root} /\ parent[x] \in Nat /\ parent[x] < x
      BY <1>3, <1>4, <1>7, <3>1
    <3>4. parent[x] < k
      BY <2>4, <3>1, <3>3
    <3>5. QED
      BY <3>1, <3>2, <3>3, <3>4
  <2>6. parent[n] \in R \cup {Root}
    BY <2>2, <2>4
  <2>7. Path(Q, n)
    <3>1. Q \subseteq Present /\ n \in Q
      BY <1>7, <2>2, <2>5
    <3> HIDE DEF R
    <3>2. \A x \in Q : x =< n /\ parent[x] \in Q \cup {Root}
      BY <2>4, <2>5, <2>6
    <3>3. ASSUME NEW x \in Q, NEW y \in Q, x < y
          PROVE  x =< parent[y]
      <4>1. x \in R
        BY <2>4, <2>5, <3>3
      <4>2. CASE y = n
        BY <2>5, <4>1, <4>2
      <4>3. CASE y \in R
        BY <1>4, <2>5, <3>3, <4>1, <4>3
      <4>4. QED
        BY <4>2, <4>3
    <3>4. QED
      BY <3>1, <3>2, <3>3 DEF Path
  <2>8. \A m \in Older(P) : m \notin visited
    BY <1>1 DEF Ahead
  <2>9. n \notin visited
    BY <2>2, <2>8 DEF Older
  <2>10. ASSUME NEW m \in Older(Q)
         PROVE  m \notin visited /\ m # n
    <3>1. PICK s \in Q : parent[m] = parent[s] /\ m < s /\ m \in Present
      BY <2>10 DEF Older
    <3>2. CASE s = n
      <4>1. m < n /\ m \in Nat /\ m < k /\ parent[m] = parent[k]
        BY <1>3, <2>2, <2>4, <3>1, <3>2
      <4>2. m \in Older(P)
        BY <3>1, <4>1 DEF Older
      <4>3. QED
        BY <2>4, <2>8, <4>1, <4>2
    <3>3. CASE s \in R
      <4>1. m \in Older(P) /\ m \in Nat /\ s \in Nat /\ s < n
        BY <1>3, <2>5, <3>1, <3>3 DEF Older
      <4>2. QED
        BY <2>4, <2>8, <3>1, <4>1
    <3>4. QED
      BY <3>1, <3>2, <3>3
  <2>11. ASSUME NEW m \in old, parent[m] \in admitted
         PROVE  m \in visited \cup {n} \cup Older(Q)
    <3>1. CASE m \in visited
      BY <3>1
    <3>2. CASE m \notin visited
      <4>1. PICK s \in P : parent[m] = parent[s] /\ m < s /\ m \in Present
        BY <1>6, <2>11, <3>2
      <4>2. ~(k < s) /\ s \in Nat /\ m \in Nat
        BY <1>3, <1>7, <2>3, <4>1
      <4>3. CASE s = k
        <5>1. m =< n /\ parent[m] = parent[n]
          BY <2>2, <4>1, <4>3
        <5>2. m = n \/ m < n
          BY <2>4, <4>2, <5>1
        <5>3. m < n => m \in Older(Q)
          BY <4>1, <5>1 DEF Older
        <5>4. QED
          BY <5>2, <5>3
      <4>4. CASE s # k
        <5>1. s < k
          BY <2>4, <4>2, <4>4
        <5>2. s \in Q
          BY <5>1
        <5> HIDE DEF Q
        <5>3. m \in Older(Q)
          BY <4>1, <5>2 DEF Older
        <5>4. QED
          BY <5>3
      <4>5. QED
        BY <4>3, <4>4
    <3>3. QED
      BY <3>1, <3>2
  <2>12. /\ n \in Present \ visited /\ parent[n] \in admitted
         /\ Q \subseteq visited \cup {n} /\ Older(Q) \cap (visited \cup {n}) = {}
    <3>1. parent[n] \in admitted
      BY <1>2, <1>7, <2>2
    <3>2. Q \subseteq visited \cup {n}
      BY <1>7
    <3> HIDE DEF Q
    <3>3. QED
      BY <2>2, <2>9, <2>10, <3>1, <3>2
  <2> HIDE DEF Q
  <2>13. Comes(n, Q)
    BY <2>7, <2>11, <2>12 DEF Comes
  <2>14. QED
    BY <1>9, <2>13 DEF n
<1>10. QED
  BY <1>8, <1>9

(* sabi_next_node returns such a node, or none if nothing is left out. *)
LEMMA NextComes ==
    ASSUME Inv, walker # "none"
    PROVE  /\ NextNode(at, child) # NULL => \E P : Comes(NextNode(at, child), P)
           /\ NextNode(at, child) = NULL =>
                \A m \in old : parent[m] \in admitted => m \in visited
<1> DEFINE n == NextNode(at, child)
<1>1. n = IF at = NULL THEN FirstChild(Root)
          ELSE IF child /\ FirstChild(at) # NULL THEN FirstChild(at)
          ELSE Climb[at]
  BY NextNodeIs
<1> HIDE DEF n
<1>2. child \in BOOLEAN
  BY DEF Inv
<1>3. CASE at = NULL
  <2>1. n = FirstChild(Root)
    BY <1>1, <1>3
  <2>2. QED
    BY <1>3, <2>1, FirstComes DEF n
<1>4. CASE at # NULL /\ child /\ FirstChild(at) # NULL
  <2>1. n = FirstChild(at)
    BY <1>1, <1>4
  <2>2. QED
    BY <1>4, <2>1, ChildComes DEF n
<1>5. CASE at # NULL /\ ~(child /\ FirstChild(at) # NULL)
  <2>1. n = Climb[at]
    BY <1>1, <1>5
  <2>2. QED
    BY <1>2, <1>5, <2>1, SiblingComes DEF n
<1>6. QED
  BY <1>3, <1>4, <1>5

-----------------------------------------------------------------------------
(* Steps. *)

(* A step of NodeWalk is a step of TreeWalk or none, and it keeps Inv. *)
Follows == (Walk!Next \/ UNCHANGED Walk!vars) /\ Inv'

(* The walk does not change the tree. *)
LEMMA TreeKept ==
    ASSUME TreeInv, parent' = parent
    PROVE  TreeInv' /\ Present' = Present
BY DEF TreeInv, Present

(* Nor what is ahead. *)
LEMMA SameAhead ==
    ASSUME parent' = parent, NEW P
    PROVE  /\ Older(P)' = Older(P)
           /\ \A a : a = at' /\ Path(P, a) => Path(P, at)'
           /\ \A m : m \in Ahead(P)' <=> m \in Older(P) \/ (m \in Present /\ parent[m] = at')
<1>1. Present' = Present
  BY DEF Present
<1>2. Older(P)' = Older(P)
  BY <1>1 DEF Older
<1>3. \A a : a = at' /\ Path(P, a) => Path(P, at)'
  BY <1>1 DEF Path
<1>4. \A m : m \in Ahead(P)' <=> m \in Older(P) \/ (m \in Present /\ parent[m] = at')
  BY <1>1, <1>2 DEF Ahead
<1>5. QED
  BY <1>2, <1>3, <1>4

(* sabi_next_node returns a node. *)
LEMMA StepFollows ==
    ASSUME Inv, Step
    PROVE  Follows
<1> DEFINE n == NextNode(at, child)
<1>1. /\ phase = "next" /\ n # NULL /\ at' = n /\ child' = FALSE
      /\ visited' = visited \cup {n} /\ phase' \in {"outside", "look"}
      /\ parent' = parent /\ kind' = kind /\ walker' = walker /\ old' = old
      /\ admitted' = admitted
  BY DEF Step, tree
<1>2. walker # "none"
  BY <1>1 DEF Inv, WalkInv
<1>3. PICK P : Comes(n, P)
  BY <1>1, <1>2, NextComes
<1> HIDE DEF n
<1>4. /\ TreeInv /\ old \subseteq Present /\ visited \subseteq Present
      /\ Root \in admitted /\ admitted \subseteq visited \cup {Root}
      /\ \A v \in visited : parent[v] \in admitted
  BY <1>2 DEF Inv, WalkInv
<1>5. /\ n \in Present \ visited /\ parent[n] \in admitted
      /\ P \subseteq visited \cup {n} /\ Path(P, n)
      /\ Older(P) \cap (visited \cup {n}) = {}
      /\ \A m \in old : parent[m] \in admitted => m \in visited \cup {n} \cup Older(P)
  BY <1>3 DEF Comes
<1>6. TreeInv' /\ Present' = Present
  BY <1>1, <1>4, TreeKept
<1>7. n # Root /\ n \in Node /\ parent[n] # n
  BY <1>4, <1>5, Nodes
<1>8. n \notin admitted
  BY <1>4, <1>5, <1>7
<1>9. Path(P, at)'
  BY <1>1, <1>5, SameAhead
<1>10. (Ahead(P) \cap visited)' = {}
  <2>1. ASSUME NEW m \in Ahead(P)'
        PROVE  m \notin visited'
    <3>1. m \in Older(P) \/ (m \in Present /\ parent[m] = n)
      BY <1>1, <2>1, SameAhead
    <3>2. m \in Older(P) => m \notin visited'
      BY <1>1, <1>5
    <3>3. parent[m] = n => m \notin visited
      BY <1>4, <1>8
    <3>4. QED
      BY <1>1, <1>7, <3>1, <3>2, <3>3
  <2>2. QED
    BY <2>1
<1>11. \A m \in old' : parent'[m] \in admitted' => m \in (visited \cup Ahead(P))'
  <2>1. \A m \in Older(P) : m \in Ahead(P)'
    BY <1>1, SameAhead
  <2>2. QED
    BY <1>1, <1>5, <2>1
<1>12. AtNode'
  <2>1. at' \in visited' /\ (at' \in admitted' <=> child') /\ P \in SUBSET visited'
    BY <1>1, <1>5, <1>8
  <2>2. QED
    BY <1>9, <1>10, <1>11, <2>1 DEF AtNode
<1>13. Inv'
  <2>1. /\ old' \subseteq Present' /\ visited' \subseteq Present'
        /\ Root \in admitted' /\ admitted' \subseteq visited' \cup {Root}
    BY <1>1, <1>4, <1>5, <1>6
  <2>2. \A v \in visited' : parent'[v] \in admitted'
    BY <1>1, <1>4, <1>5
  <2>3. at' # NULL /\ ~child' /\ walker' # "none" /\ child' \in BOOLEAN
    BY <1>1, <1>2
  <2>4. QED
    BY <1>6, <1>12, <2>1, <2>2, <2>3 DEF Inv, WalkInv
<1>14. Walk!Visit(n)
  BY <1>1, <1>2, <1>5 DEF Walk!Visit, Walk!Present, Present
<1>15. QED
  BY <1>7, <1>13, <1>14 DEF Follows, Walk!Next

(* It returns none. *)
LEMMA EndFollows ==
    ASSUME Inv, End
    PROVE  Follows
<1>1. /\ phase = "next" /\ NextNode(at, child) = NULL /\ walker' = "none"
      /\ phase' = "outside" /\ at' = NULL /\ child' = FALSE
      /\ old' = {} /\ visited' = {} /\ admitted' = {} /\ parent' = parent
  BY DEF End, tree
<1>2. walker # "none"
  BY <1>1 DEF Inv, WalkInv
<1>3. \A n \in old : parent[n] \in admitted => n \in visited
  BY <1>1, <1>2, NextComes
<1>4. Walk!End
  BY <1>1, <1>2, <1>3 DEF Walk!End
<1>5. Inv'
  <2>1. TreeInv'
    BY <1>1, TreeKept DEF Inv
  <2>2. QED
    BY <1>1, <2>1 DEF Inv, WalkInv
<1>6. QED
  BY <1>4, <1>5 DEF Follows, Walk!Next

(* A walk begins. *)
LEMMA BeginFollows ==
    ASSUME Inv, NEW who \in {"init", "pci", "user"}, Begin(who)
    PROVE  Follows
<1>1. /\ walker = "none" /\ walker' = who /\ phase' = "next" /\ at' = NULL
      /\ child' = (who = "pci") /\ old' = Present /\ visited' = {}
      /\ admitted' = {Root} /\ parent' = parent
  BY DEF Begin, tree
<1>2. Walk!Begin
  BY <1>1 DEF Walk!Begin, Walk!Present, Present
<1>3. TreeInv' /\ Present' = Present
  BY <1>1, TreeKept DEF Inv
<1>4. walker' # "none" /\ child' \in BOOLEAN
  BY <1>1
<1>5. Inv'
  BY <1>1, <1>3, <1>4 DEF Inv, WalkInv
<1>6. QED
  BY <1>2, <1>5 DEF Follows, Walk!Next

(* The children of the node may come next, or not. *)
LEMMA GoesFollows ==
    ASSUME Inv, walker # "none", phase # "next", NEW down \in BOOLEAN,
           child' = down, phase' = "next", admitted' = IF down THEN admitted \cup {at} ELSE admitted,
           UNCHANGED <<parent, walker, at, old, visited>>
    PROVE  Follows
<1>1. at # NULL /\ ~child
  BY DEF Inv, WalkInv
<1>2. /\ TreeInv /\ at \in visited /\ (at \in admitted <=> child)
      /\ old \subseteq Present /\ visited \subseteq Present
      /\ Root \in admitted /\ admitted \subseteq visited \cup {Root}
      /\ \A v \in visited : parent[v] \in admitted
  BY <1>1, Here
<1>3. PICK P \in SUBSET visited :
        /\ Path(P, at) /\ Ahead(P) \cap visited = {}
        /\ \A n \in old : parent[n] \in admitted => n \in visited \cup Ahead(P)
  BY <1>1, Here
<1>4. TreeInv' /\ Present' = Present /\ parent' = parent
  BY <1>2, TreeKept
<1>5. Path(P, at)'
  BY <1>3, SameAhead
<1>6. \A m : m \in Ahead(P)' <=> m \in Ahead(P)
  BY SameAhead DEF Ahead
<1>7. ASSUME NEW n \in old, parent[n] \in admitted'
      PROVE  n \in visited \cup Ahead(P)
  <2>1. CASE parent[n] \in admitted
    BY <1>3, <2>1
  <2>2. CASE parent[n] = at
    BY <1>2, <2>2 DEF Ahead
  <2>3. QED
    BY <1>7, <2>1, <2>2
<1>8. AtNode'
  <2>1. /\ at' \in visited' /\ (at' \in admitted' <=> child') /\ P \in SUBSET visited'
        /\ (Ahead(P) \cap visited)' = {}
    BY <1>1, <1>2, <1>3, <1>6
  <2>2. \A n \in old' : parent'[n] \in admitted' => n \in (visited \cup Ahead(P))'
    BY <1>4, <1>6, <1>7
  <2>3. QED
    BY <1>5, <2>1, <2>2 DEF AtNode
<1>9. Inv'
  <2>1. /\ old' \subseteq Present' /\ visited' \subseteq Present'
        /\ Root \in admitted' /\ admitted' \subseteq visited' \cup {Root}
    BY <1>2, <1>4
  <2>2. \A v \in visited' : parent'[v] \in admitted'
    BY <1>2, <1>4
  <2>3. at' # NULL /\ walker' # "none" /\ child' \in BOOLEAN /\ phase' = "next"
    BY <1>1
  <2>4. QED
    BY <1>4, <1>8, <2>1, <2>2, <2>3 DEF Inv, WalkInv
<1>10. CASE down
  <2>1. Walk!Admit(at)
    BY <1>2, <1>10 DEF Walk!Admit
  <2>2. at \in Node
    BY <1>2, Nodes
  <2>3. QED
    BY <1>9, <2>1, <2>2 DEF Follows, Walk!Next
<1>11. CASE ~down
  <2>1. UNCHANGED Walk!vars
    BY <1>11 DEF Walk!vars
  <2>2. QED
    BY <1>9, <2>1 DEF Follows
<1>12. QED
  BY <1>10, <1>11

(* The next call from outside, and what the loops of the library decide. *)
LEMMA DecisionFollows ==
    ASSUME Inv, Continue \/ InitDevice \/ PassNode
    PROVE  Follows
<1>1. PICK down \in BOOLEAN :
        /\ child' = down /\ phase' = "next" /\ phase # "next" /\ walker # "none"
        /\ admitted' = IF down THEN admitted \cup {at} ELSE admitted
        /\ UNCHANGED <<parent, walker, at, old, visited>>
  <2>1. CASE Continue
    <3>1. child' \in BOOLEAN
      BY <2>1 DEF Continue
    <3>2. QED
      BY <2>1, <3>1 DEF Continue, tree
  <2>2. CASE InitDevice
    <3>1. PICK sta \in {"present", "functioning", "absent"} :
            Goes(IsScope(kind[at]) /\ sta # "absent")
      BY <2>2 DEF InitDevice
    <3> DEFINE down == IsScope(kind[at]) /\ sta # "absent"
    <3>2. down \in BOOLEAN /\ Goes(down)
      BY <3>1
    <3> HIDE DEF down
    <3>3. QED
      BY <2>2, <3>2 DEF InitDevice, Goes, tree
  <2>3. CASE PassNode
    <3> DEFINE down == IsDevice(kind[at])
    <3>1. down \in BOOLEAN /\ Goes(down)
      BY <2>3 DEF PassNode, IsDevice
    <3> HIDE DEF down
    <3>2. QED
      BY <2>3, <3>1 DEF PassNode, Goes, tree
  <2>4. QED
    BY <2>1, <2>2, <2>3
<1>2. QED
  BY <1>1, GoesFollows

(* A bridge is returned. *)
LEMMA ReturnBridgeFollows ==
    ASSUME Inv, ReturnBridge
    PROVE  Follows
<1>1. /\ walker = "pci" /\ phase = "look" /\ phase' = "outside"
      /\ UNCHANGED <<parent, walker, at, child, old, visited, admitted>>
  BY DEF ReturnBridge, tree, ghosts
<1>2. TreeInv' /\ Present' = Present
  BY <1>1, TreeKept DEF Inv
<1>3. AtNode' <=> AtNode
  BY <1>1, <1>2 DEF AtNode, Path, Ahead, Older
<1>4. /\ walker' # "none" /\ walker # "none" /\ phase # "next" /\ at # NULL /\ ~child
      /\ AtNode
  BY <1>1 DEF Inv, WalkInv
<1>5. Inv'
  BY <1>1, <1>2, <1>3, <1>4 DEF Inv, WalkInv
<1>6. UNCHANGED Walk!vars
  BY <1>1 DEF Walk!vars
<1>7. QED
  BY <1>5, <1>6 DEF Follows

(* A table adds a node. *)
LEMMA LoadTableFollows ==
    ASSUME Inv, NEW p, NEW k, LoadTable(p, k)
    PROVE  Follows
<1> DEFINE n == 1 + Latest(Present \cup {Root})
<1>1. /\ phase = "outside" /\ p \in Present \cup {Root} /\ n =< MaxNodes
      /\ parent' = [m \in 1..n |-> IF m = n THEN p ELSE parent[m]]
      /\ UNCHANGED <<walker, at, child, phase, old, visited, admitted>>
  BY DEF LoadTable, ghosts
<1>2. TreeInv
  BY DEF Inv
<1>3. PICK size \in 0..MaxNodes : Sized(size) /\ Present = 1..size /\ size \in Nat
  BY <1>2, TreeSize
<1>4. n = size + 1
  <2> DEFINE S == Present \cup {Root}
  <2>1. S = 0..size /\ size \in S
    BY <1>3 DEF Root
  <2>2. Latest(S) \in S /\ size =< Latest(S)
    BY <1>3, <2>1, LatestIs
  <2> HIDE DEF S
  <2>3. Latest(S) = size
    BY <1>3, <2>1, <2>2
  <2>4. QED
    BY <1>3, <2>3 DEF S
<1> HIDE DEF n
<1>5. /\ n \in Nat /\ n \notin Present /\ 1..n = Present \cup {n} /\ n \in 0..MaxNodes
      /\ n \in Node
  BY <1>1, <1>3, <1>4, MaxNodesAssumption DEF Node
<1>6. parent' = [m \in Present \cup {n} |-> IF m = n THEN p ELSE parent[m]]
  BY <1>1, <1>5
<1>7. Present' = Present \cup {n}
  BY <1>6 DEF Present
<1>8. /\ \A m \in Present : parent'[m] = parent[m]
      /\ parent'[n] = p
  BY <1>5, <1>6
<1>9. Walk!Grow(n, p)
  BY <1>1, <1>5, <1>6 DEF Walk!Grow, Walk!Present, Present
<1>10. TreeInv'
  <2>1. p \in 0..n /\ p < n
    BY <1>1, <1>3, <1>4 DEF Root
  <2>2. \A m \in 1..n : m # n => m \in 1..size /\ parent[m] \in 0..n /\ parent[m] < m
    BY <1>3, <1>4 DEF Sized
  <2>3. parent' \in [1..n -> 0..n]
    BY <1>1, <2>1, <2>2
  <2>4. \A m \in 1..n : parent'[m] < m
    BY <1>1, <2>1, <2>2
  <2>5. QED
    BY <1>5, <2>3, <2>4 DEF TreeInv
<1>11. ASSUME walker # "none"
       PROVE  AtNode'
  <2>1. at # NULL
    BY <1>1, <1>11 DEF Inv, WalkInv
  <2>2. /\ at \in visited /\ (at \in admitted <=> child) /\ old \subseteq Present
        /\ visited \subseteq Present
    BY <1>11, <2>1, Here
  <2>3. PICK P \in SUBSET visited :
          /\ Path(P, at) /\ Ahead(P) \cap visited = {}
          /\ \A m \in old : parent[m] \in admitted => m \in visited \cup Ahead(P)
    BY <1>11, <2>1, Here
  <2>4. \A m \in Present : m \in Nat /\ m < n
    BY <1>3, <1>4
  <2>5. P \subseteq Present
    BY <2>2
  <2>6. Path(P, at)'
    BY <1>1, <1>7, <1>8, <2>3, <2>5 DEF Path
  <2>7. \A m \in Present : m \in Ahead(P)' <=> m \in Ahead(P)
    <3>1. \A m \in Present : m \in Older(P)' <=> m \in Older(P)
      BY <1>7, <1>8, <2>5 DEF Older
    <3>2. QED
      BY <1>1, <1>7, <1>8, <3>1 DEF Ahead
  <2>8. \A m \in old : parent'[m] \in admitted' => m \in (visited \cup Ahead(P))'
    <3>1. ASSUME NEW m \in old, parent'[m] \in admitted'
          PROVE  m \in visited' \cup Ahead(P)'
      <4>1. m \in Present /\ parent[m] \in admitted
        BY <1>1, <1>8, <2>2, <3>1
      <4>2. m \in visited \cup Ahead(P)
        BY <2>3, <4>1
      <4>3. QED
        BY <1>1, <2>7, <4>1, <4>2
    <3>2. QED
      BY <3>1
  <2>9. (Ahead(P) \cap visited)' = {}
    BY <1>1, <2>2, <2>3, <2>7
  <2>10. at' \in visited' /\ (at' \in admitted' <=> child') /\ P \in SUBSET visited'
    BY <1>1, <2>2
  <2>11. QED
    BY <1>1, <2>6, <2>8, <2>9, <2>10 DEF AtNode
<1>12. Inv'
  <2>1. walker = "none" => WalkInv'
    BY <1>1 DEF Inv, WalkInv
  <2>2. ASSUME walker # "none"
        PROVE  WalkInv'
    <3>1. /\ at # NULL /\ ~child /\ old \subseteq Present /\ visited \subseteq Present
          /\ Root \in admitted /\ admitted \subseteq visited \cup {Root}
          /\ \A v \in visited : parent[v] \in admitted
      BY <1>1, <2>2 DEF Inv, WalkInv
    <3>2. \A v \in visited : parent'[v] \in admitted
      BY <1>8, <3>1
    <3>3. old \subseteq Present' /\ visited \subseteq Present'
      BY <1>7, <3>1
    <3>4. QED
      BY <1>1, <1>11, <2>2, <3>1, <3>2, <3>3 DEF WalkInv
  <2>3. child' \in BOOLEAN
    BY <1>1 DEF Inv
  <2>4. QED
    BY <1>10, <2>1, <2>2, <2>3 DEF Inv
<1>13. p \in Node \cup {Root}
  BY <1>1, <1>2, Nodes
<1>14. QED
  BY <1>5, <1>9, <1>12, <1>13 DEF Follows, Walk!Next

-----------------------------------------------------------------------------
(* The theorems. *)

(* At first there is no walk. *)
LEMMA Initially == Init => Inv /\ Walk!Init
<1> SUFFICES ASSUME Init
             PROVE  Inv /\ Walk!Init
  OBVIOUS
<1>1. PICK size \in 0..MaxNodes : /\ parent \in [1..size -> 0..size]
                                  /\ \A n \in 1..size : parent[n] < n
  BY DEF Init
<1>2. /\ walker = "none" /\ phase = "outside" /\ at = NULL /\ child = FALSE
      /\ old = {} /\ visited = {} /\ admitted = {}
  BY DEF Init
<1>3. TreeInv
  BY <1>1 DEF TreeInv
<1>4. Inv
  BY <1>2, <1>3 DEF Inv, WalkInv
<1>5. Present \subseteq Node
  BY <1>3, Nodes
<1>6. Walk!Init
  BY <1>2, <1>5 DEF Walk!Init, Walk!Present, Present
<1>7. QED
  BY <1>4, <1>6

(* Every step of NodeWalk is a step of TreeWalk or none. *)
LEMMA NextFollows == Inv /\ [Next]_vars => Follows
<1> SUFFICES ASSUME Inv, [Next]_vars
             PROVE  Follows
  OBVIOUS
<1>1. CASE \E who \in {"init", "pci", "user"} : Begin(who)
  BY <1>1, BeginFollows
<1>2. CASE Continue
  BY <1>2, DecisionFollows
<1>3. CASE Loops
  BY <1>3, StepFollows, EndFollows, DecisionFollows, ReturnBridgeFollows DEF Loops
<1>4. CASE \E p \in Node \cup {Root}, k \in Kind : LoadTable(p, k)
  BY <1>4, LoadTableFollows
<1>5. CASE UNCHANGED vars
  <2>1. /\ parent' = parent
        /\ UNCHANGED <<walker, at, child, phase, old, visited, admitted>>
    BY <1>5 DEF vars, tree, ghosts
  <2>2. TreeInv' /\ Present' = Present
    BY <2>1, TreeKept DEF Inv
  <2>3. AtNode' <=> AtNode
    BY <2>1, <2>2 DEF AtNode, Path, Ahead, Older
  <2>4. Inv'
    BY <2>1, <2>2, <2>3 DEF Inv, WalkInv
  <2>5. UNCHANGED Walk!vars
    BY <2>1 DEF Walk!vars
  <2>6. QED
    BY <2>4, <2>5 DEF Follows
<1>6. QED
  BY <1>1, <1>2, <1>3, <1>4, <1>5 DEF Next

(* sabi_next_node comes to every node that its callers let it come to,     *)
(* once and after its parent, in every tree, with any bound on its nodes,  *)
(* and also if tables add nodes between its calls.                         *)
THEOREM WalkIsComplete == Spec => WalkSpec
<1>1. Init => Inv /\ Walk!Init
  BY Initially
<1>2. Inv /\ [Next]_vars => Inv' /\ [Walk!Next]_(Walk!vars)
  BY NextFollows DEF Follows
<1>3. QED
  BY <1>1, <1>2, PTL DEF Spec, WalkSpec, Walk!Spec

=============================================================================
