------------------------- MODULE FieldAccessProofs -------------------------
(***************************************************************************)
(* Proofs about FieldAccess, for all lists of elements, offsets, lengths,  *)
(* access types, update rules, values and contents: fields of one list do  *)
(* not overlap, and accesses implement rows of bits.                       *)
(***************************************************************************)
EXTENDS FieldAccess, TLAPS, NaturalsInduction, WellFoundedInduction

(* Every set of naturals has a least element. *)
LEMMA Least ==
    ASSUME NEW S \in SUBSET Nat, S # {}
    PROVE  \E x \in S : \A y \in S : x =< y
<1> DEFINE R == {r \in Nat \X Nat : r[1] < r[2]}
<1>1. OpToRel(<, Nat) = R
  BY Zenon DEF OpToRel
<1>2. IsWellFoundedOn(R, Nat)
  BY <1>1, NatLessThanWellFounded
<1>3. PICK x \in S : \A y \in S : ~(<<y, x>> \in R)
  <2> HIDE DEF R
  <2>1. QED
    BY <1>2, WFMin
<1>4. \A y \in S : y \in Nat /\ ~(y < x)
  <2> TAKE y \in S
  <2>1. y \in Nat /\ x \in Nat
    OBVIOUS
  <2>2. y < x => <<y, x>> \in R
    BY <2>1
  <2>3. QED
    BY <1>3, <2>1, <2>2
<1>5. QED
  BY <1>4

(* What holds of 0 and of each number's successor up to k holds up to k.   *)
LEMMA UpTo ==
    ASSUME NEW k \in Nat, NEW S, 0 \in S, \A n \in 0..(k - 1) : n \in S => n + 1 \in S
    PROVE  0..k \subseteq S
<1>1. SUFFICES ASSUME (0..k) \ S # {} PROVE FALSE
  OBVIOUS
<1>2. PICK m \in (0..k) \ S : \A n \in (0..k) \ S : m =< n
  <2>1. (0..k) \ S \in SUBSET Nat
    OBVIOUS
  <2>2. QED
    BY <1>1, <2>1, Least
<1>3. m # 0 /\ m - 1 \in 0..(k - 1) /\ m - 1 + 1 = m
  BY <1>2
<1>4. m - 1 \in S
  BY <1>2, <1>3
<1>5. QED
  BY <1>2, <1>3, <1>4

-----------------------------------------------------------------------------
(* Loops over units. *)

Steps(k, S) == [1..k -> [S -> S]]
Loop(f, k, S, first, step) ==
    f \in [0..k -> S] /\ f[0] = first /\ \A n \in 1..k : f[n] = step[n][f[n - 1]]

(* A loop that steps from one state of S to another exists. *)
LEMMA LoopExists ==
    ASSUME NEW k \in Nat, NEW S, NEW s \in S, NEW step \in Steps(k, S)
    PROVE  \E f : Loop(f, k, S, s, step)
<1> USE DEF Steps
<1> DEFINE T == {m \in Nat : m =< k => \E f : Loop(f, m, S, s, step)}
<1>1. 0 \in T
  <2>1. Loop([n \in 0..0 |-> s], 0, S, s, step)
    BY DEF Loop
  <2>2. QED
    BY <2>1
<1>2. ASSUME NEW m \in 0..(k - 1), m \in T PROVE m + 1 \in T
  <2>0. \E f : Loop(f, m, S, s, step)
    BY <1>2
  <2>1. PICK f : f \in [0..m -> S] /\ f[0] = s /\ \A n \in 1..m : f[n] = step[n][f[n - 1]]
    BY <2>0 DEF Loop
  <2> DEFINE g == [n \in 0..(m + 1) |-> IF n = m + 1 THEN step[m + 1][f[m]] ELSE f[n]]
  <2>2. step[m + 1][f[m]] \in S
    BY <2>1
  <2>3. g \in [0..(m + 1) -> S]
    BY <2>1, <2>2
  <2>4. ASSUME NEW n \in 1..(m + 1)
        PROVE  g[n] = step[n][g[n - 1]]
    <3>1. CASE n = m + 1
      <4>1. g[m + 1] = step[m + 1][f[m]] /\ g[m] = f[m] /\ m + 1 - 1 = m
        OBVIOUS
      <4>2. QED
        BY <3>1, <4>1
    <3>2. CASE n \in 1..m
      BY <2>1, <3>2
    <3>3. QED
      BY <3>1, <3>2
  <2>5. Loop(g, m + 1, S, s, step)
    <3>1. g[0] = s
      BY <2>1
    <3>2. QED
      BY <2>3, <2>4, <3>1 DEF Loop
  <2>6. m + 1 \in Nat
    OBVIOUS
  <2>7. QED
    BY <2>5, <2>6
<1>3. 0..k \subseteq T
  BY <1>1, <1>2, UpTo
<1>4. k \in T
  BY <1>3
<1>5. QED
  BY <1>4

-----------------------------------------------------------------------------
(* Units. *)
Widths == {8, 16, 32, 64}

(* Division by a width, and by what units are counted with. *)
LEMMA Divided ==
    ASSUME NEW n \in Nat, NEW w \in Widths
    PROVE  \E q \in Nat, r \in 0..(w - 1) : q = n \div w /\ r = n % w /\ n = w * q + r
<1>1. PICK q, r : q = n \div w /\ r = n % w
  OBVIOUS
<1>2. CASE w = 8
  <2>1. q \in Nat /\ r \in 0..7 /\ n = 8 * q + r
    BY <1>1, <1>2
  <2>2. QED
    BY <1>1, <1>2, <2>1
<1>3. CASE w = 16
  <2>1. q \in Nat /\ r \in 0..15 /\ n = 16 * q + r
    BY <1>1, <1>3
  <2>2. QED
    BY <1>1, <1>3, <2>1
<1>4. CASE w = 32
  <2>1. q \in Nat /\ r \in 0..31 /\ n = 32 * q + r
    BY <1>1, <1>4
  <2>2. QED
    BY <1>1, <1>4, <2>1
<1>5. CASE w = 64
  <2>1. q \in Nat /\ r \in 0..63 /\ n = 64 * q + r
    BY <1>1, <1>5
  <2>2. QED
    BY <1>1, <1>5, <2>1
<1>6. QED
  BY <1>2, <1>3, <1>4, <1>5 DEF Widths

(* The units that an access to size bits from the bit off touches, when    *)
(* they fit in a word.                                                     *)
Fits(rs, off, size, w) ==
    /\ rs.address \in Nat /\ rs.count \in Nat \ {0} /\ rs.count * w =< 64
    /\ rs.width = w /\ rs.offset \in 0..(w - 1) /\ rs.size = size
    /\ 8 * rs.address + rs.offset = off
    /\ rs.offset + size =< rs.count * w /\ (rs.count - 1) * w < rs.offset + size
    /\ w * (off \div w) = 8 * rs.address
    /\ w * ((off + size - 1) \div w + 1) = 8 * rs.address + rs.count * w
    /\ ~rs.partial => rs.offset = 0 /\ size = rs.count * w

(* What access_align computes, in units of the width. *)
LEMMA AlignIs ==
    ASSUME NEW off \in Nat, NEW size \in Nat \ {0}, NEW w \in Widths, NEW update, NEW rw,
           NEW rs, rs = Align(off, size, w, update, rw), ~TooWide(rs)
    PROVE  /\ Fits(rs, off, size, w) /\ rs.partial \in BOOLEAN /\ rs.update = update
           /\ rs.read <=> rw = "read" \/ (update = "preserve" /\ rs.partial)
<1>1. /\ rs.address = (off \div 8) - ((off \div 8) % (w \div 8))
      /\ rs.count = ((off % w) + size + w - 1) \div w
      /\ rs.width = w /\ rs.offset = off % w /\ rs.size = size
      /\ rs.partial = (off % w # 0 \/ size % w # 0) /\ rs.update = update
      /\ rs.read <=> rw = "read" \/ (update = "preserve" /\ rs.partial)
  BY DEF Align
<1>2. PICK q \in Nat, r \in 0..(w - 1) : q = off \div w /\ r = off % w /\ off = w * q + r
  BY Divided
<1>3. PICK c \in Nat, t \in 0..(w - 1) : c = (r + size + w - 1) \div w /\ r + size + w - 1 = w * c + t
  <2>1. r + size + w - 1 \in Nat
    BY DEF Widths
  <2>2. QED
    BY <2>1, Divided
<1>4. rs.address = (w \div 8) * q
  <2>1. CASE w = 8
    <3>1. (off \div 8) - ((off \div 8) % (8 \div 8)) = (8 \div 8) * (off \div 8)
      OBVIOUS
    <3>2. QED
      BY <1>1, <1>2, <2>1, <3>1
  <2>2. CASE w = 16
    <3>1. (off \div 8) - ((off \div 8) % (16 \div 8)) = (16 \div 8) * (off \div 16)
      OBVIOUS
    <3>2. QED
      BY <1>1, <1>2, <2>2, <3>1
  <2>3. CASE w = 32
    <3>1. (off \div 8) - ((off \div 8) % (32 \div 8)) = (32 \div 8) * (off \div 32)
      OBVIOUS
    <3>2. QED
      BY <1>1, <1>2, <2>3, <3>1
  <2>4. CASE w = 64
    <3>1. (off \div 8) - ((off \div 8) % (64 \div 8)) = (64 \div 8) * (off \div 64)
      OBVIOUS
    <3>2. QED
      BY <1>1, <1>2, <2>4, <3>1
  <2>5. QED
    BY <2>1, <2>2, <2>3, <2>4 DEF Widths
<1>5. rs.count = c /\ rs.offset = r
  BY <1>1, <1>2, <1>3
<1>6. c * w =< 64
  BY <1>1, <1>3, <1>5 DEF TooWide, Widths
<1>7. PICK d \in Nat, u \in 0..(w - 1) : d = (off + size - 1) \div w /\ off + size - 1 = w * d + u
  <2>1. off + size - 1 \in Nat
    OBVIOUS
  <2>2. QED
    BY <2>1, Divided
<1>8. PICK e \in Nat, x \in 0..(w - 1) : x = size % w /\ size = w * e + x
  BY Divided
<1>9. c # 0 /\ r + size =< c * w /\ (c - 1) * w < r + size /\ d = q + c - 1
      /\ (r = 0 /\ x = 0 => size = c * w) /\ 8 * ((w \div 8) * q) = w * q
  <2>1. CASE w = 8
    BY <1>2, <1>3, <1>7, <1>8, <2>1
  <2>2. CASE w = 16
    BY <1>2, <1>3, <1>7, <1>8, <2>2
  <2>3. CASE w = 32
    BY <1>2, <1>3, <1>7, <1>8, <2>3
  <2>4. CASE w = 64
    BY <1>2, <1>3, <1>7, <1>8, <2>4
  <2>5. QED
    BY <2>1, <2>2, <2>3, <2>4 DEF Widths
<1>10. Fits(rs, off, size, w)
  <2>1. w \in Nat /\ w \div 8 \in Nat
    BY DEF Widths
  <2>2. 8 * rs.address + rs.offset = off /\ rs.address \in Nat
    BY <1>2, <1>4, <1>5, <1>9, <2>1
  <2>3. w * (off \div w) = 8 * rs.address
    BY <1>2, <1>4, <1>9
  <2>4. w * ((off + size - 1) \div w + 1) = 8 * rs.address + rs.count * w
    <3>1. w * (q + c - 1 + 1) = w * q + c * w
      BY <2>1
    <3>2. QED
      BY <1>4, <1>5, <1>7, <1>9, <3>1
  <2>5. ~rs.partial => rs.offset = 0 /\ size = rs.count * w
    BY <1>1, <1>2, <1>5, <1>8, <1>9
  <2>6. QED
    BY <1>1, <1>5, <1>6, <1>9, <2>2, <2>3, <2>4, <2>5 DEF Fits
<1>11. QED
  BY <1>1, <1>10

-----------------------------------------------------------------------------
(* What the loops compute. *)

(* The bits that a number n of units from address on has in bits. *)
Row(bits, base, n) == {k \in 0..(n - 1) : base + k \in bits}

(* To read units from the last one to the first, and shift each time,      *)
(* gathers a row of bits.                                                  *)
LEMMA UnitsRead ==
    ASSUME NEW w \in Widths, NEW c \in Nat \ {0}, c * w =< 64, NEW base \in Nat, NEW bits,
           NEW v, v[0] = {},
           \A n \in 1..c : v[n] = Shl(v[n - 1], w) \cup Row(bits, base + (c - n) * w, w)
    PROVE  v[c] = Row(bits, base, c * w)
<1> DEFINE S == {n \in Nat : n =< c => v[n] = Row(bits, base + (c - n) * w, n * w)}
<1>1. 0 \in S
  BY DEF Row, Widths
<1>2. ASSUME NEW n \in 0..(c - 1), n \in S PROVE n + 1 \in S
  <2>1. PICK b \in Nat, m \in Nat : /\ b = base + (c - (n + 1)) * w /\ m = n * w
                                    /\ base + (c - n) * w = b + w /\ (n + 1) * w = m + w
                                    /\ m + w =< 64
    <3>1. /\ (c - (n + 1)) * w \in Nat /\ n * w \in Nat
          /\ (c - n) * w = (c - (n + 1)) * w + w /\ (n + 1) * w = n * w + w
          /\ n * w + w =< c * w
      <4>1. CASE w = 8
        BY <4>1
      <4>2. CASE w = 16
        BY <4>2
      <4>3. CASE w = 32
        BY <4>3
      <4>4. CASE w = 64
        BY <4>4
      <4>5. QED
        BY <4>1, <4>2, <4>3, <4>4 DEF Widths
    <3>2. QED
      BY <3>1 DEF Widths
  <2>2. v[n] = Row(bits, b + w, m)
    BY <1>2, <2>1
  <2>3. v[n + 1] = Shl(v[n], w) \cup Row(bits, b, w)
    <3>1. n + 1 \in 1..c /\ n + 1 - 1 = n
      OBVIOUS
    <3>2. QED
      BY <2>1, <3>1
  <2>4. Shl(Row(bits, b + w, m), w) \cup Row(bits, b, w) = Row(bits, b, m + w)
    <3>1. w \in Nat
      BY DEF Widths
    <3>2. ASSUME NEW k \in Shl(Row(bits, b + w, m), w) PROVE k \in Row(bits, b, m + w)
      BY <3>1, <3>2 DEF Shl, Row, Word
    <3>3. ASSUME NEW k \in Row(bits, b, m + w), k >= w PROVE k \in Shl(Row(bits, b + w, m), w)
      <4>1. k \in 0..(m + w - 1) /\ b + k \in bits
        BY <3>1, <3>3 DEF Row
      <4>2. k - w \in 0..(m - 1) /\ b + w + (k - w) = b + k /\ (k - w) + w = k
        BY <3>1, <3>3, <4>1
      <4>3. k - w \in Row(bits, b + w, m)
        BY <4>1, <4>2 DEF Row
      <4>4. k \in Word
        BY <2>1, <4>1, <3>1 DEF Word
      <4>5. QED
        BY <4>2, <4>3, <4>4 DEF Shl
    <3>4. QED
      BY <3>1, <3>2, <3>3 DEF Row
  <2>5. v[n + 1] = Row(bits, base + (c - (n + 1)) * w, (n + 1) * w)
    BY <2>1, <2>2, <2>3, <2>4
  <2>6. n + 1 \in Nat
    OBVIOUS
  <2>7. QED
    BY <2>5, <2>6
<1>3. c \in S
  <2> HIDE DEF S
  <2>1. 0..c \subseteq S
    BY <1>1, <1>2, UpTo
  <2>2. QED
    BY <2>1
<1>4. (c - c) * w = 0
  BY DEF Widths
<1>5. QED
  BY <1>3, <1>4

(* The number of bits in some units, one more unit, and the others.        *)
LEMMA Multiples ==
    ASSUME NEW w \in Widths, NEW c \in Nat, c * w =< 64, NEW n \in 0..(c - 1)
    PROVE  \E m \in Nat : m = n * w /\ (n + 1) * w = m + w /\ m + w =< 64
<1>1. CASE w = 8
  BY <1>1
<1>2. CASE w = 16
  BY <1>2
<1>3. CASE w = 32
  BY <1>3
<1>4. CASE w = 64
  BY <1>4
<1>5. QED
  BY <1>1, <1>2, <1>3, <1>4 DEF Widths

(* The bits from base on that are replaced by those of a value. *)
Over(bits, base, n, value) ==
    (bits \ base..(base + n - 1)) \cup {base + b : b \in value \cap Ones(n)}

(* To write units from the first to the last one replaces a row of bits.   *)
LEMMA UnitsWritten ==
    ASSUME NEW w \in Widths, NEW c \in Nat \ {0}, c * w =< 64, NEW base \in Nat, NEW bits,
           NEW value \in SUBSET Word, NEW v, v[0] = bits,
           \A n \in 1..c : v[n] = Over(v[n - 1], base + (n - 1) * w, w, Shr(value, (n - 1) * w))
    PROVE  v[c] = Over(bits, base, c * w, value)
<1> DEFINE S == {n \in Nat : n =< c => v[n] = Over(bits, base, n * w, value)}
<1>1. 0 \in S
  <2>1. 0 * w = 0
    BY DEF Widths
  <2>2. Over(bits, base, 0, value) = bits
    BY DEF Over, Ones
  <2>3. QED
    BY <2>1, <2>2
<1>2. ASSUME NEW n \in 0..(c - 1), n \in S PROVE n + 1 \in S
  <2>1. PICK m \in Nat : m = n * w /\ (n + 1) * w = m + w /\ m + w =< 64
    BY Multiples
  <2>2. v[n] = Over(bits, base, m, value)
    BY <1>2, <2>1
  <2>3. v[n + 1] = Over(v[n], base + m, w, Shr(value, m))
    <3>1. n + 1 \in 1..c /\ n + 1 - 1 = n
      OBVIOUS
    <3>2. QED
      BY <2>1, <3>1
  <2>4. PICK X : X = Over(bits, base, m, value)
    OBVIOUS
  <2>5. PICK Y : Y = Over(bits, base, m + w, value)
    OBVIOUS
  <2>6. w \in Nat /\ w # 0
    BY DEF Widths
  <2>7. ASSUME NEW x PROVE x \in Over(X, base + m, w, Shr(value, m)) <=> x \in Y
    <3>1. x \in X
            <=> \/ x \in bits /\ x \notin base..(base + m - 1)
                \/ \E b \in value : b \in 0..(m - 1) /\ x = base + b
      BY <2>4 DEF Over, Ones
    <3>2. x \in Y
            <=> \/ x \in bits /\ x \notin base..(base + m + w - 1)
                \/ \E b \in value : b \in 0..(m + w - 1) /\ x = base + b
      BY <2>5, <2>6 DEF Over, Ones
    <3>3. x \in Over(X, base + m, w, Shr(value, m))
            <=> \/ x \in X /\ x \notin (base + m)..(base + m + w - 1)
                \/ \E b \in value : b - m \in 0..(w - 1) /\ x = base + m + (b - m)
      <4>1. \A k : k \in Shr(value, m) \cap Ones(w)
                     <=> \E b \in value : k = b - m /\ k \in 0..(w - 1) /\ k \in 0..63
        BY <2>6 DEF Shr, Ones, Word
      <4>2. \A k \in 0..(w - 1) : k \in 0..63
        BY <2>1, <2>6
      <4>3. QED
        BY <4>1, <4>2 DEF Over
    <3>4. \A b \in value : b \in Nat
      BY DEF Word
    <3>5. QED
      BY <2>1, <2>6, <3>1, <3>2, <3>3, <3>4
  <2>8. v[n + 1] = Over(bits, base, (n + 1) * w, value)
    <3>1. Over(X, base + m, w, Shr(value, m)) = Y
      <4>1. PICK Z : Z = Over(X, base + m, w, Shr(value, m))
        OBVIOUS
      <4>2. \A x : x \in Z <=> x \in Y
        BY <2>7, <4>1
      <4>3. QED
        BY <4>1, <4>2
    <3>2. QED
      BY <2>1, <2>2, <2>3, <2>4, <2>5, <3>1
  <2>9. n + 1 \in Nat
    OBVIOUS
  <2>10. QED
    BY <2>8, <2>9
<1>3. c \in S
  <2> HIDE DEF S
  <2>1. 0..c \subseteq S
    BY <1>1, <1>2, UpTo
  <2>2. QED
    BY <2>1
<1>4. QED
  BY <1>3

(* The mask takes the bits of the field out of those of its units.         *)
LEMMA RowMasked ==
    ASSUME NEW off \in Nat, NEW size \in Nat \ {0}, NEW w \in Widths, NEW rs,
           Fits(rs, off, size, w), rs.partial \in BOOLEAN, NEW bits
    PROVE  Masked(rs, Row(bits, 8 * rs.address, rs.count * w)) = Row(bits, off, size)
<1>1. PICK o \in Nat, b \in Nat, m \in Nat :
        /\ o = rs.offset /\ b = 8 * rs.address /\ m = rs.count * w
        /\ b + o = off /\ o + size =< m /\ m =< 64 /\ (~rs.partial => o = 0 /\ size = m)
        /\ rs.size = size
  <2>1. rs.offset \in Nat /\ 8 * rs.address \in Nat /\ rs.count * w \in Nat
    BY DEF Fits, Widths
  <2>2. QED
    BY <2>1 DEF Fits
<1>2. CASE rs.partial
  <2>1. Masked(rs, Row(bits, b, m)) = Shr(Row(bits, b, m), o) \cap Ones(size)
    BY <1>1, <1>2 DEF Masked
  <2>2. ASSUME NEW k \in Shr(Row(bits, b, m), o) \cap Ones(size) PROVE k \in Row(bits, off, size)
    BY <1>1, <2>2 DEF Shr, Row, Ones
  <2>3. ASSUME NEW k \in Row(bits, off, size) PROVE k \in Shr(Row(bits, b, m), o) \cap Ones(size)
    <3>1. k \in 0..(size - 1) /\ off + k \in bits
      BY DEF Row
    <3>2. k + o \in 0..(m - 1) /\ b + (k + o) = off + k /\ k + o - o = k /\ k \in 0..63
      BY <1>1, <3>1
    <3>3. k + o \in Row(bits, b, m)
      BY <1>1, <3>1, <3>2 DEF Row
    <3>4. QED
      BY <3>1, <3>2, <3>3 DEF Shr, Ones, Word
  <2>4. QED
    BY <1>1, <2>1, <2>2, <2>3 DEF Row
<1>3. CASE ~rs.partial
  <2>1. b = off /\ m = size
    BY <1>1, <1>3
  <2>2. QED
    BY <1>1, <1>3, <2>1 DEF Masked
<1>4. QED
  BY <1>2, <1>3

(* What a write leaves of the bits, and puts there: what Write of BitFields *)
(* says.                                                                   *)
Written(bits, off, size, w, update, value) ==
    LET own == off..(off + size - 1)
        touched == (w * (off \div w))..(w * ((off + size - 1) \div w + 1) - 1)
    IN  (CASE update = "preserve" -> bits \ own
           [] update = "ones" -> (bits \cup touched) \ own
           [] update = "zeros" -> bits \ touched)
        \cup {b \in own : b - off \in value}

(* The units of a field with the new bits, and around them what the update *)
(* rule says.                                                              *)
LEMMA RowPreserved ==
    ASSUME NEW off \in Nat, NEW size \in Nat \ {0}, NEW w \in Widths, NEW rs,
           Fits(rs, off, size, w), rs.partial \in BOOLEAN,
           NEW update \in {"preserve", "ones", "zeros"}, rs.update = update,
           NEW bits, NEW value \in SUBSET Word, NEW old,
           update = "preserve" /\ rs.partial => old = Row(bits, 8 * rs.address, rs.count * w)
    PROVE  /\ Over(bits, 8 * rs.address, rs.count * w, Preserved(rs, old, value))
                 = Written(bits, off, size, w, update, value)
           /\ Preserved(rs, old, value) \in SUBSET Word
<1>1. PICK o \in Nat, b \in Nat, m \in Nat :
        /\ o = rs.offset /\ b = 8 * rs.address /\ m = rs.count * w
        /\ b + o = off /\ o + size =< m /\ m =< 64 /\ (~rs.partial => o = 0 /\ size = m)
        /\ rs.size = size /\ w * (off \div w) = b /\ w * ((off + size - 1) \div w + 1) = b + m
  <2>1. rs.offset \in Nat /\ 8 * rs.address \in Nat /\ rs.count * w \in Nat
    BY DEF Fits, Widths
  <2>2. QED
    BY <2>1 DEF Fits
<1>2. PICK rest : rest = CASE update = "preserve" -> old
                           [] update = "ones" -> Word
                           [] update = "zeros" -> {}
  OBVIOUS
<1>3. PICK P : P = Preserved(rs, old, value)
  OBVIOUS
<1>4. PICK W : W = Written(bits, off, size, w, update, value)
  OBVIOUS
<1>5. \A x : x \in W <=>
        \/ /\ update = "preserve" => x \in bits
           /\ update = "ones" => x \in bits \/ x \in b..(b + m - 1)
           /\ update = "zeros" => x \in bits /\ x \notin b..(b + m - 1)
           /\ x \notin off..(off + size - 1)
        \/ x \in off..(off + size - 1) /\ x - off \in value
  <2>1. off..(off + size - 1) \subseteq b..(b + m - 1)
    BY <1>1
  <2>2. CASE update = "preserve"
    BY <1>1, <1>4, <2>2 DEF Written
  <2>3. CASE update = "ones"
    BY <1>1, <1>4, <2>3 DEF Written
  <2>4. CASE update = "zeros"
    BY <1>1, <1>4, <2>1, <2>4 DEF Written
  <2>5. QED
    BY <2>2, <2>3, <2>4
<1>6. P \in SUBSET Word
  <2>1. rs.partial /\ update = "preserve" => old \subseteq Word
    BY <1>1 DEF Row, Word
  <2>2. QED
    BY <1>1, <1>2, <1>3, <2>1 DEF Preserved, Shl
<1>7. \A k \in 0..(m - 1) : k \in P <=>
        \/ k \in o..(o + size - 1) /\ k - o \in value
        \/ /\ k \notin o..(o + size - 1)
           /\ update = "preserve" => b + k \in bits
           /\ update # "zeros"
  <2>1. CASE ~rs.partial
    BY <1>1, <1>3, <2>1 DEF Preserved
  <2>2. CASE rs.partial
    <3>1. P = (rest \ Shl(Ones(size), o)) \cup Shl(value \cap Ones(size), o)
      BY <1>1, <1>2, <1>3, <2>2 DEF Preserved
    <3>2. \A k \in 0..(m - 1) : k \in Shl(Ones(size), o) <=> k \in o..(o + size - 1)
      <4> TAKE k \in 0..(m - 1)
      <4>1. k \in Word
        BY <1>1 DEF Word
      <4>2. ASSUME k \in o..(o + size - 1) PROVE k - o \in Ones(size) /\ k - o + o = k
        BY <1>1, <4>2 DEF Ones
      <4>3. QED
        BY <1>1, <4>1, <4>2 DEF Shl, Ones
    <3>3. \A k \in 0..(m - 1) : k \in Shl(value \cap Ones(size), o)
                                   <=> k \in o..(o + size - 1) /\ k - o \in value
      <4> TAKE k \in 0..(m - 1)
      <4>1. k \in Word
        BY <1>1 DEF Word
      <4>2. ASSUME k \in o..(o + size - 1) PROVE k - o \in Ones(size) /\ k - o + o = k
        BY <1>1, <4>2 DEF Ones
      <4>3. ASSUME NEW v \in value \cap Ones(size), k = v + o
            PROVE  k \in o..(o + size - 1) /\ k - o = v
        BY <1>1, <4>3 DEF Ones
      <4>4. QED
        BY <4>1, <4>2, <4>3 DEF Shl
    <3>4. \A k \in 0..(m - 1) :
            k \in rest <=> (update = "preserve" => b + k \in bits) /\ update # "zeros"
      <4> TAKE k \in 0..(m - 1)
      <4>1. k \in Word
        BY <1>1 DEF Word
      <4>2. CASE update = "preserve"
        <5>1. rest = Row(bits, b, m)
          BY <1>1, <1>2, <2>2, <4>2
        <5>2. QED
          BY <4>2, <5>1 DEF Row
      <4>3. CASE update = "ones"
        <5>1. rest = Word
          BY <1>2, <4>3
        <5>2. QED
          BY <4>1, <4>3, <5>1
      <4>4. CASE update = "zeros"
        <5>1. rest = {}
          BY <1>2, <4>4
        <5>2. QED
          BY <4>4, <5>1
      <4>5. QED
        BY <4>2, <4>3, <4>4
    <3>5. QED
      <4> TAKE k \in 0..(m - 1)
      <4>1. k \in P <=> \/ k \in rest /\ k \notin Shl(Ones(size), o)
                        \/ k \in Shl(value \cap Ones(size), o)
        BY <3>1
      <4>2. /\ k \in Shl(Ones(size), o) <=> k \in o..(o + size - 1)
            /\ k \in Shl(value \cap Ones(size), o) <=> k \in o..(o + size - 1) /\ k - o \in value
            /\ k \in rest <=> (update = "preserve" => b + k \in bits) /\ update # "zeros"
        BY <3>2, <3>3, <3>4
      <4>3. QED
        BY Zenon, <4>1, <4>2
  <2>3. QED
    BY <2>1, <2>2
<1>8. ASSUME NEW x PROVE x \in Over(bits, b, m, P) <=> x \in W
  <2>1. x \in Over(bits, b, m, P)
          <=> \/ x \in bits /\ x \notin b..(b + m - 1)
              \/ x \in b..(b + m - 1) /\ x - b \in P
    <3>1. ASSUME x \in b..(b + m - 1) PROVE x - b \in 0..(m - 1) /\ b + (x - b) = x
      BY <3>1
    <3>2. \A k \in P \cap Ones(m) : b + k \in b..(b + m - 1) /\ b + k - b = k
      BY DEF Ones
    <3>3. x \in {b + k : k \in P \cap Ones(m)} <=> x \in b..(b + m - 1) /\ x - b \in P
      <4>1. ASSUME x \in {b + k : k \in P \cap Ones(m)}
            PROVE  x \in b..(b + m - 1) /\ x - b \in P
        <5>1. PICK k \in P \cap Ones(m) : x = b + k
          BY <4>1
        <5>2. b + k \in b..(b + m - 1) /\ b + k - b = k
          BY <3>2
        <5>3. x \in b..(b + m - 1)
          BY <5>1, <5>2
        <5>4. x - b = k
          BY <5>1 DEF Ones
        <5>5. QED
          BY <5>1, <5>3, <5>4
      <4>2. ASSUME x \in b..(b + m - 1), x - b \in P
            PROVE  x \in {b + k : k \in P \cap Ones(m)}
        BY <3>1, <4>2 DEF Ones
      <4>3. QED
        BY <4>1, <4>2
    <3>4. QED
      BY <3>3 DEF Over
  <2>2. CASE x \notin b..(b + m - 1)
    <3>1. x \notin off..(off + size - 1)
      BY <1>1, <2>2
    <3>2. x \in W <=> x \in bits
      <4>1. CASE update = "preserve"
        BY <1>5, <2>2, <3>1, <4>1
      <4>2. CASE update = "ones"
        BY <1>5, <2>2, <3>1, <4>2
      <4>3. CASE update = "zeros"
        BY <1>5, <2>2, <3>1, <4>3
      <4>4. QED
        BY <4>1, <4>2, <4>3
    <3>3. QED
      BY <2>1, <2>2, <3>2
  <2>3. CASE x \in b..(b + m - 1)
    <3>1. /\ x - b \in 0..(m - 1) /\ b + (x - b) = x /\ x - b - o = x - off
          /\ x - b \in o..(o + size - 1) <=> x \in off..(off + size - 1)
      BY <1>1, <2>3
    <3>2. x - b \in P <=>
            \/ x \in off..(off + size - 1) /\ x - off \in value
            \/ /\ x \notin off..(off + size - 1)
               /\ update = "preserve" => x \in bits
               /\ update # "zeros"
      BY <1>7, <3>1
    <3>3. QED
      BY <1>5, <2>1, <2>3, <3>2
  <2>4. QED
    BY <2>2, <2>3
<1>9. Over(bits, b, m, P) = W
  <2>1. PICK Z : Z = Over(bits, b, m, P)
    OBVIOUS
  <2>2. \A x : x \in Z <=> x \in W
    BY <1>8, <2>1
  <2>3. QED
    BY <2>1, <2>2
<1>10. QED
  BY <1>1, <1>3, <1>4, <1>6, <1>9

-----------------------------------------------------------------------------
(* The loops exist. *)
Storages == [mem : SUBSET Nat, bank : SUBSET Nat]
Gotten == [dev : Storages, value : SUBSET Word]

(* The address of a unit, and its first bit.                               *)
LEMMA UnitAddress ==
    ASSUME NEW w \in Widths, NEW a \in Nat, NEW n \in Nat
    PROVE  \E u \in Nat : u = a + n * (w \div 8) /\ 8 * u = 8 * a + n * w
<1>1. CASE w = 8
  BY <1>1
<1>2. CASE w = 16
  BY <1>2
<1>3. CASE w = 32
  BY <1>3
<1>4. CASE w = 64
  BY <1>4
<1>5. QED
  BY <1>1, <1>2, <1>3, <1>4 DEF Widths

ReadsOf(l, R, w, a, c, d) ==
    /\ l \in [0..c -> Gotten]
    /\ l[0] = [dev |-> d, value |-> {}]
    /\ \A n \in 1..c :
         LET got == R[<<l[n - 1].dev, a + (c - n) * (w \div 8)>>]
         IN  l[n] = [dev |-> got.dev, value |-> Shl(l[n - 1].value, w) \cup got.value]

WritesOf(l, V, w, a, c, d, value) ==
    /\ l \in [0..c -> Storages]
    /\ l[0] = d
    /\ \A n \in 1..c :
         l[n] = V[<<l[n - 1], a + (n - 1) * (w \div 8), Shr(value, (n - 1) * w)>>]

LEMMA ReadLoop ==
    ASSUME NEW w \in Widths, NEW a \in Nat, NEW c \in Nat, NEW d \in Storages,
           NEW R \in [Storages \X Nat -> Gotten]
    PROVE  \E l : ReadsOf(l, R, w, a, c, d)
<1> DEFINE step == [n \in 1..c |-> [x \in Gotten |->
                     LET got == R[<<x.dev, a + (c - n) * (w \div 8)>>]
                     IN  [dev |-> got.dev, value |-> Shl(x.value, w) \cup got.value]]]
<1>1. \A n \in 1..c : a + (c - n) * (w \div 8) \in Nat
  <2> TAKE n \in 1..c
  <2>1. c - n \in Nat
    OBVIOUS
  <2>2. QED
    BY <2>1, UnitAddress
<1>2. step \in [1..c -> [Gotten -> Gotten]]
  <2>1. SUFFICES ASSUME NEW x \in Gotten, NEW n \in 1..c,
                        NEW got, got = R[<<x.dev, a + (c - n) * (w \div 8)>>]
                 PROVE  [dev |-> got.dev, value |-> Shl(x.value, w) \cup got.value] \in Gotten
    OBVIOUS
  <2>2. got \in Gotten
    BY <1>1, <2>1 DEF Gotten
  <2>3. Shl(x.value, w) \in SUBSET Word
    BY DEF Shl
  <2>4. QED
    BY <2>2, <2>3 DEF Gotten
<1>3. [dev |-> d, value |-> {}] \in Gotten
  BY DEF Gotten
<1> HIDE DEF step
<1>4. PICK l \in [0..c -> Gotten] :
        l[0] = [dev |-> d, value |-> {}] /\ \A n \in 1..c : l[n] = step[n][l[n - 1]]
  <2>1. PICK first : first = [dev |-> d, value |-> {}]
    OBVIOUS
  <2>2. first \in Gotten
    BY <1>3, <2>1
  <2>3. PICK S, st : S = Gotten /\ st = step
    OBVIOUS
  <2>4. first \in S /\ st \in Steps(c, S)
    BY <1>2, <2>2, <2>3 DEF Steps
  <2>5. PICK l : Loop(l, c, S, first, st)
    BY <2>4, LoopExists
  <2>6. QED
    BY <2>1, <2>3, <2>5 DEF Loop
<1>5. l[0] = [dev |-> d, value |-> {}]
  BY <1>4
<1>6. ASSUME NEW n \in 1..c
      PROVE  LET got == R[<<l[n - 1].dev, a + (c - n) * (w \div 8)>>]
             IN  l[n] = [dev |-> got.dev, value |-> Shl(l[n - 1].value, w) \cup got.value]
  <2>0. n \in 0..c /\ n - 1 \in 0..c /\ n # 0
    OBVIOUS
  <2>1. l[n] = step[n][l[n - 1]]
    BY <1>4, <2>0
  <2>2. l[n - 1] \in Gotten
    BY <1>4, <2>0
  <2>3. QED
    BY <2>1, <2>2 DEF step
<1>7. QED
  BY <1>4, <1>5, <1>6 DEF ReadsOf

LEMMA WriteLoop ==
    ASSUME NEW w \in Widths, NEW a \in Nat, NEW c \in Nat, NEW d \in Storages,
           NEW value, NEW V \in [Storages \X Nat \X SUBSET Word -> Storages]
    PROVE  \E l : WritesOf(l, V, w, a, c, d, value)
<1> DEFINE step == [n \in 1..c |-> [x \in Storages |->
                     V[<<x, a + (n - 1) * (w \div 8), Shr(value, (n - 1) * w)>>]]]
<1>1. \A n \in 1..c : a + (n - 1) * (w \div 8) \in Nat
  <2> TAKE n \in 1..c
  <2>1. n - 1 \in Nat
    OBVIOUS
  <2>2. QED
    BY <2>1, UnitAddress
<1>2. step \in [1..c -> [Storages -> Storages]]
  <2>1. SUFFICES ASSUME NEW x \in Storages, NEW n \in 1..c
                 PROVE  V[<<x, a + (n - 1) * (w \div 8), Shr(value, (n - 1) * w)>>] \in Storages
    OBVIOUS
  <2>2. Shr(value, (n - 1) * w) \in SUBSET Word
    BY DEF Shr
  <2>3. PICK u \in Nat, y \in SUBSET Word :
          u = a + (n - 1) * (w \div 8) /\ y = Shr(value, (n - 1) * w)
    BY <1>1, <2>2
  <2>4. QED
    BY <2>3
<1> HIDE DEF step
<1>3. PICK l \in [0..c -> Storages] :
        l[0] = d /\ \A n \in 1..c : l[n] = step[n][l[n - 1]]
  <2>1. PICK S, st : S = Storages /\ st = step
    OBVIOUS
  <2>2. d \in S /\ st \in Steps(c, S)
    BY <1>2, <2>1 DEF Steps
  <2>3. PICK l : Loop(l, c, S, d, st)
    BY <2>2, LoopExists
  <2>4. QED
    BY <2>1, <2>3 DEF Loop
<1>4. l[0] = d
  BY <1>3
<1>5. ASSUME NEW n \in 1..c
      PROVE  l[n] = V[<<l[n - 1], a + (n - 1) * (w \div 8), Shr(value, (n - 1) * w)>>]
  <2>1. l[n] = step[n][l[n - 1]]
    BY <1>3
  <2>2. l[n - 1] \in Storages
    BY <1>3
  <2>3. QED
    BY <2>1, <2>2 DEF step
<1>6. QED
  BY <1>3, <1>4, <1>5 DEF WritesOf

Gathers(l, P, bits, base, w, c) ==
    /\ l[0].dev \in P /\ l[0].value = {}
    /\ \A n \in 1..c : l[n - 1].dev \in P =>
         /\ l[n].dev \in P
         /\ l[n].value = Shl(l[n - 1].value, w) \cup Row(bits, base + (c - n) * w, w)
Scatters(l, v, P, bits, base, w, c, value) ==
    /\ l[0] \in P /\ v[0] = bits
    /\ \A n \in 1..c : l[n - 1] \in P =>
         /\ l[n] \in P
         /\ v[n] = Over(v[n - 1], base + (n - 1) * w, w, Shr(value, (n - 1) * w))

(* What the loops gather and leave, when each of their steps keeps to P.    *)
LEMMA Gathered ==
    ASSUME NEW w \in Widths, NEW c \in Nat \ {0}, NEW m \in Nat, m = c * w, m =< 64, NEW base \in Nat, NEW bits,
           NEW P, NEW l, Gathers(l, P, bits, base, w, c)
    PROVE  l[c].dev \in P /\ l[c].value = Row(bits, base, m)
<1> USE DEF Gathers
<1> DEFINE S == {n \in Nat : n =< c => l[n].dev \in P}
<1>1. 0 \in S
  OBVIOUS
<1>2. ASSUME NEW n \in 0..(c - 1), n \in S PROVE n + 1 \in S
  <2>1. n + 1 \in 1..c /\ n + 1 - 1 = n
    OBVIOUS
  <2>2. l[n].dev \in P
    BY <1>2
  <2>3. l[n + 1].dev \in P
    BY <2>1, <2>2
  <2>4. n + 1 \in Nat
    OBVIOUS
  <2>5. QED
    BY <2>3, <2>4
<1>3. \A n \in 0..c : l[n].dev \in P
  <2>1. 0..c \subseteq S
    <3> HIDE DEF S
    <3>1. QED
      BY <1>1, <1>2, UpTo
  <2>2. QED
    BY <2>1
<1>4. PICK v : v = [n \in 0..c |-> l[n].value]
  OBVIOUS
<1>5. v[0] = {} /\ v[c] = l[c].value
  BY <1>4
<1>6. \A n \in 1..c : v[n] = Shl(v[n - 1], w) \cup Row(bits, base + (c - n) * w, w)
  BY <1>3, <1>4
<1>7. v[c] = Row(bits, base, c * w)
  BY <1>5, <1>6, UnitsRead
<1>8. QED
  BY <1>3, <1>5, <1>7

LEMMA Scattered ==
    ASSUME NEW w \in Widths, NEW c \in Nat \ {0}, NEW m \in Nat, m = c * w, m =< 64, NEW base \in Nat, NEW bits,
           NEW value \in SUBSET Word, NEW P, NEW l, NEW v, Scatters(l, v, P, bits, base, w, c, value)
    PROVE  l[c] \in P /\ v[c] = Over(bits, base, m, value)
<1> USE DEF Scatters
<1> DEFINE S == {n \in Nat : n =< c => l[n] \in P}
<1>1. 0 \in S
  OBVIOUS
<1>2. ASSUME NEW n \in 0..(c - 1), n \in S PROVE n + 1 \in S
  <2>1. n + 1 \in 1..c /\ n + 1 - 1 = n
    OBVIOUS
  <2>2. l[n] \in P
    BY <1>2
  <2>3. l[n + 1] \in P
    BY <2>1, <2>2
  <2>4. n + 1 \in Nat
    OBVIOUS
  <2>5. QED
    BY <2>3, <2>4
<1>3. \A n \in 0..c : l[n] \in P
  <2>1. 0..c \subseteq S
    <3> HIDE DEF S
    <3>1. QED
      BY <1>1, <1>2, UpTo
  <2>2. QED
    BY <2>1
<1>4. \A n \in 1..c : v[n] = Over(v[n - 1], base + (n - 1) * w, w, Shr(value, (n - 1) * w))
  BY <1>3
<1>5. v[c] = Over(bits, base, c * w, value)
  BY <1>4, UnitsWritten
<1>6. QED
  BY <1>3, <1>5

-----------------------------------------------------------------------------
(* Bytes that are numbers. *)
LEMMA BitsOf ==
    ASSUME NEW n \in 0..255
    PROVE  /\ 0 \in Bits(n) <=> n % 2 = 1
           /\ 1 \in Bits(n) <=> (n \div 2) % 2 = 1
           /\ 2 \in Bits(n) <=> (n \div 4) % 2 = 1
           /\ 3 \in Bits(n) <=> (n \div 8) % 2 = 1
           /\ 4 \in Bits(n) <=> (n \div 16) % 2 = 1
           /\ 5 \in Bits(n) <=> (n \div 32) % 2 = 1
           /\ 6 \in Bits(n) <=> (n \div 64) % 2 = 1
           /\ 7 \in Bits(n) <=> (n \div 128) % 2 = 1
<1>1. /\ 2^0 = 1 /\ 2^1 = 2 /\ 2^2 = 4 /\ 2^3 = 8 /\ 2^4 = 16 /\ 2^5 = 32 /\ 2^6 = 64
      /\ 2^7 = 128 /\ n \div 1 = n
  OBVIOUS
<1>2. \A k \in 0..7 : k \in Bits(n) <=> (n \div 2^k) % 2 = 1
  BY DEF Bits
<1>3. /\ 0 \in Bits(n) <=> (n \div 2^0) % 2 = 1
      /\ 1 \in Bits(n) <=> (n \div 2^1) % 2 = 1
      /\ 2 \in Bits(n) <=> (n \div 2^2) % 2 = 1
      /\ 3 \in Bits(n) <=> (n \div 2^3) % 2 = 1
      /\ 4 \in Bits(n) <=> (n \div 2^4) % 2 = 1
      /\ 5 \in Bits(n) <=> (n \div 2^5) % 2 = 1
      /\ 6 \in Bits(n) <=> (n \div 2^6) % 2 = 1
      /\ 7 \in Bits(n) <=> (n \div 2^7) % 2 = 1
  BY <1>2
<1>4. QED
  BY <1>1, <1>3

(* A byte is the sum of its bits.                                          *)
LEMMA EightBits ==
    ASSUME NEW a \in 0..255, NEW b \in 0..255, Bits(a) = Bits(b)
    PROVE  a = b
<1>1. \A n \in 0..255 :
         n = (n % 2) + 2 * ((n \div 2) % 2) + 4 * ((n \div 4) % 2) + 8 * ((n \div 8) % 2)
             + 16 * ((n \div 16) % 2) + 32 * ((n \div 32) % 2) + 64 * ((n \div 64) % 2)
             + 128 * ((n \div 128) % 2)
  OBVIOUS
<1>2. /\ a % 2 = b % 2 /\ (a \div 2) % 2 = (b \div 2) % 2 /\ (a \div 4) % 2 = (b \div 4) % 2
      /\ (a \div 8) % 2 = (b \div 8) % 2 /\ (a \div 16) % 2 = (b \div 16) % 2
      /\ (a \div 32) % 2 = (b \div 32) % 2 /\ (a \div 64) % 2 = (b \div 64) % 2
      /\ (a \div 128) % 2 = (b \div 128) % 2
  <2>1. \A x, y \in Nat : (x % 2 = 1 <=> y % 2 = 1) => x % 2 = y % 2
    OBVIOUS
  <2>2. \A n \in 0..255 : /\ n \in Nat /\ n \div 2 \in Nat /\ n \div 4 \in Nat /\ n \div 8 \in Nat
                          /\ n \div 16 \in Nat /\ n \div 32 \in Nat /\ n \div 64 \in Nat
                          /\ n \div 128 \in Nat
    OBVIOUS
  <2>3. /\ a % 2 = 1 <=> b % 2 = 1
        /\ (a \div 2) % 2 = 1 <=> (b \div 2) % 2 = 1
        /\ (a \div 4) % 2 = 1 <=> (b \div 4) % 2 = 1
        /\ (a \div 8) % 2 = 1 <=> (b \div 8) % 2 = 1
        /\ (a \div 16) % 2 = 1 <=> (b \div 16) % 2 = 1
        /\ (a \div 32) % 2 = 1 <=> (b \div 32) % 2 = 1
        /\ (a \div 64) % 2 = 1 <=> (b \div 64) % 2 = 1
        /\ (a \div 128) % 2 = 1 <=> (b \div 128) % 2 = 1
    <3>1. PICK A, B : A = Bits(a) /\ B = Bits(b) /\ A = B
      OBVIOUS
    <3>2. /\ 0 \in A <=> a % 2 = 1
          /\ 1 \in A <=> (a \div 2) % 2 = 1
          /\ 2 \in A <=> (a \div 4) % 2 = 1
          /\ 3 \in A <=> (a \div 8) % 2 = 1
          /\ 4 \in A <=> (a \div 16) % 2 = 1
          /\ 5 \in A <=> (a \div 32) % 2 = 1
          /\ 6 \in A <=> (a \div 64) % 2 = 1
          /\ 7 \in A <=> (a \div 128) % 2 = 1
      BY <3>1, BitsOf
    <3>3. /\ 0 \in B <=> b % 2 = 1
          /\ 1 \in B <=> (b \div 2) % 2 = 1
          /\ 2 \in B <=> (b \div 4) % 2 = 1
          /\ 3 \in B <=> (b \div 8) % 2 = 1
          /\ 4 \in B <=> (b \div 16) % 2 = 1
          /\ 5 \in B <=> (b \div 32) % 2 = 1
          /\ 6 \in B <=> (b \div 64) % 2 = 1
          /\ 7 \in B <=> (b \div 128) % 2 = 1
      BY <3>1, BitsOf
    <3>4. QED
      BY <3>1, <3>2, <3>3
  <2>4. QED
    BY <2>1, <2>2, <2>3
<1>3. QED
  BY <1>1, <1>2

LEMMA SomeByte ==
    ASSUME NEW v \in SUBSET (0..7)
    PROVE  \E n \in 0..255 : Bits(n) = v
<1> DEFINE bit(k) == IF k \in v THEN 1 ELSE 0
<1>1. PICK b0 \in {0, 1}, b1 \in {0, 1}, b2 \in {0, 1}, b3 \in {0, 1},
           b4 \in {0, 1}, b5 \in {0, 1}, b6 \in {0, 1}, b7 \in {0, 1} :
        /\ b0 = bit(0) /\ b1 = bit(1) /\ b2 = bit(2) /\ b3 = bit(3)
        /\ b4 = bit(4) /\ b5 = bit(5) /\ b6 = bit(6) /\ b7 = bit(7)
  OBVIOUS
<1>2. PICK n \in 0..255 :
        n = b0 + 2 * b1 + 4 * b2 + 8 * b3 + 16 * b4 + 32 * b5 + 64 * b6 + 128 * b7
  OBVIOUS
<1>3. /\ n % 2 = b0 /\ (n \div 2) % 2 = b1 /\ (n \div 4) % 2 = b2 /\ (n \div 8) % 2 = b3
      /\ (n \div 16) % 2 = b4 /\ (n \div 32) % 2 = b5 /\ (n \div 64) % 2 = b6
      /\ (n \div 128) % 2 = b7
  BY <1>2
<1>4. /\ 0 \in Bits(n) <=> 0 \in v
      /\ 1 \in Bits(n) <=> 1 \in v
      /\ 2 \in Bits(n) <=> 2 \in v
      /\ 3 \in Bits(n) <=> 3 \in v
      /\ 4 \in Bits(n) <=> 4 \in v
      /\ 5 \in Bits(n) <=> 5 \in v
      /\ 6 \in Bits(n) <=> 6 \in v
      /\ 7 \in Bits(n) <=> 7 \in v
  BY <1>1, <1>3, BitsOf
<1>5. PICK X \in SUBSET (0..7) : X = Bits(n)
  BY DEF Bits
<1>6. \A k \in 0..7 : k \in X <=> k \in v
  BY <1>4, <1>5
<1>7. X = v
  BY <1>6
<1>8. QED
  BY <1>5, <1>7

(* The index register says which byte shows, whatever is in it, and a      *)
(* number that is written to it is that byte.                              *)
LEMMA Selected ==
    /\ \A v \in SUBSET (0..7) : FromBits[v] \in 0..255
    /\ \A a \in Nat : Bits(a) \in SUBSET (0..7)
    /\ \A a \in 0..255 : FromBits[Bits(a)] = a
<1>1. ASSUME NEW v \in SUBSET (0..7) PROVE FromBits[v] \in 0..255 /\ Bits(FromBits[v]) = v
  <2>1. PICK m : m = CHOOSE n \in 0..255 : Bits(n) = v
    OBVIOUS
  <2>2. FromBits[v] = m
    BY <2>1 DEF FromBits
  <2>3. m \in 0..255 /\ Bits(m) = v
    BY <2>1, SomeByte
  <2>4. QED
    BY <2>2, <2>3
<1>2. \A a \in Nat : Bits(a) \in SUBSET (0..7)
  BY DEF Bits
<1>3. ASSUME NEW a \in 0..255 PROVE FromBits[Bits(a)] = a
  <2>1. PICK v \in SUBSET (0..7) : v = Bits(a)
    BY <1>2
  <2>2. PICK m \in 0..255 : m = FromBits[v] /\ Bits(m) = v
    BY <1>1
  <2>3. m = a
    BY <2>1, <2>2, EightBits
  <2>4. QED
    BY <2>1, <2>2, <2>3
<1>4. QED
  BY <1>1, <1>2, <1>3

-----------------------------------------------------------------------------
(* The loops of the three kinds of accesses, spelled out.                  *)
LoopOfReads(l, d, rs, Read(_, _)) ==
    l = [n \in 0..rs.count |->
          IF n = 0 THEN [dev |-> d, value |-> {}]
          ELSE LET got == Read(l[n - 1].dev, rs.address + (rs.count - n) * (rs.width \div 8))
               IN  [dev |-> got.dev, value |-> Shl(l[n - 1].value, rs.width) \cup got.value]]
LoopOfWrites(l, d, rs, value, Write(_, _, _)) ==
    l = [n \in 0..rs.count |->
          IF n = 0 THEN d
          ELSE Write(l[n - 1], rs.address + (n - 1) * (rs.width \div 8), Shr(value, (n - 1) * rs.width))]

FieldReads(l, d, rs) ==
    LET read(e, a) == [dev |-> e, value |-> Load(e, a, rs.width)] IN LoopOfReads(l, d, rs, read)
FieldWrites(l, d, rs, value) ==
    LET write(e, a, v) == Store(e, a, rs.width, v) IN LoopOfWrites(l, d, rs, value, write)

Select(e, a) == AccessField(e, IndexField, Bits(a), "write").dev
Get(e, a) == AccessField(Select(e, a), DataField, {}, "read")
Set(e, a, v) == AccessField(Select(e, a), DataField, v, "write").dev
IndexReads(l, d, rs) == LoopOfReads(l, d, rs, Get)
IndexWrites(l, d, rs, value) == LoopOfWrites(l, d, rs, value, Set)

BufferReads(l, d, rs, ptr) ==
    LET read(e, a) == [dev |-> e, value |-> Unit(e.mem, ptr + a, 8)] IN LoopOfReads(l, d, rs, read)
BufferWrites(l, d, rs, value, ptr) ==
    LET write(e, a, v) == [e EXCEPT !.mem = Put(@, ptr + a, 8, v)]
    IN  LoopOfWrites(l, d, rs, value, write)

FieldReadLoop(d, rs) == CHOOSE l : FieldReads(l, d, rs)
FieldWriteLoop(d, rs, value) == CHOOSE l : FieldWrites(l, d, rs, value)
IndexReadLoop(d, rs) == CHOOSE l : IndexReads(l, d, rs)
IndexWriteLoop(d, rs, value) == CHOOSE l : IndexWrites(l, d, rs, value)
BufferReadLoop(d, rs, ptr) == CHOOSE l : BufferReads(l, d, rs, ptr)
BufferWriteLoop(d, rs, value, ptr) == CHOOSE l : BufferWrites(l, d, rs, value, ptr)

(* An access is its loops. *)
LEMMA FieldLooped ==
    ASSUME NEW d, NEW f, NEW input, NEW rw
    PROVE  LET rs == Align(f.offset, f.length, Width(f.access), f.update, rw)
               l == FieldReadLoop(d, rs)
               got == IF rs.read THEN l[rs.count] ELSE l[0]
               m == FieldWriteLoop(got.dev, rs, Preserved(rs, got.value, input))
           IN  AccessField(d, f, input, rw) =
                 IF rw = "read" THEN [dev |-> got.dev, value |-> Masked(rs, got.value)]
                 ELSE [dev |-> m[rs.count], value |-> {}]
BY Zenon DEF AccessField, Accessed, ReadUnits, WriteUnits,
               FieldReadLoop, FieldWriteLoop, FieldReads, FieldWrites, LoopOfReads, LoopOfWrites

LEMMA IndexLooped ==
    ASSUME NEW d, NEW f, NEW input, NEW rw
    PROVE  LET rs == Align(f.offset, f.length, Width(f.access), f.update, rw)
               l == IndexReadLoop(d, rs)
               got == IF rs.read THEN l[rs.count] ELSE l[0]
               m == IndexWriteLoop(got.dev, rs, Preserved(rs, got.value, input))
           IN  AccessIndexField(d, f, input, rw) =
                 IF rw = "read" THEN [dev |-> got.dev, value |-> Masked(rs, got.value)]
                 ELSE [dev |-> m[rs.count], value |-> {}]
BY Zenon DEF AccessIndexField, Accessed, ReadUnits, WriteUnits,
               IndexReadLoop, IndexWriteLoop, IndexReads, IndexWrites, Select, Get, Set, LoopOfReads, LoopOfWrites

LEMMA BufferLooped ==
    ASSUME NEW d, NEW f, NEW input, NEW rw
    PROVE  LET rs == Align(f.offset % 8, f.length, 8, "preserve", rw)
               ptr == f.offset \div 8
               l == BufferReadLoop(d, rs, ptr)
               got == IF rs.read THEN l[rs.count] ELSE l[0]
               m == BufferWriteLoop(got.dev, rs, Preserved(rs, got.value, input), ptr)
           IN  AccessBufferField(d, f, input, rw) =
                 IF rw = "read" THEN [dev |-> got.dev, value |-> Masked(rs, got.value)]
                 ELSE [dev |-> m[rs.count], value |-> {}]
BY Zenon DEF AccessBufferField, Accessed, ReadUnits, WriteUnits,
               BufferReadLoop, BufferWriteLoop, BufferReads, BufferWrites, LoopOfReads, LoopOfWrites

-----------------------------------------------------------------------------
(* Reads and writes of units. *)

LEMMA LoadIs ==
    ASSUME NEW d \in Storages, NEW a \in Nat, NEW w \in Widths
    PROVE  /\ Load(d, a, w) \in SUBSET Word
           /\ Index(d) \in 0..255
           /\ kind # "index" \/ a # DataReg => Load(d, a, w) = Unit(d.mem, a, w)
           /\ kind = "index" => Load(d, DataReg, w) = Unit(d.bank, Index(d), 8)
<1>1. \A bits, address : Unit(bits, address, w) \in SUBSET Word /\ Unit(bits, address, 8) \in SUBSET (0..7)
  BY DEF Unit, Word, Widths
<1>2. Index(d) \in 0..255
  BY <1>1, Selected DEF Index
<1>3. \A bits, address : Unit(bits, address, 8) \in SUBSET Word
  BY <1>1 DEF Word
<1>4. QED
  BY <1>1, <1>2, <1>3 DEF Load, Window

LEMMA PutTyped ==
    ASSUME NEW bits \in SUBSET Nat, NEW a \in Nat, NEW w \in Widths, NEW value
    PROVE  Put(bits, a, w, value) \in SUBSET Nat
<1>1. \A b \in Ones(w) : a * 8 + b \in Nat
  BY DEF Ones, Widths
<1>2. QED
  BY <1>1 DEF Put

LEMMA StoreIs ==
    ASSUME NEW d \in Storages, NEW a \in Nat, NEW w \in Widths, NEW value
    PROVE  /\ Store(d, a, w, value) \in Storages
           /\ kind # "index" \/ a # DataReg =>
                Store(d, a, w, value) = [d EXCEPT !.mem = Put(d.mem, a, w, value)]
           /\ kind = "index" =>
                Store(d, DataReg, w, value) = [d EXCEPT !.bank = Put(d.bank, Index(d), 8, value)]
<1>1. d.mem \in SUBSET Nat /\ d.bank \in SUBSET Nat /\ Index(d) \in Nat
  <2>1. Index(d) \in 0..255
    BY LoadIs
  <2>2. QED
    BY <2>1 DEF Storages
<1>2. Put(d.mem, a, w, value) \in SUBSET Nat
  BY <1>1, PutTyped
<1>3. Put(d.bank, Index(d), 8, value) \in SUBSET Nat
  BY <1>1, PutTyped DEF Widths
<1>4. QED
  BY <1>2, <1>3 DEF Store, Window, Storages

(* A unit is a row of bits, and to put one replaces a row.                 *)
LEMMA UnitIs ==
    ASSUME NEW a \in Nat, NEW w \in Widths, NEW bits, NEW value
    PROVE  /\ Unit(bits, a, w) = Row(bits, 8 * a, w)
           /\ Put(bits, a, w, value) = Over(bits, 8 * a, w, value)
<1>1. a * 8 = 8 * a
  OBVIOUS
<1>2. QED
  BY <1>1 DEF Unit, Row, Put, Over

(* What a loop of reads needs of its description to go on: rs as          *)
(* access_align makes it.                                                  *)
Counted(rs, w) ==
    rs.address \in Nat /\ rs.count \in Nat \ {0} /\ rs.width = w /\ w \in Widths

FieldReadSteps(l, d, rs, w) ==
    /\ l[0] = [dev |-> d, value |-> {}]
    /\ \A n \in 1..rs.count :
         l[n] = [dev |-> l[n - 1].dev,
                 value |-> Shl(l[n - 1].value, w) \cup Load(l[n - 1].dev, rs.address + (rs.count - n) * (w \div 8), w)]

LEMMA FieldReadsAre ==
    ASSUME NEW w, NEW rs, Counted(rs, w), NEW d \in Storages,
           NEW l, l = FieldReadLoop(d, rs)
    PROVE  FieldReadSteps(l, d, rs, w)
<1>1. w \in Widths /\ rs.address \in Nat /\ rs.count \in Nat \ {0} /\ rs.width = w
  BY DEF Counted
<1> DEFINE R == [x \in Storages \X Nat |-> [dev |-> x[1], value |-> Load(x[1], x[2], w)]]
<1>2. R \in [Storages \X Nat -> Gotten]
  <2>1. \A e \in Storages, a \in Nat : [dev |-> e, value |-> Load(e, a, w)] \in Gotten
    BY <1>1, LoadIs DEF Gotten
  <2>2. QED
    BY <2>1
<1>3. PICK c \in Nat \ {0}, a \in Nat : c = rs.count /\ a = rs.address
  BY <1>1
<1>4. PICK i : ReadsOf(i, R, w, a, c, d)
  <2> HIDE DEF R
  <2>1. QED
    BY <1>1, <1>2, <1>3, ReadLoop
<1>5. \A n \in 1..c :
        i[n] = [dev |-> i[n - 1].dev,
                value |-> Shl(i[n - 1].value, w) \cup Load(i[n - 1].dev, a + (c - n) * (w \div 8), w)]
  <2> TAKE n \in 1..c
  <2>1. n - 1 \in 0..c /\ c - n \in Nat
    OBVIOUS
  <2>2. PICK e \in Storages : e = i[n - 1].dev
    BY <1>4, <2>1 DEF ReadsOf, Gotten
  <2>3. PICK u \in Nat : u = a + (c - n) * (w \div 8)
    BY <1>1, <2>1, UnitAddress
  <2>4. R[<<e, u>>] = [dev |-> e, value |-> Load(e, u, w)]
    OBVIOUS
  <2>5. i[n] = [dev |-> R[<<e, u>>].dev, value |-> Shl(i[n - 1].value, w) \cup R[<<e, u>>].value]
    <3> HIDE DEF R
    <3>1. QED
      BY <1>4, <2>2, <2>3 DEF ReadsOf
  <2>6. QED
    BY <2>2, <2>3, <2>4, <2>5
<1>6. i = [n \in 0..c |->
            IF n = 0 THEN [dev |-> d, value |-> {}]
            ELSE [dev |-> i[n - 1].dev,
                  value |-> Shl(i[n - 1].value, w) \cup Load(i[n - 1].dev, a + (c - n) * (w \div 8), w)]]
  <2>1. i = [n \in 0..c |-> i[n]]
    BY <1>4 DEF ReadsOf
  <2>2. \A n \in 0..c :
          i[n] = IF n = 0 THEN [dev |-> d, value |-> {}]
                 ELSE [dev |-> i[n - 1].dev,
                       value |-> Shl(i[n - 1].value, w) \cup Load(i[n - 1].dev, a + (c - n) * (w \div 8), w)]
    <3> TAKE n \in 0..c
    <3>1. i[0] = [dev |-> d, value |-> {}]
      BY <1>4 DEF ReadsOf
    <3>2. n # 0 => n \in 1..c
      OBVIOUS
    <3>3. QED
      BY <1>5, <3>1, <3>2
  <2>3. QED
    BY Zenon, <2>1, <2>2
<1>7. FieldReads(i, d, rs)
  BY <1>1, <1>3, <1>6 DEF FieldReads, LoopOfReads
<1>8. FieldReads(l, d, rs)
  BY <1>7 DEF FieldReadLoop
<1>9. l = [n \in 0..c |->
            IF n = 0 THEN [dev |-> d, value |-> {}]
            ELSE [dev |-> l[n - 1].dev,
                  value |-> Shl(l[n - 1].value, w) \cup Load(l[n - 1].dev, a + (c - n) * (w \div 8), w)]]
  BY <1>1, <1>3, <1>8 DEF FieldReads, LoopOfReads
<1>10. l[0] = [dev |-> d, value |-> {}]
  <2>1. 0 \in 0..c
    BY <1>3
  <2>2. QED
    BY <1>9, <2>1
<1>11. \A n \in 1..c :
         l[n] = [dev |-> l[n - 1].dev,
                 value |-> Shl(l[n - 1].value, w) \cup Load(l[n - 1].dev, a + (c - n) * (w \div 8), w)]
  <2> TAKE n \in 1..c
  <2>1. n \in 0..c /\ n # 0
    OBVIOUS
  <2>2. QED
    BY <1>9, <2>1
<1>12. QED
  BY <1>3, <1>10, <1>11 DEF FieldReadSteps

FieldWriteSteps(l, d, rs, w, value) ==
    /\ l[0] = d
    /\ \A n \in 1..rs.count :
         l[n] = Store(l[n - 1], rs.address + (n - 1) * (w \div 8), w, Shr(value, (n - 1) * w))

LEMMA FieldWritesAre ==
    ASSUME NEW w, NEW rs, Counted(rs, w), NEW d \in Storages, NEW value,
           NEW l, l = FieldWriteLoop(d, rs, value)
    PROVE  FieldWriteSteps(l, d, rs, w, value)
<1>1. w \in Widths /\ rs.address \in Nat /\ rs.count \in Nat \ {0} /\ rs.width = w
  BY DEF Counted
<1> DEFINE V == [x \in Storages \X Nat \X SUBSET Word |-> Store(x[1], x[2], w, x[3])]
<1>2. V \in [Storages \X Nat \X SUBSET Word -> Storages]
  <2>1. \A e \in Storages, a \in Nat, v \in SUBSET Word : Store(e, a, w, v) \in Storages
    BY <1>1, StoreIs
  <2>2. QED
    BY <2>1
<1>3. PICK c \in Nat \ {0}, a \in Nat : c = rs.count /\ a = rs.address
  BY <1>1
<1>4. PICK i : WritesOf(i, V, w, a, c, d, value)
  <2> HIDE DEF V
  <2>1. QED
    BY <1>1, <1>2, <1>3, WriteLoop
<1>5. \A n \in 1..c :
        i[n] = Store(i[n - 1], a + (n - 1) * (w \div 8), w, Shr(value, (n - 1) * w))
  <2> TAKE n \in 1..c
  <2>1. n - 1 \in 0..c /\ n - 1 \in Nat
    OBVIOUS
  <2>2. PICK e \in Storages : e = i[n - 1]
    BY <1>4, <2>1 DEF WritesOf
  <2>3. PICK u \in Nat : u = a + (n - 1) * (w \div 8)
    BY <1>1, <2>1, UnitAddress
  <2>4. PICK v \in SUBSET Word : v = Shr(value, (n - 1) * w)
    BY DEF Shr
  <2>5. V[<<e, u, v>>] = Store(e, u, w, v)
    OBVIOUS
  <2>6. i[n] = V[<<e, u, v>>]
    <3> HIDE DEF V
    <3>1. QED
      BY <1>4, <2>2, <2>3, <2>4 DEF WritesOf
  <2>7. QED
    BY <2>2, <2>3, <2>4, <2>5, <2>6
<1>6. i = [n \in 0..c |-> IF n = 0 THEN d ELSE Store(i[n - 1], a + (n - 1) * (w \div 8), w, Shr(value, (n - 1) * w))]
  <2>1. i = [n \in 0..c |-> i[n]]
    BY <1>4 DEF WritesOf
  <2>2. \A n \in 0..c : i[n] = IF n = 0 THEN d ELSE Store(i[n - 1], a + (n - 1) * (w \div 8), w, Shr(value, (n - 1) * w))
    <3> TAKE n \in 0..c
    <3>1. i[0] = d
      BY <1>4 DEF WritesOf
    <3>2. n # 0 => n \in 1..c
      OBVIOUS
    <3>3. QED
      BY <1>5, <3>1, <3>2
  <2>3. QED
    BY Zenon, <2>1, <2>2
<1>7. FieldWrites(i, d, rs, value)
  BY <1>1, <1>3, <1>6 DEF FieldWrites, LoopOfWrites
<1>8. FieldWrites(l, d, rs, value)
  BY <1>7 DEF FieldWriteLoop
<1>9. l = [n \in 0..c |-> IF n = 0 THEN d ELSE Store(l[n - 1], a + (n - 1) * (w \div 8), w, Shr(value, (n - 1) * w))]
  BY <1>1, <1>3, <1>8 DEF FieldWrites, LoopOfWrites
<1>10. l[0] = d
  <2>1. 0 \in 0..c
    BY <1>3
  <2>2. QED
    BY <1>9, <2>1
<1>11. \A n \in 1..c :
         l[n] = Store(l[n - 1], a + (n - 1) * (w \div 8), w, Shr(value, (n - 1) * w))
  <2> TAKE n \in 1..c
  <2>1. n \in 0..c /\ n # 0
    OBVIOUS
  <2>2. QED
    BY <1>9, <2>1
<1>12. QED
  BY <1>3, <1>10, <1>11 DEF FieldWriteSteps

-----------------------------------------------------------------------------
(* The registers behind an index. *)

LEMMA AlignReads ==
    ASSUME NEW off, NEW size, NEW w, NEW update, NEW rw,
           NEW rs, rs = Align(off, size, w, update, rw)
    PROVE  rs.read <=> rw = "read" \/ (update = "preserve" /\ rs.partial)
BY DEF Align

(* The index and the data register are bytes of their own.                 *)
LEMMA RegisterAlign ==
    ASSUME NEW f \in {IndexField, DataField}, NEW rw,
           NEW rs, rs = Align(f.offset, f.length, Width(f.access), f.update, rw)
    PROVE  /\ rs.address = (IF f = IndexField THEN 0 ELSE 1) /\ rs.count = 1 /\ rs.width = 8
           /\ rs.partial = FALSE /\ (rs.read <=> rw = "read")
<1>1. Width(1) = 8
  BY DEF Width
<1>2. CASE f = IndexField
  <2>1. rs = Align(0, 8, 8, "preserve", rw)
    BY <1>1, <1>2 DEF IndexField, IndexReg
  <2>2. /\ 0 % 8 = 0 /\ 8 % 8 = 0 /\ (0 + 8 + 8 - 1) \div 8 = 1
        /\ (0 \div 8) - ((0 \div 8) % (8 \div 8)) = 0
    OBVIOUS
  <2>3. rs = [address |-> 0, offset |-> 0, size |-> 8, width |-> 8, count |-> 1,
              partial |-> FALSE, update |-> "preserve", read |-> rw = "read"]
    BY <2>1, <2>2 DEF Align
  <2>4. rs.read <=> rw = "read"
    <3>1. rs.read <=> rw = "read" \/ ("preserve" = "preserve" /\ rs.partial)
      BY <2>1, AlignReads
    <3>2. QED
      BY <2>3, <3>1
  <2>5. QED
    BY <1>2, <2>3, <2>4
<1>3. CASE f = DataField /\ f # IndexField
  <2>1. rs = Align(8, 8, 8, "preserve", rw)
    BY <1>1, <1>3 DEF DataField, DataReg
  <2>2. /\ 8 % 8 = 0 /\ (0 + 8 + 8 - 1) \div 8 = 1
        /\ (8 \div 8) - ((8 \div 8) % (8 \div 8)) = 1
    OBVIOUS
  <2>3. rs = [address |-> 1, offset |-> 0, size |-> 8, width |-> 8, count |-> 1,
              partial |-> FALSE, update |-> "preserve", read |-> rw = "read"]
    BY <2>1, <2>2 DEF Align
  <2>4. rs.read <=> rw = "read"
    <3>1. rs.read <=> rw = "read" \/ ("preserve" = "preserve" /\ rs.partial)
      BY <2>1, AlignReads
    <3>2. QED
      BY <2>3, <3>1
  <2>5. QED
    BY <1>3, <2>3, <2>4
<1>4. QED
  BY <1>2, <1>3

LEMMA RegisterRead ==
    ASSUME NEW f \in {IndexField, DataField}, NEW d \in Storages
    PROVE  AccessField(d, f, {}, "read") =
             [dev |-> d, value |-> Load(d, IF f = IndexField THEN 0 ELSE 1, 8)]
<1>1. PICK rs : rs = Align(f.offset, f.length, Width(f.access), f.update, "read")
  OBVIOUS
<1>2. PICK a \in Nat : a = (IF f = IndexField THEN 0 ELSE 1)
  OBVIOUS
<1>3. rs.address = a /\ rs.count = 1 /\ rs.width = 8 /\ rs.partial = FALSE /\ rs.read
  BY <1>1, <1>2, RegisterAlign
<1>4. PICK l : l = FieldReadLoop(d, rs)
  OBVIOUS
<1>5. Counted(rs, 8)
  BY <1>3 DEF Counted, Widths
<1>6. l[0] = [dev |-> d, value |-> {}]
  BY <1>4, <1>5, FieldReadsAre DEF FieldReadSteps
<1>7. l[1] = [dev |-> l[0].dev, value |-> Shl(l[0].value, 8) \cup Load(l[0].dev, a, 8)]
  <2>1. PICK w : w = 8
    OBVIOUS
  <2>2. \A n \in 1..rs.count :
          l[n] = [dev |-> l[n - 1].dev,
                  value |-> Shl(l[n - 1].value, w)
                              \cup Load(l[n - 1].dev, rs.address + (rs.count - n) * (w \div 8), w)]
    <3>1. Counted(rs, w)
      BY <1>5, <2>1
    <3>2. FieldReadSteps(l, d, rs, w)
      BY <1>4, <3>1, FieldReadsAre
    <3>3. QED
      BY <3>2 DEF FieldReadSteps
  <2>3. 1 \in 1..rs.count /\ 1 - 1 = 0 /\ rs.address + (rs.count - 1) * (w \div 8) = a
    BY <1>3, <2>1
  <2>4. l[1] = [dev |-> l[1 - 1].dev,
                value |-> Shl(l[1 - 1].value, w)
                            \cup Load(l[1 - 1].dev, rs.address + (rs.count - 1) * (w \div 8), w)]
    BY <2>2, <2>3
  <2>5. QED
    BY <2>1, <2>3, <2>4
<1>8. l[1] = [dev |-> d, value |-> Load(d, a, 8)]
  BY <1>6, <1>7 DEF Shl
<1>9. AccessField(d, f, {}, "read") = [dev |-> l[1].dev, value |-> Masked(rs, l[1].value)]
  <2>1. PICK x : x = AccessField(d, f, {}, "read")
    OBVIOUS
  <2>2. x = [dev |-> l[rs.count].dev, value |-> Masked(rs, l[rs.count].value)]
    BY <1>1, <1>3, <1>4, <2>1, FieldLooped
  <2>3. QED
    BY <1>3, <2>1, <2>2
<1>10. Masked(rs, l[1].value) = l[1].value
  BY <1>3 DEF Masked
<1>11. QED
  BY <1>2, <1>8, <1>9, <1>10

LEMMA RegisterWrite ==
    ASSUME NEW f \in {IndexField, DataField}, NEW d \in Storages, NEW v \in SUBSET Word
    PROVE  AccessField(d, f, v, "write").dev = Store(d, IF f = IndexField THEN 0 ELSE 1, 8, v)
<1>1. PICK rs : rs = Align(f.offset, f.length, Width(f.access), f.update, "write")
  OBVIOUS
<1>2. PICK a \in Nat : a = (IF f = IndexField THEN 0 ELSE 1)
  OBVIOUS
<1>3. rs.address = a /\ rs.count = 1 /\ rs.width = 8 /\ rs.partial = FALSE /\ ~rs.read
  <2>1. PICK rw : rw = "write"
    OBVIOUS
  <2>2. rs.read <=> rw = "read"
    BY <1>1, <2>1, RegisterAlign
  <2>3. QED
    BY <1>1, <1>2, <2>1, <2>2, RegisterAlign
<1>4. Counted(rs, 8)
  BY <1>3 DEF Counted, Widths
<1>5. PICK l : l = FieldReadLoop(d, rs)
  OBVIOUS
<1>6. l[0] = [dev |-> d, value |-> {}]
  BY <1>4, <1>5, FieldReadsAre DEF FieldReadSteps
<1>7. PICK m : m = FieldWriteLoop(d, rs, v)
  OBVIOUS
<1>8. m[0] = d
  BY <1>4, <1>7, FieldWritesAre DEF FieldWriteSteps
<1>9. m[1] = Store(d, a, 8, v)
  <2>1. PICK w : w = 8
    OBVIOUS
  <2>2. \A n \in 1..rs.count :
          m[n] = Store(m[n - 1], rs.address + (n - 1) * (w \div 8), w, Shr(v, (n - 1) * w))
    BY <1>4, <1>7, <2>1, FieldWritesAre DEF FieldWriteSteps
  <2>3. 1 \in 1..rs.count /\ 1 - 1 = 0 /\ rs.address + (1 - 1) * (w \div 8) = a /\ (1 - 1) * w = 0
    BY <1>3, <2>1
  <2>4. Shr(v, 0) = v
    <3>1. \A b \in v : b - 0 = b /\ b \in Word
      BY DEF Word
    <3>2. QED
      BY <3>1 DEF Shr
  <2>5. m[1] = Store(m[1 - 1], rs.address + (1 - 1) * (w \div 8), w, Shr(v, (1 - 1) * w))
    BY <2>2, <2>3
  <2>6. QED
    BY <1>8, <2>1, <2>3, <2>4, <2>5
<1>10. AccessField(d, f, v, "write").dev = m[1]
  <2>1. Preserved(rs, l[0].value, v) = v
    BY <1>3 DEF Preserved
  <2>2. PICK x, rw : x = AccessField(d, f, v, rw) /\ rw = "write"
    OBVIOUS
  <2>3. PICK got : got = IF rs.read THEN l[rs.count] ELSE l[0]
    OBVIOUS
  <2>4. x = IF rw = "read" THEN [dev |-> got.dev, value |-> Masked(rs, got.value)]
            ELSE [dev |-> FieldWriteLoop(got.dev, rs, Preserved(rs, got.value, v))[rs.count],
                  value |-> {}]
    BY <1>1, <1>5, <2>2, <2>3, FieldLooped
  <2>5. got = l[0] /\ got.dev = d
    BY <1>3, <1>6, <2>3
  <2>6. x = [dev |-> FieldWriteLoop(d, rs, v)[rs.count], value |-> {}]
    BY <2>1, <2>2, <2>4, <2>5
  <2>7. QED
    BY <1>3, <1>7, <2>2, <2>6
<1>11. QED
  BY <1>2, <1>9, <1>10

(* To select a byte of the bank and read or write it.                      *)
LEMMA SelectIs ==
    ASSUME kind = "index", NEW d \in Storages, NEW a \in Nat
    PROVE  /\ Select(d, a) \in Storages
           /\ Select(d, a).bank = d.bank
           /\ a =< 255 => Index(Select(d, a)) = a
<1>1. Bits(a) \in SUBSET (0..7) /\ Bits(a) \in SUBSET Word
  BY Selected DEF Word
<1>2. PICK e : e = Select(d, a)
  OBVIOUS
<1>3. e = [d EXCEPT !.mem = Put(d.mem, 0, 8, Bits(a))]
  <2>1. PICK f \in {IndexField, DataField} : f = IndexField
    OBVIOUS
  <2>2. AccessField(d, f, Bits(a), "write").dev = Store(d, IF f = IndexField THEN 0 ELSE 1, 8, Bits(a))
    BY <1>1, RegisterWrite
  <2>3. e = Store(d, 0, 8, Bits(a))
    BY <1>2, <2>1, <2>2 DEF Select
  <2>4. QED
    BY <2>3, StoreIs DEF DataReg, Widths
<1>4. d.mem \in SUBSET Nat /\ d.bank \in SUBSET Nat
  BY DEF Storages
<1>5. Put(d.mem, 0, 8, Bits(a)) \in SUBSET Nat
  BY <1>4, PutTyped DEF Widths
<1>6. e \in Storages /\ e.bank = d.bank /\ e.mem = Put(d.mem, 0, 8, Bits(a))
  BY <1>3, <1>5 DEF Storages
<1>7. Unit(e.mem, IndexReg, 8) = Bits(a)
  <2>1. PICK v \in SUBSET (0..7) : v = Bits(a)
    BY <1>1
  <2>2. e.mem = (d.mem \ 0..7) \cup {b : b \in v}
    <3>1. 0 * 8 = 0 /\ 0 * 8 + 8 - 1 = 7 /\ \A b \in v : 0 * 8 + b = b
      OBVIOUS
    <3>2. Ones(8) = 0..7
      BY DEF Ones
    <3>3. v \cap Ones(8) = v
      BY <3>2
    <3>4. QED
      BY <1>6, <2>1, <3>1, <3>3 DEF Put
  <2>3. \A b \in 0..7 : 0 * 8 + b = b
    OBVIOUS
  <2>4. QED
    BY <2>1, <2>2, <2>3 DEF Unit, IndexReg
<1>8. a =< 255 => Index(e) = a
  <2>1. Index(e) = FromBits[Bits(a)]
    BY <1>7 DEF Index
  <2>2. a =< 255 => a \in 0..255
    OBVIOUS
  <2>3. QED
    BY <2>1, <2>2, Selected
<1>9. QED
  BY <1>2, <1>6, <1>8

LEMMA GetIs ==
    ASSUME kind = "index", NEW d \in Storages, NEW a \in Nat
    PROVE  /\ Get(d, a) \in Gotten
           /\ Get(d, a).dev.bank = d.bank
           /\ a =< 255 => Get(d, a).value = Row(d.bank, 8 * a, 8)
<1>1. PICK e \in Storages : e = Select(d, a) /\ e.bank = d.bank /\ (a =< 255 => Index(e) = a)
  BY SelectIs
<1>2. Get(d, a) = [dev |-> e, value |-> Load(e, 1, 8)]
  <2>1. PICK f \in {IndexField, DataField} : f = DataField
    OBVIOUS
  <2>2. f # IndexField
    BY <2>1 DEF IndexField, DataField, IndexReg, DataReg
  <2>3. AccessField(e, f, {}, "read") = [dev |-> e, value |-> Load(e, IF f = IndexField THEN 0 ELSE 1, 8)]
    BY RegisterRead
  <2>4. QED
    BY <1>1, <2>1, <2>2, <2>3 DEF Get
<1>3. Load(e, 1, 8) = Unit(e.bank, Index(e), 8) /\ Load(e, 1, 8) \in SUBSET Word
  BY LoadIs DEF DataReg, Widths
<1>4. Index(e) \in Nat
  <2>1. PICK w \in Widths : w = 8
    BY DEF Widths
  <2>2. Index(e) \in 0..255
    BY LoadIs
  <2>3. QED
    BY <2>2
<1>5. Unit(e.bank, Index(e), 8) = Row(e.bank, 8 * Index(e), 8)
  BY <1>4, UnitIs DEF Widths
<1>6. QED
  BY <1>1, <1>2, <1>3, <1>5 DEF Gotten

LEMMA SetIs ==
    ASSUME kind = "index", NEW d \in Storages, NEW a \in Nat, NEW v \in SUBSET Word
    PROVE  /\ Set(d, a, v) \in Storages
           /\ a =< 255 => Set(d, a, v).bank = Over(d.bank, 8 * a, 8, v)
<1>1. PICK e \in Storages : e = Select(d, a) /\ e.bank = d.bank /\ (a =< 255 => Index(e) = a)
  BY SelectIs
<1>2. Set(d, a, v) = Store(e, 1, 8, v)
  <2>1. PICK f \in {IndexField, DataField} : f = DataField
    OBVIOUS
  <2>2. f # IndexField
    BY <2>1 DEF IndexField, DataField, IndexReg, DataReg
  <2>3. AccessField(e, f, v, "write").dev = Store(e, IF f = IndexField THEN 0 ELSE 1, 8, v)
    BY RegisterWrite
  <2>4. QED
    BY <1>1, <2>1, <2>2, <2>3 DEF Set
<1>3. /\ Store(e, 1, 8, v) = [e EXCEPT !.bank = Put(e.bank, Index(e), 8, v)]
      /\ Store(e, 1, 8, v) \in Storages
  <2>1. 8 \in Widths /\ 1 \in Nat /\ DataReg = 1
    BY DEF Widths, DataReg
  <2>2. Store(e, 1, 8, v) \in Storages
    BY <2>1, StoreIs
  <2>3. Store(e, DataReg, 8, v) = [e EXCEPT !.bank = Put(e.bank, Index(e), 8, v)]
    BY <2>1, StoreIs
  <2>4. QED
    BY <2>1, <2>2, <2>3
<1>4. Index(e) \in Nat
  <2>1. PICK w \in Widths : w = 8
    BY DEF Widths
  <2>2. Index(e) \in 0..255
    BY LoadIs
  <2>3. QED
    BY <2>2
<1>5. Put(e.bank, Index(e), 8, v) = Over(e.bank, 8 * Index(e), 8, v)
  BY <1>4, UnitIs DEF Widths
<1>6. Store(e, 1, 8, v).bank = Put(e.bank, Index(e), 8, v)
  BY <1>3 DEF Storages
<1>7. QED
  BY <1>1, <1>2, <1>3, <1>5, <1>6

IndexReadSteps(l, d, rs, w) ==
    /\ l[0] = [dev |-> d, value |-> {}]
    /\ \A n \in 1..rs.count :
         l[n] = [dev |-> Get(l[n - 1].dev, rs.address + (rs.count - n) * (w \div 8)).dev,
                 value |-> Shl(l[n - 1].value, w) \cup Get(l[n - 1].dev, rs.address + (rs.count - n) * (w \div 8)).value]

LEMMA IndexReadsAre ==
    ASSUME NEW w, NEW rs, Counted(rs, w), NEW d \in Storages,
           kind = "index",
           NEW l, l = IndexReadLoop(d, rs)
    PROVE  IndexReadSteps(l, d, rs, w)
<1>1. w \in Widths /\ rs.address \in Nat /\ rs.count \in Nat \ {0} /\ rs.width = w
  BY DEF Counted
<1> DEFINE R == [x \in Storages \X Nat |-> [dev |-> Get(x[1], x[2]).dev, value |-> Get(x[1], x[2]).value]]
<1>2. R \in [Storages \X Nat -> Gotten]
  <2>1. \A e \in Storages, a \in Nat : [dev |-> Get(e, a).dev, value |-> Get(e, a).value] \in Gotten
    BY <1>1, GetIs DEF Gotten
  <2>2. QED
    BY <2>1
<1>3. PICK c \in Nat \ {0}, a \in Nat : c = rs.count /\ a = rs.address
  BY <1>1
<1>4. PICK i : ReadsOf(i, R, w, a, c, d)
  <2> HIDE DEF R
  <2>1. QED
    BY <1>1, <1>2, <1>3, ReadLoop
<1>5. \A n \in 1..c :
        i[n] = [dev |-> Get(i[n - 1].dev, a + (c - n) * (w \div 8)).dev,
                value |-> Shl(i[n - 1].value, w) \cup Get(i[n - 1].dev, a + (c - n) * (w \div 8)).value]
  <2> TAKE n \in 1..c
  <2>1. n - 1 \in 0..c /\ c - n \in Nat
    OBVIOUS
  <2>2. PICK e \in Storages : e = i[n - 1].dev
    BY <1>4, <2>1 DEF ReadsOf, Gotten
  <2>3. PICK u \in Nat : u = a + (c - n) * (w \div 8)
    BY <1>1, <2>1, UnitAddress
  <2>4. R[<<e, u>>] = [dev |-> Get(e, u).dev, value |-> Get(e, u).value]
    OBVIOUS
  <2>5. i[n] = [dev |-> R[<<e, u>>].dev, value |-> Shl(i[n - 1].value, w) \cup R[<<e, u>>].value]
    <3> HIDE DEF R
    <3>1. QED
      BY <1>4, <2>2, <2>3 DEF ReadsOf
  <2>6. QED
    BY <2>2, <2>3, <2>4, <2>5
<1>6. i = [n \in 0..c |->
            IF n = 0 THEN [dev |-> d, value |-> {}]
            ELSE [dev |-> Get(i[n - 1].dev, a + (c - n) * (w \div 8)).dev,
                  value |-> Shl(i[n - 1].value, w) \cup Get(i[n - 1].dev, a + (c - n) * (w \div 8)).value]]
  <2>1. i = [n \in 0..c |-> i[n]]
    BY <1>4 DEF ReadsOf
  <2>2. \A n \in 0..c :
          i[n] = IF n = 0 THEN [dev |-> d, value |-> {}]
                 ELSE [dev |-> Get(i[n - 1].dev, a + (c - n) * (w \div 8)).dev,
                       value |-> Shl(i[n - 1].value, w) \cup Get(i[n - 1].dev, a + (c - n) * (w \div 8)).value]
    <3> TAKE n \in 0..c
    <3>1. i[0] = [dev |-> d, value |-> {}]
      BY <1>4 DEF ReadsOf
    <3>2. n # 0 => n \in 1..c
      OBVIOUS
    <3>3. QED
      BY <1>5, <3>1, <3>2
  <2>3. QED
    BY Zenon, <2>1, <2>2
<1>7. IndexReads(i, d, rs)
  BY <1>1, <1>3, <1>6 DEF IndexReads, LoopOfReads
<1>8. IndexReads(l, d, rs)
  BY <1>7 DEF IndexReadLoop
<1>9. l = [n \in 0..c |->
            IF n = 0 THEN [dev |-> d, value |-> {}]
            ELSE [dev |-> Get(l[n - 1].dev, a + (c - n) * (w \div 8)).dev,
                  value |-> Shl(l[n - 1].value, w) \cup Get(l[n - 1].dev, a + (c - n) * (w \div 8)).value]]
  BY <1>1, <1>3, <1>8 DEF IndexReads, LoopOfReads
<1>10. l[0] = [dev |-> d, value |-> {}]
  <2>1. 0 \in 0..c
    BY <1>3
  <2>2. QED
    BY <1>9, <2>1
<1>11. \A n \in 1..c :
         l[n] = [dev |-> Get(l[n - 1].dev, a + (c - n) * (w \div 8)).dev,
                 value |-> Shl(l[n - 1].value, w) \cup Get(l[n - 1].dev, a + (c - n) * (w \div 8)).value]
  <2> TAKE n \in 1..c
  <2>1. n \in 0..c /\ n # 0
    OBVIOUS
  <2>2. QED
    BY <1>9, <2>1
<1>12. QED
  BY <1>3, <1>10, <1>11 DEF IndexReadSteps

IndexWriteSteps(l, d, rs, w, value) ==
    /\ l[0] = d
    /\ \A n \in 1..rs.count :
         l[n] = Set(l[n - 1], rs.address + (n - 1) * (w \div 8), Shr(value, (n - 1) * w))

LEMMA IndexWritesAre ==
    ASSUME NEW w, NEW rs, Counted(rs, w), NEW d \in Storages, NEW value,
           kind = "index",
           NEW l, l = IndexWriteLoop(d, rs, value)
    PROVE  IndexWriteSteps(l, d, rs, w, value)
<1>1. w \in Widths /\ rs.address \in Nat /\ rs.count \in Nat \ {0} /\ rs.width = w
  BY DEF Counted
<1> DEFINE V == [x \in Storages \X Nat \X SUBSET Word |-> Set(x[1], x[2], x[3])]
<1>2. V \in [Storages \X Nat \X SUBSET Word -> Storages]
  <2>1. \A e \in Storages, a \in Nat, v \in SUBSET Word : Set(e, a, v) \in Storages
    BY <1>1, SetIs
  <2>2. QED
    BY <2>1
<1>3. PICK c \in Nat \ {0}, a \in Nat : c = rs.count /\ a = rs.address
  BY <1>1
<1>4. PICK i : WritesOf(i, V, w, a, c, d, value)
  <2> HIDE DEF V
  <2>1. QED
    BY <1>1, <1>2, <1>3, WriteLoop
<1>5. \A n \in 1..c :
        i[n] = Set(i[n - 1], a + (n - 1) * (w \div 8), Shr(value, (n - 1) * w))
  <2> TAKE n \in 1..c
  <2>1. n - 1 \in 0..c /\ n - 1 \in Nat
    OBVIOUS
  <2>2. PICK e \in Storages : e = i[n - 1]
    BY <1>4, <2>1 DEF WritesOf
  <2>3. PICK u \in Nat : u = a + (n - 1) * (w \div 8)
    BY <1>1, <2>1, UnitAddress
  <2>4. PICK v \in SUBSET Word : v = Shr(value, (n - 1) * w)
    BY DEF Shr
  <2>5. V[<<e, u, v>>] = Set(e, u, v)
    OBVIOUS
  <2>6. i[n] = V[<<e, u, v>>]
    <3> HIDE DEF V
    <3>1. QED
      BY <1>4, <2>2, <2>3, <2>4 DEF WritesOf
  <2>7. QED
    BY <2>2, <2>3, <2>4, <2>5, <2>6
<1>6. i = [n \in 0..c |-> IF n = 0 THEN d ELSE Set(i[n - 1], a + (n - 1) * (w \div 8), Shr(value, (n - 1) * w))]
  <2>1. i = [n \in 0..c |-> i[n]]
    BY <1>4 DEF WritesOf
  <2>2. \A n \in 0..c : i[n] = IF n = 0 THEN d ELSE Set(i[n - 1], a + (n - 1) * (w \div 8), Shr(value, (n - 1) * w))
    <3> TAKE n \in 0..c
    <3>1. i[0] = d
      BY <1>4 DEF WritesOf
    <3>2. n # 0 => n \in 1..c
      OBVIOUS
    <3>3. QED
      BY <1>5, <3>1, <3>2
  <2>3. QED
    BY Zenon, <2>1, <2>2
<1>7. IndexWrites(i, d, rs, value)
  BY <1>1, <1>3, <1>6 DEF IndexWrites, LoopOfWrites
<1>8. IndexWrites(l, d, rs, value)
  BY <1>7 DEF IndexWriteLoop
<1>9. l = [n \in 0..c |-> IF n = 0 THEN d ELSE Set(l[n - 1], a + (n - 1) * (w \div 8), Shr(value, (n - 1) * w))]
  BY <1>1, <1>3, <1>8 DEF IndexWrites, LoopOfWrites
<1>10. l[0] = d
  <2>1. 0 \in 0..c
    BY <1>3
  <2>2. QED
    BY <1>9, <2>1
<1>11. \A n \in 1..c :
         l[n] = Set(l[n - 1], a + (n - 1) * (w \div 8), Shr(value, (n - 1) * w))
  <2> TAKE n \in 1..c
  <2>1. n \in 0..c /\ n # 0
    OBVIOUS
  <2>2. QED
    BY <1>9, <2>1
<1>12. QED
  BY <1>3, <1>10, <1>11 DEF IndexWriteSteps

-----------------------------------------------------------------------------
(* The bytes of a buffer. *)
LEMMA BufferByte ==
    ASSUME NEW d \in Storages, NEW a \in Nat, NEW ptr \in Nat, NEW v
    PROVE  /\ Unit(d.mem, ptr + a, 8) \in SUBSET Word
           /\ Unit(d.mem, ptr + a, 8) = Row(d.mem, 8 * (ptr + a), 8)
           /\ [d EXCEPT !.mem = Put(d.mem, ptr + a, 8, v)] \in Storages
           /\ Put(d.mem, ptr + a, 8, v) = Over(d.mem, 8 * (ptr + a), 8, v)
<1>1. ptr + a \in Nat /\ 8 \in Widths /\ d.mem \in SUBSET Nat
  BY DEF Widths, Storages
<1>2. Put(d.mem, ptr + a, 8, v) \in SUBSET Nat
  BY <1>1, PutTyped
<1>3. Unit(d.mem, ptr + a, 8) = Row(d.mem, 8 * (ptr + a), 8) /\ Put(d.mem, ptr + a, 8, v) = Over(d.mem, 8 * (ptr + a), 8, v)
  BY <1>1, UnitIs
<1>4. Unit(d.mem, ptr + a, 8) \in SUBSET Word
  BY DEF Unit, Word
<1>5. QED
  BY <1>2, <1>3, <1>4 DEF Storages

BufferReadSteps(l, d, rs, w, ptr) ==
    /\ l[0] = [dev |-> d, value |-> {}]
    /\ \A n \in 1..rs.count :
         l[n] = [dev |-> l[n - 1].dev,
                 value |-> Shl(l[n - 1].value, w) \cup Unit(l[n - 1].dev.mem, ptr + (rs.address + (rs.count - n) * (w \div 8)), 8)]

LEMMA BufferReadsAre ==
    ASSUME NEW w, NEW rs, Counted(rs, w), NEW d \in Storages, NEW ptr \in Nat,
           NEW l, l = BufferReadLoop(d, rs, ptr)
    PROVE  BufferReadSteps(l, d, rs, w, ptr)
<1>1. w \in Widths /\ rs.address \in Nat /\ rs.count \in Nat \ {0} /\ rs.width = w
  BY DEF Counted
<1> DEFINE R == [x \in Storages \X Nat |-> [dev |-> x[1], value |-> Unit(x[1].mem, ptr + x[2], 8)]]
<1>2. R \in [Storages \X Nat -> Gotten]
  <2>1. \A e \in Storages, a \in Nat : [dev |-> e, value |-> Unit(e.mem, ptr + a, 8)] \in Gotten
    BY <1>1, BufferByte DEF Gotten
  <2>2. QED
    BY <2>1
<1>3. PICK c \in Nat \ {0}, a \in Nat : c = rs.count /\ a = rs.address
  BY <1>1
<1>4. PICK i : ReadsOf(i, R, w, a, c, d)
  <2> HIDE DEF R
  <2>1. QED
    BY <1>1, <1>2, <1>3, ReadLoop
<1>5. \A n \in 1..c :
        i[n] = [dev |-> i[n - 1].dev,
                value |-> Shl(i[n - 1].value, w) \cup Unit(i[n - 1].dev.mem, ptr + (a + (c - n) * (w \div 8)), 8)]
  <2> TAKE n \in 1..c
  <2>1. n - 1 \in 0..c /\ c - n \in Nat
    OBVIOUS
  <2>2. PICK e \in Storages : e = i[n - 1].dev
    BY <1>4, <2>1 DEF ReadsOf, Gotten
  <2>3. PICK u \in Nat : u = a + (c - n) * (w \div 8)
    BY <1>1, <2>1, UnitAddress
  <2>4. R[<<e, u>>] = [dev |-> e, value |-> Unit(e.mem, ptr + u, 8)]
    OBVIOUS
  <2>5. i[n] = [dev |-> R[<<e, u>>].dev, value |-> Shl(i[n - 1].value, w) \cup R[<<e, u>>].value]
    <3> HIDE DEF R
    <3>1. QED
      BY <1>4, <2>2, <2>3 DEF ReadsOf
  <2>6. QED
    BY <2>2, <2>3, <2>4, <2>5
<1>6. i = [n \in 0..c |->
            IF n = 0 THEN [dev |-> d, value |-> {}]
            ELSE [dev |-> i[n - 1].dev,
                  value |-> Shl(i[n - 1].value, w) \cup Unit(i[n - 1].dev.mem, ptr + (a + (c - n) * (w \div 8)), 8)]]
  <2>1. i = [n \in 0..c |-> i[n]]
    BY <1>4 DEF ReadsOf
  <2>2. \A n \in 0..c :
          i[n] = IF n = 0 THEN [dev |-> d, value |-> {}]
                 ELSE [dev |-> i[n - 1].dev,
                       value |-> Shl(i[n - 1].value, w) \cup Unit(i[n - 1].dev.mem, ptr + (a + (c - n) * (w \div 8)), 8)]
    <3> TAKE n \in 0..c
    <3>1. i[0] = [dev |-> d, value |-> {}]
      BY <1>4 DEF ReadsOf
    <3>2. n # 0 => n \in 1..c
      OBVIOUS
    <3>3. QED
      BY <1>5, <3>1, <3>2
  <2>3. QED
    BY Zenon, <2>1, <2>2
<1>7. BufferReads(i, d, rs, ptr)
  BY <1>1, <1>3, <1>6 DEF BufferReads, LoopOfReads
<1>8. BufferReads(l, d, rs, ptr)
  BY <1>7 DEF BufferReadLoop
<1>9. l = [n \in 0..c |->
            IF n = 0 THEN [dev |-> d, value |-> {}]
            ELSE [dev |-> l[n - 1].dev,
                  value |-> Shl(l[n - 1].value, w) \cup Unit(l[n - 1].dev.mem, ptr + (a + (c - n) * (w \div 8)), 8)]]
  BY <1>1, <1>3, <1>8 DEF BufferReads, LoopOfReads
<1>10. l[0] = [dev |-> d, value |-> {}]
  <2>1. 0 \in 0..c
    BY <1>3
  <2>2. QED
    BY <1>9, <2>1
<1>11. \A n \in 1..c :
         l[n] = [dev |-> l[n - 1].dev,
                 value |-> Shl(l[n - 1].value, w) \cup Unit(l[n - 1].dev.mem, ptr + (a + (c - n) * (w \div 8)), 8)]
  <2> TAKE n \in 1..c
  <2>1. n \in 0..c /\ n # 0
    OBVIOUS
  <2>2. QED
    BY <1>9, <2>1
<1>12. QED
  BY <1>3, <1>10, <1>11 DEF BufferReadSteps

BufferWriteSteps(l, d, rs, w, value, ptr) ==
    /\ l[0] = d
    /\ \A n \in 1..rs.count :
         l[n] = [l[n - 1] EXCEPT !.mem = Put(l[n - 1].mem, ptr + (rs.address + (n - 1) * (w \div 8)), 8, Shr(value, (n - 1) * w))]

LEMMA BufferWritesAre ==
    ASSUME NEW w, NEW rs, Counted(rs, w), NEW d \in Storages, NEW value, NEW ptr \in Nat,
           NEW l, l = BufferWriteLoop(d, rs, value, ptr)
    PROVE  BufferWriteSteps(l, d, rs, w, value, ptr)
<1>1. w \in Widths /\ rs.address \in Nat /\ rs.count \in Nat \ {0} /\ rs.width = w
  BY DEF Counted
<1> DEFINE V == [x \in Storages \X Nat \X SUBSET Word |-> [x[1] EXCEPT !.mem = Put(x[1].mem, ptr + x[2], 8, x[3])]]
<1>2. V \in [Storages \X Nat \X SUBSET Word -> Storages]
  <2>1. \A e \in Storages, a \in Nat, v \in SUBSET Word : [e EXCEPT !.mem = Put(e.mem, ptr + a, 8, v)] \in Storages
    BY <1>1, BufferByte
  <2>2. QED
    BY <2>1
<1>3. PICK c \in Nat \ {0}, a \in Nat : c = rs.count /\ a = rs.address
  BY <1>1
<1>4. PICK i : WritesOf(i, V, w, a, c, d, value)
  <2> HIDE DEF V
  <2>1. QED
    BY <1>1, <1>2, <1>3, WriteLoop
<1>5. \A n \in 1..c :
        i[n] = [i[n - 1] EXCEPT !.mem = Put(i[n - 1].mem, ptr + (a + (n - 1) * (w \div 8)), 8, Shr(value, (n - 1) * w))]
  <2> TAKE n \in 1..c
  <2>1. n - 1 \in 0..c /\ n - 1 \in Nat
    OBVIOUS
  <2>2. PICK e \in Storages : e = i[n - 1]
    BY <1>4, <2>1 DEF WritesOf
  <2>3. PICK u \in Nat : u = a + (n - 1) * (w \div 8)
    BY <1>1, <2>1, UnitAddress
  <2>4. PICK v \in SUBSET Word : v = Shr(value, (n - 1) * w)
    BY DEF Shr
  <2>5. V[<<e, u, v>>] = [e EXCEPT !.mem = Put(e.mem, ptr + u, 8, v)]
    OBVIOUS
  <2>6. i[n] = V[<<e, u, v>>]
    <3> HIDE DEF V
    <3>1. QED
      BY <1>4, <2>2, <2>3, <2>4 DEF WritesOf
  <2>7. QED
    BY <2>2, <2>3, <2>4, <2>5, <2>6
<1>6. i = [n \in 0..c |-> IF n = 0 THEN d ELSE [i[n - 1] EXCEPT !.mem = Put(i[n - 1].mem, ptr + (a + (n - 1) * (w \div 8)), 8, Shr(value, (n - 1) * w))]]
  <2>1. i = [n \in 0..c |-> i[n]]
    BY <1>4 DEF WritesOf
  <2>2. \A n \in 0..c : i[n] = IF n = 0 THEN d ELSE [i[n - 1] EXCEPT !.mem = Put(i[n - 1].mem, ptr + (a + (n - 1) * (w \div 8)), 8, Shr(value, (n - 1) * w))]
    <3> TAKE n \in 0..c
    <3>1. i[0] = d
      BY <1>4 DEF WritesOf
    <3>2. n # 0 => n \in 1..c
      OBVIOUS
    <3>3. QED
      BY <1>5, <3>1, <3>2
  <2>3. QED
    BY Zenon, <2>1, <2>2
<1>7. BufferWrites(i, d, rs, value, ptr)
  BY <1>1, <1>3, <1>6 DEF BufferWrites, LoopOfWrites
<1>8. BufferWrites(l, d, rs, value, ptr)
  BY <1>7 DEF BufferWriteLoop
<1>9. l = [n \in 0..c |-> IF n = 0 THEN d ELSE [l[n - 1] EXCEPT !.mem = Put(l[n - 1].mem, ptr + (a + (n - 1) * (w \div 8)), 8, Shr(value, (n - 1) * w))]]
  BY <1>1, <1>3, <1>8 DEF BufferWrites, LoopOfWrites
<1>10. l[0] = d
  <2>1. 0 \in 0..c
    BY <1>3
  <2>2. QED
    BY <1>9, <2>1
<1>11. \A n \in 1..c :
         l[n] = [l[n - 1] EXCEPT !.mem = Put(l[n - 1].mem, ptr + (a + (n - 1) * (w \div 8)), 8, Shr(value, (n - 1) * w))]
  <2> TAKE n \in 1..c
  <2>1. n \in 0..c /\ n # 0
    OBVIOUS
  <2>2. QED
    BY <1>9, <2>1
<1>12. QED
  BY <1>3, <1>10, <1>11 DEF BufferWriteSteps

-----------------------------------------------------------------------------
(* What the loops of a field of a region gather and leave. *)
LEMMA FieldGathered ==
    ASSUME kind = "field", NEW w \in Widths, NEW rs, Counted(rs, w), rs.count * w =< 64,
           NEW d \in Storages, NEW l, l = FieldReadLoop(d, rs)
    PROVE  /\ l[0].dev = d /\ l[rs.count].dev \in {d}
           /\ l[rs.count].value = Row(d.mem, 8 * rs.address, rs.count * w)
<1>0. PICK bits, P : bits = d.mem /\ P = {d}
  OBVIOUS
<1>1. PICK c \in Nat \ {0}, base \in Nat :
        /\ c = rs.count /\ base = 8 * rs.address /\ rs.address \in Nat /\ bits = d.mem
        /\ P = {d}
  BY <1>0 DEF Counted
<1>2. FieldReadSteps(l, d, rs, w)
  BY FieldReadsAre
<1>3. l[0] = [dev |-> d, value |-> {}]
  BY <1>2 DEF FieldReadSteps
<1>4. ASSUME NEW n \in 1..c, l[n - 1].dev \in P
      PROVE  /\ l[n].dev \in P
             /\ l[n].value = Shl(l[n - 1].value, w) \cup Row(bits, base + (c - n) * w, w)
  <2>1. c - n \in Nat /\ n \in 1..rs.count
    BY <1>1
  <2>2. PICK u \in Nat : u = rs.address + (c - n) * (w \div 8) /\ 8 * u = 8 * rs.address + (c - n) * w
    BY <1>1, <2>1, UnitAddress
  <2>3. PICK e \in Storages : e = l[n - 1].dev /\ e \in P
    BY <1>1, <1>4
  <2>4. l[n] = [dev |-> l[n - 1].dev,
                value |-> Shl(l[n - 1].value, w)
                            \cup Load(l[n - 1].dev, rs.address + (rs.count - n) * (w \div 8), w)]
    BY <1>2, <2>1 DEF FieldReadSteps
  <2>5. PICK X, Y : X = e /\ Y = Load(e, u, w)
    OBVIOUS
  <2>6. l[n] = [dev |-> X, value |-> Shl(l[n - 1].value, w) \cup Y]
    BY <1>1, <2>2, <2>3, <2>4, <2>5
  <2>7. X \in P
    BY <2>3, <2>5
  <2>8. Y = Row(bits, 8 * u, w)
    BY <1>1, <2>3, <2>5, LoadIs, UnitIs
  <2>9. 8 * u = base + (c - n) * w
    <3>1. 8 * rs.address + (c - n) * w = 8 * u
      BY <2>2
    <3>2. PICK x \in Nat, a \in Nat : x = (c - n) * w /\ a = rs.address
      BY <1>1, <2>1 DEF Widths
    <3>3. base = 8 * a /\ 8 * a + x = 8 * u
      BY <1>1, <3>1, <3>2
    <3>4. QED
      BY <3>2, <3>3
  <2>10. QED
    BY <2>6, <2>7, <2>8, <2>9
<1>5. l[0].dev \in P /\ l[0].value = {}
  BY <1>1, <1>3
<1>6. l[c].dev \in P /\ l[c].value = Row(bits, base, c * w)
  <2>1. PICK m \in Nat : m = c * w /\ m =< 64
    BY <1>1 DEF Widths
  <2>2. Gathers(l, P, bits, base, w, c)
    BY <1>4, <1>5 DEF Gathers
  <2>3. QED
    BY <2>1, <2>2, Gathered
<1>7. QED
  BY <1>1, <1>3, <1>6

LEMMA FieldScattered ==
    ASSUME kind = "field", NEW w \in Widths, NEW rs, Counted(rs, w), rs.count * w =< 64,
           NEW d \in Storages, NEW value \in SUBSET Word, NEW l, l = FieldWriteLoop(d, rs, value)
    PROVE  /\ l[rs.count] \in {e \in Storages : e.bank = d.bank}
           /\ l[rs.count].mem = Over(d.mem, 8 * rs.address, rs.count * w, value)
<1>0. PICK bits, P : bits = d.mem /\ P = {e \in Storages : e.bank = d.bank}
  OBVIOUS
<1>1. PICK c \in Nat \ {0}, base \in Nat :
        /\ c = rs.count /\ base = 8 * rs.address /\ rs.address \in Nat /\ bits = d.mem
        /\ P = {e \in Storages : e.bank = d.bank}
  BY <1>0 DEF Counted
<1>2. FieldWriteSteps(l, d, rs, w, value)
  BY FieldWritesAre
<1>3. l[0] = d
  BY <1>2 DEF FieldWriteSteps
<1>4. PICK v : v = [n \in 0..c |-> l[n].mem]
  OBVIOUS
<1>5. ASSUME NEW n \in 1..c, l[n - 1] \in P
      PROVE  l[n] \in P /\ v[n] = Over(v[n - 1], base + (n - 1) * w, w, Shr(value, (n - 1) * w))
  <2>1. n - 1 \in Nat /\ n \in 1..rs.count /\ n \in 0..c /\ n - 1 \in 0..c
    BY <1>1
  <2>2. PICK u \in Nat : u = rs.address + (n - 1) * (w \div 8) /\ 8 * u = 8 * rs.address + (n - 1) * w
    BY <1>1, <2>1, UnitAddress
  <2>3. PICK e \in Storages : e = l[n - 1] /\ e \in P
    BY <1>1, <1>5
  <2>4. PICK x \in SUBSET Word : x = Shr(value, (n - 1) * w)
    BY DEF Shr
  <2>5. l[n] = Store(l[n - 1], rs.address + (n - 1) * (w \div 8), w, Shr(value, (n - 1) * w))
    BY <1>2, <2>1 DEF FieldWriteSteps
  <2>6. l[n] = Store(e, u, w, x)
    BY <2>2, <2>3, <2>4, <2>5
  <2>7. l[n] \in P /\ l[n].mem = Over(e.mem, 8 * u, w, x)
    <3>1. l[n] = [e EXCEPT !.mem = Put(e.mem, u, w, x)] /\ l[n] \in Storages
      BY <2>6, StoreIs
    <3>2. l[n].mem = Put(e.mem, u, w, x) /\ l[n].bank = e.bank
      BY <3>1 DEF Storages
    <3>3. Put(e.mem, u, w, x) = Over(e.mem, 8 * u, w, x)
      BY UnitIs
    <3>4. QED
      BY <1>1, <2>3, <3>1, <3>2, <3>3
  <2>8. 8 * u = base + (n - 1) * w
    BY <1>1, <2>2
  <2>9. v[n] = l[n].mem /\ v[n - 1] = e.mem
    BY <1>4, <2>1, <2>3
  <2>10. QED
    BY <2>4, <2>7, <2>8, <2>9
<1>6. l[0] \in P /\ v[0] = d.mem
  <2>1. v[0] = l[0].mem
    BY <1>4
  <2>2. d \in P
    BY <1>1
  <2>3. QED
    BY <1>3, <2>1, <2>2
<1>7. l[c] \in P /\ v[c] = Over(d.mem, base, c * w, value)
  <2>1. PICK m \in Nat : m = c * w /\ m =< 64
    BY <1>1 DEF Widths
  <2>2. Scatters(l, v, P, bits, base, w, c, value)
    BY <1>1, <1>5, <1>6 DEF Scatters
  <2>3. l[c] \in P /\ v[c] = Over(bits, base, m, value)
    BY <2>1, <2>2, Scattered
  <2>4. QED
    BY <1>1, <2>1, <2>3
<1>8. v[c] = l[c].mem
  BY <1>1, <1>4
<1>9. QED
  BY <1>1, <1>7, <1>8

(* Of a field behind an index. *)
LEMMA IndexGathered ==
    ASSUME kind = "index", NEW w \in Widths, NEW rs, Counted(rs, w), rs.count * w =< 64, w = 8,
           rs.address + rs.count =< 256,
           NEW d \in Storages, NEW l, l = IndexReadLoop(d, rs)
    PROVE  /\ l[0].dev = d /\ l[rs.count].dev \in {e \in Storages : e.bank = d.bank}
           /\ l[rs.count].value = Row(d.bank, 8 * rs.address, rs.count * w)
<1>0. PICK bits, P : bits = d.bank /\ P = {e \in Storages : e.bank = d.bank}
  OBVIOUS
<1>1. PICK c \in Nat \ {0}, base \in Nat :
        /\ c = rs.count /\ base = 8 * rs.address /\ rs.address \in Nat /\ bits = d.bank
        /\ P = {e \in Storages : e.bank = d.bank}
  BY <1>0 DEF Counted
<1>2. IndexReadSteps(l, d, rs, w)
  BY IndexReadsAre
<1>3. l[0] = [dev |-> d, value |-> {}]
  BY <1>2 DEF IndexReadSteps
<1>4. ASSUME NEW n \in 1..c, l[n - 1].dev \in P
      PROVE  /\ l[n].dev \in P
             /\ l[n].value = Shl(l[n - 1].value, w) \cup Row(bits, base + (c - n) * w, w)
  <2>1. c - n \in Nat /\ n \in 1..rs.count
    BY <1>1
  <2>2. PICK u \in Nat : u = rs.address + (c - n) * (w \div 8) /\ 8 * u = 8 * rs.address + (c - n) * w
    BY <1>1, <2>1, UnitAddress
  <2>3. PICK e \in Storages : e = l[n - 1].dev /\ e \in P
    BY <1>1, <1>4
  <2>4. l[n] = [dev |-> Get(l[n - 1].dev, rs.address + (rs.count - n) * (w \div 8)).dev,
                value |-> Shl(l[n - 1].value, w)
                            \cup Get(l[n - 1].dev, rs.address + (rs.count - n) * (w \div 8)).value]
    BY <1>2, <2>1 DEF IndexReadSteps
  <2>5. PICK X, Y : X = Get(e, u).dev /\ Y = Get(e, u).value
    OBVIOUS
  <2>6. l[n] = [dev |-> X, value |-> Shl(l[n - 1].value, w) \cup Y]
    BY <1>1, <2>2, <2>3, <2>4, <2>5
  <2>7. X \in P
    <3>1. Get(e, u) \in Gotten /\ Get(e, u).dev.bank = e.bank
      BY GetIs
    <3>2. QED
      BY <1>1, <2>3, <2>5, <3>1 DEF Gotten
  <2>8. Y = Row(bits, 8 * u, w)
    <3>1. u =< 255
      BY <1>1, <2>1, <2>2
    <3>2. Get(e, u).value = Row(e.bank, 8 * u, 8)
      BY <3>1, GetIs
    <3>3. QED
      BY <1>1, <2>3, <2>5, <3>2
  <2>9. 8 * u = base + (c - n) * w
    <3>1. 8 * rs.address + (c - n) * w = 8 * u
      BY <2>2
    <3>2. PICK x \in Nat, a \in Nat : x = (c - n) * w /\ a = rs.address
      BY <1>1, <2>1 DEF Widths
    <3>3. base = 8 * a /\ 8 * a + x = 8 * u
      BY <1>1, <3>1, <3>2
    <3>4. QED
      BY <3>2, <3>3
  <2>10. QED
    BY <2>6, <2>7, <2>8, <2>9
<1>5. l[0].dev \in P /\ l[0].value = {}
  BY <1>1, <1>3
<1>6. l[c].dev \in P /\ l[c].value = Row(bits, base, c * w)
  <2>1. PICK m \in Nat : m = c * w /\ m =< 64
    BY <1>1 DEF Widths
  <2>2. Gathers(l, P, bits, base, w, c)
    BY <1>4, <1>5 DEF Gathers
  <2>3. QED
    BY <2>1, <2>2, Gathered
<1>7. QED
  BY <1>1, <1>3, <1>6

LEMMA IndexScattered ==
    ASSUME kind = "index", NEW w \in Widths, NEW rs, Counted(rs, w), rs.count * w =< 64, w = 8,
           rs.address + rs.count =< 256,
           NEW d \in Storages, NEW value \in SUBSET Word, NEW l, l = IndexWriteLoop(d, rs, value)
    PROVE  /\ l[rs.count] \in Storages
           /\ l[rs.count].bank = Over(d.bank, 8 * rs.address, rs.count * w, value)
<1>0. PICK bits, P : bits = d.bank /\ P = Storages
  OBVIOUS
<1>1. PICK c \in Nat \ {0}, base \in Nat :
        /\ c = rs.count /\ base = 8 * rs.address /\ rs.address \in Nat /\ bits = d.bank
        /\ P = Storages
  BY <1>0 DEF Counted
<1>2. IndexWriteSteps(l, d, rs, w, value)
  BY IndexWritesAre
<1>3. l[0] = d
  BY <1>2 DEF IndexWriteSteps
<1>4. PICK v : v = [n \in 0..c |-> l[n].bank]
  OBVIOUS
<1>5. ASSUME NEW n \in 1..c, l[n - 1] \in P
      PROVE  l[n] \in P /\ v[n] = Over(v[n - 1], base + (n - 1) * w, w, Shr(value, (n - 1) * w))
  <2>1. n - 1 \in Nat /\ n \in 1..rs.count /\ n \in 0..c /\ n - 1 \in 0..c
    BY <1>1
  <2>2. PICK u \in Nat : u = rs.address + (n - 1) * (w \div 8) /\ 8 * u = 8 * rs.address + (n - 1) * w
    BY <1>1, <2>1, UnitAddress
  <2>3. PICK e \in Storages : e = l[n - 1] /\ e \in P
    BY <1>1, <1>5
  <2>4. PICK x \in SUBSET Word : x = Shr(value, (n - 1) * w)
    BY DEF Shr
  <2>5. l[n] = Set(l[n - 1], rs.address + (n - 1) * (w \div 8), Shr(value, (n - 1) * w))
    BY <1>2, <2>1 DEF IndexWriteSteps
  <2>6. l[n] = Set(e, u, x)
    BY <2>2, <2>3, <2>4, <2>5
  <2>7. l[n] \in P /\ l[n].bank = Over(e.bank, 8 * u, w, x)
    <3>1. u =< 255
      BY <1>1, <2>1, <2>2
    <3>2. Set(e, u, x) \in Storages /\ Set(e, u, x).bank = Over(e.bank, 8 * u, 8, x)
      BY <3>1, SetIs
    <3>3. QED
      BY <1>1, <2>6, <3>2
  <2>8. 8 * u = base + (n - 1) * w
    BY <1>1, <2>2
  <2>9. v[n] = l[n].bank /\ v[n - 1] = e.bank
    BY <1>4, <2>1, <2>3
  <2>10. QED
    BY <2>4, <2>7, <2>8, <2>9
<1>6. l[0] \in P /\ v[0] = d.bank
  <2>1. v[0] = l[0].bank
    BY <1>4
  <2>2. d \in P
    BY <1>1
  <2>3. QED
    BY <1>3, <2>1, <2>2
<1>7. l[c] \in P /\ v[c] = Over(d.bank, base, c * w, value)
  <2>1. PICK m \in Nat : m = c * w /\ m =< 64
    BY <1>1 DEF Widths
  <2>2. Scatters(l, v, P, bits, base, w, c, value)
    BY <1>1, <1>5, <1>6 DEF Scatters
  <2>3. l[c] \in P /\ v[c] = Over(bits, base, m, value)
    BY <2>1, <2>2, Scattered
  <2>4. QED
    BY <1>1, <2>1, <2>3
<1>8. v[c] = l[c].bank
  BY <1>1, <1>4
<1>9. QED
  BY <1>1, <1>7, <1>8

(* Of a field of a buffer. *)
LEMMA BufferGathered ==
    ASSUME NEW w \in Widths, NEW rs, Counted(rs, w), rs.count * w =< 64, w = 8, NEW ptr \in Nat,
           NEW d \in Storages, NEW l, l = BufferReadLoop(d, rs, ptr)
    PROVE  /\ l[0].dev = d /\ l[rs.count].dev \in {d}
           /\ l[rs.count].value = Row(d.mem, 8 * (ptr + rs.address), rs.count * w)
<1>0. PICK bits, P : bits = d.mem /\ P = {d}
  OBVIOUS
<1>1. PICK c \in Nat \ {0}, base \in Nat :
        /\ c = rs.count /\ base = 8 * (ptr + rs.address) /\ rs.address \in Nat /\ bits = d.mem
        /\ P = {d}
  BY <1>0 DEF Counted
<1>2. BufferReadSteps(l, d, rs, w, ptr)
  BY BufferReadsAre
<1>3. l[0] = [dev |-> d, value |-> {}]
  BY <1>2 DEF BufferReadSteps
<1>4. ASSUME NEW n \in 1..c, l[n - 1].dev \in P
      PROVE  /\ l[n].dev \in P
             /\ l[n].value = Shl(l[n - 1].value, w) \cup Row(bits, base + (c - n) * w, w)
  <2>1. c - n \in Nat /\ n \in 1..rs.count
    BY <1>1
  <2>2. PICK u \in Nat : u = rs.address + (c - n) * (w \div 8) /\ 8 * u = 8 * rs.address + (c - n) * w
    BY <1>1, <2>1, UnitAddress
  <2>3. PICK e \in Storages : e = l[n - 1].dev /\ e \in P
    BY <1>1, <1>4
  <2>4. l[n] = [dev |-> l[n - 1].dev,
                value |-> Shl(l[n - 1].value, w)
                            \cup Unit(l[n - 1].dev.mem, ptr + (rs.address + (rs.count - n) * (w \div 8)), 8)]
    BY <1>2, <2>1 DEF BufferReadSteps
  <2>5. PICK X, Y : X = e /\ Y = Unit(e.mem, ptr + u, 8)
    OBVIOUS
  <2>6. l[n] = [dev |-> X, value |-> Shl(l[n - 1].value, w) \cup Y]
    BY <1>1, <2>2, <2>3, <2>4, <2>5
  <2>7. X \in P
    BY <2>3, <2>5
  <2>8. Y = Row(bits, 8 * (ptr + u), w)
    BY <1>1, <2>3, <2>5, BufferByte
  <2>9. 8 * (ptr + u) = base + (c - n) * w
    <3>1. 8 * rs.address + (c - n) * w = 8 * u
      BY <2>2
    <3>2. PICK x \in Nat, a \in Nat : x = (c - n) * w /\ a = rs.address
      BY <1>1, <2>1 DEF Widths
    <3>3. base = 8 * (ptr + a) /\ 8 * a + x = 8 * u
      BY <1>1, <3>1, <3>2
    <3>4. QED
      BY <3>2, <3>3
  <2>10. QED
    BY <2>6, <2>7, <2>8, <2>9
<1>5. l[0].dev \in P /\ l[0].value = {}
  BY <1>1, <1>3
<1>6. l[c].dev \in P /\ l[c].value = Row(bits, base, c * w)
  <2>1. PICK m \in Nat : m = c * w /\ m =< 64
    BY <1>1 DEF Widths
  <2>2. Gathers(l, P, bits, base, w, c)
    BY <1>4, <1>5 DEF Gathers
  <2>3. QED
    BY <2>1, <2>2, Gathered
<1>7. QED
  BY <1>1, <1>3, <1>6

LEMMA BufferScattered ==
    ASSUME NEW w \in Widths, NEW rs, Counted(rs, w), rs.count * w =< 64, w = 8, NEW ptr \in Nat,
           NEW d \in Storages, NEW value \in SUBSET Word, NEW l, l = BufferWriteLoop(d, rs, value, ptr)
    PROVE  /\ l[rs.count] \in {e \in Storages : e.bank = d.bank}
           /\ l[rs.count].mem = Over(d.mem, 8 * (ptr + rs.address), rs.count * w, value)
<1>0. PICK bits, P : bits = d.mem /\ P = {e \in Storages : e.bank = d.bank}
  OBVIOUS
<1>1. PICK c \in Nat \ {0}, base \in Nat :
        /\ c = rs.count /\ base = 8 * (ptr + rs.address) /\ rs.address \in Nat /\ bits = d.mem
        /\ P = {e \in Storages : e.bank = d.bank}
  BY <1>0 DEF Counted
<1>2. BufferWriteSteps(l, d, rs, w, value, ptr)
  BY BufferWritesAre
<1>3. l[0] = d
  BY <1>2 DEF BufferWriteSteps
<1>4. PICK v : v = [n \in 0..c |-> l[n].mem]
  OBVIOUS
<1>5. ASSUME NEW n \in 1..c, l[n - 1] \in P
      PROVE  l[n] \in P /\ v[n] = Over(v[n - 1], base + (n - 1) * w, w, Shr(value, (n - 1) * w))
  <2>1. n - 1 \in Nat /\ n \in 1..rs.count /\ n \in 0..c /\ n - 1 \in 0..c
    BY <1>1
  <2>2. PICK u \in Nat : u = rs.address + (n - 1) * (w \div 8) /\ 8 * u = 8 * rs.address + (n - 1) * w
    BY <1>1, <2>1, UnitAddress
  <2>3. PICK e \in Storages : e = l[n - 1] /\ e \in P
    BY <1>1, <1>5
  <2>4. PICK x \in SUBSET Word : x = Shr(value, (n - 1) * w)
    BY DEF Shr
  <2>5. l[n] = [l[n - 1] EXCEPT !.mem = Put(l[n - 1].mem, ptr + (rs.address + (n - 1) * (w \div 8)), 8, Shr(value, (n - 1) * w))]
    BY <1>2, <2>1 DEF BufferWriteSteps
  <2>6. l[n] = [e EXCEPT !.mem = Put(e.mem, ptr + u, 8, x)]
    BY <2>2, <2>3, <2>4, <2>5
  <2>7. l[n] \in P /\ l[n].mem = Over(e.mem, 8 * (ptr + u), w, x)
    <3>1. [e EXCEPT !.mem = Put(e.mem, ptr + u, 8, x)] \in Storages
      BY BufferByte
    <3>2. l[n].mem = Put(e.mem, ptr + u, 8, x) /\ l[n].bank = e.bank
      BY <2>6 DEF Storages
    <3>3. Put(e.mem, ptr + u, 8, x) = Over(e.mem, 8 * (ptr + u), 8, x)
      BY BufferByte
    <3>4. QED
      BY <1>1, <2>3, <2>6, <3>1, <3>2, <3>3
  <2>8. 8 * (ptr + u) = base + (n - 1) * w
    BY <1>1, <2>2
  <2>9. v[n] = l[n].mem /\ v[n - 1] = e.mem
    BY <1>4, <2>1, <2>3
  <2>10. QED
    BY <2>4, <2>7, <2>8, <2>9
<1>6. l[0] \in P /\ v[0] = d.mem
  <2>1. v[0] = l[0].mem
    BY <1>4
  <2>2. d \in P
    BY <1>1
  <2>3. QED
    BY <1>3, <2>1, <2>2
<1>7. l[c] \in P /\ v[c] = Over(d.mem, base, c * w, value)
  <2>1. PICK m \in Nat : m = c * w /\ m =< 64
    BY <1>1 DEF Widths
  <2>2. Scatters(l, v, P, bits, base, w, c, value)
    BY <1>1, <1>5, <1>6 DEF Scatters
  <2>3. l[c] \in P /\ v[c] = Over(bits, base, m, value)
    BY <2>1, <2>2, Scattered
  <2>4. QED
    BY <1>1, <2>1, <2>3
<1>8. v[c] = l[c].mem
  BY <1>1, <1>4
<1>9. QED
  BY <1>1, <1>7, <1>8

-----------------------------------------------------------------------------
(* Accesses implement rows of bits. *)
Results(out, rs, rw, got, m) ==
    out = IF rw = "read" THEN [dev |-> got.dev, value |-> Masked(rs, got.value)]
          ELSE [dev |-> m[rs.count], value |-> {}]
Got(got, l, rs) == got = IF rs.read THEN l[rs.count] ELSE l[0]

ByteWide(f, w) == w = 8 /\ f.offset + f.length =< 2048
Able(f, w) ==
    /\ f.offset \in Nat /\ f.length \in Nat \ {0} /\ w \in Widths
    /\ f.update \in {"preserve", "ones", "zeros"}

Done(rw, out, old, new, f, w, update, input) ==
    /\ out.dev \in Storages
    /\ rw = "read" => new = old /\ out.value = Row(old, f.offset, f.length)
    /\ rw = "write" => new = Written(old, f.offset, f.length, w, update, input)

LEMMA FieldAccessed ==
    ASSUME NEW d, NEW f, NEW input, NEW rw,
           NEW rs, rs = Align(f.offset, f.length, Width(f.access), f.update, rw),
           NEW l, NEW got, l = FieldReadLoop(d, rs), Got(got, l, rs),
           NEW m, m = FieldWriteLoop(got.dev, rs, Preserved(rs, got.value, input)),
           NEW out, out = AccessField(d, f, input, rw)
    PROVE  Results(out, rs, rw, got, m)
BY FieldLooped DEF Results, Got

LEMMA IndexAccessed ==
    ASSUME NEW d, NEW f, NEW input, NEW rw,
           NEW rs, rs = Align(f.offset, f.length, Width(f.access), f.update, rw),
           NEW l, NEW got, l = IndexReadLoop(d, rs), Got(got, l, rs),
           NEW m, m = IndexWriteLoop(got.dev, rs, Preserved(rs, got.value, input)),
           NEW out, out = AccessIndexField(d, f, input, rw)
    PROVE  Results(out, rs, rw, got, m)
BY IndexLooped DEF Results, Got

LEMMA BufferAccessed ==
    ASSUME NEW d, NEW f, NEW input, NEW rw,
           NEW rs, rs = Align(f.offset % 8, f.length, 8, "preserve", rw), NEW ptr, ptr = f.offset \div 8,
           NEW l, NEW got, l = BufferReadLoop(d, rs, ptr), Got(got, l, rs),
           NEW m, m = BufferWriteLoop(got.dev, rs, Preserved(rs, got.value, input), ptr),
           NEW out, out = AccessBufferField(d, f, input, rw)
    PROVE  Results(out, rs, rw, got, m)
BY BufferLooped DEF Results, Got

LEMMA FieldDone ==
    ASSUME kind = "field", NEW d \in Storages, NEW f, NEW w, w = Width(f.access), Able(f, w),
           NEW rw \in {"read", "write"}, NEW input \in SUBSET Word,
           ~TooWide(Align(f.offset, f.length, w, f.update, rw)),
           NEW out, out = AccessField(d, f, input, rw)
    PROVE  Done(rw, out, d.mem, out.dev.mem, f, w, f.update, input)
<1>1. PICK rs : rs = Align(f.offset, f.length, Width(f.access), f.update, rw)
  OBVIOUS
<1>2. PICK off \in Nat, size \in Nat \ {0}, update \in {"preserve", "ones", "zeros"} :
        off = f.offset /\ size = f.length /\ update = f.update
  BY DEF Able
<1>3. /\ Fits(rs, off, size, w) /\ rs.partial \in BOOLEAN /\ rs.update = update
      /\ rs.read <=> rw = "read" \/ (update = "preserve" /\ rs.partial)
      /\ w \in Widths
  <2>1. rs = Align(off, size, w, update, rw) /\ ~TooWide(rs) /\ w \in Widths
    BY <1>1, <1>2 DEF Able
  <2>2. QED
    BY <2>1, AlignIs
<1>4. Counted(rs, w) /\ rs.count * w =< 64
  BY <1>3 DEF Counted, Fits
<1>5. PICK l, got : l = FieldReadLoop(d, rs) /\ Got(got, l, rs)
  BY DEF Got
<1>6. PICK e \in Storages : /\ e = got.dev /\ e.mem = d.mem
                            /\ rs.read => got.value = Row(d.mem, 8 * rs.address, rs.count * w)
  BY <1>3, <1>4, <1>5, FieldGathered DEF Got
<1>7. PICK m : m = FieldWriteLoop(got.dev, rs, Preserved(rs, got.value, input))
  OBVIOUS
<1>8. out = IF rw = "read" THEN [dev |-> got.dev, value |-> Masked(rs, got.value)]
            ELSE [dev |-> m[rs.count], value |-> {}]
  <2>1. Results(out, rs, rw, got, m)
    BY <1>1, <1>5, <1>7, FieldAccessed
  <2>2. QED
    BY <2>1 DEF Results
<1>9. CASE rw = "read"
  <2>1. PICK bits : bits = d.mem
    OBVIOUS
  <2>2. Masked(rs, Row(bits, 8 * rs.address, rs.count * w)) = Row(bits, off, size)
    BY <1>3, RowMasked
  <2>3. out.dev = e /\ out.value = Masked(rs, got.value)
    BY <1>6, <1>8, <1>9
  <2>4. rs.read
    BY <1>3, <1>9
  <2>5. out.value = Row(bits, off, size)
    BY <1>6, <2>1, <2>2, <2>3, <2>4
  <2>6. QED
    BY <1>2, <1>6, <1>9, <2>1, <2>3, <2>5 DEF Done
<1>10. CASE rw = "write"
  <2>1. PICK bits, P, old : bits = d.mem /\ old = got.value /\ P = Preserved(rs, old, input)
    OBVIOUS
  <2>2. update = "preserve" /\ rs.partial => old = Row(bits, 8 * rs.address, rs.count * w)
    BY <1>3, <1>6, <2>1
  <2>3. /\ Over(bits, 8 * rs.address, rs.count * w, P) = Written(bits, off, size, w, update, input)
        /\ P \in SUBSET Word
    BY <1>3, <2>1, <2>2, RowPreserved
  <2>4. m = FieldWriteLoop(e, rs, P)
    BY <1>6, <1>7, <2>1
  <2>5. m[rs.count] \in Storages /\ m[rs.count].mem = Over(e.mem, 8 * rs.address, rs.count * w, P)
    BY <1>3, <1>4, <2>3, <2>4, FieldScattered
  <2>6. out.dev = m[rs.count]
    BY <1>8, <1>10
  <2>7. QED
    BY <1>2, <1>6, <1>10, <2>1, <2>3, <2>5, <2>6 DEF Done
<1>11. QED
  BY <1>9, <1>10

LEMMA IndexDone ==
    ASSUME kind = "index", NEW d \in Storages, NEW f, NEW w, w = Width(f.access), Able(f, w), ByteWide(f, w),
           NEW rw \in {"read", "write"}, NEW input \in SUBSET Word,
           ~TooWide(Align(f.offset, f.length, w, f.update, rw)),
           NEW out, out = AccessIndexField(d, f, input, rw)
    PROVE  Done(rw, out, d.bank, out.dev.bank, f, w, f.update, input)
<1>1. PICK rs : rs = Align(f.offset, f.length, Width(f.access), f.update, rw)
  OBVIOUS
<1>2. PICK off \in Nat, size \in Nat \ {0}, update \in {"preserve", "ones", "zeros"} :
        off = f.offset /\ size = f.length /\ update = f.update
  BY DEF Able
<1>3. /\ Fits(rs, off, size, w) /\ rs.partial \in BOOLEAN /\ rs.update = update
      /\ rs.read <=> rw = "read" \/ (update = "preserve" /\ rs.partial)
      /\ w \in Widths
  <2>1. rs = Align(off, size, w, update, rw) /\ ~TooWide(rs) /\ w \in Widths
    BY <1>1, <1>2 DEF Able
  <2>2. QED
    BY <2>1, AlignIs
<1>4. Counted(rs, w) /\ rs.count * w =< 64
  BY <1>3 DEF Counted, Fits
<1>0. rs.address + rs.count =< 256
  <2>1. PICK q \in Nat : q = (off + size - 1) \div w
    <3>1. PICK n \in Nat : n = off + size - 1
      BY <1>2
    <3>2. QED
      BY <1>3, <3>1, Divided
  <2>2. w * (q + 1) = 8 * rs.address + rs.count * w
    BY <1>3, <2>1 DEF Fits
  <2>3. w = 8 /\ q =< 255
    BY <1>2, <2>1 DEF ByteWide
  <2>4. QED
    BY <1>4, <2>2, <2>3 DEF Counted
<1>5. PICK l, got : l = IndexReadLoop(d, rs) /\ Got(got, l, rs)
  BY DEF Got
<1>6. PICK e \in Storages : /\ e = got.dev /\ e.bank = d.bank
                            /\ rs.read => got.value = Row(d.bank, 8 * rs.address, rs.count * w)
  BY <1>0, <1>3, <1>4, <1>5, IndexGathered DEF Got, ByteWide
<1>7. PICK m : m = IndexWriteLoop(got.dev, rs, Preserved(rs, got.value, input))
  OBVIOUS
<1>8. out = IF rw = "read" THEN [dev |-> got.dev, value |-> Masked(rs, got.value)]
            ELSE [dev |-> m[rs.count], value |-> {}]
  <2>1. Results(out, rs, rw, got, m)
    BY <1>1, <1>5, <1>7, IndexAccessed
  <2>2. QED
    BY <2>1 DEF Results
<1>9. CASE rw = "read"
  <2>1. PICK bits : bits = d.bank
    OBVIOUS
  <2>2. Masked(rs, Row(bits, 8 * rs.address, rs.count * w)) = Row(bits, off, size)
    BY <1>3, RowMasked
  <2>3. out.dev = e /\ out.value = Masked(rs, got.value)
    BY <1>6, <1>8, <1>9
  <2>4. rs.read
    BY <1>3, <1>9
  <2>5. out.value = Row(bits, off, size)
    BY <1>6, <2>1, <2>2, <2>3, <2>4
  <2>6. QED
    BY <1>2, <1>6, <1>9, <2>1, <2>3, <2>5 DEF Done
<1>10. CASE rw = "write"
  <2>1. PICK bits, P, old : bits = d.bank /\ old = got.value /\ P = Preserved(rs, old, input)
    OBVIOUS
  <2>2. update = "preserve" /\ rs.partial => old = Row(bits, 8 * rs.address, rs.count * w)
    BY <1>3, <1>6, <2>1
  <2>3. /\ Over(bits, 8 * rs.address, rs.count * w, P) = Written(bits, off, size, w, update, input)
        /\ P \in SUBSET Word
    BY <1>3, <2>1, <2>2, RowPreserved
  <2>4. m = IndexWriteLoop(e, rs, P)
    BY <1>6, <1>7, <2>1
  <2>5. m[rs.count] \in Storages /\ m[rs.count].bank = Over(e.bank, 8 * rs.address, rs.count * w, P)
    BY <1>3, <1>0, <1>4, <2>3, <2>4, IndexScattered DEF ByteWide
  <2>6. out.dev = m[rs.count]
    BY <1>8, <1>10
  <2>7. QED
    BY <1>2, <1>6, <1>10, <2>1, <2>3, <2>5, <2>6 DEF Done
<1>11. QED
  BY <1>9, <1>10

LEMMA AlignFlags ==
    ASSUME NEW off, NEW size, NEW w, NEW update, NEW rw,
           NEW rs, rs = Align(off, size, w, update, rw)
    PROVE  /\ rs.partial = (off % w # 0 \/ size % w # 0)
           /\ rs.read = (rw = "read" \/ (update = "preserve" /\ (off % w # 0 \/ size % w # 0)))
BY DEF Align

(* A field of a buffer counts its bits from the byte it starts in.         *)
LEMMA AlignByte ==
    ASSUME NEW off \in Nat, NEW size \in Nat \ {0}, NEW rw, NEW update,
           NEW rs, rs = Align(off % 8, size, 8, "preserve", rw),
           NEW whole, whole = Align(off, size, 8, "preserve", rw),
           NEW declared, declared = Align(off, size, 8, update, rw)
    PROVE  /\ rs.address = 0 /\ whole.address = off \div 8
           /\ rs.offset = whole.offset /\ rs.size = whole.size /\ rs.width = whole.width
           /\ rs.count = whole.count /\ rs.partial = whole.partial /\ rs.update = whole.update
           /\ rs.read = whole.read
           /\ TooWide(whole) <=> TooWide(declared)
<1>1. PICK q \in Nat, r \in 0..7 : q = off \div 8 /\ r = off % 8 /\ r % 8 = r /\ r \div 8 = 0
  OBVIOUS
<1>2. 8 \div 8 = 1 /\ 0 % 1 = 0 /\ q % 1 = 0
  OBVIOUS
<1>3. rs.address = 0 /\ whole.address = q
  BY <1>1, <1>2 DEF Align
<1>4. /\ rs.offset = whole.offset /\ rs.size = whole.size /\ rs.width = whole.width
      /\ rs.count = whole.count /\ rs.update = whole.update
  BY <1>1 DEF Align
<1>5. rs.partial = whole.partial /\ rs.read = whole.read
  <2>1. PICK w, rule, at, from :
          /\ w = 8 /\ rule = "preserve" /\ at = off % 8 /\ from = off /\ at % w = from % w
          /\ rs = Align(at, size, w, rule, rw) /\ whole = Align(from, size, w, rule, rw)
    BY <1>1
  <2>2. /\ rs.partial = (at % w # 0 \/ size % w # 0)
        /\ rs.read = (rw = "read" \/ (rule = "preserve" /\ (at % w # 0 \/ size % w # 0)))
    BY <2>1, AlignFlags
  <2>3. /\ whole.partial = (from % w # 0 \/ size % w # 0)
        /\ whole.read = (rw = "read" \/ (rule = "preserve" /\ (from % w # 0 \/ size % w # 0)))
    BY <2>1, AlignFlags
  <2>4. QED
    BY Zenon, <2>1, <2>2, <2>3
<1>6. whole.count = declared.count /\ whole.width = declared.width
  BY DEF Align
<1>7. QED
  BY <1>1, <1>3, <1>4, <1>5, <1>6 DEF TooWide

LEMMA BufferDone ==
    ASSUME NEW d \in Storages, NEW f, f.offset \in Nat, f.length \in Nat \ {0},
           NEW rw \in {"read", "write"}, NEW input \in SUBSET Word,
           ~TooWide(Align(f.offset, f.length, 8, f.update, rw)),
           NEW out, out = AccessBufferField(d, f, input, rw)
    PROVE  Done(rw, out, d.mem, out.dev.mem, f, 8, "preserve", input)
<1>1. PICK rs, whole, declared :
        /\ rs = Align(f.offset % 8, f.length, 8, "preserve", rw)
        /\ whole = Align(f.offset, f.length, 8, "preserve", rw)
        /\ declared = Align(f.offset, f.length, 8, f.update, rw)
  OBVIOUS
<1>2. PICK off \in Nat, size \in Nat \ {0}, ptr \in Nat :
        off = f.offset /\ size = f.length /\ ptr = f.offset \div 8
  OBVIOUS
<1>3. /\ rs.address = 0 /\ whole.address = ptr
      /\ rs.offset = whole.offset /\ rs.size = whole.size /\ rs.width = whole.width
      /\ rs.count = whole.count /\ rs.partial = whole.partial /\ rs.update = whole.update
      /\ rs.read = whole.read
      /\ ~TooWide(whole)
  <2>1. PICK update : update = f.update
    OBVIOUS
  <2>2. rs = Align(off % 8, size, 8, "preserve", rw) /\ whole = Align(off, size, 8, "preserve", rw)
        /\ declared = Align(off, size, 8, update, rw)
    BY <1>1, <1>2, <2>1
  <2>3. QED
    BY <1>1, <1>2, <2>2, AlignByte
<1>4. PICK w \in Widths : w = 8
  BY DEF Widths
<1>5. PICK update \in {"preserve", "ones", "zeros"} : update = "preserve"
  OBVIOUS
<1>6. /\ Fits(whole, off, size, w) /\ whole.partial \in BOOLEAN /\ whole.update = update
      /\ whole.read <=> rw = "read" \/ (update = "preserve" /\ whole.partial)
  <2>1. whole = Align(off, size, w, update, rw)
    BY <1>1, <1>2, <1>4, <1>5
  <2>2. QED
    BY <1>3, <2>1, AlignIs
<1>7. Counted(rs, w) /\ rs.count * w =< 64 /\ 8 * (ptr + rs.address) = 8 * whole.address
  BY <1>2, <1>3, <1>4, <1>6 DEF Counted, Fits
<1>8. /\ \A v : Masked(rs, v) = Masked(whole, v)
      /\ \A v, x : Preserved(rs, v, x) = Preserved(whole, v, x)
  BY <1>3 DEF Masked, Preserved
<1>9. PICK l, got : l = BufferReadLoop(d, rs, ptr) /\ Got(got, l, rs)
  BY DEF Got
<1>10. PICK e \in Storages :
         /\ e = got.dev /\ e.mem = d.mem
         /\ rs.read => got.value = Row(d.mem, 8 * (ptr + rs.address), rs.count * w)
  BY <1>4, <1>7, <1>9, BufferGathered DEF Got
<1>11. PICK m : m = BufferWriteLoop(got.dev, rs, Preserved(rs, got.value, input), ptr)
  OBVIOUS
<1>12. out = IF rw = "read" THEN [dev |-> got.dev, value |-> Masked(rs, got.value)]
             ELSE [dev |-> m[rs.count], value |-> {}]
  <2>1. Results(out, rs, rw, got, m)
    BY <1>1, <1>2, <1>9, <1>11, BufferAccessed
  <2>2. QED
    BY <2>1 DEF Results
<1>0. PICK bits : bits = d.mem
  OBVIOUS
<1>13. PICK base \in Nat, n \in Nat :
         /\ base = 8 * whole.address /\ n = whole.count * w /\ bits = d.mem
         /\ rs.read => got.value = Row(bits, base, n)
  <2>1. 8 * whole.address \in Nat /\ whole.count * w \in Nat
    BY <1>3, <1>7, <1>4, <1>2 DEF Counted
  <2>2. QED
    BY <1>0, <1>3, <1>7, <1>10, <2>1
<1>14. CASE rw = "read"
  <2>1. Masked(whole, Row(bits, base, n)) = Row(bits, off, size)
    BY <1>6, <1>13, RowMasked
  <2>2. out.dev = e /\ out.value = Masked(rs, got.value)
    BY <1>10, <1>12, <1>14
  <2>3. rs.read
    BY <1>3, <1>6, <1>14
  <2>4. out.value = Row(bits, off, size)
    BY <1>8, <1>13, <2>1, <2>2, <2>3
  <2>5. QED
    BY <1>2, <1>10, <1>13, <1>14, <2>2, <2>4 DEF Done
<1>15. CASE rw = "write"
  <2>1. PICK P, old : old = got.value /\ P = Preserved(whole, old, input)
    OBVIOUS
  <2>2. update = "preserve" /\ whole.partial => old = Row(bits, 8 * whole.address, whole.count * w)
    BY <1>3, <1>6, <1>13, <2>1
  <2>3. /\ Over(bits, 8 * whole.address, whole.count * w, P) = Written(bits, off, size, w, update, input)
        /\ P \in SUBSET Word
    BY <1>6, <2>1, <2>2, RowPreserved
  <2>4. m = BufferWriteLoop(e, rs, P, ptr)
    BY <1>8, <1>10, <1>11, <2>1
  <2>5. /\ m[rs.count] \in Storages
        /\ m[rs.count].mem = Over(e.mem, 8 * (ptr + rs.address), rs.count * w, P)
    BY <1>4, <1>7, <2>3, <2>4, BufferScattered
  <2>6. out.dev = m[rs.count]
    BY <1>12, <1>15
  <2>7. out.dev.mem = Over(bits, 8 * whole.address, whole.count * w, P)
    BY <1>3, <1>7, <1>10, <1>13, <2>5, <2>6
  <2>8. out.dev \in Storages
    BY <2>5, <2>6
  <2>9. out.dev.mem = Written(d.mem, f.offset, f.length, 8, "preserve", input)
    BY <1>2, <1>4, <1>5, <1>13, <2>3, <2>7
  <2>10. QED
    BY <1>15, <2>8, <2>9 DEF Done
<1>16. QED
  BY <1>14, <1>15

-----------------------------------------------------------------------------
(* The layout of a list. *)
Rules == {"preserve", "ones", "zeros"}
FieldSet == [offset : Nat, length : Nat \ {0}, access : Nat, update : Rules]
Layouts == [offset : Nat, length : Nat, flags : [access : Nat, update : Rules],
            fields : SUBSET FieldSet]

Apart(fs) == \A f, g \in fs : f # g => \/ f.offset + f.length =< g.offset
                                       \/ g.offset + g.length =< f.offset

(* The fields so far end where the next element starts, or before.         *)
Laid == {s \in Layouts : /\ \A f \in s.fields : f.offset + f.length =< s.offset + s.length
                         /\ Apart(s.fields)}

LEMMA ElementLaid ==
    ASSUME NEW s \in Laid, NEW e \in Elements
    PROVE  Element(s, e) \in Laid
<1>1. PICK t : t = Element(s, e)
  OBVIOUS
<1>2. /\ s.offset \in Nat /\ s.length \in Nat /\ s.flags \in [access : Nat, update : Rules]
      /\ s.fields \in SUBSET FieldSet
      /\ \A f \in s.fields : f.offset + f.length =< s.offset + s.length
      /\ Apart(s.fields)
      /\ s = [offset |-> s.offset, length |-> s.length, flags |-> s.flags, fields |-> s.fields]
  BY DEF Laid, Layouts
<1>3. PICK off \in Nat : off = s.offset + s.length
  BY <1>2
<1>4. CASE e \in [is : {"access"}, access : Nat, update : {"preserve", "ones", "zeros"}]
  <2>1. t = [offset |-> off, length |-> 0, flags |-> Flags(e.access, e.update),
             fields |-> s.fields]
    BY <1>1, <1>2, <1>3, <1>4 DEF Element
  <2>2. Flags(e.access, e.update) \in [access : Nat, update : Rules]
    BY <1>4 DEF Flags, Rules
  <2>3. QED
    BY <1>1, <1>2, <1>3, <2>1, <2>2 DEF Laid, Layouts
<1>5. CASE e \in [is : {"reserved"}, length : Nat]
  <2>1. t = [offset |-> off, length |-> e.length, flags |-> s.flags, fields |-> s.fields]
    BY <1>1, <1>2, <1>3, <1>5 DEF Element
  <2>2. \A f \in s.fields : f.offset + f.length =< off + e.length
    BY <1>2, <1>3, <1>5 DEF FieldSet
  <2>3. QED
    BY <1>1, <1>2, <1>5, <2>1, <2>2 DEF Laid, Layouts
<1>6. CASE e \in [is : {"named"}, length : Nat \ {0}]
  <2>1. PICK g : g = [offset |-> off, length |-> e.length, access |-> s.flags.access,
                      update |-> s.flags.update]
    OBVIOUS
  <2>2. t = [offset |-> off, length |-> e.length, flags |-> s.flags,
             fields |-> s.fields \cup {g}]
    BY <1>1, <1>2, <1>3, <1>6, <2>1 DEF Element
  <2>3. g \in FieldSet /\ g.offset = off /\ g.length = e.length
    BY <1>2, <1>6, <2>1 DEF FieldSet
  <2>4. \A f \in s.fields \cup {g} : f.offset + f.length =< off + e.length
    BY <1>2, <1>3, <1>6, <2>3 DEF FieldSet
  <2>5. Apart(s.fields \cup {g})
    BY <1>2, <1>3, <2>3 DEF Apart
  <2>6. PICK all, length : all = s.fields \cup {g} /\ length = e.length /\ length \in Nat
    BY <1>6
  <2>7. /\ all \in SUBSET FieldSet /\ Apart(all)
        /\ \A f \in all : f.offset + f.length =< off + length
    BY <1>2, <2>3, <2>4, <2>5, <2>6
  <2>8. t = [offset |-> off, length |-> length, flags |-> s.flags, fields |-> all]
    BY <2>2, <2>6
  <2>9. t \in Layouts
    BY <1>2, <2>6, <2>7, <2>8 DEF Layouts
  <2>10. QED
    BY <1>1, <2>7, <2>8, <2>9 DEF Laid
<1>7. QED
  BY <1>4, <1>5, <1>6 DEF Elements

NothingLaid == [offset |-> 0, length |-> 0, flags |-> DefaultFlags, fields |-> {}]
ListLoop(loop, list) ==
    loop = [i \in 0..Len(list) |-> IF i = 0 THEN NothingLaid ELSE Element(loop[i - 1], list[i])]

LEMMA DeclaredLoop ==
    ASSUME NEW list
    PROVE  Declared(list) = (CHOOSE loop : ListLoop(loop, list))[Len(list)].fields
BY Zenon DEF Declared, ListLoop, NothingLaid

LEMMA DeclaredApart ==
    ASSUME NEW list \in Seq(Elements)
    PROVE  Declared(list) \in SUBSET FieldSet /\ Apart(Declared(list))
<1>1. PICK k \in Nat : k = Len(list) /\ \A n \in 1..k : list[n] \in Elements
  OBVIOUS
<1>2. NothingLaid \in Laid
  BY DEF NothingLaid, Laid, Layouts, DefaultFlags, Flags, Rules, Apart
<1>3. PICK step : step = [n \in 1..k |-> [s \in Laid |-> Element(s, list[n])]]
  OBVIOUS
<1>4. step \in Steps(k, Laid)
  BY <1>1, <1>3, ElementLaid DEF Steps
<1>5. PICK f : Loop(f, k, Laid, NothingLaid, step)
  BY <1>2, <1>4, LoopExists
<1>6. ListLoop(f, list)
  <2>1. f = [i \in 0..k |-> f[i]] /\ f[0] = NothingLaid
    BY <1>5 DEF Loop
  <2>2. ASSUME NEW i \in 0..k
        PROVE  f[i] = IF i = 0 THEN NothingLaid ELSE Element(f[i - 1], list[i])
    <3>1. CASE i # 0
      <4>1. i \in 1..k /\ i - 1 \in 0..k
        BY <3>1
      <4>2. f[i] = step[i][f[i - 1]] /\ f[i - 1] \in Laid
        BY <1>5, <4>1 DEF Loop
      <4>3. QED
        BY <1>3, <3>1, <4>1, <4>2
    <3>2. QED
      BY <2>1, <3>1
  <2>3. f = [i \in 0..k |-> IF i = 0 THEN NothingLaid ELSE Element(f[i - 1], list[i])]
    BY Zenon, <2>1, <2>2
  <2>4. QED
    BY <1>1, <2>3 DEF ListLoop
<1>7. PICK loop : loop = (CHOOSE l : ListLoop(l, list)) /\ ListLoop(loop, list)
  BY Zenon, <1>6
<1>8. /\ loop[0] = NothingLaid
      /\ \A n \in 0..(k - 1) : loop[n + 1] = Element(loop[n], list[n + 1])
  <2>1. \A i \in 0..k : loop[i] = IF i = 0 THEN NothingLaid ELSE Element(loop[i - 1], list[i])
    BY <1>1, <1>7 DEF ListLoop
  <2>2. ASSUME NEW n \in 0..(k - 1)
        PROVE  loop[n + 1] = Element(loop[n], list[n + 1])
    <3>1. n + 1 \in 0..k /\ n + 1 # 0 /\ n + 1 - 1 = n
      OBVIOUS
    <3>2. QED
      BY <2>1, <3>1
  <2>3. QED
    BY <2>1, <2>2
<1>9. loop[k] \in Laid
  <2>1. PICK S : S = {n \in 0..k : loop[n] \in Laid}
    OBVIOUS
  <2>2. 0 \in S
    BY <1>2, <1>8, <2>1
  <2>3. ASSUME NEW n \in 0..(k - 1), n \in S PROVE n + 1 \in S
    BY <1>1, <1>8, <2>1, <2>3, ElementLaid
  <2>4. 0..k \subseteq S
    BY <2>2, <2>3, UpTo
  <2>5. QED
    BY <2>1, <2>4
<1>10. Declared(list) = loop[k].fields
  BY <1>1, <1>7, DeclaredLoop
<1>11. QED
  BY <1>9, <1>10 DEF Laid, Layouts

-----------------------------------------------------------------------------
(* The invariant.  The fields lie as the list has them, and the index      *)
(* register reaches every byte of a field behind it.                       *)
Reached(f) == f.offset + f.length =< 2048 /\ Width(f.access) \in {0, 8}

FieldsInvariant ==
    /\ kind \in {"field", "index", "buffer"}
    /\ fields \in SUBSET FieldSet
    /\ kind = "index" => \A f \in fields : Reached(f)
    /\ mem \in SUBSET Nat /\ bank \in SUBSET Nat
    /\ FieldsDisjoint

Held(d) == IF kind = "index" THEN d.bank ELSE d.mem

LEMMA WidthIs ==
    ASSUME NEW access \in Nat, Width(access) # 0
    PROVE  Width(access) \in Widths
BY DEF Width, Widths

(* An access that is not refused reads or writes the row of bits of the    *)
(* field, by its rule, and nothing else of what the fields are fields of.  *)
LEMMA AccessDone ==
    ASSUME FieldsInvariant, NEW f \in fields, NEW rw \in {"read", "write"}, ~Fatal(f, rw),
           NEW input \in SUBSET Word, NEW out, out = Access(Dev, f, input, rw)
    PROVE  Done(rw, out, Storage, Held(out.dev), f, UnitWidth(f), BitField(f).update, input)
<1>1. /\ f.offset \in Nat /\ f.length \in Nat \ {0} /\ f.access \in Nat
      /\ f.update \in {"preserve", "ones", "zeros"}
  BY DEF FieldsInvariant, FieldSet, Rules
<1>2. PICK d \in Storages : d = Dev
  BY DEF FieldsInvariant, Dev, Storages
<1>3. d.mem = mem /\ d.bank = bank
  BY <1>2 DEF Dev
<1>4. UnitWidth(f) # 0 /\ ~TooWide(Align(f.offset, f.length, UnitWidth(f), f.update, rw))
  BY DEF Fatal
<1>5. CASE kind = "field"
  <2>1. PICK w : w = Width(f.access) /\ UnitWidth(f) = w
    BY <1>5 DEF UnitWidth
  <2>2. Able(f, w)
    BY <1>1, <1>4, <2>1, WidthIs DEF Able
  <2>3. out = AccessField(d, f, input, rw)
    BY <1>2, <1>5 DEF Access
  <2>4. Done(rw, out, d.mem, out.dev.mem, f, w, f.update, input)
    BY <1>4, <1>5, <2>1, <2>2, <2>3, FieldDone
  <2>5. Storage = d.mem /\ Held(out.dev) = out.dev.mem /\ BitField(f).update = f.update
    BY <1>3, <1>5 DEF Storage, Held, BitField
  <2>6. QED
    BY <2>1, <2>4, <2>5
<1>6. CASE kind = "index"
  <2>1. PICK w : w = Width(f.access) /\ UnitWidth(f) = w
    BY <1>6 DEF UnitWidth
  <2>2. Able(f, w)
    BY <1>1, <1>4, <2>1, WidthIs DEF Able
  <2>3. out = AccessIndexField(d, f, input, rw)
    BY <1>2, <1>6 DEF Access
  <2>4. ByteWide(f, w)
    BY <1>4, <1>6, <2>1 DEF FieldsInvariant, Reached, ByteWide
  <2>5. Done(rw, out, d.bank, out.dev.bank, f, w, f.update, input)
    BY <1>4, <1>6, <2>1, <2>2, <2>3, <2>4, IndexDone
  <2>6. Storage = d.bank /\ Held(out.dev) = out.dev.bank /\ BitField(f).update = f.update
    BY <1>3, <1>6 DEF Storage, Held, BitField
  <2>7. QED
    BY <2>1, <2>5, <2>6
<1>7. CASE kind = "buffer"
  <2>1. UnitWidth(f) = 8
    BY <1>7 DEF UnitWidth
  <2>2. out = AccessBufferField(d, f, input, rw)
    BY <1>2, <1>7 DEF Access
  <2>3. Done(rw, out, d.mem, out.dev.mem, f, 8, "preserve", input)
    <3>1. ~TooWide(Align(f.offset, f.length, 8, f.update, rw))
      BY <1>4, <2>1
    <3>2. QED
      BY <1>1, <2>2, <3>1, BufferDone
  <2>4. Storage = d.mem /\ Held(out.dev) = out.dev.mem /\ BitField(f).update = "preserve"
    BY <1>3, <1>7 DEF Storage, Held, BitField
  <2>5. QED
    BY <2>1, <2>3, <2>4
<1>8. QED
  BY <1>5, <1>6, <1>7 DEF FieldsInvariant

LEMMA FieldsInit == Init => FieldsInvariant
<1>1. SUFFICES ASSUME Init PROVE FieldsInvariant
  OBVIOUS
<1>2. PICK l \in Lists : kind = l.kind /\ fields = Declared(l.list)
  BY <1>1 DEF Init
<1>3. PICK list \in Seq(Elements) : list = l.list
  BY FieldsAssumption
<1>4. fields \in SUBSET FieldSet /\ Apart(fields)
  BY <1>2, <1>3, DeclaredApart
<1>5. kind = "index" => \A f \in fields : Reached(f)
  <2>1. SUFFICES ASSUME kind = "index", NEW f \in fields PROVE Reached(f)
    OBVIOUS
  <2>2. f \in Declared(l.list) /\ l.kind = "index"
    BY <1>2, <2>1
  <2>3. f.offset + f.length =< 8 * 256 /\ Width(f.access) \in {0, 8}
    BY Zenon, <2>2, FieldsAssumption
  <2>4. QED
    BY <2>3 DEF Reached
<1>6. kind \in {"field", "index", "buffer"}
  BY <1>2, FieldsAssumption
<1>7. mem \in SUBSET Nat /\ bank \in SUBSET Nat
  BY <1>1, FieldsAssumption DEF Init
<1>8. QED
  BY <1>4, <1>5, <1>6, <1>7 DEF FieldsInvariant, FieldsDisjoint, Apart

(* What an access leaves is what the devices hold after it. *)
LEMMA BecomesHeld ==
    ASSUME NEW d \in Storages, Becomes(d), UNCHANGED <<kind, fields>>, FieldsInvariant
    PROVE  FieldsInvariant' /\ Storage' = Held(d)
<1>1. mem' \in SUBSET Nat /\ bank' \in SUBSET Nat
  BY DEF Becomes, Storages
<1>2. FieldsDisjoint'
  BY DEF FieldsInvariant, FieldsDisjoint
<1>3. FieldsInvariant'
  BY <1>1, <1>2 DEF FieldsInvariant
<1>4. QED
  BY <1>3 DEF Becomes, Storage, Held

(* Every step reads or writes one row of bits, or changes no bit, no       *)
(* field and no answer.                                                    *)
LEMMA FieldsStep ==
    FieldsInvariant /\ [Next]_vars => FieldsInvariant' /\ [Rows!Next]_(Rows!vars)
<1>1. SUFFICES ASSUME FieldsInvariant, [Next]_vars
               PROVE  FieldsInvariant' /\ [Rows!Next]_(Rows!vars)
  OBVIOUS
<1>2. ASSUME NEW f \in fields, ReadField(f)
      PROVE  FieldsInvariant' /\ Rows!Next
  <2>1. PICK out : out = Access(Dev, f, {}, "read")
    OBVIOUS
  <2>2. /\ ~Fatal(f, "read") /\ answer' = out.value /\ Becomes(out.dev)
        /\ kind' = kind /\ fields' = fields
    BY <1>2, <2>1 DEF ReadField
  <2>3. Done("read", out, Storage, Held(out.dev), f, UnitWidth(f), BitField(f).update, {})
    BY <1>1, <2>1, <2>2, AccessDone
  <2>4. /\ out.dev \in Storages /\ Held(out.dev) = Storage
        /\ out.value = Row(Storage, f.offset, f.length)
    BY <2>3 DEF Done
  <2>5. FieldsInvariant' /\ Storage' = Storage
    BY <1>1, <2>2, <2>4, BecomesHeld
  <2>6. Rows!Read(BitField(f))
    <3>1. {BitField(g) : g \in fields}' = {BitField(g) : g \in fields}
      BY <2>2 DEF BitField, UnitWidth
    <3>2. answer' = {k \in 0..(BitField(f).length - 1) : BitField(f).offset + k \in Storage}
      BY <2>2, <2>4 DEF BitField, Row
    <3>3. QED
      BY <2>5, <3>1, <3>2 DEF Rows!Read
  <2>7. QED
    BY <2>5, <2>6 DEF Rows!Next
<1>3. ASSUME NEW f \in fields, NEW value \in Values, WriteField(f, value)
      PROVE  FieldsInvariant' /\ Rows!Next
  <2>1. PICK out : out = Access(Dev, f, value, "write")
    OBVIOUS
  <2>2. /\ ~Fatal(f, "write") /\ Becomes(out.dev)
        /\ kind' = kind /\ fields' = fields /\ answer' = answer
    BY <1>3, <2>1 DEF WriteField
  <2>3. Done("write", out, Storage, Held(out.dev), f, UnitWidth(f), BitField(f).update, value)
    <3>1. value \in SUBSET Word
      BY FieldsAssumption
    <3>2. QED
      BY <1>1, <2>1, <2>2, <3>1, AccessDone
  <2>4. /\ out.dev \in Storages
        /\ Held(out.dev)
             = Written(Storage, f.offset, f.length, UnitWidth(f), BitField(f).update, value)
    BY <2>3 DEF Done
  <2>5. FieldsInvariant' /\ Storage' = Held(out.dev)
    BY <1>1, <2>2, <2>4, BecomesHeld
  <2>6. Rows!Write(BitField(f), value)
    <3>1. {BitField(g) : g \in fields}' = {BitField(g) : g \in fields}
      BY <2>2 DEF BitField, UnitWidth
    <3>2. /\ BitField(f).offset = f.offset /\ BitField(f).length = f.length
          /\ BitField(f).width = UnitWidth(f)
      BY DEF BitField
    <3>3. PICK b : b = BitField(f)
      OBVIOUS
    <3>4. Written(Storage, b.offset, b.length, b.width, b.update, value)
            = Rows!Kept(b) \cup {c \in Rows!Own(b) : c - b.offset \in value}
      BY Zenon DEF Written, Rows!Kept, Rows!Own, Rows!Touched
    <3>5. Storage' = Rows!Kept(b) \cup {c \in Rows!Own(b) : c - b.offset \in value}
      BY <2>4, <2>5, <3>2, <3>3, <3>4
    <3>6. QED
      BY <2>2, <3>1, <3>3, <3>5 DEF Rows!Write
  <2>7. QED
    BY <2>6, <2>5 DEF Rows!Next
<1>4. ASSUME UNCHANGED <<kind, fields, mem, bank, answer>>
      PROVE  FieldsInvariant' /\ UNCHANGED Rows!vars
  <2>1. FieldsDisjoint' <=> FieldsDisjoint
    BY <1>4 DEF FieldsDisjoint
  <2>2. FieldsInvariant'
    BY <1>1, <1>4, <2>1 DEF FieldsInvariant
  <2>3. Storage' = Storage /\ {BitField(g) : g \in fields}' = {BitField(g) : g \in fields}
    BY <1>4 DEF Storage, BitField, UnitWidth
  <2>4. QED
    BY <1>4, <2>2, <2>3 DEF Rows!vars
<1>5. QED
  BY <1>1, <1>2, <1>3, <1>4 DEF Next, Panic, vars

-----------------------------------------------------------------------------
(* The results. *)

(* The fields lie apart, and an index register of one byte reaches every   *)
(* byte of the fields behind it, however they are read and written.        *)
THEOREM FieldsInvariantHolds == Spec => []FieldsInvariant
<1>1. Init => FieldsInvariant
  BY FieldsInit
<1>2. FieldsInvariant /\ [Next]_vars => FieldsInvariant'
  BY FieldsStep
<1>3. QED
  BY <1>1, <1>2, PTL DEF Spec

(* Fields of one list never overlap: sabi_field_element leaves no two of   *)
(* them a bit in common, whatever else the list has.                       *)
THEOREM FieldsApart == Spec => []FieldsDisjoint
<1>1. FieldsInvariant => FieldsDisjoint
  BY DEF FieldsInvariant
<1>2. QED
  BY <1>1, FieldsInvariantHolds, PTL

(* The accesses of source/fields.c implement rows of bits: a read returns  *)
(* the bits of the field, a write sets them, and the bits around them obey *)
(* the update rule, for all offsets, lengths, widths, values and contents. *)
THEOREM RowsKept == Spec => RowsSpec
<1>1. Init => answer = {}
  BY DEF Init
<1>2. FieldsInvariant /\ [Next]_vars => [Rows!Next]_(Rows!vars)
  BY FieldsStep
<1>3. QED
  BY <1>1, <1>2, FieldsInvariantHolds, PTL DEF Spec, RowsSpec, Rows!Spec

=============================================================================
