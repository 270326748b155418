---------------------------- MODULE Conversions ----------------------------
(***************************************************************************)
(* Data on its way between types: the conversions of source/conv.c, which  *)
(* AML asks for (ToInteger, ToBuffer, ToString, ToHexString and            *)
(* ToDecimalString) or which a store to a variable of another type         *)
(* implies, and those of source/defs.c and source/api.c that go from       *)
(* integer to integer or from an ID to an integer.                         *)
(*                                                                         *)
(* A 64-bit integer is the sequence of its bytes, the lowest first, as it  *)
(* is in memory; characters are their codes.                               *)
(***************************************************************************)
EXTENDS Integers, Sequences, SequencesExt

CONSTANTS
    Inputs,      \* the data that a program begins with
    BufferSizes, \* the sizes of the buffers that it stores to
    MaxLength,   \* bound: bytes of a buffer or characters of a string
    MaxSteps     \* bound: conversions in a row

ASSUME ConversionBounds == MaxLength \in Nat /\ MaxSteps \in Nat

VARIABLES
    datum,  \* the data that was converted last
    room,   \* the bytes that the conversion has allocated, and those written
    steps   \* how many there were

conversion == <<datum, room, steps>>

Byte == 0..255
Word64 == [1..8 -> Byte]
Integer(v) == [type |-> "integer", val |-> v]
String(s) == [type |-> "string", val |-> s]
Buffer(b) == [type |-> "buffer", val |-> b]

-----------------------------------------------------------------------------
(* 64-bit arithmetic with a small number, byte by byte: v * n + m, and the *)
(* quotient and the remainder of v by n.                                   *)
Small(n) == [i \in 1..8 |-> IF i = 1 THEN n ELSE 0]
Zero == Small(0)

TimesPlus(v, n, m) ==
    LET up[i \in 0..8] ==
          IF i = 0 THEN [carry |-> m, val |-> <<>>]
          ELSE LET low == up[i - 1]
                   sum == v[i] * n + low.carry
               IN  [carry |-> sum \div 256, val |-> Append(low.val, sum % 256)]
    IN  up[8].val

Divide(v, n) ==
    LET down[i \in 1..9] ==
          IF i = 9 THEN [val |-> <<>>, rest |-> 0]
          ELSE LET high == down[i + 1]
                   sum == high.rest * 256 + v[i]
               IN  [val |-> <<sum \div n>> \o high.val, rest |-> sum % n]
    IN  down[1]

(* The digits of v to a base, the highest first, and none for 0; and the   *)
(* 64-bit integer that has given digits.                                   *)
Digits(v, n) ==
    LET digits[w \in Word64] ==
          IF w = Zero THEN <<>>
          ELSE LET d == Divide(w, n) IN Append(digits[d.val], d.rest)
    IN  digits[v]
Number(digits, n) ==
    LET number[i \in 0..Len(digits)] ==
          IF i = 0 THEN Zero ELSE TimesPlus(number[i - 1], n, digits[i])
    IN  number[Len(digits)]

-----------------------------------------------------------------------------
NUL == 0
X == {88, 120}                    \* X and x
Minus1 == -1

(* sabi_atoi *)
Atoi(c, base) ==
    LET value == CASE c \in 48..57 -> c - 48
                   [] c \in 65..90 -> c - 65 + 10
                   [] c \in 97..122 -> c - 97 + 10
                   [] OTHER -> Minus1
    IN  IF value < base THEN value ELSE Minus1

(* sabi_itoa writes one digit at least. *)
Itoa(v, base) ==
    LET digits == IF v = Zero THEN <<0>> ELSE Digits(v, base)
    IN  [i \in DOMAIN digits |->
            IF digits[i] < 10 THEN 48 + digits[i] ELSE 55 + digits[i]]

UpTo(s, Test(_)) ==
    LET ends == {i \in DOMAIN s : Test(s[i])}
    IN  IF ends = {} THEN s
        ELSE SubSeq(s, 1, (CHOOSE i \in ends : \A j \in ends : i =< j) - 1)

(* What sabi_conv_tobuffer copies: a string with its end, if it has any.   *)
Content(d) == IF d.type = "string" /\ d.val # <<>> THEN Append(d.val, NUL) ELSE d.val

(* sabi_conv_tobuffer: a new buffer, or the bytes of one that exists.      *)
ConvToBuffer(d) == Buffer(Content(d))
IntoBuffer(size, d) ==
    Buffer([i \in 1..size |-> IF i =< Len(Content(d)) THEN Content(d)[i] ELSE 0])

(* sabi_conv_tointeger: a buffer up to its eighth byte, a string up to the *)
(* first character that is no digit.                                       *)
ConvToInteger(d, implicit) ==
    CASE d.type = "integer" -> d
      [] d.type = "buffer" ->
           Integer([i \in 1..8 |-> IF i =< Len(d.val) THEN d.val[i] ELSE 0])
      [] d.type = "string" ->
           LET prefixed == Len(d.val) >= 2 /\ d.val[1] = 48 /\ d.val[2] \in X
               base == IF prefixed \/ implicit THEN 16 ELSE 10
               chars == IF prefixed THEN SubSeq(d.val, 3, Len(d.val)) ELSE d.val
               digits == UpTo([i \in DOMAIN chars |-> Atoi(chars[i], base)],
                              LAMBDA n : n < 0)
           IN  Integer(Number(digits, base))

Limit(d, max) == IF max > 0 /\ max < Len(d.val) THEN max ELSE Len(d.val)

(* sabi_conv_tostring: the string that C sees in the bytes, cut to a       *)
(* length if one is given.                                                 *)
ConvToString(d, max) ==
    String(UpTo(SubSeq(d.val, 1, Limit(d, max)), LAMBDA c : c = NUL))

(* A mutant of Item: a byte has no prefix. *)
ItemBare(b, base) == Itoa(Small(b), base)

(* sabi_conv_tobasestring: the items of a buffer are put behind each       *)
(* other with a separator.                                                 *)
Item(b, base) == (IF base = 16 THEN <<48, 120>> ELSE <<>>) \o Itoa(Small(b), base)
Separator(implicit) == IF implicit THEN 32 ELSE 44
ConvToBaseString(d, base, implicit) ==
    CASE d.type = "string" -> d
      [] d.type = "integer" -> String(Itoa(d.val, base))
      [] d.type = "buffer" ->
           LET items[i \in 0..Len(d.val)] ==
                 IF i = 0 THEN <<>>
                 ELSE items[i - 1] \o (IF i > 1 THEN <<Separator(implicit)>> ELSE <<>>)
                        \o Item(d.val[i], base)
           IN  String(items[Len(d.val)])

(* A mutant of Room: an item of a buffer has four characters. *)
RoomFour(d) ==
    CASE d.type = "integer" -> 19 + 1
      [] d.type = "buffer" -> 4 * Len(d.val) + 1
      [] d.type = "string" -> Len(d.val) + 1

(* The bytes that it allocates. *)
Room(d) ==
    CASE d.type = "integer" -> 19 + 1
      [] d.type = "buffer" -> 5 * Len(d.val) + 1
      [] d.type = "string" -> Len(d.val) + 1

-----------------------------------------------------------------------------
(* sabi_def_convertbcd: digits of one base are taken for those of another, *)
(* as far as 64 bits go.                                                   *)
ConvertBCD(v, from) ==
    IF from THEN Number(Digits(v, 16), 10) ELSE Number(Digits(v, 10), 16)

(* The bits of v, from 0. *)
Bits(v) == {b \in 0..63 : (v[1 + (b \div 8)] \div 2^(b % 8)) % 2 = 1}

(* sabi_def_findsetbit shifts to the right, n times until nothing is left, *)
(* or n - 1 times until the lowest bit is set.                             *)
FindSetBit(v, left) ==
    LET bits == Bits(v)
    IN  IF v = Zero THEN 0
        ELSE IF left THEN CHOOSE n \in 1..64 : n - 1 \in bits /\ \A b \in bits : b < n
        ELSE CHOOSE n \in 1..64 : n - 1 \in bits /\ \A b \in bits : b >= n - 1

(* sabi_eisaid: three letters in five bits each, four hexadecimal digits,  *)
(* and the highest byte first.                                             *)
EisaId(id) ==
    LET letters == [i \in 1..3 |-> id[i] - 64]
        value == Number([i \in 1..4 |-> Atoi(id[3 + i], 16)], 16)
        high == letters[1] * 1024 + letters[2] * 32 + letters[3]
    IN  <<high \div 256, high % 256, value[2], value[1], 0, 0, 0, 0>>

IsId(s) ==
    /\ Len(s) = 7
    /\ \A i \in 1..3 : s[i] \in 65..90
    /\ \A i \in 4..7 : s[i] \in (48..57) \cup (65..70)

-----------------------------------------------------------------------------
ConversionInit ==
    /\ datum \in Inputs
    /\ room = [given |-> 0, taken |-> 0]
    /\ steps = 0

Becomes(d) ==
    /\ steps < MaxSteps /\ steps' = steps + 1
    /\ datum' = d /\ Len(d.val) =< MaxLength
Exact(size) == room' = [given |-> size, taken |-> size]

(* ToBuffer, and a store to a buffer, which is never resized. *)
ConvertToBuffer == Becomes(ConvToBuffer(datum)) /\ Exact(Len(Content(datum)))
StoreToBuffer == \E size \in BufferSizes : Becomes(IntoBuffer(size, datum)) /\ Exact(size)

(* ToInteger, and a store to an integer or a use as one. *)
ConvertToInteger == \E implicit \in BOOLEAN : Becomes(ConvToInteger(datum, implicit)) /\ Exact(0)

(* ToString with a length, or with 0 for none *)
ConvertToString ==
    \E max \in {0, 1, MaxLength} :
        Becomes(ConvToString(datum, max)) /\ Exact(Limit(datum, max) + 1)

(* ToDecimalString, ToHexString, and a store to a string *)
ConvertToBaseString ==
    \E how \in {<<10, FALSE>>, <<16, FALSE>>, <<16, TRUE>>} :
       LET made == ConvToBaseString(datum, how[1], how[2])
       IN  /\ Becomes(made)
           /\ room' = [given |-> Room(datum), taken |-> Len(made.val) + 1]

(* ToBCD, FromBCD, FindSetLeftBit, FindSetRightBit *)
ConvertInteger ==
    /\ datum.type = "integer"
    /\ \E b \in BOOLEAN : \/ Becomes(Integer(ConvertBCD(datum.val, b)))
                          \/ Becomes(Integer(Small(FindSetBit(datum.val, b))))
    /\ Exact(0)

(* sabi_check_pnp_id compares integers with this. *)
ConvertId ==
    /\ datum.type = "string" /\ IsId(datum.val)
    /\ Becomes(Integer(EisaId(datum.val)))
    /\ Exact(0)

ConversionNext ==
    \/ ConvertToBuffer \/ StoreToBuffer \/ ConvertToInteger \/ ConvertToString
    \/ ConvertToBaseString \/ ConvertInteger \/ ConvertId

ConversionSpec == ConversionInit /\ [][ConversionNext]_conversion

-----------------------------------------------------------------------------
(* Correctness. *)

(* Integers have 64 bits, and strings end where they have their end. *)
WellFormed ==
    /\ \A i \in DOMAIN datum.val : datum.val[i] \in Byte
    /\ datum.type = "integer" => DOMAIN datum.val = 1..8
    /\ datum.type = "string" => \A i \in DOMAIN datum.val : datum.val[i] # NUL

(* The items of a string, and what each is read as. *)
Items(s, sep) ==
    LET items[i \in 0..Len(s)] ==
          IF i = 0 THEN <<>>
          ELSE IF i = 1 THEN <<<<s[1]>>>>
          ELSE IF s[i] = sep THEN Append(items[i - 1], <<>>)
          ELSE LET prev == items[i - 1] IN Append(Front(prev), Append(Last(prev), s[i]))
    IN  items[Len(s)]
ReadItems(s, sep) ==
    LET items == Items(s, sep)
    IN  [k \in DOMAIN items |-> ConvToInteger(String(items[k]), FALSE).val]

(* The letters and digits of an ID, as ACPI packs them into an integer. *)
Unpack(v) ==
    LET high == v[1] * 256 + v[2]
        letters == <<64 + (high \div 1024), 64 + ((high \div 32) % 32), 64 + (high % 32)>>
        digits == <<v[3] \div 16, v[3] % 16, v[4] \div 16, v[4] % 16>>
    IN  letters \o [i \in 1..4 |-> IF digits[i] < 10 THEN 48 + digits[i] ELSE 55 + digits[i]]

(* The highest and the lowest bit that are set are in the first digit that *)
(* is printed and in the last one that is not 0.                           *)
BitsFound ==
    datum.type = "integer" /\ datum.val # Zero =>
        LET digits == Reverse(Digits(datum.val, 16))
            left == FindSetBit(datum.val, TRUE) - 1
            right == FindSetBit(datum.val, FALSE) - 1
        IN  /\ left \div 4 = Len(digits) - 1
            /\ 2^(left % 4) =< Last(digits) /\ Last(digits) < 2 * 2^(left % 4)
            /\ \A i \in 1..(right \div 4) : digits[i] = 0
            /\ digits[1 + (right \div 4)] % (2 * 2^(right % 4)) = 2^(right % 4)

(* What is converted comes back, also at the ends of 64 bits and at every  *)
(* length: an integer from a buffer, from decimal digits, from the string  *)
(* that a store makes, and, with 16 digits at most, from BCD; a string     *)
(* from a buffer; the bytes of a buffer, one by one, from the strings it   *)
(* is converted to; and an ID from the integer it is compared with.  The   *)
(* bits that are found in an integer are those of its digits, and nothing  *)
(* that is no 64-bit integer or no string of C comes out.                  *)
ValuesSurvive ==
    /\ WellFormed
    /\ BitsFound
    /\ datum.type = "integer" =>
         /\ ConvToInteger(ConvToBuffer(datum), FALSE) = datum
         /\ ConvToInteger(ConvToBaseString(datum, 10, FALSE), FALSE) = datum
         /\ ConvToInteger(ConvToBaseString(datum, 16, TRUE), TRUE) = datum
         /\ Len(Digits(datum.val, 10)) =< 16 =>
              ConvertBCD(ConvertBCD(datum.val, FALSE), TRUE) = datum.val
    /\ datum.type = "string" =>
         /\ ConvToString(ConvToBuffer(datum), 0) = datum
         /\ IsId(datum.val) => Unpack(EisaId(datum.val)) = datum.val
    /\ datum.type = "buffer" =>
         \A how \in {<<10, FALSE>>, <<16, FALSE>>, <<16, TRUE>>} :
            ReadItems(ConvToBaseString(datum, how[1], how[2]).val, Separator(how[2]))
              = [i \in DOMAIN datum.val |-> Small(datum.val[i])]

(* A conversion writes no more than it has allocated, but for the end of a *)
(* decimal string of 20 digits, which has room for 19 and its end.         *)
RoomSuffices ==
    \/ room.taken =< room.given
    \/ datum.type = "string" /\ Len(datum.val) = 20
         /\ room = [given |-> 20, taken |-> 21]

=============================================================================
