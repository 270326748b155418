----------------------------- MODULE BitFields -----------------------------
(***************************************************************************)
(* What fields promise: each is a row of bits, a read returns them, a      *)
(* write sets them, and the bits around them in the units that the access  *)
(* touches obey the field's update rule.  No shifts, no masks, no loops.   *)
(***************************************************************************)
EXTENDS Integers

CONSTANTS
    Values   \* what is written: sets of the numbers of the bits that are 1

VARIABLES
    fields,  \* the fields: first bit, number of bits, bits of a unit, update rule
    bits,    \* the bits that are 1
    answer   \* what the last read returned

vars == <<fields, bits, answer>>

Own(f) == f.offset..(f.offset + f.length - 1)
Touched(f) == LET unit(b) == b \div f.width
              IN  (f.width * unit(f.offset))
                    ..(f.width * (unit(f.offset + f.length - 1) + 1) - 1)

Kept(f) == CASE f.update = "preserve" -> bits \ Own(f)
             [] f.update = "ones" -> (bits \cup Touched(f)) \ Own(f)
             [] f.update = "zeros" -> bits \ Touched(f)

Read(f) ==
    /\ answer' = {k \in 0..(f.length - 1) : f.offset + k \in bits}
    /\ UNCHANGED <<fields, bits>>

Write(f, value) ==
    /\ bits' = Kept(f) \cup {b \in Own(f) : b - f.offset \in value}
    /\ UNCHANGED <<fields, answer>>

Next == \E f \in fields : Read(f) \/ \E value \in Values : Write(f, value)

(* Which bits are 1 at first is not for the fields to say. *)
Spec == answer = {} /\ [][Next]_vars

=============================================================================
