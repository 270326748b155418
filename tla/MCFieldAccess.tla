--------------------------- MODULE MCFieldAccess ---------------------------
(* Small instances of FieldAccess for TLC. *)
EXTENDS FieldAccess

Reserved(n) == [is |-> "reserved", length |-> n]
Named(n) == [is |-> "named", length |-> n]
Accessing(access, update) == [is |-> "access", access |-> access, update |-> update]

Rules == {"preserve", "ones", "zeros"}

(* Two neighbours anywhere in the units, with one access type, or with     *)
(* another one for the second, or with types that may stop the access.     *)
RegionLists ==
    {<<Accessing(a, u), Reserved(r), Named(n), Named(m)>> :
        a \in {1, 2, 3}, u \in Rules, r \in {0, 8, 13}, n \in {1, 5, 8, 16}, m \in {2, 11, 32}}
    \cup
    {<<Accessing(a, u), Named(n), Accessing(b, "preserve"), Reserved(r), Named(m)>> :
        a \in {0, 1}, b \in {2, 4, 5}, u \in Rules, r \in {0, 7}, n \in {4, 8}, m \in {1, 9, 64}}

ByteLists ==
    {<<Accessing(1, u), Reserved(r), Named(n), Named(m)>> :
        u \in Rules, r \in {0, 3, 13}, n \in {1, 8, 12}, m \in {2, 24, 64}}

TestFields == {[kind |-> "field", list |-> l] : l \in RegionLists}
                \cup {[kind |-> k, list |-> l] : k \in {"index", "buffer"}, l \in ByteLists}

Even == {2 * b : b \in 0..79}
Odd == {2 * b + 1 : b \in 0..31}
TestValues == {{}, Word, Odd, {0}}
(* Every bit is 1 in one of them and 0 in the other, and its neighbours    *)
(* are the opposite.                                                       *)
TestContents == {Even, 0..159 \ Even}

=============================================================================
