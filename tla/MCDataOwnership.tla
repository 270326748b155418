-------------------------- MODULE MCDataOwnership --------------------------
(* Small languages for TLC: each has the forms of one concern, and as many *)
(* blocks as it takes for the copies that are made to exist side by side.  *)
EXTENDS DataInvariant, TLC

Symmetry == Permutations(Names)

L(forms, frames, elements, pending, blocks) ==
    [forms |-> forms, frames |-> frames, elements |-> elements,
     pending |-> pending, blocks |-> blocks]

(* Packages and strings that are copied, in one method. *)
Copies ==
    {L({"string", "package", "store"}, 1, 1, 6, 7),
     L({"integer", "package", "store"}, 1, 1, 6, 7),
     L({"integer", "package", "store"}, 1, 2, 6, 5)}

(* Results that are handed from method to method. *)
Results ==
    {L({"string", "package", "call"}, 3, 1, 6, 8),
     L({"string", "call", "sum", "convert", "passed"}, 3, 1, 6, 7)}

(* Names of a table and of a method, and fields of their buffers. *)
Definitions ==
    {L({"string", "name", "call"}, 2, 1, 6, 6),
     L({"buffer", "store", "name", "field", "compute"}, 1, 1, 6, 7),
     L({"buffer", "name", "field", "call", "passed"}, 2, 1, 5, 8),
     L({"string", "convert", "name", "redefine"}, 1, 1, 5, 6)}

(* References to what the caller has. *)
References ==
    {L({"string", "reference", "store", "call"}, 2, 1, 6, 6),
     L({"package", "integer", "reference", "store", "call"}, 2, 1, 6, 5),
     L({"string", "reference", "name", "call"}, 2, 1, 6, 6),
     L({"integer", "reference", "name", "compute", "call"}, 2, 1, 5, 5)}

AllLanguages == Copies \cup Results \cup Definitions \cup References

(* Packages that are returned and have the result of a call in them. *)
Computing == {L({"string", "package", "call", "computed"}, 2, 1, 6, 8)}

=============================================================================
