------------------------------ MODULE Lexical ------------------------------
(***************************************************************************)
(* The shape of AML code.  A table is a sequence of cells: a statement is  *)
(* one cell, a block is a cell for its opcode, package length and operands *)
(* followed by the cells of its terms.  All addresses (state->aml,         *)
(* pkg.start, pkg.end) are cell numbers.                                   *)
(***************************************************************************)
EXTENDS Integers, Sequences

(* The statements whose handlers touch state->intr or call                 *)
(* sabi_parse_termlist, and "stmt" for all others: they evaluate operands, *)
(* which may call a method, and go on behind themselves.                   *)
BlockOp == {"if", "else", "while", "scope", "method"}
PlainOp == {"stmt", "return", "break", "continue"}

(* size counts the block's own cell; calls says that an operand may call.  *)
Cell == [op : BlockOp \cup PlainOp, size : Nat \ {0}, calls : BOOLEAN]

(* The first cell that is not the block's (pkg.end); cell 0 stands for the *)
(* table itself.                                                           *)
End(p, i) == IF i = 0 THEN Len(p) + 1 ELSE i + p[i].size
Op(p, i) == IF i = 0 THEN "table" ELSE p[i].op

Body(p, i) == (i + 1)..(End(p, i) - 1)
IsAt(p, i, op) == i \in DOMAIN p /\ p[i].op = op

(* The blocks around cell i, and the innermost of those in S. *)
Around(p, i) == {b \in 0..(i - 1) : i \in Body(p, b)}
Innermost(S) == CHOOSE b \in S : \A c \in S : c =< b
Parent(p, i) == Innermost(Around(p, i))

(* Blocks nest, plain statements are one cell, and an Else stands behind   *)
(* an If of the same list.                                                 *)
WellFormed(p) ==
    /\ p \in Seq(Cell)
    /\ \A i \in DOMAIN p :
         /\ p[i].op \in PlainOp => p[i].size = 1
         /\ End(p, i) =< End(p, Parent(p, i))
         /\ p[i].op = "else" => \E c \in DOMAIN p : /\ p[c].op = "if"
                                                    /\ End(p, c) = i
                                                    /\ Parent(p, c) = Parent(p, i)

(* No If ends a block that an Else follows.  Only then does the byte       *)
(* behind an If tell whether the If has an Else.                           *)
Separated(p) ==
    \A c \in DOMAIN p : p[c].op = "if" /\ IsAt(p, End(p, c), "else")
                            => Parent(p, c) = Parent(p, End(p, c))

=============================================================================
