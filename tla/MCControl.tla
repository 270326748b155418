----------------------------- MODULE MCControl -----------------------------
(* Small tables for TLC: all lists of terms of some kinds, up to a length. *)
EXTENDS Control

CONSTANTS
    Plain,    \* the plain statements of the tables
    Callers,  \* the statements that call a method
    Blocks,   \* the blocks of the tables
    Testers,  \* the blocks whose operand calls a method
    MaxCells  \* bound: cells of a table

Mk(op, size, calls) == [op |-> op, size |-> size, calls |-> calls]
Units == {<<Mk(op, 1, FALSE)>> : op \in Plain} \cup {<<Mk(op, 1, TRUE)>> : op \in Callers}
Heads(size) ==
    {<<Mk(op, size, FALSE)>> : op \in Blocks} \cup {<<Mk(op, size, TRUE)>> : op \in Testers}

(* UpTo[n][k + 1] is the set of lists of k cells, for all k up to n. A     *)
(* list starts with a statement, a block, or an If and its Else.           *)
UpTo ==
    LET upTo[n \in 0..MaxCells] ==
          IF n = 0 THEN << {<<>>} >>
          ELSE LET prev == upTo[n - 1]
                   lists(k) == prev[k + 1]
                   block(k) == {h \o b : h \in Heads(k), b \in lists(k - 1)}
                   both(k) == IF "if" \notin Blocks THEN {}
                              ELSE UNION {{<<Mk("if", j, FALSE)>> \o t
                                             \o <<Mk("else", k - j, FALSE)>> \o e :
                                             t \in lists(j - 1), e \in lists(k - j - 1)}
                                          : j \in 1..(k - 1)}
                   terms(k) == block(k) \cup both(k) \cup (IF k = 1 THEN Units ELSE {})
               IN  Append(prev, UNION {{t \o r : t \in terms(k), r \in lists(n - k)}
                                       : k \in 1..n})
    IN  upTo[MaxCells]

AllTables == LET lists == UpTo IN UNION {lists[n + 1] : n \in 1..MaxCells}

(* The tables without an If at the end of a block that has an Else.        *)
GoodTables == {p \in AllTables : Separated(p)}

(* The same within a loop, where interrupts have somewhere to go.          *)
LoopTables == {<<Mk("while", Len(p) + 1, FALSE)>> \o p : p \in GoodTables}
FlowTables == GoodTables \cup LoopTables

=============================================================================
