-------------------------- MODULE ScopedNamespace --------------------------
(***************************************************************************)
(* What the namespace promises its users: a tree of named objects in which *)
(* names are unique among siblings and references lead to objects that     *)
(* exist, and in which everything a method defines is gone when it         *)
(* returns, while what a table defines stays.  No lists, no stack of       *)
(* nodes, no order of allocation: sabi_ns_add_scope, sabi_free_state and   *)
(* parse_table as their callers may think of them.                         *)
(***************************************************************************)
EXTENDS Integers, Sequences

CONSTANTS
    Id,       \* what identifies a node
    None,     \* no node
    Base      \* the tree before the first table

VARIABLES
    tree,     \* the objects: a function from some of Id to their descriptions
    marks     \* one record for each table load and method that runs

vars == <<tree, marks>>

Present == DOMAIN tree
Running == marks # <<>>
Last == marks[Len(marks)]

Init == tree = Base /\ marks = <<>>

(* A table is loaded from the outside; a method may run inside others. *)
Begin(kind) ==
    /\ kind = "table" => ~Running
    /\ marks' = Append(marks, [kind |-> kind, tree |-> tree])
    /\ UNCHANGED tree

(* A new object: under an object that exists, with a name that is free     *)
(* there, and with a target that exists, if it has one.                    *)
Define(id, object) ==
    /\ Running /\ id \notin Present
    /\ object.parent \in Present
    /\ object.target \in Present \cup {None}
    /\ \A n \in Present : tree[n].parent = object.parent => tree[n].name # object.name
    /\ tree' = [n \in Present \cup {id} |-> IF n = id THEN object ELSE tree[n]]
    /\ UNCHANGED marks

(* A method that is returning drops an object of its own that no other     *)
(* object hangs from or refers to.                                         *)
Drop(id) ==
    /\ Running /\ Last.kind = "method"
    /\ id \in Present \ DOMAIN Last.tree
    /\ \A n \in Present : tree[n].parent # id /\ tree[n].target # id
    /\ tree' = [n \in Present \ {id} |-> tree[n]]
    /\ UNCHANGED marks

(* A method has returned when the tree is the one it began with. *)
Return ==
    /\ Running /\ Last.kind = "method"
    /\ tree = Last.tree
    /\ marks' = SubSeq(marks, 1, Len(marks) - 1)
    /\ UNCHANGED tree

(* A table's objects are there to stay. *)
Commit ==
    /\ Len(marks) = 1 /\ Last.kind = "table"
    /\ marks' = <<>>
    /\ UNCHANGED tree

Next ==
    \/ \E kind \in {"table", "method"} : Begin(kind)
    \/ \E id \in Id : Drop(id)
    \/ \E id \in Id : id \in DOMAIN tree' /\ Define(id, tree'[id])
    \/ Return
    \/ Commit

Spec == Init /\ [][Next]_vars

=============================================================================
