------------------------------ MODULE TreeWalk ------------------------------
(***************************************************************************)
(* What iterating over the namespace promises: each node is visited once,  *)
(* after its parent, if its parent lets its children be visited; and the   *)
(* walk ends when no such node is left, apart from nodes that have come    *)
(* since it began.  No pointers, no order among siblings.                  *)
(***************************************************************************)
CONSTANTS
    Node, Root

VARIABLES
    parent,    \* the tree: the parents of all nodes but the root
    on,        \* a walk is going on
    old,       \* the nodes that were there when it began
    visited,   \* those it has visited
    admitted   \* those whose children it visits

vars == <<parent, on, old, visited, admitted>>

Present == DOMAIN parent

Init ==
    /\ Present \subseteq Node
    /\ on = FALSE /\ old = {} /\ visited = {} /\ admitted = {}

Begin ==
    /\ ~on /\ on' = TRUE
    /\ old' = Present
    /\ visited' = {} /\ admitted' = {Root}
    /\ UNCHANGED parent

Visit(n) ==
    /\ on
    /\ n \in Present \ visited
    /\ parent[n] \in admitted
    /\ visited' = visited \cup {n}
    /\ UNCHANGED <<parent, on, old, admitted>>

Admit(n) ==
    /\ on
    /\ n \in visited
    /\ admitted' = admitted \cup {n}
    /\ UNCHANGED <<parent, on, old, visited>>

End ==
    /\ on /\ on' = FALSE
    /\ \A n \in old : parent[n] \in admitted => n \in visited
    /\ old' = {} /\ visited' = {} /\ admitted' = {}
    /\ UNCHANGED parent

Grow(n, p) ==
    /\ n \notin Present /\ p \in Present \cup {Root}
    /\ parent' = [m \in Present \cup {n} |-> IF m = n THEN p ELSE parent[m]]
    /\ UNCHANGED <<on, old, visited, admitted>>

Next ==
    \/ Begin \/ End
    \/ \E n \in Node : Visit(n) \/ Admit(n) \/ \E p \in Node \cup {Root} : Grow(n, p)

Spec == Init /\ [][Next]_vars

=============================================================================
