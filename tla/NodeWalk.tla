------------------------------ MODULE NodeWalk ------------------------------
(***************************************************************************)
(* Iteration over the namespace: sabi_next_node of source/api.c, and three *)
(* that use it: sabi_call_init of source/events.c, which initialises the   *)
(* devices, sabi_pci_next_node of source/pci.c, which looks for PCI host   *)
(* bridges, and an operating system that goes through the nodes itself.    *)
(* Between two calls from the outside further tables may be loaded.        *)
(*                                                                         *)
(* The lists of children are those of module Namespace: exactly the live   *)
(* nodes, the youngest first.  What AML adds while it runs is gone when it *)
(* returns (FrameRestores there), so it is left out here.                  *)
(***************************************************************************)
EXTENDS Integers

CONSTANTS
    Kind,      \* the kinds of nodes the namespace has
    MaxNodes   \* bound: nodes

ASSUME MaxNodesAssumption == MaxNodes \in Nat

Root == 0
NULL == -1
Node == 1..MaxNodes

(* "processor" stands for power resources and thermal zones too: they open *)
(* a scope, but only devices are looked at for bridges.                    *)
ASSUME KindAssumption == Kind \subseteq {"other", "processor", "device", "bridge"}

IsDevice(k) == k \in {"device", "bridge"}
IsScope(k) == k # "other"

VARIABLES
    parent,   \* the tree: the parents of all nodes but the root
    kind,     \* their kinds
    walker,   \* who goes through the nodes, or "none"
    at,       \* the node it is at
    child,    \* whether it wants that node's children next
    phase,    \* "next": sabi_next_node is called, "look": its result is looked
              \* at, "outside": the operating system has it
    old, visited, admitted  \* what TreeWalk speaks of

tree == <<parent, kind>>
ghosts == <<old, visited, admitted>>
vars == <<tree, walker, at, child, phase, ghosts>>

Present == DOMAIN parent

(* The lists. *)
Latest(S) == IF S = {} THEN NULL ELSE CHOOSE n \in S : \A m \in S : m =< n
FirstChild(p) == Latest({n \in Present : parent[n] = p})
NextSibling(n) == IF n = Root THEN NULL
                  ELSE Latest({m \in Present : parent[m] = parent[n] /\ m < n})

(* Mutants of NextNode: it climbs one level only; it takes the parent that *)
(* it has climbed to for the next node.                                    *)
NextNodeNear(n, down) ==
    IF n = NULL THEN FirstChild(Root)
    ELSE IF down /\ FirstChild(n) # NULL THEN FirstChild(n)
    ELSE IF NextSibling(n) # NULL THEN NextSibling(n)
    ELSE NextSibling(parent[n])

NextNodeParent(n, down) ==
    IF n = NULL THEN FirstChild(Root)
    ELSE IF down /\ FirstChild(n) # NULL THEN FirstChild(n)
    ELSE IF NextSibling(n) # NULL THEN NextSibling(n)
    ELSE IF parent[n] = Root THEN NULL ELSE parent[n]

(* sabi_next_node *)
NextNode(n, down) ==
    LET climb[m \in Present \cup {Root}] ==
          IF NextSibling(m) # NULL THEN NextSibling(m)
          ELSE IF m = Root THEN NULL
          ELSE climb[parent[m]]
    IN  IF n = NULL THEN FirstChild(Root)
        ELSE IF down /\ FirstChild(n) # NULL THEN FirstChild(n)
        ELSE climb[n]

-----------------------------------------------------------------------------
Init ==
    /\ \E size \in 0..MaxNodes :
         /\ parent \in [1..size -> 0..size] /\ \A n \in 1..size : parent[n] < n
         /\ kind \in [1..size -> Kind]
    /\ walker = "none" /\ phase = "outside"
    /\ at = NULL /\ child = FALSE
    /\ old = {} /\ visited = {} /\ admitted = {}

(* A walk begins: inside the library, or with a first call from outside.   *)
(* sabi_pci_next_node always goes down from where it is.                   *)
Begin(who) ==
    /\ walker = "none"
    /\ walker' = who /\ phase' = "next"
    /\ at' = NULL /\ child' = (who = "pci")
    /\ old' = Present /\ visited' = {} /\ admitted' = {Root}
    /\ UNCHANGED tree

(* The next call from outside. *)
Continue ==
    /\ walker # "none" /\ phase = "outside"
    /\ phase' = "next"
    /\ child' \in IF walker = "pci" THEN {TRUE} ELSE BOOLEAN
    /\ admitted' = IF child' THEN admitted \cup {at} ELSE admitted
    /\ UNCHANGED <<tree, walker, at, old, visited>>

(* sabi_next_node returns a node, *)
Step ==
    /\ phase = "next"
    /\ NextNode(at, child) # NULL
    /\ at' = NextNode(at, child) /\ child' = FALSE
    /\ visited' = visited \cup {at'}
    /\ phase' = IF walker = "user" THEN "outside" ELSE "look"
    /\ UNCHANGED <<tree, walker, old, admitted>>

(* or none. *)
End ==
    /\ phase = "next"
    /\ NextNode(at, child) = NULL
    /\ walker' = "none" /\ phase' = "outside"
    /\ at' = NULL /\ child' = FALSE
    /\ old' = {} /\ visited' = {} /\ admitted' = {}
    /\ UNCHANGED tree

(* The node's own children are next, or not. *)
Goes(down) ==
    /\ phase' = "next" /\ child' = down
    /\ admitted' = IF down THEN admitted \cup {at} ELSE admitted
    /\ UNCHANGED <<tree, walker, at, old, visited>>

(* The body of the loop of sabi_call_init.  A scope may have _INI, which   *)
(* is run if its _STA, which it may have too, says that it is present; the *)
(* children are next if it is present or functioning, or has no _INI.      *)
InitDevice ==
    /\ walker = "init" /\ phase = "look"
    /\ \E sta \in {"present", "functioning", "absent"} :
          Goes(IsScope(kind[at]) /\ sta # "absent")

(* The body of the loop of sabi_pci_next_node: a bridge is returned. *)
ReturnBridge ==
    /\ walker = "pci" /\ phase = "look"
    /\ kind[at] = "bridge"
    /\ phase' = "outside"
    /\ UNCHANGED <<tree, walker, at, child, ghosts>>

PassNode ==
    /\ walker = "pci" /\ phase = "look"
    /\ kind[at] # "bridge"
    /\ Goes(IsDevice(kind[at]))

(* Between two calls a table is loaded. *)
LoadTable(p, k) ==
    /\ phase = "outside"
    /\ p \in Present \cup {Root}
    /\ LET n == 1 + Latest(Present \cup {Root})
       IN  /\ n =< MaxNodes
           /\ parent' = [m \in 1..n |-> IF m = n THEN p ELSE parent[m]]
           /\ kind' = [m \in 1..n |-> IF m = n THEN k ELSE kind[m]]
    /\ UNCHANGED <<walker, at, child, phase, ghosts>>

-----------------------------------------------------------------------------
Loops == Step \/ End \/ InitDevice \/ ReturnBridge \/ PassNode

Next ==
    \/ \E who \in {"init", "pci", "user"} : Begin(who)
    \/ Continue
    \/ Loops
    \/ \E p \in Node \cup {Root}, k \in Kind : LoadTable(p, k)

Spec == Init /\ [][Next]_vars

(* The library's loops run on; an operating system that has begun to go    *)
(* through the nodes goes on until it is told that there are no more.      *)
FairSpec == Spec /\ WF_vars(Loops) /\ WF_vars(Continue)

-----------------------------------------------------------------------------
(* Correctness. *)

(* sabi_next_node visits every node that its callers let it come to, and   *)
(* none twice, even where tables grow the lists that it is in the middle   *)
(* of: so every device is initialised once and after its parent, and every *)
(* bridge is found once.                                                   *)
Walk == INSTANCE TreeWalk WITH on <- walker # "none"
WalkSpec == Walk!Spec

(* Every walk ends. *)
WalksEnd == walker # "none" ~> walker = "none"

=============================================================================
