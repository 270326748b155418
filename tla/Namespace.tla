----------------------------- MODULE Namespace -----------------------------
(***************************************************************************)
(* The ACPI namespace and the frames that own its nodes:                   *)
(* source/namespace.c, source/state.c, source/tables.c, and the handlers   *)
(* of source/defs.c and source/parser.c that add nodes, open blocks, load  *)
(* tables and call methods.                                                *)
(*                                                                         *)
(* The tree is kept as the code keeps it: every node has a parent, a type, *)
(* the head of its list of children, its successor in its parent's list,   *)
(* and its successor on the stack of nodes that its frame created.  Nodes  *)
(* are numbered by age: an allocation takes the number after the youngest  *)
(* live node, and a number may be used again once its node has been freed, *)
(* as an address may.                                                      *)
(*                                                                         *)
(* Kept out: what an object holds besides its type and the node it points  *)
(* to, and which statement follows which (module Control).  Any sequence   *)
(* of definitions, blocks and calls is possible here.                      *)
(***************************************************************************)
EXTENDS Integers, Sequences

CONSTANTS
    Seg,          \* the four-letter name segments
    NoSeg,        \* the name of no child
    NameStrings,  \* the name strings the AML contains
    FieldLists,   \* the lists of segments that a Field declares
    MaxNodes,     \* bound: the youngest node number
    MaxDepth,     \* bound: frames on the C stack
    MaxBlocks     \* bound: Scope and Device blocks open at once

(* A sabi_name_t: its prefix (the number of carets, or Absolute for a      *)
(* backslash) and its segments.                                            *)
Absolute == -1
NameString == [up : Nat \cup {Absolute}, segs : Seq(Seg)]

ASSUME SegAssumption == NoSeg \notin Seg
ASSUME NamesAssumption == NameStrings \subseteq NameString
ASSUME FieldsAssumption == FieldLists \subseteq Seq(Seg)
ASSUME BoundsAssumption == /\ MaxNodes \in Nat
                           /\ MaxDepth \in Nat
                           /\ MaxBlocks \in Nat

Node  == 0..MaxNodes
Root  == 0
NULL  == -1
FAULT == -2   \* what a lookup that reads through a null pointer returns

(* The object types that the namespace tells apart.  "device" stands for   *)
(* every object that opens a block (device, power resource, processor,     *)
(* thermal zone), "name" for every object that only holds data, "field"    *)
(* for the fields of an operation region, "osi" for the built-in method.   *)
ObjectType == {"root", "device", "method", "osi", "name", "alias", "field"}

(* The nodes sabi_ns_init makes under the root, oldest first. *)
Predefined == << [name |-> "_SB_", type |-> "device"],
                 [name |-> "_TZ_", type |-> "device"],
                 [name |-> "_PR_", type |-> "device"],
                 [name |-> "_GPE", type |-> "device"],
                 [name |-> "_OS_", type |-> "name"],
                 [name |-> "_REV", type |-> "name"],
                 [name |-> "_OSI", type |-> "osi"] >>

ASSUME PredefinedAssumption == /\ \A i \in DOMAIN Predefined : Predefined[i].name \in Seg
                               /\ Len(Predefined) =< MaxNodes

VARIABLES
    node,    \* node[n]: the name, parent, type and target of node n
    child,   \* child[n]: the head of the list of n's children
    next,    \* next[n]: n's successor among the children of its parent
    stk,     \* stk[n]: n's successor on the stack of its frame
    frames,  \* the state_t of every table load and method on the C stack
    saved,   \* the scopes that open Scope and Device blocks will restore
    phase,   \* "run", "add", "free", "panic" or "fault"
    job      \* the locals of sabi_ns_add_scope and of its caller

tree == <<node, child, next, stk>>
vars == <<node, child, next, stk, frames, saved, phase, job>>

(* A node record; the target of an alias is the node it stands for, that   *)
(* of a field its region.                                                  *)
NodeRec == [name : Seg \cup {NoSeg}, parent : Node \cup {NULL},
            type : ObjectType \cup {"free"}, target : Node \cup {NULL}]
Blank == [name |-> NoSeg, parent |-> NULL, type |-> "free", target |-> NULL]

Live == {n \in Node : node[n].type # "free"}
Youngest == CHOOSE n \in Live : \A m \in Live : m =< n

Depth == Len(frames)
Top == frames[Depth]
Scope == Top.scope

(* Blocks of the running frame that are still open. *)
OpenBlocks == {i \in DOMAIN saved : saved[i].frame = Depth}

-----------------------------------------------------------------------------
(* Lookups. *)

Children(p) == {c \in Live : node[c].parent = p}

(* A mutant of NsExists: only the head of the list is looked at. *)
NsExistsHead(n, s) ==
    IF child[n] # NULL /\ node[child[n]].name = s THEN child[n] ELSE NULL

(* sabi_ns_exists: the first of the list of children with that name.  The  *)
(* walk goes by the pointers, and has no end if they form a cycle.         *)
NsExists(n, s) ==
    LET walk[c \in Node \cup {NULL}] ==
          IF c = NULL THEN NULL
          ELSE IF node[c].name = s THEN c
          ELSE walk[next[c]]
    IN  walk[child[n]]

(* A mutant of Deref: the alias node itself. *)
DerefNot(c) == c

Deref(c) == IF node[c].type = "alias" THEN node[c].target ELSE c

(* sabi_ns_search: the segment in this scope, or in the nearest one above. *)
NsSearch(n, s) ==
    LET search[m \in Node \cup {NULL}] ==
          IF m = NULL THEN NULL
          ELSE IF NsExists(m, s) = NULL THEN search[node[m].parent]
          ELSE Deref(NsExists(m, s))
    IN  search[n]

(* sabi_ns_path: segment by segment, through aliases.  An alias that never *)
(* got a target is followed like any other, and read if a segment is left. *)
Missing == -3
NsPath(n, segs) ==
    LET walk[i \in 0..Len(segs)] ==
          IF i = 0 THEN n
          ELSE LET m == walk[i - 1]
               IN  IF m = NULL THEN FAULT
                   ELSE IF m \in {FAULT, Missing} THEN m
                   ELSE IF NsExists(m, segs[i]) = NULL THEN Missing
                   ELSE Deref(NsExists(m, segs[i]))
    IN  IF walk[Len(segs)] = Missing THEN NULL ELSE walk[Len(segs)]

(* The scope that a prefix leads to, NULL above the root. *)
Ascend(n, up) ==
    LET above[i \in 0..up] ==
          IF i = 0 THEN n
          ELSE IF above[i - 1] = NULL THEN NULL
          ELSE node[above[i - 1]].parent
    IN  IF up = Absolute THEN Root ELSE above[up]

(* sabi_ns_find *)
NsFind(n, nm) ==
    IF nm.up = 0 /\ Len(nm.segs) = 1 THEN NsSearch(n, nm.segs[1])
    ELSE IF Ascend(n, nm.up) = NULL THEN NULL
    ELSE NsPath(Ascend(n, nm.up), nm.segs)

-----------------------------------------------------------------------------
(* The initial state: sabi_ns_init has run, no table is loaded. *)

InitialNode(n) ==
    IF n = Root THEN [Blank EXCEPT !.type = "root"]
    ELSE IF n \in DOMAIN Predefined
         THEN [name |-> Predefined[n].name, parent |-> Root,
               type |-> Predefined[n].type, target |-> NULL]
    ELSE Blank

NoJob == [name |-> [up |-> 0, segs |-> <<>>], rest |-> <<>>, pos |-> 1,
          cur |-> NULL, type |-> "name", target |-> NULL, open |-> FALSE]

Init ==
    /\ node = [n \in Node |-> InitialNode(n)]
    /\ child = [n \in Node |-> IF n = Root THEN Len(Predefined) ELSE NULL]
    /\ next = [n \in Node |-> IF n - 1 \in DOMAIN Predefined /\ n \in DOMAIN Predefined
                              THEN n - 1 ELSE NULL]
    /\ stk = [n \in Node |-> NULL]
    /\ frames = <<>>
    /\ saved = <<>>
    /\ phase = "run"
    /\ job = NoJob

-----------------------------------------------------------------------------
(* Frames. *)

(* A mutant of PushFrame: the stack of nodes starts with the caller's. *)
PushFrameShared(fn, n) ==
    /\ Depth < MaxDepth
    /\ frames' = Append(frames, [fn |-> fn, node |-> n, scope |-> n,
                                 head |-> IF frames = <<>> THEN NULL ELSE Top.head,
                                 base |-> Youngest, entry |-> node])
    /\ UNCHANGED <<tree, saved, phase, job>>

(* sabi_new_state and the assignment of its scope.  base and entry record  *)
(* the namespace at this moment; no action reads them.                     *)
PushFrame(fn, n) ==
    /\ Depth < MaxDepth
    /\ frames' = Append(frames, [fn |-> fn, node |-> n, scope |-> n, head |-> NULL,
                                 base |-> Youngest, entry |-> node])
    /\ UNCHANGED <<tree, saved, phase, job>>

(* parse_table: a table's terms run in a frame of their own at the root. *)
RegisterTable ==
    /\ phase = "run" /\ frames = <<>>
    /\ PushFrame("table", Root)

(* A mutant of EndTable: the stack is not cut before sabi_free_state. *)
EndTableFrees ==
    /\ phase = "run" /\ frames # <<>>
    /\ Top.fn = "table" /\ OpenBlocks = {}
    /\ phase' = "free"
    /\ UNCHANGED <<tree, frames, saved, job>>

(* The end of parse_table: the stack is cut first, so nothing is freed. *)
EndTable ==
    /\ phase = "run" /\ frames # <<>>
    /\ Top.fn = "table" /\ OpenBlocks = {}
    /\ frames' = SubSeq(frames, 1, Depth - 1)
    /\ UNCHANGED <<tree, saved, phase, job>>

(* sabi_eval_method: the host, _REG or a PCI lookup runs a method it holds *)
(* the node of, with or without AML running below it.                      *)
EvalMethod(m) ==
    /\ phase = "run"
    /\ m \in Live /\ node[m].type = "method"
    /\ PushFrame("method", m)

(* Stop: sabi_fatal or a read through a null pointer. *)
Stop(why) ==
    /\ phase' = why
    /\ UNCHANGED <<tree, frames, saved, job>>

(* sabi_parse_method: a name in term position must be a method. *)
CallMethod(nm) ==
    /\ phase = "run" /\ frames # <<>>
    /\ LET m == NsFind(Scope, nm)
       IN  \/ /\ m \in Live /\ node[m].type = "method"
              /\ PushFrame("method", m)
           \/ /\ m \in Live => node[m].type \notin {"method", "osi"}
              /\ Stop(IF m = FAULT THEN "fault" ELSE "panic")

(* A mutant of EndMethod: the frame goes and its nodes stay. *)
EndMethodKeeps ==
    /\ phase = "run" /\ frames # <<>>
    /\ Top.fn = "method" /\ OpenBlocks = {}
    /\ frames' = SubSeq(frames, 1, Depth - 1)
    /\ UNCHANGED <<tree, saved, phase, job>>

(* A method's terms have ended; sabi_free_state starts on its nodes. *)
EndMethod ==
    /\ phase = "run" /\ frames # <<>>
    /\ Top.fn = "method" /\ OpenBlocks = {}
    /\ phase' = "free"
    /\ UNCHANGED <<tree, frames, saved, job>>

(* A mutant of Unlink: the case of the first child is forgotten. *)
UnlinkInner(n) ==
    /\ child' = [child EXCEPT ![n] = NULL]
    /\ next' = [m \in Node |-> IF m = n THEN NULL
                               ELSE IF next[m] = n THEN next[n]
                               ELSE next[m]]

(* sabi_ns_unlink: the walk along the list of the parent looks for n and   *)
(* the sibling before it, and takes n out; the pointers of the freed node  *)
(* are reset.                                                              *)
Unlink(n) ==
    LET p == node[n].parent
        before[c \in Node \cup {NULL}] ==
          IF c = NULL THEN NULL
          ELSE IF next[c] = n THEN c
          ELSE before[next[c]]
        prev == IF child[p] = n THEN NULL ELSE before[child[p]]
    IN  /\ child' = [child EXCEPT ![p] = IF @ = n THEN next[n] ELSE @, ![n] = NULL]
        /\ next' = [m \in Node |-> IF m = n THEN NULL
                                   ELSE IF m = prev THEN next[n]
                                   ELSE next[m]]

(* One turn of the loop of sabi_free_state. *)
FreeNode ==
    /\ phase = "free" /\ Top.head # NULL
    /\ LET n == Top.head
       IN  /\ Unlink(n)
           /\ frames' = [frames EXCEPT ![Depth].head = stk[n]]
           /\ node' = [node EXCEPT ![n] = Blank]
           /\ stk' = [stk EXCEPT ![n] = NULL]
    /\ UNCHANGED <<saved, phase, job>>

(* The end of sabi_free_state, and the return to the caller. *)
FreeState ==
    /\ phase = "free" /\ Top.head = NULL
    /\ frames' = SubSeq(frames, 1, Depth - 1)
    /\ phase' = "run"
    /\ UNCHANGED <<tree, saved, job>>

-----------------------------------------------------------------------------
(* Definitions. *)

(* There are numbers left for k nodes. *)
Room(k) == k > 0 /\ Youngest + k =< MaxNodes

(* A mutant of StartAdd: carets are ignored. *)
StartAddHere(nm, rest, type, target, open) ==
    /\ phase' = "add"
    /\ job' = [name |-> nm, rest |-> rest, pos |-> 1,
               cur |-> IF nm.up = Absolute THEN Root ELSE Scope,
               type |-> type, target |-> target, open |-> open]
    /\ UNCHANGED <<tree, frames, saved>>

(* The head of sabi_ns_add_scope, called with an object of this type: the  *)
(* name's prefix is followed without a test for the root's parent.  rest   *)
(* holds the further names of a field list, open says that the caller is   *)
(* a Device, which enters the node it has made.  A null name, which would  *)
(* define nothing, is left out.                                            *)
StartAdd(nm, rest, type, target, open) ==
    \E start \in Live \cup {NULL} :
      /\ start = Ascend(Scope, nm.up)
      /\ IF start = NULL THEN Stop("fault")
         ELSE /\ phase' = "add"
              /\ job' = [name |-> nm, rest |-> rest, pos |-> 1, cur |-> start,
                         type |-> type, target |-> target, open |-> open]
              /\ UNCHANGED <<tree, frames, saved>>

(* sabi_def_name, _method, _mutex, _event, _op_region, _create_field *)
DefObject(nm, type) ==
    /\ phase = "run" /\ frames # <<>>
    /\ Room(Len(nm.segs))
    /\ StartAdd(nm, <<>>, type, NULL, FALSE)

(* sabi_def_alias: an unknown source leaves the alias without a target. *)
DefAlias(src, nm) ==
    /\ phase = "run" /\ frames # <<>>
    /\ Room(Len(nm.segs))
    /\ \E t \in Live \cup {NULL} : /\ t = NsFind(Scope, src)
                                   /\ StartAdd(nm, <<>>, "alias", t, FALSE)

(* A name string that is one segment and no prefix. *)
Plain(s) == [up |-> 0, segs |-> <<s>>]

(* sabi_def_field (and _bank_field, _index_field, whose second parent is   *)
(* looked up in the same way): every name in the list gets the region.     *)
DefField(region, list) ==
    /\ phase = "run" /\ frames # <<>>
    /\ Room(Len(list))
    /\ \E t \in Live \cup {NULL} : /\ t = NsFind(Scope, region)
                                   /\ StartAdd(Plain(Head(list)), Tail(list), "field", t, FALSE)

(* A lookup in a definition that reads through an alias with no target. *)
DefFaults(nm) ==
    /\ phase = "run" /\ frames # <<>>
    /\ NsFind(Scope, nm) = FAULT
    /\ Stop("fault")

(* sabi_def_device, _power_res, _processor, _thermal_zone *)
DefDevice(nm) ==
    /\ phase = "run" /\ frames # <<>>
    /\ Room(Len(nm.segs)) /\ Len(saved) < MaxBlocks
    /\ StartAdd(nm, <<>>, "device", NULL, TRUE)

Adding == phase = "add" /\ job.pos =< Len(job.name.segs)
Segment == job.name.segs[job.pos]

(* A turn of sabi_ns_add_scope's loop that meets a node of that name. *)
AddExisting ==
    /\ Adding
    /\ \E c \in Live : /\ c = NsExists(job.cur, Segment)
                       /\ job' = [job EXCEPT !.cur = c, !.pos = @ + 1]
    /\ UNCHANGED <<tree, frames, saved, phase>>

(* A turn that makes the node, at the head of its parent's list and on     *)
(* the stack of the frame.  Every missing segment gets the same object.    *)
AddNew ==
    /\ Adding
    /\ NsExists(job.cur, Segment) = NULL
    /\ \E n \in Node :
         /\ n = Youngest + 1
         /\ node' = [node EXCEPT ![n] = [name |-> Segment, parent |-> job.cur,
                                         type |-> job.type, target |-> job.target]]
         /\ stk' = [stk EXCEPT ![n] = Top.head]
         /\ frames' = [frames EXCEPT ![Depth].head = n]
         /\ next' = [next EXCEPT ![n] = child[job.cur]]
         /\ child' = [child EXCEPT ![job.cur] = n, ![n] = NULL]
         /\ job' = [job EXCEPT !.cur = n, !.pos = @ + 1]
    /\ UNCHANGED <<saved, phase>>

(* sabi_ns_add_scope returns; the handler enters the node, goes on to the  *)
(* next name of a field list, or is done.                                  *)
AddReturn ==
    /\ phase = "add" /\ job.pos > Len(job.name.segs)
    /\ \/ /\ job.open
          /\ saved' = Append(saved, [frame |-> Depth, scope |-> Scope])
          /\ frames' = [frames EXCEPT ![Depth].scope = job.cur]
          /\ phase' = "run" /\ job' = NoJob
          /\ UNCHANGED tree
       \/ /\ ~job.open /\ job.rest # <<>>
          /\ StartAdd(Plain(Head(job.rest)), Tail(job.rest), job.type, job.target, FALSE)
       \/ /\ ~job.open /\ job.rest = <<>>
          /\ phase' = "run" /\ job' = NoJob
          /\ UNCHANGED <<tree, frames, saved>>

(* sabi_def_scope: the block opens on a node that exists. *)
DefScope(nm) ==
    /\ phase = "run" /\ frames # <<>>
    /\ \/ \E n \in Live :
            /\ n = NsFind(Scope, nm)
            /\ Len(saved) < MaxBlocks
            /\ saved' = Append(saved, [frame |-> Depth, scope |-> Scope])
            /\ frames' = [frames EXCEPT ![Depth].scope = n]
            /\ UNCHANGED <<tree, phase, job>>
       \/ /\ NsFind(Scope, nm) = NULL
          /\ Stop("panic")

(* A mutant of LeaveBlock: the scope is not restored. *)
LeaveBlockInside ==
    /\ phase = "run" /\ frames # <<>>
    /\ OpenBlocks # {}
    /\ saved' = SubSeq(saved, 1, Len(saved) - 1)
    /\ UNCHANGED <<tree, frames, phase, job>>

(* The end of a Scope or Device block. *)
LeaveBlock ==
    /\ phase = "run" /\ frames # <<>>
    /\ OpenBlocks # {}
    /\ frames' = [frames EXCEPT ![Depth].scope = saved[Len(saved)].scope]
    /\ saved' = SubSeq(saved, 1, Len(saved) - 1)
    /\ UNCHANGED <<tree, phase, job>>

-----------------------------------------------------------------------------
Next ==
    \/ RegisterTable
    \/ EndTable
    \/ \E m \in Node : EvalMethod(m)
    \/ \E nm \in NameStrings : \/ CallMethod(nm)
                               \/ \E type \in {"name", "method"} : DefObject(nm, type)
                               \/ \E src \in NameStrings : DefAlias(src, nm)
                               \/ DefDevice(nm)
                               \/ DefScope(nm)
                               \/ DefFaults(nm)
                               \/ \E list \in FieldLists : DefField(nm, list)
    \/ EndMethod
    \/ FreeNode
    \/ FreeState
    \/ AddExisting
    \/ AddNew
    \/ AddReturn
    \/ LeaveBlock

Spec == Init /\ [][Next]_vars

-----------------------------------------------------------------------------
(* Correctness. *)

Job == [name : NameString, rest : Seq(Seg), pos : Nat \ {0}, cur : Node \cup {NULL},
        type : ObjectType, target : Node \cup {NULL}, open : BOOLEAN]
Block == [frame : Nat, scope : Node]
Frame == [fn : {"table", "method"}, node : Node, scope : Node,
          head : Node \cup {NULL}, base : Node, entry : [Node -> NodeRec]]

(* Every variable stays in its range. *)
TypeOK ==
    /\ node \in [Node -> NodeRec]
    /\ child \in [Node -> Node \cup {NULL}]
    /\ next \in [Node -> Node \cup {NULL}]
    /\ stk \in [Node -> Node \cup {NULL}]
    /\ frames \in Seq(Frame)
    /\ saved \in Seq(Block)
    /\ phase \in {"run", "add", "free", "panic", "fault"}
    /\ job \in Job

(* No pointer that a live node, a running frame, an open block or a        *)
(* handler holds leads to a freed node, and no alias stands for an alias   *)
(* (which Deref would not resolve): sabi_free_state frees a frame's nodes  *)
(* while outer frames keep scopes, methods and targets of their own.       *)
NoDangling ==
    /\ \A n \in Live \ {Root} : node[n].parent \in Live
    /\ \A n \in Live : \/ node[n].target = NULL
                       \/ node[n].target \in Live
    /\ \A i \in DOMAIN frames : /\ frames[i].node \in Live
                                /\ i < Depth => frames[i].scope \in Live
                                /\ frames[i].head \in Live \cup {NULL}
    /\ phase # "free" /\ frames # <<>> => Scope \in Live
    /\ \A i \in DOMAIN saved : saved[i].scope \in Live
    /\ phase = "add" => job.cur \in Live /\ job.target \in Live \cup {NULL}

(* sabi_ns_find follows one alias per segment, so it needs an alias's      *)
(* target to be a proper object: sabi_def_alias stores what sabi_ns_find   *)
(* gave it, which has been followed already.                               *)
AliasResolved ==
    \A n \in Live : node[n].type = "alias" /\ node[n].target # NULL
                        => node[node[n].target].type # "alias"

(* No scope holds two children of one name, whatever mixture of table      *)
(* definitions, method-local definitions and paths made them: otherwise a  *)
(* name would mean whichever was made last.                                *)
SiblingNamesUnique ==
    \A c, d \in Live \ {Root} : node[c].parent = node[d].parent /\ node[c].name = node[d].name
                                    => c = d

(* The list of children of a live node, as sabi_ns_exists and              *)
(* sabi_next_node walk it, is exactly the live children, youngest first:   *)
(* head insertion by sabi_ns_add_scope and sabi_ns_unlink keep it so, and  *)
(* no list skips a node, holds a freed one, or leads back to its head.     *)
ListsExact ==
    \A p \in Live :
      LET first(S) == IF S = {} THEN NULL ELSE CHOOSE c \in S : \A d \in S : d =< c
      IN  /\ child[p] = first(Children(p))
          /\ \A c \in Children(p) : next[c] = first({d \in Children(p) : d < c})

(* When a method's frame is popped, the namespace is the one it was called *)
(* in: all nodes it made, under whatever scope, are gone, and every other  *)
(* node is as it was (sabi_free_state).                                    *)
FrameRestores ==
    [][frames # <<>> /\ Len(frames') < Depth /\ Top.fn = "method" => node' = Top.entry]_vars

(* The scope of a definition is the innermost open block's, and a frame    *)
(* with no open block is back in the scope it began in, so a caller's own  *)
(* definitions go where they would without the call.                       *)
ScopeRestored ==
    frames # <<>> /\ OpenBlocks = {} => Scope = Top.node

(* What sabi_ns_add_scope has just defined is what sabi_ns_find finds      *)
(* under the same name from the same scope, unless the name's own path     *)
(* goes through an alias: there the definition lands under the alias node, *)
(* which lookups step over.                                                *)
DefinedIsFound ==
    phase = "add" /\ job.pos > Len(job.name.segs)
      => LET above[n \in Live] == IF n = Root THEN {Root} ELSE {n} \cup above[node[n].parent]
             path == {n \in above[job.cur] : n # Root}
         IN  (\A n \in path : node[n].type # "alias") => NsFind(Scope, job.name) = job.cur

(* The namespace as a tree with a mark for every frame; the snapshot that  *)
(* a frame took is what its mark remembers.                                *)
LiveTree == [n \in Live |-> node[n]]
Marks == [i \in DOMAIN frames |->
            [kind |-> frames[i].fn, tree |-> [n \in 0..frames[i].base |-> frames[i].entry[n]]]]
Scoped == INSTANCE ScopedNamespace
            WITH Id <- Node, None <- NULL, tree <- LiveTree, marks <- Marks,
                 Base <- [n \in 0..Len(Predefined) |-> InitialNode(n)]

(* The namespace keeps the promise: every step of the lists and stacks is  *)
(* a step of ScopedNamespace or changes nothing there.                     *)
ScopedSpec == Scoped!Spec

=============================================================================
