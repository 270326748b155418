------------------------- MODULE NamespaceInvariant -------------------------
(***************************************************************************)
(* The inductive invariant of Namespace.  It says how the frames share the *)
(* nodes: the live nodes are 0..Youngest, a frame found the nodes up to    *)
(* its base, and owns those between its base and the base of the frame     *)
(* above it, or the youngest node if it is the running one.  Everything a  *)
(* frame holds on to is older than the frame above it, so freeing the top  *)
(* frame's nodes, which are the youngest, harms no other frame.            *)
(***************************************************************************)
EXTENDS Namespace

(* The youngest node that was there when the frame above d began. *)
Bound(d) == IF d < Depth THEN frames[d + 1].base ELSE Youngest

(* Live nodes are contiguous, and point only to older nodes. *)
TreeInv ==
    /\ Youngest \in Node
    /\ Live = 0..Youngest
    /\ node[Root].parent = NULL /\ node[Root].target = NULL
    /\ \A n \in Live \ {Root} : node[n].parent \in 0..(n - 1)
    /\ \A n \in Live : node[n].target # NULL => node[n].target \in 0..(n - 1)
    /\ \A n \in Node \ Live : node[n] = Blank

(* A frame's nodes and the stack that strings them together. *)
FrameInv(d) ==
    /\ frames[d].base =< Bound(d)
    /\ frames[d].entry = [n \in Node |-> IF n =< frames[d].base THEN node[n] ELSE Blank]
    /\ frames[d].head = IF frames[d].base < Bound(d) THEN Bound(d) ELSE NULL
    /\ \A n \in (frames[d].base + 1)..Bound(d) :
           stk[n] = IF n - 1 > frames[d].base THEN n - 1 ELSE NULL
    /\ frames[d].scope =< Bound(d)
    /\ frames[d].node =< frames[d].base
    /\ frames[d].fn = "table" => d = 1

FramesInv ==
    /\ \A d \in DOMAIN frames : FrameInv(d) /\ frames[d].base =< Youngest
    /\ \A d, e \in DOMAIN frames : d < e => frames[d].base =< frames[e].base

(* The blocks of lower frames come first; the outermost block of a frame   *)
(* saved the scope the frame began in.                                     *)
SavedInv ==
    /\ \A i \in DOMAIN saved : /\ saved[i].frame \in DOMAIN frames
                               /\ saved[i].scope =< Bound(saved[i].frame)
    /\ \A i, j \in DOMAIN saved : i < j => saved[i].frame =< saved[j].frame
    /\ \A i \in DOMAIN saved :
         (i = 1 \/ saved[i - 1].frame # saved[i].frame)
            => saved[i].scope = frames[saved[i].frame].node
    /\ \A d \in DOMAIN frames :
         (\A i \in DOMAIN saved : saved[i].frame # d) => frames[d].scope = frames[d].node

PhaseInv ==
    /\ phase = "free" => frames # <<>> /\ Top.fn = "method" /\ OpenBlocks = {}
    /\ phase = "add" => /\ frames # <<>>
                        /\ job.cur \in Live
                        /\ job.target \in Live \cup {NULL}

(* Any state of Namespace is of this shape, whatever the AML does. *)
IInv == TypeOK /\ TreeInv /\ FramesInv /\ SavedInv /\ PhaseInv

=============================================================================
