--------------------------- MODULE ValueSemantics --------------------------
(***************************************************************************)
(* What the interpreter's data promises: every variable holds a value of   *)
(* its own, and there is no memory that two of them could share.  A step   *)
(* changes one variable, that the method has or can name, or that one of   *)
(* its own refers to, and with it at most the result that is being built.  *)
(* A name keeps the type of its value.  A caller gets the callee's result, *)
(* and nothing else of it is left.                                         *)
(***************************************************************************)
EXTENDS Naturals, Sequences

CONSTANTS
    Slots, Retv  \* the variables of a frame, and that of its result

VARIABLES
    frames,  \* the values of the variables of each frame, the last one's method runs
    named,   \* the value of every name, and the frame that it goes with, or 0
    result   \* what the host has got

vars == <<frames, named, result>>

None == [type |-> "none"]
Depth == Len(frames)
Top == frames[Depth]

Init ==
    /\ frames = <<>>
    /\ DOMAIN named = {}
    /\ result = None

(* A variable, as a reference names it. *)
Slot(k, i) == [depth |-> k, name |-> i]
Name(n) == [depth |-> 0, name |-> n]
Within ==
    {Slot(Depth, i) : i \in Slots} \cup {Name(n) : n \in DOMAIN named}
    \cup {Top[i].to : i \in {j \in Slots : Top[j].type = "reference"}}

SameType(v, w) == v.type \in {"null", w.type}

(* The variables that a step changes. *)
Changed ==
    LET old == frames  new == frames'
        was == named   is == named'
    IN  UNION {{Slot(k, i) : i \in {j \in Slots : old[k][j] # new[k][j]}} : k \in DOMAIN old}
        \cup {Name(n) : n \in {m \in DOMAIN was : was[m] # is[m]}}

Assign ==
    /\ frames # <<>>
    /\ DOMAIN frames' = DOMAIN frames /\ DOMAIN named' = DOMAIN named
    /\ \E v \in Within : Changed \subseteq {v, Slot(Depth, Retv)}
    /\ LET was == named  is == named'
       IN  \A n \in DOMAIN was :
             SameType(was[n].value, is[n].value) /\ is[n].depth = was[n].depth
    /\ UNCHANGED result

(* A name goes with the method that defines it; that of a table stays.  A  *)
(* table runs for no result.                                               *)
Here == IF Depth = 1 /\ result = None THEN 0 ELSE Depth

Define ==
    /\ frames # <<>>
    /\ DOMAIN named \subseteq DOMAIN named'
    /\ \A n \in DOMAIN named : named'[n] = named[n]
    /\ \A n \in DOMAIN named' \ DOMAIN named : named'[n].depth = Here
    /\ UNCHANGED <<frames, result>>

Enter ==
    /\ Depth > 0 => UNCHANGED result
    /\ Len(frames') = Depth + 1
    /\ \A k \in DOMAIN frames : frames'[k] = frames[k]
    /\ frames'[Depth + 1][Retv].type = "null"
    /\ UNCHANGED named

Gone(k) ==
    /\ DOMAIN named' \subseteq DOMAIN named
    /\ \A n \in DOMAIN named' : named[n].depth < k /\ named'[n] = named[n]
    /\ \A n \in DOMAIN named \ DOMAIN named' : named[n].depth = k

Return ==
    /\ Depth > 1
    /\ frames' = [SubSeq(frames, 1, Depth - 1) EXCEPT ![Depth - 1][Retv] = Top[Retv]]
    /\ Gone(Depth)
    /\ UNCHANGED result

(* The end of a table, or of what the host has called. *)
End ==
    /\ Depth = 1
    /\ frames' = <<>>
    /\ Gone(1)
    /\ result' = IF result = None THEN None ELSE Top[Retv]

(* The host reads a name, and is done with a result. *)
ReadName ==
    /\ frames = <<>>
    /\ \E n \in DOMAIN named :
         \/ result' = named[n].value
         \/ named[n].value.type = "field" /\ result'.type = "integer"
    /\ UNCHANGED <<frames, named>>

Forget ==
    /\ frames = <<>>
    /\ result' = None
    /\ UNCHANGED <<frames, named>>

Next == Assign \/ Define \/ Enter \/ Return \/ End \/ ReadName \/ Forget

Spec == Init /\ [][Next]_vars

=============================================================================
