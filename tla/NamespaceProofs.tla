--------------------------- MODULE NamespaceProofs ---------------------------
(***************************************************************************)
(* Proofs about Namespace, for every set of names and every bound.         *)
(***************************************************************************)
EXTENDS NamespaceInvariant, TLAPS, WellFoundedInduction, FiniteSetTheorems,
        SequenceTheorems

(* The greatest element of an initial segment of the naturals. *)
LEMMA GreatestOfInterval ==
    ASSUME NEW k \in Nat
    PROVE  (CHOOSE n \in 0..k : \A m \in 0..k : m =< n) = k
<1>1. k \in 0..k /\ \A m \in 0..k : m =< k
  OBVIOUS
<1>2. \A n \in 0..k : (\A m \in 0..k : m =< n) => n = k
  BY <1>1
<1>3. QED
  BY <1>1, <1>2

(* Arithmetic on the length of a sequence. *)
LEMMA Successor == \A k \in Nat : (k + 1) - 1 = k /\ (k > 0 => k + 1 # 1 /\ k \in 1..k)
OBVIOUS

(* Nodes are numbers, and NULL is not one. *)
LEMMA NodeFacts ==
    /\ Node \subseteq Nat /\ Root \in Node /\ NULL \notin Nat
    /\ \A k \in Node : \A m \in 0..k : m \in Node
BY BoundsAssumption DEF Node, Root, NULL

(* When the live nodes are 0..k, the youngest is k. *)
LEMMA YoungestOf ==
    ASSUME NEW k \in Nat, Live = 0..k
    PROVE  Youngest = k
BY GreatestOfInterval DEF Youngest

(* The same for the state after a step. *)
LEMMA YoungestAfter ==
    ASSUME NEW k \in Nat, Live' = 0..k
    PROVE  Youngest' = k
BY GreatestOfInterval DEF Youngest

(* A step that leaves the tree alone keeps what is said of the tree. *)
LEMMA SameTree ==
    ASSUME TreeInv, UNCHANGED tree
    PROVE  Live' = Live /\ Youngest' = Youngest /\ TreeInv'
BY DEF TreeInv, tree, Live, Youngest

(* A step that leaves tree, frames and blocks alone keeps all that is said *)
(* of them.                                                                *)
LEMMA Quiet ==
    ASSUME IInv, UNCHANGED <<tree, frames, saved>>
    PROVE  /\ Live' = Live /\ Youngest' = Youngest
           /\ TreeInv' /\ FramesInv' /\ SavedInv'
<1>1. Live' = Live /\ Youngest' = Youngest /\ TreeInv'
  BY SameTree DEF IInv
<1>2. FramesInv'
  BY <1>1 DEF IInv, FramesInv, FrameInv, Bound, Depth, tree
<1>3. SavedInv'
  BY <1>1 DEF IInv, SavedInv, Bound, Depth
<1>4. QED
  BY <1>1, <1>2, <1>3

(* The initial state. *)
LEMMA InitIInv == Init => IInv
<1> SUFFICES ASSUME Init PROVE IInv
  OBVIOUS
<1> USE BoundsAssumption, PredefinedAssumption, SegAssumption
<1>0. Len(Predefined) = 7 /\ DOMAIN Predefined = 1..7
  BY DEF Predefined
<1>1. \A n \in Node : /\ InitialNode(n) \in NodeRec
                      /\ InitialNode(n).type # "free" <=> n \in 0..7
  BY <1>0 DEF InitialNode, NodeRec, Blank, Root, Predefined, ObjectType, NULL, Node
<1>a. \A n \in 0..7 : n \in Node
  BY <1>0 DEF Node
<1>b. \A n \in Node : node[n] = InitialNode(n)
  BY DEF Init
<1>2. Live = 0..7
  BY <1>1, <1>a, <1>b DEF Live
<1>3. Youngest = 7
  BY <1>2, YoungestOf
<1>4. TypeOK
  BY <1>0, <1>1 DEF Init, TypeOK, NoJob, Job, NameString, Node, NULL, ObjectType
<1>5. TreeInv
  BY <1>0, <1>1, <1>2, <1>3 DEF TreeInv, Init, InitialNode, Root, NULL, Node, Blank
<1>6. FramesInv /\ SavedInv /\ PhaseInv
  BY DEF Init, FramesInv, SavedInv, PhaseInv
<1>7. QED
  BY <1>4, <1>5, <1>6 DEF IInv

-----------------------------------------------------------------------------
(* Frames. *)

(* The frames as a function, and the running one. *)
LEMMA FrameFacts ==
    ASSUME IInv
    PROVE  /\ frames \in Seq(Frame) /\ Depth \in Nat /\ DOMAIN frames = 1..Depth
           /\ \A d \in 1..Depth : frames[d] \in Frame
           /\ frames # <<>> => Depth > 0
<1>1. frames \in Seq(Frame)
  BY DEF IInv, TypeOK
<1>2. Depth \in Nat /\ DOMAIN frames = 1..Depth /\ \A d \in 1..Depth : frames[d] \in Frame
  BY <1>1 DEF Depth
<1>3. frames # <<>> => Depth > 0
  BY <1>1, EmptySeq DEF Depth
<1>4. QED
  BY <1>1, <1>2, <1>3

(* A new frame finds every node and owns none. *)
LEMMA PushKeeps ==
    ASSUME IInv, phase = "run", NEW fn \in {"table", "method"}, NEW n \in Live,
           fn = "table" => frames = <<>>, PushFrame(fn, n)
    PROVE  IInv'
<1> DEFINE f == [fn |-> fn, node |-> n, scope |-> n, head |-> NULL,
                 base |-> Youngest, entry |-> node]
<1>1. Live' = Live /\ Youngest' = Youngest /\ TreeInv'
  BY SameTree DEF IInv, PushFrame
<1>2. n \in 0..Youngest /\ Youngest \in Nat
  BY DEF IInv, TreeInv, Node
<1>3. f \in Frame
  BY DEF IInv, TypeOK, TreeInv, Frame, Live, Node
<1>4. /\ frames \in Seq(Frame) /\ frames' = Append(frames, f)
      /\ frames' \in Seq(Frame)
  BY <1>3 DEF PushFrame, IInv, TypeOK
<1>5. /\ Len(frames') = Depth + 1 /\ Depth \in Nat
      /\ DOMAIN frames = 1..Depth /\ DOMAIN frames' = 1..(Depth + 1)
      /\ \A d \in 1..Depth : frames'[d] = frames[d]
      /\ frames'[Depth + 1] = f
  BY <1>4 DEF Depth
<1> PICK k \in Nat : k = Depth + 1
  BY <1>5
<1>6. /\ \A d \in 1..Depth : Bound(d)' = Bound(d)
      /\ Bound(k)' = Youngest
  BY <1>1, <1>5 DEF Bound, Depth
<1>7. TypeOK'
  BY <1>4 DEF PushFrame, IInv, TypeOK, tree
<1>8. FramesInv'
  <2>1. ASSUME NEW d \in 1..Depth
        PROVE  FrameInv(d)' /\ frames'[d].base =< Youngest'
    BY <1>1, <1>5, <1>6 DEF FramesInv, FrameInv, IInv, PushFrame, tree
  <2>2. node = [m \in Node |-> IF m =< Youngest THEN node[m] ELSE Blank]
    BY DEF IInv, TypeOK, TreeInv, Node
  <2>3. fn = "table" => Depth = 0
    BY <1>4 DEF Depth
  <2>4. FrameInv(k)' /\ frames'[k].base =< Youngest'
    BY <1>1, <1>2, <1>5, <1>6, <2>2, <2>3 DEF FrameInv, PushFrame, tree
  <2>5. \A d, e \in 1..(Depth + 1) : d < e => frames'[d].base =< frames'[e].base
    BY <1>2, <1>5 DEF IInv, FramesInv
  <2>6. QED
    BY <1>5, <2>1, <2>4, <2>5 DEF FramesInv
<1>9. SavedInv'
  <2>1. UNCHANGED saved
    BY DEF PushFrame
  <2>2. \A i \in DOMAIN saved : saved[i].frame \in 1..Depth
    BY <1>5 DEF IInv, SavedInv
  <2>3. QED
    BY <1>5, <1>6, <2>1, <2>2 DEF IInv, SavedInv
<1>10. PhaseInv'
  BY DEF PushFrame, PhaseInv
<1>11. QED
  BY <1>1, <1>7, <1>8, <1>9, <1>10 DEF IInv

(* Popping a frame that owns no node, or the only frame. *)
LEMMA PopKeeps ==
    ASSUME IInv, frames # <<>>, OpenBlocks = {},
           Depth = 1 \/ Top.head = NULL,
           frames' = SubSeq(frames, 1, Depth - 1), UNCHANGED <<tree, saved, job>>,
           phase' = "run"
    PROVE  IInv'
<1>1. Live' = Live /\ Youngest' = Youngest /\ TreeInv'
  BY SameTree DEF IInv
<1>2. /\ frames \in Seq(Frame) /\ frames' \in Seq(Frame)
      /\ Depth \in Nat /\ Depth > 0
      /\ DOMAIN frames = 1..Depth /\ DOMAIN frames' = 1..(Depth - 1)
      /\ Len(frames') = Depth - 1
      /\ \A d \in 1..(Depth - 1) : frames'[d] = frames[d]
  <2>1. frames \in Seq(Frame)
    BY DEF IInv, TypeOK
  <2>2. Depth \in Nat /\ Depth # 0 /\ DOMAIN frames = 1..Depth
    BY <2>1, EmptySeq DEF Depth
  <2>3. QED
    BY <2>1, <2>2 DEF Depth
<1>3. Youngest \in Nat
  BY DEF IInv, TreeInv, Node
<1>4. Depth > 1 => Top.base = Youngest
  <2> SUFFICES ASSUME Depth > 1 PROVE Top.base = Youngest
    OBVIOUS
  <2>1. FrameInv(Depth) /\ Bound(Depth) = Youngest
    BY <1>2 DEF IInv, FramesInv, Bound
  <2>2. Top \in Frame
    BY <1>2 DEF Top
  <2>3. QED
    BY <1>3, <2>1, <2>2 DEF FrameInv, Top, NULL, Frame, Node
<1>5. \A d \in 1..(Depth - 1) : Bound(d)' = Bound(d)
  BY <1>1, <1>2, <1>4 DEF Bound, Depth, Top
<1>6. TypeOK'
  BY <1>2 DEF IInv, TypeOK, tree
<1>7. FramesInv'
  BY <1>1, <1>2, <1>5 DEF IInv, FramesInv, FrameInv, tree
<1>8. SavedInv'
  <2>1. \A i \in DOMAIN saved : saved[i].frame \in 1..(Depth - 1)
    BY <1>2 DEF IInv, SavedInv, OpenBlocks
  <2>2. QED
    BY <1>2, <1>5, <2>1 DEF IInv, SavedInv
<1>9. PhaseInv'
  BY DEF PhaseInv
<1>10. QED
  BY <1>1, <1>6, <1>7, <1>8, <1>9 DEF IInv

-----------------------------------------------------------------------------
(* Blocks. *)

(* The open blocks as a function, and what is saved in them. *)
LEMMA SavedFacts ==
    ASSUME IInv
    PROVE  /\ saved \in Seq(Block) /\ Len(saved) \in Nat /\ DOMAIN saved = 1..Len(saved)
           /\ \A i \in 1..Len(saved) : /\ saved[i] \in Block
                                      /\ saved[i].frame \in Nat
                                      /\ saved[i].scope \in Node
<1>1. saved \in Seq(Block) /\ Len(saved) \in Nat /\ DOMAIN saved = 1..Len(saved)
  BY DEF IInv, TypeOK
<1>2. \A i \in 1..Len(saved) : saved[i] \in Block
  BY <1>1
<1>3. QED
  BY <1>1, <1>2 DEF Block

(* What the frame records say when the scope of the running frame changes. *)
LEMMA NewScope ==
    ASSUME IInv, frames # <<>>, NEW n \in 0..Youngest, UNCHANGED tree,
           frames' = [frames EXCEPT ![Depth].scope = n]
    PROVE  /\ Depth \in Nat /\ Depth > 0 /\ DOMAIN frames = 1..Depth
           /\ frames' \in Seq(Frame) /\ Len(frames') = Depth /\ DOMAIN frames' = 1..Depth
           /\ Live' = Live /\ Youngest' = Youngest /\ TreeInv'
           /\ \A d \in 1..Depth : /\ Bound(d)' = Bound(d)
                                  /\ frames'[d].node = frames[d].node
                                  /\ frames'[d].scope = IF d = Depth THEN n
                                                        ELSE frames[d].scope
           /\ FramesInv'
<1>1. Live' = Live /\ Youngest' = Youngest /\ TreeInv'
  BY SameTree DEF IInv
<1>2. frames \in Seq(Frame)
  BY DEF IInv, TypeOK
<1>3. /\ Depth \in Nat /\ Depth > 0 /\ DOMAIN frames = 1..Depth
      /\ \A d \in 1..Depth : frames[d] \in Frame
  BY FrameFacts
<1>4. n \in Node
  BY BoundsAssumption DEF IInv, TreeInv, Node
<1>5. /\ frames' \in Seq(Frame) /\ Len(frames') = Depth /\ DOMAIN frames' = 1..Depth
      /\ \A d \in 1..Depth :
           frames'[d] = IF d = Depth THEN [frames[d] EXCEPT !.scope = n] ELSE frames[d]
  <2>1. [frames[Depth] EXCEPT !.scope = n] \in Frame
    BY <1>3, <1>4 DEF Frame
  <2>2. frames' = [frames EXCEPT ![Depth] = [frames[Depth] EXCEPT !.scope = n]]
    OBVIOUS
  <2>3. frames' \in Seq(Frame) /\ Len(frames') = Len(frames)
    BY <1>2, <1>3, <2>1, <2>2, ExceptSeq
  <2>4. QED
    BY <1>3, <2>2, <2>3 DEF Depth
<1>6. \A d \in 1..Depth : /\ frames'[d].node = frames[d].node
                          /\ frames'[d].fn = frames[d].fn
                          /\ frames'[d].base = frames[d].base
                          /\ frames'[d].entry = frames[d].entry
                          /\ frames'[d].head = frames[d].head
                          /\ frames'[d].scope = IF d = Depth THEN n ELSE frames[d].scope
  BY <1>3, <1>5 DEF Frame
<1>7. \A d \in 1..Depth : Bound(d)' = Bound(d)
  BY <1>1, <1>3, <1>5, <1>6 DEF Bound, Depth
<1>8. FramesInv'
  <2>1. \A d \in 1..Depth : FrameInv(d)' /\ frames'[d].base =< Youngest'
    <3> TAKE d \in 1..Depth
    <3>1. FrameInv(d) /\ frames[d].base =< Youngest
      BY <1>3 DEF IInv, FramesInv
    <3>2. frames'[d].scope =< Bound(d)'
      BY <1>3, <1>6, <1>7, <3>1 DEF FrameInv, Bound
    <3>3. QED
      BY <1>1, <1>6, <1>7, <3>1, <3>2 DEF FrameInv, tree
  <2>2. QED
    BY <1>3, <1>5, <1>6, <2>1 DEF IInv, FramesInv
<1>9. QED
  BY <1>1, <1>3, <1>5, <1>6, <1>7, <1>8

(* Entering a block saves the scope it was opened in. *)
LEMMA EnterKeeps ==
    ASSUME IInv, frames # <<>>, NEW n \in Live, UNCHANGED tree,
           saved' = Append(saved, [frame |-> Depth, scope |-> Scope]),
           frames' = [frames EXCEPT ![Depth].scope = n],
           phase' = "run", job' \in Job
    PROVE  IInv'
<1>1. n \in 0..Youngest
  BY DEF IInv, TreeInv
<1>2. /\ Depth \in Nat /\ Depth > 0 /\ DOMAIN frames = 1..Depth
      /\ frames' \in Seq(Frame) /\ DOMAIN frames' = 1..Depth
      /\ TreeInv' /\ FramesInv'
      /\ \A d \in 1..Depth : /\ Bound(d)' = Bound(d)
                             /\ frames'[d].node = frames[d].node
                             /\ frames'[d].scope = IF d = Depth THEN n
                                                   ELSE frames[d].scope
  BY <1>1, NewScope
<1> DEFINE s == [frame |-> Depth, scope |-> Scope]
<1>3. Scope \in Node /\ Scope =< Bound(Depth)
  <2>1. Top \in Frame /\ FrameInv(Depth)
    BY <1>2, FrameFacts DEF IInv, FramesInv, Top
  <2>2. QED
    BY <2>1 DEF FrameInv, Top, Scope, Frame
<1>4. saved \in Seq(Block) /\ s \in Block
  BY <1>2, <1>3, SavedFacts DEF Block
<1>5. /\ saved' \in Seq(Block) /\ Len(saved) \in Nat
      /\ DOMAIN saved = 1..Len(saved) /\ DOMAIN saved' = 1..(Len(saved) + 1)
      /\ \A i \in 1..Len(saved) : saved'[i] = saved[i]
      /\ saved'[Len(saved) + 1] = s
  BY <1>4
<1>6. TypeOK'
  BY <1>2, <1>5 DEF IInv, TypeOK, tree
<1>7. SavedInv'
  <2>1. /\ \A i \in 1..Len(saved) : /\ saved[i].frame \in 1..Depth
                                    /\ saved[i].scope =< Bound(saved[i].frame)
        /\ \A i, j \in 1..Len(saved) : i < j => saved[i].frame =< saved[j].frame
        /\ \A i \in 1..Len(saved) :
             (i = 1 \/ saved[i - 1].frame # saved[i].frame)
                => saved[i].scope = frames[saved[i].frame].node
        /\ \A d \in 1..Depth :
             (\A i \in 1..Len(saved) : saved[i].frame # d) => frames[d].scope = frames[d].node
    BY <1>2, <1>5 DEF IInv, SavedInv
  <2>2. Len(saved) = 0 \/ saved[Len(saved)].frame # Depth => Scope = frames[Depth].node
    <3> SUFFICES ASSUME Len(saved) = 0 \/ saved[Len(saved)].frame # Depth
                 PROVE  \A i \in 1..Len(saved) : saved[i].frame # Depth
      BY <1>2, <2>1 DEF Scope, Top
    <3>1. CASE Len(saved) = 0
      BY <3>1
    <3>2. CASE Len(saved) > 0 /\ saved[Len(saved)].frame # Depth
      <4>1. \A i \in 1..Len(saved) : saved[i].frame =< saved[Len(saved)].frame
        BY <1>4, <1>5, <2>1
      <4>2. saved[Len(saved)].frame < Depth
        <5>1. saved[Len(saved)].frame \in 1..Depth
          BY <1>5, <2>1, <3>2
        <5>2. QED
          BY <1>2, <3>2, <5>1
      <4>3. QED
        BY <1>2, <1>4, <1>5, <2>1, <4>1, <4>2
    <3>3. QED
      BY <1>5, <3>1, <3>2
  <2>3. \A i \in 1..(Len(saved) + 1) : /\ saved'[i].frame \in 1..Depth
                                       /\ (saved[i].scope =< Bound(saved[i].frame))'
    <3> TAKE i \in 1..(Len(saved) + 1)
    <3>1. saved'[i].frame \in 1..Depth
      BY <1>2, <1>5, <2>1
    <3>2. Bound(saved[i].frame)' = Bound(IF i = Len(saved) + 1 THEN Depth ELSE saved[i].frame)
      BY <1>2, <1>5, <2>1
    <3>3. QED
      BY <1>2, <1>3, <1>5, <2>1, <3>1, <3>2
  <2>4. \A i, j \in 1..(Len(saved) + 1) : i < j => saved'[i].frame =< saved'[j].frame
    BY <1>2, <1>5, <2>1
  <2>5. \A i \in 1..(Len(saved) + 1) :
          (i = 1 \/ saved'[i - 1].frame # saved'[i].frame)
             => saved'[i].scope = frames'[saved'[i].frame].node
    <3> TAKE i \in 1..(Len(saved) + 1)
    <3>1. CASE i = Len(saved) + 1
      <4> SUFFICES ASSUME i = 1 \/ saved'[i - 1].frame # saved'[i].frame
                   PROVE  saved'[i].scope = frames'[saved'[i].frame].node
        OBVIOUS
      <4>1. saved'[i].frame = Depth /\ saved'[i].scope = Scope
        <5>1. saved'[i] = s
          BY <1>5, <3>1
        <5>2. QED
          BY <5>1
      <4>2. Len(saved) = 0 \/ saved[Len(saved)].frame # Depth
        <5> SUFFICES ASSUME Len(saved) > 0 PROVE saved[Len(saved)].frame # Depth
          BY <1>5
        <5> DEFINE k == Len(saved)
        <5>1. i - 1 = k /\ i # 1 /\ k \in 1..k
          BY <1>5, <3>1, Successor
        <5>2. saved'[k] = saved[k]
          BY <1>5, <5>1
        <5>3. QED
          BY <4>1, <5>1, <5>2
      <4>3. QED
        BY <1>2, <2>2, <4>1, <4>2
    <3>2. CASE i \in 1..Len(saved)
      BY <1>2, <1>5, <2>1, <3>2
    <3>3. QED
      BY <1>5, <3>1, <3>2
  <2>6. \A d \in 1..Depth :
          (\A i \in 1..(Len(saved) + 1) : saved'[i].frame # d)
             => frames'[d].scope = frames'[d].node
    <3> TAKE d \in 1..Depth
    <3>1. CASE d = Depth
      BY <1>5, <3>1
    <3>2. CASE d # Depth
      BY <1>2, <1>5, <2>1, <3>2
    <3>3. QED
      BY <3>1, <3>2
  <2>7. QED
    BY <1>2, <1>5, <2>3, <2>4, <2>5, <2>6 DEF SavedInv
<1>8. PhaseInv'
  BY DEF PhaseInv
<1>9. QED
  BY <1>2, <1>6, <1>7, <1>8 DEF IInv

(* Leaving a block takes the scope back that it was opened in. *)
LEMMA LeaveKeeps ==
    ASSUME IInv, LeaveBlock
    PROVE  IInv'
<1> DEFINE k == Len(saved)
<1>1. /\ saved \in Seq(Block) /\ k \in Nat /\ DOMAIN saved = 1..k
      /\ saved' = SubSeq(saved, 1, k - 1)
      /\ frames # <<>> /\ OpenBlocks # {}
      /\ frames' = [frames EXCEPT ![Depth].scope = saved[k].scope]
      /\ UNCHANGED <<tree, phase, job>> /\ phase = "run"
  BY SavedFacts DEF LeaveBlock
<1>2. /\ \A i \in 1..k : /\ saved[i].frame \in 1..Depth
                         /\ saved[i].scope =< Bound(saved[i].frame)
      /\ \A i, j \in 1..k : i < j => saved[i].frame =< saved[j].frame
      /\ \A i \in 1..k : (i = 1 \/ saved[i - 1].frame # saved[i].frame)
                            => saved[i].scope = frames[saved[i].frame].node
      /\ \A d \in 1..Depth :
           (\A i \in 1..k : saved[i].frame # d) => frames[d].scope = frames[d].node
  BY <1>1, FrameFacts DEF IInv, SavedInv
<1>3. k > 0 /\ saved[k].frame = Depth
  <2>1. PICK i \in 1..k : saved[i].frame = Depth
    BY <1>1 DEF OpenBlocks
  <2>2. QED
    BY <1>1, <1>2, <2>1, FrameFacts
<1>4. saved[k].scope \in 0..Youngest
  <2>1. Bound(Depth) = Youngest
    BY <1>1, FrameFacts DEF Bound
  <2>2. saved[k].scope \in Nat
    BY <1>1, <1>3, NodeFacts, SavedFacts
  <2>3. QED
    BY <1>1, <1>2, <1>3, <2>1, <2>2, NodeFacts DEF IInv, TreeInv
<1>5. /\ Depth \in Nat /\ Depth > 0 /\ DOMAIN frames = 1..Depth
      /\ frames' \in Seq(Frame) /\ DOMAIN frames' = 1..Depth
      /\ TreeInv' /\ FramesInv'
      /\ \A d \in 1..Depth : /\ Bound(d)' = Bound(d)
                             /\ frames'[d].node = frames[d].node
                             /\ frames'[d].scope = IF d = Depth THEN saved[k].scope
                                                   ELSE frames[d].scope
  BY <1>1, <1>4, NewScope
<1>6. /\ saved' \in Seq(Block) /\ Len(saved') = k - 1 /\ DOMAIN saved' = 1..(k - 1)
      /\ \A i \in 1..(k - 1) : saved'[i] = saved[i]
  <2>1. 1 \in 1..(k + 1) /\ k - 1 \in 0..k
    BY <1>1, <1>3
  <2>2. QED
    BY <1>1, <1>3, <2>1, SubSeqProperties
<1>7. TypeOK'
  BY <1>1, <1>5, <1>6 DEF IInv, TypeOK, tree
<1>8. SavedInv'
  <2>1. \A i \in 1..(k - 1) : /\ saved'[i].frame \in 1..Depth
                              /\ (saved[i].scope =< Bound(saved[i].frame))'
    <3> TAKE i \in 1..(k - 1)
    <3>1. saved'[i].frame \in 1..Depth
      BY <1>1, <1>2, <1>6
    <3>2. Bound(saved[i].frame)' = Bound(saved[i].frame)
      BY <1>1, <1>2, <1>5, <1>6
    <3>3. QED
      BY <1>1, <1>2, <1>6, <3>1, <3>2
  <2>2. \A i, j \in 1..(k - 1) : i < j => saved'[i].frame =< saved'[j].frame
    BY <1>1, <1>2, <1>6
  <2>3. \A i \in 1..(k - 1) :
          (i = 1 \/ saved'[i - 1].frame # saved'[i].frame)
             => saved'[i].scope = frames'[saved'[i].frame].node
    BY <1>1, <1>2, <1>5, <1>6
  <2>4. \A d \in 1..Depth :
          (\A i \in 1..(k - 1) : saved'[i].frame # d)
             => frames'[d].scope = frames'[d].node
    <3> TAKE d \in 1..Depth
    <3> HAVE \A i \in 1..(k - 1) : saved'[i].frame # d
    <3>1. CASE d = Depth
      <4>1. k = 1 \/ saved[k - 1].frame # saved[k].frame
        <5> SUFFICES ASSUME k # 1 PROVE saved[k - 1].frame # Depth
          BY <1>3
        <5>1. k - 1 \in 1..(k - 1)
          BY <1>1, <1>3
        <5>2. QED
          BY <1>6, <3>1, <5>1
      <4>2. saved[k].scope = frames[Depth].node
        BY <1>1, <1>2, <1>3, <4>1
      <4>3. QED
        BY <1>5, <3>1, <4>2
    <3>2. CASE d # Depth
      <4>1. \A i \in 1..k : i = k \/ i \in 1..(k - 1)
        BY <1>1
      <4>2. \A i \in 1..k : saved[i].frame # d
        BY <1>3, <1>6, <3>2, <4>1
      <4>3. QED
        BY <1>2, <1>5, <3>2, <4>2
    <3>3. QED
      BY <3>1, <3>2
  <2>5. QED
    BY <1>5, <1>6, <2>1, <2>2, <2>3, <2>4 DEF SavedInv
<1>9. PhaseInv'
  BY <1>1 DEF PhaseInv
<1>10. QED
  BY <1>5, <1>7, <1>8, <1>9 DEF IInv

-----------------------------------------------------------------------------
(* Nodes. *)

(* sabi_ns_add_scope makes a node: it becomes the youngest, and the head   *)
(* of the running frame's stack.                                           *)
LEMMA NewKeeps ==
    ASSUME IInv, AddNew
    PROVE  IInv'
<1> PICK n \in Node :
      /\ n = Youngest + 1
      /\ node' = [node EXCEPT ![n] = [name |-> Segment, parent |-> job.cur,
                                      type |-> job.type, target |-> job.target]]
      /\ stk' = [stk EXCEPT ![n] = Top.head]
      /\ frames' = [frames EXCEPT ![Depth].head = n]
      /\ next' = [next EXCEPT ![n] = child[job.cur]]
      /\ child' = [child EXCEPT ![job.cur] = n, ![n] = NULL]
      /\ job' = [job EXCEPT !.cur = n, !.pos = @ + 1]
  BY DEF AddNew
<1>1. /\ phase = "add" /\ UNCHANGED <<saved, phase>>
      /\ frames # <<>> /\ job.cur \in Live /\ job.target \in Live \cup {NULL}
  BY DEF AddNew, Adding, IInv, PhaseInv
<1>2. /\ Depth \in Nat /\ Depth > 0 /\ frames \in Seq(Frame) /\ DOMAIN frames = 1..Depth
      /\ \A d \in 1..Depth : frames[d] \in Frame
  BY <1>1, FrameFacts
<1>3. job \in Job /\ Segment \in Seg
  BY DEF IInv, TypeOK, AddNew, Adding, Segment, Job, NameString
<1>4. Youngest \in Nat /\ Live = 0..Youngest /\ n \in Nat
  BY BoundsAssumption DEF IInv, TreeInv, Node
<1> DEFINE r == [name |-> Segment, parent |-> job.cur,
                 type |-> job.type, target |-> job.target]
<1>5. r \in NodeRec /\ r.type # "free" /\ job.cur \in Node
  BY <1>1, <1>3 DEF NodeRec, Job, ObjectType, Live
<1>6. /\ node \in [Node -> NodeRec] /\ node' \in [Node -> NodeRec]
      /\ node'[n] = r /\ \A m \in Node : m # n => node'[m] = node[m]
  BY <1>5 DEF IInv, TypeOK
<1>7. Live' = 0..n
  <2>1. \A m \in Node : m \in Live <=> m \in 0..Youngest
    BY <1>4
  <2>2. \A m \in Node : m \in Live' <=> m \in 0..n
    BY <1>4, <1>5, <1>6, <2>1, BoundsAssumption DEF Live, Node
  <2>3. QED
    BY <1>4, <2>2, BoundsAssumption DEF Live, Node
<1>8. Youngest' = n
  BY <1>4, <1>7, YoungestAfter
<1>9. TreeInv'
  <2>1. r.parent \in 0..(n - 1) /\ (r.target # NULL => r.target \in 0..(n - 1))
    BY <1>1, <1>4
  <2>2. n # Root
    BY <1>4 DEF Root
  <2>3. Root \in Node /\ Root # n
    BY <1>4, BoundsAssumption DEF Root, Node
  <2>4. \A m \in Node \ Live' : node'[m] = Blank
    BY <1>4, <1>6, <1>7 DEF IInv, TreeInv
  <2>5. \A m \in Live' : m = n \/ m \in Live
    BY <1>4, <1>7
  <2>6. QED
    BY <1>4, <1>6, <1>7, <1>8, <2>1, <2>3, <2>4, <2>5, BoundsAssumption
    DEF IInv, TreeInv, Live
<1>10. /\ frames' \in Seq(Frame) /\ Len(frames') = Depth /\ DOMAIN frames' = 1..Depth
       /\ \A d \in 1..Depth : /\ frames'[d].node = frames[d].node
                              /\ frames'[d].fn = frames[d].fn
                              /\ frames'[d].base = frames[d].base
                              /\ frames'[d].entry = frames[d].entry
                              /\ frames'[d].scope = frames[d].scope
                              /\ frames'[d].head = IF d = Depth THEN n ELSE frames[d].head
  <2>1. [frames[Depth] EXCEPT !.head = n] \in Frame
    <3>1. frames[Depth] \in Frame
      BY <1>2
    <3>2. QED
      BY <3>1 DEF Frame
  <2>2. frames' = [frames EXCEPT ![Depth] = [frames[Depth] EXCEPT !.head = n]]
    OBVIOUS
  <2>3. /\ frames' \in Seq(Frame) /\ Len(frames') = Len(frames)
        /\ \A d \in 1..Depth :
             frames'[d] = IF d = Depth THEN [frames[Depth] EXCEPT !.head = n] ELSE frames[d]
    BY <1>2, <2>1, <2>2, ExceptSeq DEF Depth
  <2>4. QED
    BY <1>2, <2>3 DEF Depth, Frame
<1>11. \A d \in 1..Depth : Bound(d)' = IF d = Depth THEN n ELSE Bound(d)
  BY <1>2, <1>8, <1>10 DEF Bound, Depth
<1>12. \A d \in 1..Depth : /\ FrameInv(d) /\ frames[d].base =< Youngest
                           /\ frames[d].base \in Nat /\ Bound(d) =< Youngest
                           /\ Bound(d) \in Nat
  <2> TAKE d \in 1..Depth
  <2>1. FrameInv(d) /\ frames[d].base =< Youngest /\ frames[d].base \in Nat
    BY <1>2 DEF IInv, FramesInv, Frame, Node
  <2>2. Bound(d) =< Youngest /\ Bound(d) \in Nat
    <3>1. CASE d < Depth
      <4>1. d + 1 \in 1..Depth
        BY <1>2, <3>1
      <4>2. QED
        BY <1>2, <3>1, <4>1 DEF IInv, FramesInv, Bound, Frame, Node
    <3>2. CASE d = Depth
      BY <1>2, <1>4, <3>2 DEF Bound
    <3>3. QED
      BY <1>2, <3>1, <3>2
  <2>3. QED
    BY <2>1, <2>2
<1>13. TypeOK'
  <2>1. job' \in Job
    <3>1. job.pos + 1 \in Nat \ {0} /\ n \in Node \cup {NULL}
      BY <1>3 DEF Job
    <3>2. job' = [job EXCEPT !.cur = n, !.pos = job.pos + 1]
      OBVIOUS
    <3>3. QED
      BY <1>3, <3>1, <3>2 DEF Job
  <2>2. Top.head \in Node \cup {NULL}
    BY <1>2 DEF Top, Frame
  <2>3. /\ stk' \in [Node -> Node \cup {NULL}] /\ child' \in [Node -> Node \cup {NULL}]
        /\ next' \in [Node -> Node \cup {NULL}]
    BY <1>5, <2>2 DEF IInv, TypeOK
  <2>4. QED
    BY <1>1, <1>6, <1>10, <2>1, <2>3 DEF IInv, TypeOK
<1>14. FramesInv'
  <2>1. ASSUME NEW d \in 1..Depth
        PROVE  FrameInv(d)' /\ frames'[d].base =< Youngest'
    <3>1. frames'[d].entry = [m \in Node |-> IF m =< frames'[d].base THEN node'[m] ELSE Blank]
      <4>1. frames[d].entry = [m \in Node |-> IF m =< frames[d].base THEN node[m] ELSE Blank]
        BY <1>12 DEF FrameInv
      <4>2. \A m \in Node : m =< frames[d].base => node'[m] = node[m]
        BY <1>4, <1>6, <1>12, NodeFacts
      <4>3. QED
        BY <1>10, <4>1, <4>2
    <3>2. \A m \in (frames[d].base + 1)..(IF d = Depth THEN n ELSE Bound(d)) :
             stk'[m] = IF m - 1 > frames[d].base THEN m - 1 ELSE NULL
      <4> TAKE m \in (frames[d].base + 1)..(IF d = Depth THEN n ELSE Bound(d))
      <4>1. m \in Node
        BY <1>4, <1>12, BoundsAssumption DEF Node
      <4>2. CASE m = n
        <5>1. d = Depth
          BY <1>4, <1>12, <4>2
        <5>2. Bound(Depth) = Youngest /\ FrameInv(Depth)
          BY <1>2, <1>12 DEF Bound
        <5>3. stk'[m] = frames[Depth].head
          BY <4>1, <4>2 DEF IInv, TypeOK, Top
        <5>4. QED
          BY <1>4, <1>12, <4>2, <5>1, <5>2, <5>3 DEF FrameInv
      <4>3. CASE m # n
        <5>1. stk'[m] = stk[m]
          BY <4>1, <4>3 DEF IInv, TypeOK
        <5>2. m \in (frames[d].base + 1)..Bound(d)
          BY <1>2, <1>4, <1>12, <4>3 DEF Bound
        <5>3. QED
          BY <1>12, <5>1, <5>2 DEF FrameInv
      <4>4. QED
        BY <4>2, <4>3
    <3>3. /\ frames[d].scope =< Bound(d) /\ frames[d].scope \in Nat
          /\ frames[d].node =< frames[d].base
          /\ frames[d].fn = "table" => d = 1
          /\ frames[d].head = IF frames[d].base < Bound(d) THEN Bound(d) ELSE NULL
          /\ frames[d].base =< Bound(d)
      BY <1>2, <1>12, NodeFacts DEF FrameInv, Frame
    <3>4. /\ (frames[d].base =< Bound(d))'
          /\ (frames[d].head = IF frames[d].base < Bound(d) THEN Bound(d) ELSE NULL)'
          /\ (frames[d].scope =< Bound(d))'
      BY <1>4, <1>10, <1>11, <1>12, <3>3
    <3>5. (\A m \in (frames[d].base + 1)..Bound(d) :
             stk[m] = IF m - 1 > frames[d].base THEN m - 1 ELSE NULL)'
      BY <1>10, <1>11, <3>2
    <3>6. (frames[d].node =< frames[d].base)' /\ (frames[d].fn = "table" => d = 1)'
      BY <1>10, <3>3
    <3>7. FrameInv(d)'
      BY <3>1, <3>4, <3>5, <3>6 DEF FrameInv
    <3>8. QED
      BY <1>4, <1>8, <1>10, <1>12, <3>7
  <2>2. QED
    BY <1>2, <1>10, <2>1 DEF IInv, FramesInv
<1>15. SavedInv'
  <2>1. \A i \in DOMAIN saved : saved[i].frame \in 1..Depth
    BY <1>2 DEF IInv, SavedInv
  <2>2. \A i \in DOMAIN saved : saved[i].scope =< Bound(saved[i].frame) /\ saved[i].scope \in Nat
    BY NodeFacts, SavedFacts DEF IInv, SavedInv
  <2>3. \A i \in DOMAIN saved : (saved[i].scope =< Bound(saved[i].frame))'
    BY <1>1, <1>4, <1>11, <1>12, <2>1, <2>2
  <2>4. QED
    BY <1>1, <1>2, <1>10, <2>1, <2>3 DEF IInv, SavedInv
<1>16. PhaseInv'
  <2>1. frames' # <<>>
    BY <1>2, <1>10
  <2>2. job'.cur = n /\ job'.target = job.target
    BY <1>3 DEF Job
  <2>3. QED
    BY <1>1, <1>4, <1>7, <2>1, <2>2 DEF PhaseInv
<1>17. QED
  BY <1>9, <1>13, <1>14, <1>15, <1>16 DEF IInv

(* What is known of the bases and bounds of the frames. *)
LEMMA BoundFacts ==
    ASSUME IInv
    PROVE  \A d \in 1..Depth :
             /\ FrameInv(d) /\ frames[d].base =< Youngest /\ frames[d].base \in Nat
             /\ Bound(d) \in Nat /\ Bound(d) =< Youngest
             /\ d < Depth => /\ Bound(d) =< frames[Depth].base
                             /\ frames[d].base =< frames[Depth].base
             /\ d = Depth => Bound(d) = Youngest
<1> TAKE d \in 1..Depth
<1>1. /\ Depth \in Nat /\ DOMAIN frames = 1..Depth
      /\ \A e \in 1..Depth : frames[e].base \in Nat
      /\ Youngest \in Nat
  BY FrameFacts, NodeFacts DEF IInv, TreeInv, Frame
<1>2. /\ FrameInv(d) /\ frames[d].base =< Youngest /\ frames[Depth].base =< Youngest
      /\ \A e \in 1..Depth : \A f \in 1..Depth : e < f => frames[e].base =< frames[f].base
  BY <1>1 DEF IInv, FramesInv
<1>3. CASE d = Depth
  BY <1>1, <1>2, <1>3 DEF Bound
<1>4. CASE d < Depth
  <2>1. d + 1 \in 1..Depth /\ Depth \in 1..Depth /\ Bound(d) = frames[d + 1].base
    BY <1>1, <1>4 DEF Bound
  <2>2. d + 1 = Depth \/ d + 1 < Depth
    BY <1>1, <1>4
  <2>3. frames[d + 1].base =< frames[Depth].base
    BY <1>1, <1>2, <2>1, <2>2
  <2>4. QED
    BY <1>1, <1>2, <1>4, <2>1, <2>3
<1>5. QED
  BY <1>1, <1>3, <1>4

(* What sabi_free_state frees is the youngest node, and its stack leads to *)
(* the node of the same frame that is the youngest after it.               *)
LEMMA FreedNode ==
    ASSUME IInv, phase = "free", Top.head # NULL
    PROVE  /\ frames # <<>> /\ Depth \in Nat /\ Depth > 0
           /\ Top.head = Youngest /\ Top.base < Youngest
           /\ Top.scope =< Top.base
           /\ stk[Youngest] = IF Youngest - 1 > Top.base THEN Youngest - 1 ELSE NULL
<1>1. frames # <<>> /\ OpenBlocks = {}
  BY DEF IInv, PhaseInv
<1>2. Depth \in Nat /\ Depth > 0 /\ Depth \in 1..Depth /\ Top \in Frame
  BY <1>1, FrameFacts DEF Top
<1>3. /\ FrameInv(Depth) /\ Top.base =< Youngest /\ Top.base \in Nat
      /\ Bound(Depth) = Youngest /\ Youngest \in Nat
  BY <1>2, BoundFacts DEF Top
<1>4. Top.head = Youngest /\ Top.base < Youngest
  BY <1>3 DEF FrameInv, Top
<1>5. stk[Youngest] = IF Youngest - 1 > Top.base THEN Youngest - 1 ELSE NULL
  <2>1. Youngest \in (frames[Depth].base + 1)..Bound(Depth)
    BY <1>3, <1>4 DEF Top
  <2>2. QED
    BY <1>3, <2>1 DEF FrameInv, Top
<1>6. Top.scope =< Top.base
  <2>1. \A i \in DOMAIN saved : saved[i].frame # Depth
    BY <1>1 DEF OpenBlocks
  <2>2. Top.scope = Top.node
    BY <1>2, <2>1, FrameFacts DEF IInv, SavedInv, Top
  <2>3. QED
    BY <1>3, <2>2 DEF FrameInv, Top
<1>7. QED
  BY <1>1, <1>2, <1>4, <1>5, <1>6

(* Freeing it keeps the invariant. *)
LEMMA FreeKeeps ==
    ASSUME IInv, FreeNode
    PROVE  IInv'
<1> DEFINE n == Youngest
           h == stk[n]
<1>1. /\ phase = "free" /\ Top.head # NULL /\ UNCHANGED <<saved, phase, job>>
      /\ Unlink(Top.head)
      /\ frames' = [frames EXCEPT ![Depth].head = stk[Top.head]]
      /\ node' = [node EXCEPT ![Top.head] = Blank]
      /\ stk' = [stk EXCEPT ![Top.head] = NULL]
  BY DEF FreeNode
<1>2. /\ frames # <<>> /\ Depth \in Nat /\ Depth > 0
      /\ Top.head = n /\ Top.base < n /\ Top.scope =< Top.base
      /\ h = IF n - 1 > Top.base THEN n - 1 ELSE NULL
  BY <1>1, FreedNode
<1>3. /\ Unlink(n) /\ frames' = [frames EXCEPT ![Depth].head = h]
      /\ node' = [node EXCEPT ![n] = Blank] /\ stk' = [stk EXCEPT ![n] = NULL]
  BY <1>1, <1>2
<1>4. /\ frames \in Seq(Frame) /\ DOMAIN frames = 1..Depth /\ Depth \in 1..Depth
      /\ \A d \in 1..Depth : frames[d] \in Frame
      /\ Top \in Frame /\ Top = frames[Depth] /\ Top.base \in Nat
  <2>1. /\ frames \in Seq(Frame) /\ DOMAIN frames = 1..Depth /\ Depth \in 1..Depth
        /\ \A d \in 1..Depth : frames[d] \in Frame
    BY <1>2, FrameFacts
  <2>2. Top \in Frame /\ Top = frames[Depth]
    BY <2>1 DEF Top
  <2>3. QED
    BY <2>1, <2>2, NodeFacts DEF Frame
<1>5. n \in Node /\ n \in Nat /\ n > 0 /\ n - 1 \in Nat /\ Live = 0..n
  BY <1>2, <1>4, NodeFacts DEF IInv, TreeInv
<1>6. /\ node \in [Node -> NodeRec] /\ node' \in [Node -> NodeRec] /\ Blank \in NodeRec
      /\ node'[n] = Blank /\ \A m \in Node : m # n => node'[m] = node[m]
  <2>1. Blank \in NodeRec
    BY DEF Blank, NodeRec
  <2>2. QED
    BY <1>3, <1>5, <2>1 DEF IInv, TypeOK
<1>7. Live' = 0..(n - 1)
  <2>1. \A m \in Node : m \in Live <=> m \in 0..n
    BY <1>5
  <2>2. \A m \in Node : m \in Live' <=> m \in 0..(n - 1)
    BY <1>5, <1>6, <2>1, NodeFacts DEF Live, Blank
  <2>3. \A m \in 0..(n - 1) : m \in Node
    BY <1>5, NodeFacts
  <2>4. QED
    BY <2>2, <2>3 DEF Live
<1>8. Youngest' = n - 1
  BY <1>5, <1>7, YoungestAfter
<1>9. TreeInv'
  <2>1. Youngest' \in Node /\ Live' = 0..Youngest'
    BY <1>5, <1>7, <1>8, NodeFacts
  <2>2. Root \in Node /\ Root # n
    BY <1>5, NodeFacts DEF Root
  <2>3. \A m \in Live' : m \in Live /\ m \in Node /\ m # n
    BY <1>5, <1>7, NodeFacts
  <2>4. \A m \in Node \ Live' : node'[m] = Blank
    <3> TAKE m \in Node \ Live'
    <3>1. m = n \/ m \in Node \ Live
      BY <1>5, <1>7, NodeFacts
    <3>2. QED
      BY <1>6, <3>1 DEF IInv, TreeInv
  <2>5. QED
    BY <1>6, <2>1, <2>2, <2>3, <2>4 DEF IInv, TreeInv
<1>10. /\ frames' \in Seq(Frame) /\ Len(frames') = Depth /\ DOMAIN frames' = 1..Depth
       /\ \A d \in 1..Depth : /\ frames'[d].node = frames[d].node
                              /\ frames'[d].fn = frames[d].fn
                              /\ frames'[d].base = frames[d].base
                              /\ frames'[d].entry = frames[d].entry
                              /\ frames'[d].scope = frames[d].scope
                              /\ frames'[d].head = IF d = Depth THEN h ELSE frames[d].head
  <2>1. [frames[Depth] EXCEPT !.head = h] \in Frame
    <3>1. frames[Depth] \in Frame
      BY <1>4
    <3>2. h \in Node \cup {NULL}
      BY <1>5 DEF IInv, TypeOK
    <3>3. QED
      BY <3>1, <3>2 DEF Frame
  <2>2. frames' = [frames EXCEPT ![Depth] = [frames[Depth] EXCEPT !.head = h]]
    BY <1>3
  <2>3. /\ frames' \in Seq(Frame) /\ Len(frames') = Len(frames)
        /\ \A d \in 1..Depth :
             frames'[d] = IF d = Depth THEN [frames[Depth] EXCEPT !.head = h] ELSE frames[d]
    BY <1>4, <2>1, <2>2, ExceptSeq DEF Depth
  <2>4. QED
    BY <1>4, <2>3 DEF Depth, Frame
<1>11. \A d \in 1..Depth : Bound(d)' = IF d = Depth THEN n - 1 ELSE Bound(d)
  <2> TAKE d \in 1..Depth
  <2>1. Depth' = Depth
    BY <1>10 DEF Depth
  <2>2. CASE d = Depth
    BY <1>2, <1>8, <2>1, <2>2 DEF Bound
  <2>3. CASE d # Depth
    <3>1. d < Depth /\ d + 1 \in 1..Depth
      BY <1>2, <2>3
    <3>2. QED
      BY <1>10, <2>1, <2>3, <3>1 DEF Bound
  <2>4. QED
    BY <2>2, <2>3
<1>12. TypeOK'
  <2>1. /\ stk' \in [Node -> Node \cup {NULL}] /\ next' \in [Node -> Node \cup {NULL}]
        /\ child' \in [Node -> Node \cup {NULL}]
    BY <1>3, <1>5 DEF IInv, TypeOK, Unlink
  <2>2. QED
    BY <1>1, <1>6, <1>10, <2>1 DEF IInv, TypeOK
<1>13. FramesInv'
  <2>1. ASSUME NEW d \in 1..Depth
        PROVE  FrameInv(d)' /\ frames'[d].base =< Youngest'
    <3>1. /\ FrameInv(d) /\ frames[d].base \in Nat /\ frames[d].base =< n - 1
          /\ Bound(d) \in Nat
          /\ d # Depth => Bound(d) =< n - 1
      BY <1>2, <1>4, <1>5, BoundFacts
    <3>2. frames'[d].entry = [m \in Node |-> IF m =< frames'[d].base THEN node'[m] ELSE Blank]
      <4>1. frames[d].entry = [m \in Node |-> IF m =< frames[d].base THEN node[m] ELSE Blank]
        BY <3>1 DEF FrameInv
      <4>2. \A m \in Node : m =< frames[d].base => node'[m] = node[m]
        <5> TAKE m \in Node
        <5> HAVE m =< frames[d].base
        <5>1. m # n
          BY <1>5, <3>1, NodeFacts
        <5>2. QED
          BY <1>6, <5>1
      <4>3. QED
        BY <1>10, <4>1, <4>2
    <3>3. \A m \in (frames[d].base + 1)..(IF d = Depth THEN n - 1 ELSE Bound(d)) :
             stk'[m] = IF m - 1 > frames[d].base THEN m - 1 ELSE NULL
      <4> TAKE m \in (frames[d].base + 1)..(IF d = Depth THEN n - 1 ELSE Bound(d))
      <4>1. Bound(Depth) = n
        BY <1>4, BoundFacts
      <4>2. m \in (frames[d].base + 1)..Bound(d) /\ m # n /\ m \in 0..n
        <5>1. CASE d = Depth
          BY <1>5, <3>1, <4>1, <5>1
        <5>2. CASE d # Depth
          BY <1>5, <3>1, <5>2
        <5>3. QED
          BY <5>1, <5>2
      <4>3. m \in Node
        BY <1>5, <4>2, NodeFacts
      <4>4. stk'[m] = stk[m]
        BY <1>3, <4>2, <4>3 DEF IInv, TypeOK
      <4>5. QED
        BY <3>1, <4>2, <4>4 DEF FrameInv
    <3>4. /\ frames[d].scope =< Bound(d) /\ frames[d].scope \in Nat
          /\ frames[d].node =< frames[d].base
          /\ frames[d].fn = "table" => d = 1
          /\ frames[d].head = IF frames[d].base < Bound(d) THEN Bound(d) ELSE NULL
          /\ frames[d].base =< Bound(d)
      BY <1>4, <3>1, NodeFacts DEF FrameInv, Frame
    <3>5. (frames[d].base =< Bound(d))' /\ (frames[d].scope =< Bound(d))'
      BY <1>2, <1>4, <1>5, <1>10, <1>11, <3>1, <3>4
    <3>6. (frames[d].head = IF frames[d].base < Bound(d) THEN Bound(d) ELSE NULL)'
      BY <1>2, <1>4, <1>5, <1>10, <1>11, <3>1, <3>4
    <3>7. (\A m \in (frames[d].base + 1)..Bound(d) :
             stk[m] = IF m - 1 > frames[d].base THEN m - 1 ELSE NULL)'
      BY <1>10, <1>11, <3>3
    <3>8. (frames[d].node =< frames[d].base)' /\ (frames[d].fn = "table" => d = 1)'
      BY <1>10, <3>4
    <3>9. FrameInv(d)'
      BY <3>2, <3>5, <3>6, <3>7, <3>8 DEF FrameInv
    <3>10. QED
      BY <1>8, <1>10, <3>1, <3>9
  <2>2. QED
    BY <1>4, <1>10, <2>1 DEF IInv, FramesInv
<1>14. SavedInv'
  <2>1. \A i \in DOMAIN saved : saved[i].frame \in 1..Depth /\ saved[i].frame # Depth
    BY <1>1, <1>4 DEF IInv, SavedInv, PhaseInv, OpenBlocks
  <2>2. \A i \in DOMAIN saved : (saved[i].scope =< Bound(saved[i].frame))'
    BY <1>1, <1>11, <2>1 DEF IInv, SavedInv
  <2>3. QED
    BY <1>1, <1>4, <1>10, <2>1, <2>2 DEF IInv, SavedInv
<1>15. PhaseInv'
  <2>1. frames' # <<>> /\ Depth' = Depth
    <3>1. Len(frames') = Depth /\ Depth # 0
      BY <1>2, <1>10
    <3>2. QED
      BY <3>1, EmptySeq DEF Depth
  <2>2. frames'[Depth].fn = frames[Depth].fn
    BY <1>4, <1>10
  <2>3. QED
    BY <1>1, <2>1, <2>2 DEF IInv, PhaseInv, OpenBlocks, Top
<1>16. QED
  BY <1>9, <1>12, <1>13, <1>14, <1>15 DEF IInv

-----------------------------------------------------------------------------
(* Steps that only move the handler along. *)

(* The program stops. *)
LEMMA StopKeeps ==
    ASSUME IInv, NEW why \in {"panic", "fault"}, Stop(why)
    PROVE  IInv'
<1>1. TreeInv' /\ FramesInv' /\ SavedInv'
  BY Quiet DEF Stop
<1>2. TypeOK' /\ PhaseInv'
  BY DEF Stop, IInv, TypeOK, PhaseInv, tree
<1>3. QED
  BY <1>1, <1>2 DEF IInv

(* A definition starts on a name. *)
LEMMA StartKeeps ==
    ASSUME IInv, frames # <<>>, NEW nm \in NameString, NEW rest \in Seq(Seg),
           NEW type \in ObjectType, NEW target \in Live \cup {NULL}, NEW open \in BOOLEAN,
           StartAdd(nm, rest, type, target, open)
    PROVE  IInv'
<1> PICK start \in Live \cup {NULL} :
      IF start = NULL THEN Stop("fault")
      ELSE /\ phase' = "add"
           /\ job' = [name |-> nm, rest |-> rest, pos |-> 1, cur |-> start,
                      type |-> type, target |-> target, open |-> open]
           /\ UNCHANGED <<tree, frames, saved>>
  BY DEF StartAdd
<1>1. CASE start = NULL
  BY <1>1, StopKeeps
<1>2. CASE start # NULL
  <2>1. /\ phase' = "add" /\ UNCHANGED <<tree, frames, saved>>
        /\ job' = [name |-> nm, rest |-> rest, pos |-> 1, cur |-> start,
                   type |-> type, target |-> target, open |-> open]
    BY <1>2
  <2>2. Live' = Live /\ TreeInv' /\ FramesInv' /\ SavedInv'
    BY <2>1, Quiet
  <2>3. job' \in Job
    BY <2>1 DEF Job, Live
  <2>4. TypeOK' /\ PhaseInv'
    BY <1>2, <2>1, <2>2, <2>3 DEF IInv, TypeOK, PhaseInv, tree
  <2>5. QED
    BY <2>2, <2>4 DEF IInv
<1>3. QED
  BY <1>1, <1>2

(* Every step of the interpreter keeps the invariant. *)
LEMMA StepIInv == IInv /\ [Next]_vars => IInv'
<1> SUFFICES ASSUME IInv, [Next]_vars PROVE IInv'
  OBVIOUS
<1>1. CASE RegisterTable
  <2>1. Root \in Live
    BY NodeFacts DEF IInv, TreeInv, Root
  <2>2. QED
    BY <1>1, <2>1, PushKeeps DEF RegisterTable
<1>2. CASE EndTable
  <2>1. Depth = 1
    <3>1. Depth \in Nat /\ Depth > 0 /\ Depth \in DOMAIN frames
      BY <1>2, FrameFacts DEF EndTable
    <3>2. QED
      BY <1>2, <3>1 DEF IInv, FramesInv, FrameInv, EndTable, Top
  <2>2. QED
    BY <1>2, <2>1, PopKeeps DEF EndTable
<1>3. ASSUME NEW m \in Node, EvalMethod(m)
      PROVE  IInv'
  BY <1>3, PushKeeps DEF EvalMethod
<1>4. ASSUME NEW nm \in NameStrings, CallMethod(nm)
      PROVE  IInv'
  BY <1>4, PushKeeps, StopKeeps DEF CallMethod
<1>5. ASSUME NEW nm \in NameStrings, NEW type \in {"name", "method"}, DefObject(nm, type)
      PROVE  IInv'
  <2>1. nm \in NameString /\ type \in ObjectType /\ <<>> \in Seq(Seg)
    BY NamesAssumption DEF ObjectType
  <2>2. QED
    BY <1>5, <2>1, StartKeeps DEF DefObject
<1>6. ASSUME NEW src \in NameStrings, NEW nm \in NameStrings, DefAlias(src, nm)
      PROVE  IInv'
  <2>1. nm \in NameString /\ "alias" \in ObjectType /\ <<>> \in Seq(Seg)
    BY NamesAssumption DEF ObjectType
  <2>2. QED
    BY <1>6, <2>1, StartKeeps DEF DefAlias
<1>7. ASSUME NEW nm \in NameStrings, DefDevice(nm)
      PROVE  IInv'
  <2>1. nm \in NameString /\ "device" \in ObjectType /\ <<>> \in Seq(Seg)
    BY NamesAssumption DEF ObjectType
  <2>2. QED
    BY <1>7, <2>1, StartKeeps DEF DefDevice
<1>8. ASSUME NEW nm \in NameStrings, DefScope(nm)
      PROVE  IInv'
  <2>1. CASE Stop("panic")
    BY <2>1, StopKeeps
  <2>2. ASSUME NEW n \in Live,
               saved' = Append(saved, [frame |-> Depth, scope |-> Scope]),
               frames' = [frames EXCEPT ![Depth].scope = n],
               UNCHANGED <<tree, phase, job>>
        PROVE  IInv'
    <3>1. phase' = "run" /\ frames # <<>> /\ job' \in Job
      BY <1>8, <2>2 DEF DefScope, IInv, TypeOK
    <3>2. QED
      BY <2>2, <3>1, EnterKeeps
  <2>3. QED
    BY <1>8, <2>1, <2>2 DEF DefScope
<1>9. ASSUME NEW nm \in NameStrings, DefFaults(nm)
      PROVE  IInv'
  BY <1>9, StopKeeps DEF DefFaults
<1>10. ASSUME NEW nm \in NameStrings, NEW list \in FieldLists, DefField(nm, list)
       PROVE  IInv'
  <2>1. list \in Seq(Seg) /\ Len(list) > 0
    BY <1>10, FieldsAssumption DEF DefField, Room
  <2>2. Head(list) \in Seg /\ Tail(list) \in Seq(Seg)
    BY <2>1
  <2>3. Plain(Head(list)) \in NameString /\ "field" \in ObjectType
    BY <2>2 DEF Plain, NameString, ObjectType
  <2>4. QED
    BY <1>10, <2>2, <2>3, StartKeeps DEF DefField
<1>11. CASE EndMethod
  <2>1. TreeInv' /\ FramesInv' /\ SavedInv'
    BY <1>11, Quiet DEF EndMethod
  <2>2. TypeOK' /\ PhaseInv'
    BY <1>11 DEF EndMethod, IInv, TypeOK, PhaseInv, OpenBlocks, Top, Depth, tree
  <2>3. QED
    BY <2>1, <2>2 DEF IInv
<1>12. CASE FreeNode
  BY <1>12, FreeKeeps
<1>13. CASE FreeState
  BY <1>13, PopKeeps DEF FreeState, IInv, PhaseInv
<1>14. CASE AddExisting
  <2>1. PICK c \in Live : job' = [job EXCEPT !.cur = c, !.pos = job.pos + 1]
    BY <1>14 DEF AddExisting
  <2>2. Live' = Live /\ TreeInv' /\ FramesInv' /\ SavedInv'
    BY <1>14, Quiet DEF AddExisting
  <2>3. job' \in Job /\ job'.cur = c /\ job'.target = job.target
    <3>1. job \in Job /\ c \in Node
      BY DEF IInv, TypeOK, Live
    <3>2. job.pos + 1 \in Nat \ {0}
      BY <3>1 DEF Job
    <3>3. QED
      BY <2>1, <3>1, <3>2 DEF Job
  <2>4. TypeOK' /\ PhaseInv'
    <3>1. UNCHANGED <<tree, frames, saved, phase>> /\ phase = "add"
      BY <1>14 DEF AddExisting, Adding
    <3>2. TypeOK'
      BY <2>3, <3>1 DEF IInv, TypeOK, tree
    <3>3. PhaseInv'
      BY <2>2, <2>3, <3>1 DEF IInv, PhaseInv
    <3>4. QED
      BY <3>2, <3>3
  <2>5. QED
    BY <2>2, <2>4 DEF IInv
<1>15. CASE AddNew
  BY <1>15, NewKeeps
<1>16. CASE AddReturn
  <2>1. frames # <<>> /\ job.cur \in Live /\ job.target \in Live \cup {NULL} /\ job \in Job
    BY <1>16 DEF AddReturn, IInv, PhaseInv, TypeOK
  <2>2. NoJob \in Job
    BY DEF NoJob, Job, NameString, ObjectType
  <2>3. CASE /\ saved' = Append(saved, [frame |-> Depth, scope |-> Scope])
             /\ frames' = [frames EXCEPT ![Depth].scope = job.cur]
             /\ phase' = "run" /\ job' = NoJob
             /\ UNCHANGED tree
    BY <2>1, <2>2, <2>3, EnterKeeps
  <2>4. CASE /\ job.rest # <<>>
             /\ StartAdd(Plain(Head(job.rest)), Tail(job.rest), job.type, job.target, FALSE)
    <3>1. job.rest \in Seq(Seg) /\ job.type \in ObjectType
      BY <2>1 DEF Job
    <3>2. Head(job.rest) \in Seg /\ Tail(job.rest) \in Seq(Seg)
      BY <2>4, <3>1, HeadTailProperties
    <3>3. Plain(Head(job.rest)) \in NameString
      BY <3>2 DEF Plain, NameString
    <3>4. QED
      BY <2>1, <2>4, <3>1, <3>2, <3>3, StartKeeps
  <2>5. CASE phase' = "run" /\ job' = NoJob /\ UNCHANGED <<tree, frames, saved>>
    <3>1. TreeInv' /\ FramesInv' /\ SavedInv'
      BY <2>5, Quiet
    <3>2. TypeOK' /\ PhaseInv'
      BY <2>2, <2>5 DEF IInv, TypeOK, PhaseInv, tree
    <3>3. QED
      BY <3>1, <3>2 DEF IInv
  <2>6. QED
    BY <1>16, <2>3, <2>4, <2>5 DEF AddReturn
<1>17. CASE LeaveBlock
  BY <1>17, LeaveKeeps
<1>18. CASE UNCHANGED vars
  <2>1. UNCHANGED <<tree, frames, saved, phase, job>>
    BY <1>18 DEF vars, tree
  <2>2. Live' = Live /\ TreeInv' /\ FramesInv' /\ SavedInv'
    BY <2>1, Quiet
  <2>3. TypeOK' /\ PhaseInv'
    BY <2>1, <2>2 DEF IInv, TypeOK, PhaseInv, OpenBlocks, Top, Depth, tree
  <2>4. QED
    BY <2>2, <2>3 DEF IInv
<1>19. QED
  BY <1>1, <1>2, <1>3, <1>4, <1>5, <1>6, <1>7, <1>8, <1>9, <1>10, <1>11, <1>12, <1>13,
     <1>14, <1>15, <1>16, <1>17, <1>18 DEF Next

-----------------------------------------------------------------------------
(* The theorems. *)

(* The shape of the namespace and of the frames over it holds always. *)
THEOREM Shape == Spec => []IInv
<1>1. Init => IInv
  BY InitIInv
<1>2. IInv /\ [Next]_vars => IInv'
  BY StepIInv
<1>3. QED
  BY <1>1, <1>2, PTL DEF Spec

(* Every variable stays in its range. *)
THEOREM TypeCorrect == Spec => []TypeOK
<1>1. IInv => TypeOK
  BY DEF IInv
<1>2. QED
  BY <1>1, Shape, PTL

(* No pointer that is still in use leads to a freed node. *)
THEOREM NothingDangles == Spec => []NoDangling
<1>1. IInv => NoDangling
  <2> SUFFICES ASSUME IInv PROVE NoDangling
    OBVIOUS
  <2>1. Youngest \in Nat /\ Live = 0..Youngest
    BY NodeFacts DEF IInv, TreeInv
  <2>2. \A n \in Live \ {Root} : node[n].parent \in Live
    BY <2>1 DEF IInv, TreeInv
  <2>3. \A n \in Live : node[n].target = NULL \/ node[n].target \in Live
    BY <2>1 DEF IInv, TreeInv
  <2>4. \A d \in 1..Depth : /\ frames[d].node \in Live /\ frames[d].scope \in Live
                            /\ frames[d].head \in Live \cup {NULL}
    <3> TAKE d \in 1..Depth
    <3>1. /\ FrameInv(d) /\ frames[d].base =< Youngest /\ Bound(d) =< Youngest
          /\ frames[d].base \in Nat /\ Bound(d) \in Nat
      BY BoundFacts
    <3>2. frames[d].node \in Nat /\ frames[d].scope \in Nat
      BY FrameFacts, NodeFacts DEF Frame
    <3>3. frames[d].head = NULL \/ frames[d].head = Bound(d)
      BY <3>1 DEF FrameInv
    <3>4. QED
      BY <2>1, <3>1, <3>2, <3>3 DEF FrameInv
  <2>5. \A i \in DOMAIN saved : saved[i].scope \in Live
    <3> TAKE i \in DOMAIN saved
    <3>1. saved[i].frame \in 1..Depth /\ saved[i].scope =< Bound(saved[i].frame)
      BY FrameFacts DEF IInv, SavedInv
    <3>2. saved[i].scope \in Nat
      BY SavedFacts, NodeFacts
    <3>3. Bound(saved[i].frame) =< Youngest /\ Bound(saved[i].frame) \in Nat
      BY <3>1, BoundFacts
    <3>4. QED
      BY <2>1, <3>1, <3>2, <3>3
  <2>6. phase = "add" => job.cur \in Live /\ job.target \in Live \cup {NULL}
    BY DEF IInv, PhaseInv
  <2>7. frames # <<>> => Scope \in Live
    BY <2>4, FrameFacts DEF Scope, Top
  <2>8. QED
    BY <2>2, <2>3, <2>4, <2>5, <2>6, <2>7, FrameFacts DEF NoDangling
<1>2. QED
  BY <1>1, Shape, PTL

(* A frame without an open block is in the scope it began in. *)
THEOREM ScopeIsRestored == Spec => []ScopeRestored
<1>1. IInv => ScopeRestored
  <2> SUFFICES ASSUME IInv, frames # <<>>, OpenBlocks = {} PROVE Scope = Top.node
    BY DEF ScopeRestored
  <2>1. Depth \in DOMAIN frames
    BY FrameFacts
  <2>2. \A i \in DOMAIN saved : saved[i].frame # Depth
    BY DEF OpenBlocks
  <2>3. QED
    BY <2>1, <2>2 DEF IInv, SavedInv, Scope, Top
<1>2. QED
  BY <1>1, Shape, PTL

(* Only these two steps take a frame off the stack. *)
LEMMA Pops ==
    ASSUME IInv, [Next]_vars, Len(frames') < Depth
    PROVE  EndTable \/ FreeState
<1>1. frames \in Seq(Frame) /\ Depth \in Nat /\ Depth = Len(frames)
  BY FrameFacts DEF Depth
<1>2. frames' # frames
  BY <1>1
<1>3. ASSUME NEW x, frames' = Append(frames, x)
      PROVE  FALSE
  <2>1. Len(frames') = Depth + 1
    BY <1>1, <1>3
  <2>2. QED
    BY <1>1, <2>1
<1>4. ASSUME NEW x, frames' = [frames EXCEPT ![Depth] = x]
      PROVE  FALSE
  <2>1. DOMAIN frames' = DOMAIN frames
    BY <1>4
  <2>2. frames' \in Seq(Frame)
    BY StepIInv DEF IInv, TypeOK
  <2>3. Len(frames') = Depth
    BY <1>1, <2>1, <2>2
  <2>4. QED
    BY <1>1, <2>3
<1>5. \A why : Stop(why) => FALSE
  BY <1>2 DEF Stop
<1>6. \A nm, rest, type, target, open : StartAdd(nm, rest, type, target, open) => FALSE
  BY <1>2, <1>5 DEF StartAdd
<1>7. \A fn, n : PushFrame(fn, n) => FALSE
  BY <1>3 DEF PushFrame
<1>8. ~RegisterTable /\ (\A m : ~EvalMethod(m)) /\ (\A nm : ~CallMethod(nm))
  BY <1>5, <1>7 DEF RegisterTable, EvalMethod, CallMethod
<1>9. /\ \A nm, type : ~DefObject(nm, type)
      /\ \A src, nm : ~DefAlias(src, nm)
      /\ \A nm : ~DefDevice(nm) /\ ~DefFaults(nm)
      /\ \A nm, list : ~DefField(nm, list)
  BY <1>5, <1>6 DEF DefObject, DefAlias, DefDevice, DefFaults, DefField
<1>10. \A nm : ~DefScope(nm)
  BY <1>4, <1>5 DEF DefScope
<1>11. ~EndMethod /\ ~AddExisting /\ ~UNCHANGED vars
  BY <1>2 DEF EndMethod, AddExisting, vars
<1>12. ~FreeNode /\ ~AddNew /\ ~LeaveBlock
  BY <1>4 DEF FreeNode, AddNew, LeaveBlock
<1>13. ~AddReturn
  BY <1>2, <1>4, <1>6 DEF AddReturn
<1>14. QED
  BY <1>8, <1>9, <1>10, <1>11, <1>12, <1>13 DEF Next

(* When a method returns, the namespace is the one it was called in. *)
THEOREM MethodsRestore == Spec => FrameRestores
<1>1. IInv /\ [Next]_vars
        => [frames # <<>> /\ Len(frames') < Depth /\ Top.fn = "method" => node' = Top.entry]_vars
  <2> SUFFICES ASSUME IInv, [Next]_vars, frames # <<>>, Len(frames') < Depth,
                      Top.fn = "method"
               PROVE  node' = Top.entry
    OBVIOUS
  <2>1. FreeState
    BY Pops DEF EndTable
  <2>2. Top.head = NULL /\ node' = node
    BY <2>1 DEF FreeState, tree
  <2>3. /\ FrameInv(Depth) /\ Bound(Depth) = Youngest /\ Youngest \in Nat
        /\ Top = frames[Depth] /\ Top.base =< Youngest /\ Top.base \in Nat
    BY FrameFacts, BoundFacts, NodeFacts DEF Top, IInv, TreeInv
  <2>4. Top.base = Youngest
    BY <2>2, <2>3, NodeFacts DEF FrameInv
  <2>5. node = [m \in Node |-> IF m =< Youngest THEN node[m] ELSE Blank]
    BY <2>3, NodeFacts DEF IInv, TypeOK, TreeInv
  <2>6. QED
    BY <2>2, <2>3, <2>4, <2>5 DEF FrameInv
<1>2. QED
  BY <1>1, Shape, PTL DEF Spec, FrameRestores

-----------------------------------------------------------------------------
(***************************************************************************)
(* The tree: names are unique among siblings, the lists of children are    *)
(* exact, the namespace keeps the promise of ScopedNamespace, an alias     *)
(* stands for no alias, and what is defined is found.                      *)
(***************************************************************************)

(* A set of naturals that has a bound has a greatest element: its elements *)
(* with the least set of numbers above them.                               *)
LEMMA Greatest ==
    ASSUME NEW k \in Nat, NEW S, S \subseteq 0..k, S # {}
    PROVE  \E c \in S : \A d \in S : d =< c
<1> DEFINE T == {(c + 1)..k : c \in S}
           W == FiniteSubsetsOf(0..k)
           R == StrictSubsetOrdering(0..k)
<1>1. IsFiniteSet(0..k)
  BY FS_Interval
<1>2. IsWellFoundedOn(R, W)
  BY <1>1, FS_StrictSubsetOrderingWellFounded
<1>3. \A c \in S : (c + 1)..k \in W
  <2> TAKE c \in S
  <2>1. (c + 1)..k \in SUBSET (0..k)
    OBVIOUS
  <2>2. IsFiniteSet((c + 1)..k)
    BY <1>1, <2>1, FS_Subset
  <2>3. QED
    BY <2>1, <2>2 DEF FiniteSubsetsOf
<1>4. T \subseteq W /\ T # {}
  BY <1>3
<1>5. PICK x \in T : \A y \in T : ~(<<y, x>> \in R)
  <2> HIDE DEF T, W, R
  <2>1. QED
    BY <1>2, <1>4, WFMin
<1>6. PICK c \in S : x = (c + 1)..k
  OBVIOUS
<1>7. ASSUME NEW d \in S, c < d
      PROVE  FALSE
  <2>1. c \in Nat /\ d \in Nat /\ d =< k
    OBVIOUS
  <2>2. (d + 1)..k \subseteq (c + 1)..k /\ d \in (c + 1)..k /\ d \notin (d + 1)..k
    BY <1>7, <2>1
  <2>3. <<(d + 1)..k, x>> \in R
    BY <1>6, <2>2 DEF StrictSubsetOrdering
  <2>4. QED
    BY <1>5, <2>3
<1>8. QED
  BY <1>7

(* The first of a list that has these nodes, the youngest first. *)
First(S) == IF S = {} THEN NULL ELSE CHOOSE c \in S : \A d \in S : d =< c

(* It is the greatest of them. *)
LEMMA FirstIs ==
    ASSUME NEW k \in Nat, NEW S, S \subseteq 0..k
    PROVE  /\ S # {} => First(S) \in S /\ \A d \in S : d =< First(S)
           /\ S = {} => First(S) = NULL
           /\ \A c \in S : (\A d \in S : d =< c) => First(S) = c
<1>1. ASSUME S # {}
      PROVE  First(S) \in S /\ \A d \in S : d =< First(S)
  BY <1>1, Greatest DEF First
<1>2. ASSUME NEW c \in S, \A d \in S : d =< c
      PROVE  First(S) = c
  <2>1. First(S) \in S /\ First(S) =< c /\ c =< First(S)
    BY <1>1, <1>2
  <2>2. \A d \in S : d \in Nat
    OBVIOUS
  <2>3. First(S) \in Nat /\ c \in Nat
    BY <2>1, <2>2
  <2>4. QED
    BY <2>1, <2>3
<1>3. QED
  BY <1>1, <1>2 DEF First

-----------------------------------------------------------------------------
(* The two steps that change the tree. *)

(* All others leave it as it is. *)
LEMMA TreeSteps ==
    ASSUME [Next]_vars
    PROVE  UNCHANGED tree \/ FreeNode \/ AddNew
<1>1. \A why : Stop(why) => UNCHANGED tree
  BY DEF Stop
<1>2. \A nm, rest, type, target, open :
        StartAdd(nm, rest, type, target, open) => UNCHANGED tree
  BY <1>1 DEF StartAdd
<1>3. \A fn, n : PushFrame(fn, n) => UNCHANGED tree
  BY DEF PushFrame
<1>4. RegisterTable \/ (\E m \in Node : EvalMethod(m)) \/ (\E nm \in NameStrings : CallMethod(nm))
        => UNCHANGED tree
  BY <1>1, <1>3 DEF RegisterTable, EvalMethod, CallMethod
<1>5. \A nm, type, src, list :
        DefObject(nm, type) \/ DefAlias(src, nm) \/ DefDevice(nm) \/ DefScope(nm)
          \/ DefFaults(nm) \/ DefField(nm, list)
        => UNCHANGED tree
  BY <1>1, <1>2 DEF DefObject, DefAlias, DefDevice, DefScope, DefFaults, DefField
<1>6. EndTable \/ EndMethod \/ FreeState \/ AddExisting \/ LeaveBlock \/ UNCHANGED vars
        => UNCHANGED tree
  BY DEF EndTable, EndMethod, FreeState, AddExisting, LeaveBlock, vars, tree
<1>7. AddReturn => UNCHANGED tree
  BY <1>2 DEF AddReturn
<1>8. QED
  BY <1>4, <1>5, <1>6, <1>7 DEF Next

(* A node is made: the youngest of all, at the head of its parent's list. *)
LEMMA NewNode ==
    ASSUME IInv, AddNew, NEW n, n = Youngest + 1
    PROVE  /\ Live = 0..Youngest /\ Youngest \in Nat /\ n \in Node /\ Live' = 0..n
           /\ job.cur \in Live /\ job.target \in Live \cup {NULL}
           /\ node'[n] = [name |-> Segment, parent |-> job.cur,
                          type |-> job.type, target |-> job.target]
           /\ \A m \in Live : node'[m] = node[m]
           /\ \A m \in Live' : next'[m] = IF m = n THEN child[job.cur] ELSE next[m]
           /\ \A m \in Live' : child'[m] = IF m = n THEN NULL
                                           ELSE IF m = job.cur THEN n ELSE child[m]
<1>1. Youngest \in Nat /\ Live = 0..Youngest
  BY NodeFacts DEF IInv, TreeInv
<1>2. /\ n \in Node
      /\ node' = [node EXCEPT ![n] = [name |-> Segment, parent |-> job.cur,
                                      type |-> job.type, target |-> job.target]]
      /\ next' = [next EXCEPT ![n] = child[job.cur]]
      /\ child' = [child EXCEPT ![job.cur] = n, ![n] = NULL]
  BY DEF AddNew
<1>3. job.cur \in Live /\ job.target \in Live \cup {NULL}
  BY DEF IInv, PhaseInv, AddNew, Adding
<1>4. Youngest' = n /\ Live' = 0..n
  <2>1. IInv'
    BY NewKeeps
  <2>2. Live' = 0..Youngest' /\ Youngest' \in Nat
    BY <2>1, NodeFacts DEF IInv, TreeInv
  <2>3. node \in [Node -> NodeRec] /\ job.type # "free"
    BY DEF IInv, TypeOK, Job, ObjectType
  <2>4. \A m \in Node : m \in Live' <=> m \in 0..n
    <3>1. \A m \in Node : m # n => node'[m] = node[m]
      BY <1>2
    <3>2. node'[n].type # "free"
      BY <1>2, <2>3
    <3>3. \A m \in Node : m # n => (m \in Live' <=> m \in Live)
      BY <3>1 DEF Live
    <3>4. n \in Live'
      BY <1>2, <3>2 DEF Live
    <3>5. QED
      BY <1>1, <1>2, <3>3, <3>4, NodeFacts
  <2>5. \A m \in 0..n : m \in Node
    BY <1>2, NodeFacts
  <2>6. Live' = 0..n
    BY <2>4, <2>5 DEF Live
  <2>7. QED
    BY <1>1, <2>6, YoungestAfter
<1>5. \A m \in Live' : m \in Node /\ (m # n => m \in Live)
  BY <1>1, <1>4 DEF Live
<1>6. /\ node \in [Node -> NodeRec] /\ child \in [Node -> Node \cup {NULL}]
      /\ next \in [Node -> Node \cup {NULL}]
  BY DEF IInv, TypeOK
<1>7. n \notin Live /\ job.cur # n /\ \A m \in Live : m \in Node /\ m # n
  BY <1>1, <1>3 DEF Live
<1>10. node'[n] = [name |-> Segment, parent |-> job.cur,
                   type |-> job.type, target |-> job.target]
  BY <1>2, <1>6
<1>11. \A m \in Live : node'[m] = node[m]
  BY <1>2, <1>6, <1>7
<1>12. \A m \in Live' : next'[m] = IF m = n THEN child[job.cur] ELSE next[m]
  BY <1>2, <1>5, <1>6
<1>13. \A m \in Live' : child'[m] = IF m = n THEN NULL
                                    ELSE IF m = job.cur THEN n ELSE child[m]
  BY <1>2, <1>5, <1>6, <1>7
<1>14. QED
  BY <1>1, <1>2, <1>3, <1>4, <1>10, <1>11, <1>12, <1>13

(* A node is freed: the youngest of all, and out of its parent's list. *)
LEMMA GoneNode ==
    ASSUME IInv, FreeNode, NEW n, n = Youngest, NEW p, p = node[n].parent
    PROVE  /\ Live = 0..n /\ n \in Nat /\ n > 0 /\ Live' = 0..(n - 1) /\ p \in Live'
           /\ \A m \in Live' : node'[m] = node[m]
           /\ child[p] = n => next' = [m \in Node |-> IF m = n THEN NULL ELSE next[m]]
           /\ child'[n] = NULL /\ \A m \in Node : m # p /\ m # n => child'[m] = child[m]
           /\ \A m \in Live' : child'[m] = IF m = p /\ child[m] = n THEN next[n] ELSE child[m]
<1>1. n \in Nat /\ n \in Node /\ Live = 0..n
  BY NodeFacts DEF IInv, TreeInv
<1>2. Top.head = n /\ Top.base < n /\ Depth \in Nat /\ Depth > 0
  BY FreedNode DEF FreeNode
<1>3. Unlink(n) /\ node' = [node EXCEPT ![n] = Blank]
  BY <1>2 DEF FreeNode
<1>4. n > 0
  <2>1. Depth \in 1..Depth
    BY <1>2
  <2>2. Top \in Frame
    BY <2>1, FrameFacts DEF Top
  <2>3. Top.base \in Nat
    BY <2>2, NodeFacts DEF Frame
  <2>4. QED
    BY <1>1, <1>2, <2>3
<1>5. /\ node \in [Node -> NodeRec] /\ child \in [Node -> Node \cup {NULL}]
      /\ next \in [Node -> Node \cup {NULL}]
  BY DEF IInv, TypeOK
<1>6. Live' = 0..(n - 1)
  <2>1. \A m \in Node : m # n => node'[m] = node[m]
    BY <1>3, <1>5
  <2>2. node'[n].type = "free"
    BY <1>1, <1>3, <1>5 DEF Blank
  <2>3. \A m \in Node : m \in Live' <=> m \in Live /\ m # n
    BY <2>1, <2>2 DEF Live
  <2>4. \A m \in 0..n : m \in Node
    BY <1>1, NodeFacts
  <2>5. \A m : m \in Live' <=> m \in 0..(n - 1)
    <3>1. \A m \in Live' : m \in Node
      BY DEF Live
    <3>2. \A m \in 0..(n - 1) : m \in 0..n /\ m # n
      BY <1>1
    <3>3. \A m \in 0..n : m # n => m \in 0..(n - 1)
      BY <1>1
    <3>4. QED
      BY <1>1, <2>3, <2>4, <3>1, <3>2, <3>3
  <2>6. QED
    BY <2>5
<1>7. \A m \in Live' : m \in Node /\ m # n
  BY <1>1, <1>4, <1>6 DEF Live
<1>8. p \in 0..(n - 1)
  <2>1. n \in Live \ {Root}
    BY <1>1, <1>4 DEF Root
  <2>2. QED
    BY <2>1 DEF IInv, TreeInv
<1>9. \A m \in Live' : node'[m] = node[m]
  BY <1>3, <1>5, <1>7
<1>10. child[p] = n => next' = [m \in Node |-> IF m = n THEN NULL ELSE next[m]]
  <2> SUFFICES ASSUME child[p] = n
               PROVE  next' = [m \in Node |-> IF m = n THEN NULL ELSE next[m]]
    OBVIOUS
  <2>1. next' = [m \in Node |-> IF m = n THEN NULL
                               ELSE IF m = NULL THEN next[n] ELSE next[m]]
    BY <1>3 DEF Unlink
  <2>2. \A m \in Node : m # NULL
    BY NodeFacts
  <2>3. QED
    BY <2>1, <2>2
<1>11. \A m \in Live' : child'[m] = IF m = p /\ child[m] = n THEN next[n] ELSE child[m]
  BY <1>1, <1>3, <1>5, <1>6, <1>7, <1>8 DEF Unlink
<1>12. child'[n] = NULL /\ \A m \in Node : m # p /\ m # n => child'[m] = child[m]
  BY <1>1, <1>3, <1>5, NodeFacts DEF Unlink
<1>13. QED
  BY <1>1, <1>4, <1>6, <1>8, <1>9, <1>10, <1>11, <1>12

-----------------------------------------------------------------------------
(* The lists are exact. *)

(* h heads a list of these nodes, the youngest first. *)
Heads(h, S) == \/ S = {} /\ h = NULL
               \/ h \in S /\ \A d \in S : d =< h

(* There is one node that heads a list. *)
LEMMA HeadsFirst ==
    ASSUME NEW k \in Nat, NEW S, S \subseteq 0..k, NEW h
    PROVE  h = First(S) <=> Heads(h, S)
BY FirstIs DEF Heads

(* ListsExact, node by node. *)
ListsOrdered ==
    \A p \in Live :
      /\ \/ child[p] = NULL /\ \A c \in Live : node[c].parent # p
         \/ /\ child[p] \in Live /\ node[child[p]].parent = p
            /\ \A c \in Live : node[c].parent = p => c =< child[p]
      /\ \A c \in Live : node[c].parent = p =>
           \/ next[c] = NULL /\ \A d \in Live : node[d].parent = p => ~(d < c)
           \/ /\ next[c] \in Live /\ node[next[c]].parent = p /\ next[c] < c
              /\ \A d \in Live : node[d].parent = p /\ d < c => d =< next[c]

(* The two say the same when the nodes are numbered without gaps. *)
LEMMA Ordered ==
    ASSUME NEW k \in Nat, Live = 0..k
    PROVE  ListsExact <=> ListsOrdered
<1> DEFINE Kids(p) == {e \in Live : node[e].parent = p}
           Elder(p, c) == {d \in Kids(p) : d < c}
<1>1. ListsExact <=>
        \A p \in Live : /\ child[p] = First(Kids(p))
                        /\ \A c \in Kids(p) : next[c] = First(Elder(p, c))
  BY DEF ListsExact, First, Children
<1>2. \A p : Kids(p) \subseteq 0..k
  OBVIOUS
<1>3. \A p, c : Elder(p, c) \subseteq 0..k
  OBVIOUS
<1>4. \A p, h : h = First(Kids(p)) <=> Heads(h, Kids(p))
  <2> HIDE DEF Kids
  <2>1. QED
    BY <1>2, HeadsFirst
<1>5. \A p, c, h : h = First(Elder(p, c)) <=> Heads(h, Elder(p, c))
  <2> HIDE DEF Elder
  <2>1. QED
    BY <1>3, HeadsFirst
<1>6. ListsExact <=>
        \A p \in Live : /\ Heads(child[p], Kids(p))
                        /\ \A c \in Kids(p) : Heads(next[c], Elder(p, c))
  <2> HIDE DEF Elder, Kids
  <2>1. QED
    BY <1>1, <1>4, <1>5
<1>7. \A p : Heads(child[p], Kids(p))
              <=> \/ child[p] = NULL /\ \A c \in Live : node[c].parent # p
                  \/ /\ child[p] \in Live /\ node[child[p]].parent = p
                     /\ \A c \in Live : node[c].parent = p => c =< child[p]
  BY DEF Heads
<1>8. \A p, c : Heads(next[c], Elder(p, c))
                 <=> \/ next[c] = NULL /\ \A d \in Live : node[d].parent = p => ~(d < c)
                     \/ /\ next[c] \in Live /\ node[next[c]].parent = p /\ next[c] < c
                        /\ \A d \in Live : node[d].parent = p /\ d < c => d =< next[c]
  BY DEF Heads
<1>9. \A p, c : c \in Kids(p) <=> c \in Live /\ node[c].parent = p
  OBVIOUS
<1>10. QED
  <2> HIDE DEF Elder, Kids
  <2>1. QED
    BY <1>6, <1>7, <1>8, <1>9 DEF ListsOrdered

(* sabi_ns_init leaves one list, under the root. *)
LEMMA InitLists == Init => ListsOrdered
<1> SUFFICES ASSUME Init PROVE ListsOrdered
  OBVIOUS
<1>1. Len(Predefined) = 7 /\ DOMAIN Predefined = 1..7
  BY DEF Predefined
<1>2. \A n \in Node : n \in Live <=> n \in 0..7
  BY <1>1 DEF Init, Live, InitialNode, Blank, Root, Predefined
<1>3. 0..7 \subseteq Node
  BY <1>1, PredefinedAssumption, BoundsAssumption DEF Node
<1>4. Live = 0..7
  BY <1>2, <1>3 DEF Live
<1>5. \A n \in Live : node[n].parent = IF n = 0 THEN NULL ELSE 0
  BY <1>1, <1>3, <1>4 DEF Init, InitialNode, Blank, Root
<1>6. \A n \in Live : child[n] = IF n = 0 THEN 7 ELSE NULL
  BY <1>1, <1>3, <1>4 DEF Init, Root
<1>7. \A n \in Live : next[n] = IF n > 1 THEN n - 1 ELSE NULL
  BY <1>1, <1>3, <1>4 DEF Init
<1>8. QED
  BY <1>4, <1>5, <1>6, <1>7 DEF ListsOrdered, NULL

(* The new node comes before its siblings, and has no children. *)
LEMMA NewLists ==
    ASSUME IInv, ListsOrdered, AddNew
    PROVE  ListsOrdered'
<1> DEFINE n == Youngest + 1
           cur == job.cur
<1>1. /\ Live = 0..Youngest /\ Youngest \in Nat /\ Live' = 0..n /\ cur \in Live
      /\ node'[n].parent = cur
      /\ \A m \in Live : node'[m] = node[m]
      /\ \A m \in Live' : next'[m] = IF m = n THEN child[cur] ELSE next[m]
      /\ \A m \in Live' : child'[m] = IF m = n THEN NULL
                                      ELSE IF m = cur THEN n ELSE child[m]
  BY NewNode
<1>2. \A m \in Live' : m = n \/ m \in Live
  BY <1>1
<1>3. n \in Nat /\ n \in Live' /\ n \notin Live /\ \A m \in Live : m \in Nat /\ m < n /\ m \in Live'
  BY <1>1
<1>4. \A m \in Live : node[m].parent # n
  <2>1. \A m \in Live \ {Root} : node[m].parent \in 0..(m - 1)
    BY DEF IInv, TreeInv
  <2>2. node[Root].parent = NULL
    BY DEF IInv, TreeInv
  <2>3. NULL # n
    BY <1>3, NodeFacts
  <2>4. QED
    BY <1>3, <2>1, <2>2, <2>3
<1> HIDE DEF n, cur
<1>5. ASSUME NEW p \in Live'
      PROVE  \/ child'[p] = NULL /\ \A c \in Live' : node'[c].parent # p
             \/ /\ child'[p] \in Live' /\ node'[child'[p]].parent = p
                /\ \A c \in Live' : node'[c].parent = p => c =< child'[p]
  <2>1. CASE p = n
    BY <1>1, <1>2, <1>3, <1>4, <2>1
  <2>2. CASE p = cur
    <3>1. child'[p] = n
      BY <1>1, <1>3, <2>2
    <3>2. \A c \in Live' : c =< n
      BY <1>2, <1>3
    <3>3. QED
      BY <1>1, <1>3, <2>2, <3>1, <3>2
  <2>3. CASE p # n /\ p # cur
    <3>1. p \in Live /\ child'[p] = child[p]
      BY <1>1, <1>2, <2>3
    <3>2. \A c \in Live' : node'[c].parent = p => c \in Live /\ node[c].parent = p
      BY <1>1, <1>2, <2>3
    <3>3. \/ child[p] = NULL /\ \A c \in Live : node[c].parent # p
          \/ /\ child[p] \in Live /\ node[child[p]].parent = p
             /\ \A c \in Live : node[c].parent = p => c =< child[p]
      BY <3>1 DEF ListsOrdered
    <3>4. QED
      BY <1>1, <1>3, <3>1, <3>2, <3>3
  <2>4. QED
    BY <2>1, <2>2, <2>3
<1>6. ASSUME NEW p \in Live', NEW c \in Live', node'[c].parent = p
      PROVE  \/ next'[c] = NULL /\ \A d \in Live' : node'[d].parent = p => ~(d < c)
             \/ /\ next'[c] \in Live' /\ node'[next'[c]].parent = p /\ next'[c] < c
                /\ \A d \in Live' : node'[d].parent = p /\ d < c => d =< next'[c]
  <2>0. p \in Live
    BY <1>1, <1>2, <1>4, <1>6
  <2>1. CASE c = n
    <3>1. p = cur /\ next'[c] = child[p]
      BY <1>1, <1>6, <2>1
    <3>2. \A d \in Live' : d < n => d \in Live /\ node'[d] = node[d]
      BY <1>1, <1>2, <1>3
    <3>3. \/ child[p] = NULL /\ \A d \in Live : node[d].parent # p
          \/ /\ child[p] \in Live /\ node[child[p]].parent = p
             /\ \A d \in Live : node[d].parent = p => d =< child[p]
      BY <2>0 DEF ListsOrdered
    <3>4. QED
      BY <1>1, <1>3, <2>1, <3>1, <3>2, <3>3
  <2>2. CASE c # n
    <3>1. c \in Live /\ node[c].parent = p /\ next'[c] = next[c]
      BY <1>1, <1>2, <1>6, <2>2
    <3>2. \A d \in Live' : d < c => d \in Live /\ node'[d] = node[d]
      BY <1>1, <1>2, <1>3, <3>1
    <3>3. \/ next[c] = NULL /\ \A d \in Live : node[d].parent = p => ~(d < c)
          \/ /\ next[c] \in Live /\ node[next[c]].parent = p /\ next[c] < c
             /\ \A d \in Live : node[d].parent = p /\ d < c => d =< next[c]
      BY <2>0, <3>1 DEF ListsOrdered
    <3>4. QED
      BY <1>1, <1>3, <3>1, <3>2, <3>3
  <2>3. QED
    BY <2>1, <2>2
<1>7. QED
  BY <1>5, <1>6 DEF ListsOrdered

(* The freed node was the first of its list, and no list goes through it. *)
LEMMA GoneLists ==
    ASSUME IInv, ListsOrdered, FreeNode
    PROVE  ListsOrdered'
<1> DEFINE n == Youngest
           q == node[n].parent
<1>1. /\ Live = 0..n /\ n \in Nat /\ n > 0 /\ Live' = 0..(n - 1) /\ q \in Live'
      /\ \A m \in Live' : node'[m] = node[m]
      /\ child[q] = n => next' = [m \in Node |-> IF m = n THEN NULL ELSE next[m]]
      /\ \A m \in Live' : child'[m] = IF m = q /\ child[m] = n THEN next[n] ELSE child[m]
  BY GoneNode
<1>2. \A m \in Live : m \in Nat /\ m =< n /\ (m # n => m \in Live')
  BY <1>1
<1>3. \A m \in Live' : m \in Nat /\ m < n /\ m \in Live
  BY <1>1
<1>4. n \in Live /\ node[n].parent = q /\ NULL # n
  BY <1>1, NodeFacts
<1> HIDE DEF n, q
<1>0. child[q] = n /\ \A m \in Live' : next'[m] = next[m]
  <2>1. \/ child[q] = NULL /\ \A c \in Live : node[c].parent # q
        \/ /\ child[q] \in Live /\ node[child[q]].parent = q
           /\ \A c \in Live : node[c].parent = q => c =< child[q]
    BY <1>1, <1>3 DEF ListsOrdered
  <2>2. child[q] = n
    BY <1>2, <1>4, <2>1
  <2>3. \A m \in Live' : m \in Node
    BY DEF Live
  <2>4. QED
    BY <1>1, <1>3, <2>2, <2>3
<1>5. ASSUME NEW p \in Live'
      PROVE  \/ child'[p] = NULL /\ \A c \in Live' : node'[c].parent # p
             \/ /\ child'[p] \in Live' /\ node'[child'[p]].parent = p
                /\ \A c \in Live' : node'[c].parent = p => c =< child'[p]
  <2>1. \/ child[p] = NULL /\ \A c \in Live : node[c].parent # p
        \/ /\ child[p] \in Live /\ node[child[p]].parent = p
           /\ \A c \in Live : node[c].parent = p => c =< child[p]
    BY <1>3 DEF ListsOrdered
  <2>2. CASE p = q
    <3>1. child[p] = n
      BY <1>0, <2>2
    <3>2. child'[p] = next[n]
      BY <1>1, <2>2, <3>1
    <3>3. \/ next[n] = NULL /\ \A d \in Live : node[d].parent = p => ~(d < n)
          \/ /\ next[n] \in Live /\ node[next[n]].parent = p /\ next[n] < n
             /\ \A d \in Live : node[d].parent = p /\ d < n => d =< next[n]
      BY <1>3, <1>4, <2>2 DEF ListsOrdered
    <3>4. QED
      BY <1>1, <1>2, <1>3, <3>2, <3>3
  <2>3. CASE p # q
    <3>1. child'[p] = child[p] /\ child[p] # n
      BY <1>1, <1>4, <2>1, <2>3
    <3>2. QED
      BY <1>1, <1>2, <1>3, <2>1, <3>1
  <2>4. QED
    BY <2>2, <2>3
<1>6. ASSUME NEW p \in Live', NEW c \in Live', node'[c].parent = p
      PROVE  \/ next'[c] = NULL /\ \A d \in Live' : node'[d].parent = p => ~(d < c)
             \/ /\ next'[c] \in Live' /\ node'[next'[c]].parent = p /\ next'[c] < c
                /\ \A d \in Live' : node'[d].parent = p /\ d < c => d =< next'[c]
  <2>1. p \in Live /\ c \in Live /\ node[c].parent = p
    BY <1>1, <1>3, <1>6
  <2>2. \/ next[c] = NULL /\ \A d \in Live : node[d].parent = p => ~(d < c)
        \/ /\ next[c] \in Live /\ node[next[c]].parent = p /\ next[c] < c
           /\ \A d \in Live : node[d].parent = p /\ d < c => d =< next[c]
    BY <2>1 DEF ListsOrdered
  <2>3. (next[c] = NULL \/ next[c] \in Live')
    BY <1>2, <1>3, <1>4, <2>2
  <2>4. next'[c] = next[c]
    BY <1>0, <1>6
  <2>5. QED
    BY <1>1, <1>3, <2>2, <2>3, <2>4
<1>7. QED
  BY <1>5, <1>6 DEF ListsOrdered

(* Every list goes on to older nodes, and a freed node has no list. *)
ListsGrounded ==
    /\ \A c \in Node : next[c] \in Node \cup {NULL} /\ next[c] < c
    /\ \A c \in Node \ Live : child[c] = NULL

ListsInv == ListsOrdered /\ ListsGrounded

(* The first list is, and nothing else is there. *)
LEMMA InitGrounded == Init => ListsGrounded
<1> SUFFICES ASSUME Init PROVE ListsGrounded
  OBVIOUS
<1>1. Len(Predefined) = 7 /\ DOMAIN Predefined = 1..7
  BY DEF Predefined
<1>2. \A c \in Node : next[c] = IF c - 1 \in 1..7 /\ c \in 1..7 THEN c - 1 ELSE NULL
  BY <1>1 DEF Init
<1>3. \A c \in Node : c \in Nat /\ (c \in 1..7 => c - 1 \in Node)
  BY <1>1, PredefinedAssumption, BoundsAssumption DEF Node
<1>4. \A c \in Node : next[c] \in Node \cup {NULL} /\ next[c] < c
  BY <1>2, <1>3 DEF NULL
<1>5. \A c \in Node : c # Root => child[c] = NULL
  BY DEF Init
<1>6. Root \in Live
  BY NodeFacts DEF Init, Live, InitialNode, Blank, Root
<1>7. QED
  BY <1>4, <1>5, <1>6 DEF ListsGrounded

(* A new node is put before an older one. *)
LEMMA NewGrounded ==
    ASSUME IInv, ListsOrdered, ListsGrounded, AddNew
    PROVE  ListsGrounded'
<1> DEFINE n == Youngest + 1
<1>1. /\ Live = 0..Youngest /\ Youngest \in Nat /\ n \in Node /\ Live' = 0..n
      /\ job.cur \in Live
  BY NewNode
<1>2. next' = [next EXCEPT ![n] = child[job.cur]] /\ child' = [child EXCEPT ![job.cur] = n, ![n] = NULL]
  BY <1>1 DEF AddNew
<1>3. next \in [Node -> Node \cup {NULL}] /\ child \in [Node -> Node \cup {NULL}]
  BY DEF IInv, TypeOK
<1>4. child[job.cur] \in Live \cup {NULL}
  BY <1>1 DEF ListsOrdered
<1>5. NULL < n /\ \A m \in Live : m < n /\ m \in Node
  BY <1>1 DEF Live, NULL
<1> HIDE DEF n
<1>6. \A c \in Node : next'[c] \in Node \cup {NULL} /\ next'[c] < c
  <2> TAKE c \in Node
  <2>1. CASE c = n
    <3>1. next'[c] = child[job.cur]
      BY <1>2, <1>3, <2>1
    <3>2. QED
      BY <1>4, <1>5, <2>1, <3>1
  <2>2. CASE c # n
    BY <1>2, <1>3, <2>2 DEF ListsGrounded
  <2>3. QED
    BY <2>1, <2>2
<1>7. \A c \in Node \ Live' : child'[c] = NULL
  <2> TAKE c \in Node \ Live'
  <2>1. n \in Live' /\ \A m \in Live : m \in Live'
    BY <1>1 DEF n
  <2>2. c \in Node \ Live /\ c # n /\ c # job.cur
    BY <1>1, <2>1
  <2>3. QED
    BY <1>2, <1>3, <2>2 DEF ListsGrounded
<1>8. QED
  BY <1>6, <1>7 DEF ListsGrounded

(* A freed node is reset. *)
LEMMA GoneGrounded ==
    ASSUME IInv, ListsOrdered, ListsGrounded, FreeNode
    PROVE  ListsGrounded'
<1> DEFINE n == Youngest
           q == node[n].parent
<1>1. /\ Live = 0..n /\ n \in Nat /\ n > 0 /\ Live' = 0..(n - 1) /\ q \in Live'
      /\ child[q] = n => next' = [m \in Node |-> IF m = n THEN NULL ELSE next[m]]
      /\ child'[n] = NULL /\ \A m \in Node : m # q /\ m # n => child'[m] = child[m]
  BY GoneNode
<1>2. \A m \in Live : m =< n
  BY <1>1
<1>3. n \in Live /\ q \in Live /\ NULL # n
  BY <1>1, NodeFacts
<1>4. child[q] = n
  <2>1. \/ child[q] = NULL /\ \A c \in Live : node[c].parent # q
        \/ /\ child[q] \in Live /\ node[child[q]].parent = q
           /\ \A c \in Live : node[c].parent = q => c =< child[q]
    BY <1>3 DEF ListsOrdered
  <2>2. \A m \in Live : m \in Nat
    BY <1>1
  <2> HIDE DEF n
  <2>3. QED
    BY <1>2, <1>3, <2>1, <2>2
<1>5. \A c \in Node : next'[c] = IF c = n THEN NULL ELSE next[c]
  BY <1>1, <1>4
<1>6. \A c \in Node : c \in Nat /\ NULL < c
  BY BoundsAssumption DEF Node, NULL
<1>7. \A c \in Node : next'[c] \in Node \cup {NULL} /\ next'[c] < c
  BY <1>5, <1>6 DEF ListsGrounded
<1>8. \A c \in Node \ Live' : c = n \/ c \in Node \ Live
  BY <1>1
<1>9. \A c \in Node \ Live' : child'[c] = NULL
  BY <1>1, <1>8 DEF ListsGrounded
<1>10. QED
  BY <1>7, <1>9 DEF ListsGrounded

(* A step keeps the lists. *)
LEMMA StepLists == IInv /\ ListsInv /\ [Next]_vars => ListsInv'
<1> SUFFICES ASSUME IInv, ListsInv, [Next]_vars PROVE ListsInv'
  OBVIOUS
<1>1. ListsOrdered /\ ListsGrounded
  BY DEF ListsInv
<1>2. CASE UNCHANGED tree
  BY <1>1, <1>2 DEF ListsInv, ListsOrdered, ListsGrounded, Live, tree
<1>3. CASE AddNew
  BY <1>1, <1>3, NewLists, NewGrounded DEF ListsInv
<1>4. CASE FreeNode
  BY <1>1, <1>4, GoneLists, GoneGrounded DEF ListsInv
<1>5. QED
  BY <1>2, <1>3, <1>4, TreeSteps

(* Every list of children runs through older and older nodes, and a freed  *)
(* node has none: the walks of sabi_ns_exists and sabi_free_state end,     *)
(* however definitions and returns have changed the tree.                  *)
THEOREM ListsHold == Spec => []ListsInv
<1>1. Init => ListsInv
  BY InitLists, InitGrounded DEF ListsInv
<1>2. QED
  BY <1>1, StepLists, Shape, PTL DEF Spec

(* The lists that sabi_ns_exists and sabi_next_node walk are exactly the    *)
(* live children, youngest first, after any number of definitions and      *)
(* returns.                                                                *)
THEOREM ListsAreExact == Spec => []ListsExact
<1>1. IInv /\ ListsInv => ListsExact
  BY Ordered, NodeFacts DEF IInv, TreeInv, ListsInv
<1>2. QED
  BY <1>1, Shape, ListsHold, PTL

-----------------------------------------------------------------------------
(* Recursive functions. *)

(* Induction: a set of numbers that has 0 and all successors. *)
LEMMA Numbers ==
    ASSUME NEW S, 0 \in S, \A i \in Nat : i \in S => i + 1 \in S
    PROVE  \A i \in Nat : i \in S
<1> SUFFICES ASSUME NEW n \in Nat, n \notin S
             PROVE  FALSE
  OBVIOUS
<1> DEFINE T == {i \in 0..n : \A j \in 0..i : j \in S}
<1>1. 0 \in T
  <2>1. \A j \in 0..0 : j = 0
    OBVIOUS
  <2>2. QED
    BY <2>1
<1>2. T \subseteq 0..n
  OBVIOUS
<1>3. PICK c \in T : \A d \in T : d =< c
  <2> HIDE DEF T
  <2>1. QED
    BY <1>1, <1>2, Greatest
<1>4. c \in Nat /\ c =< n /\ \A j \in 0..c : j \in S
  OBVIOUS
<1>5. c # n
  BY <1>4
<1>6. c + 1 \in T
  <2>1. c + 1 \in S
    BY <1>4
  <2>2. \A j \in 0..(c + 1) : j = c + 1 \/ j \in 0..c
    BY <1>4
  <2>3. c + 1 \in 0..n
    BY <1>4, <1>5
  <2>4. QED
    BY <1>4, <2>1, <2>2, <2>3
<1>7. QED
  BY <1>3, <1>4, <1>6

(* A recursive function on D: it has given values on H, and elsewhere a    *)
(* step leads to its value from that of another element, of less rank.     *)
Founded(D, rank, k, H, par) ==
    /\ k \in Nat /\ \A n \in D : rank[n] \in 0..k
    /\ \A n \in D : n \notin H => par[n] \in D /\ rank[par[n]] < rank[n]
Typed(D, H, val, V, step) ==
    /\ \A n \in D : n \in H => val[n] \in V
    /\ \A n \in D, v \in V : n \notin H => step[<<n, v>>] \in V
Follows(f, D, H, par, val, V, step) ==
    \A n \in D : IF n \in H THEN f[n] = val[n]
                 ELSE f[par[n]] \in V => f[n] = step[<<n, f[par[n]]>>]

(* Its values are in the range that the steps have. *)
LEMMA RecursionTyped ==
    ASSUME NEW f, NEW D, NEW rank, NEW k, NEW H, NEW par, NEW val, NEW V, NEW step,
           Founded(D, rank, k, H, par), Typed(D, H, val, V, step),
           Follows(f, D, H, par, val, V, step)
    PROVE  \A n \in D : f[n] \in V
<1> DEFINE S == {i \in Nat : \A n \in D : rank[n] < i => f[n] \in V}
<1>1. 0 \in S
  BY DEF Founded
<1>2. ASSUME NEW i \in Nat, i \in S
      PROVE  i + 1 \in S
  <2> SUFFICES ASSUME NEW n \in D, rank[n] < i + 1 PROVE f[n] \in V
    OBVIOUS
  <2>1. CASE n \in H
    BY <2>1 DEF Typed, Follows
  <2>2. CASE n \notin H
    <3>1. par[n] \in D /\ rank[par[n]] < i
      BY <1>2, <2>2 DEF Founded
    <3>2. f[par[n]] \in V
      BY <1>2, <3>1
    <3>3. f[n] = step[<<n, f[par[n]]>>]
      BY <2>2, <3>2 DEF Follows
    <3>4. QED
      BY <2>2, <3>2, <3>3 DEF Typed
  <2>3. QED
    BY <2>1, <2>2
<1>3. \A i \in Nat : i \in S
  <2> HIDE DEF S
  <2>1. QED
    BY <1>1, <1>2, Numbers
<1>4. TAKE n \in D
<1>5. rank[n] + 1 \in Nat /\ rank[n] < rank[n] + 1
  BY DEF Founded
<1>6. rank[n] + 1 \in S
  BY <1>3, <1>5
<1>7. QED
  BY <1>5, <1>6

(* There is one: its values are known in the order of the ranks. *)
LEMMA Recursion ==
    ASSUME NEW D, NEW rank, NEW k, NEW H, NEW par, NEW val, NEW V, NEW step,
           Founded(D, rank, k, H, par), Typed(D, H, val, V, step)
    PROVE  \E f \in [D -> V] : Follows(f, D, H, par, val, V, step)
<1> DEFINE Below(i) == {n \in D : rank[n] < i}
           Solves(f, i) == f \in [Below(i) -> V] /\ Follows(f, Below(i), H, par, val, V, step)
           S == {i \in Nat : \E f : Solves(f, i)}
<1>1. 0 \in S
  <2> DEFINE f == [n \in {} |-> 0]
  <2>1. Below(0) = {}
    BY DEF Founded
  <2>2. Solves(f, 0)
    BY <2>1 DEF Follows
  <2>3. QED
    BY <2>2
<1>2. ASSUME NEW i \in Nat, i \in S
      PROVE  i + 1 \in S
  <2>1. PICK f : Solves(f, i)
    BY <1>2
  <2> DEFINE g == [n \in Below(i + 1) |->
                     IF n \in H THEN val[n] ELSE step[<<n, f[par[n]]>>]]
  <2>2. \A n \in Below(i + 1) : n \notin H => par[n] \in Below(i) /\ f[par[n]] \in V
    BY <1>2, <2>1 DEF Founded
  <2>3. \A n \in Below(i) : n \in Below(i + 1) /\ g[n] = f[n]
    <3> TAKE n \in Below(i)
    <3>1. n \in D /\ n \in Below(i + 1)
      BY <1>2 DEF Founded
    <3>2. CASE n \in H
      BY <2>1, <3>1, <3>2 DEF Follows
    <3>3. CASE n \notin H
      <4>1. f[par[n]] \in V
        BY <2>2, <3>1, <3>3
      <4>2. f[n] = step[<<n, f[par[n]]>>]
        BY <2>1, <3>3, <4>1 DEF Follows
      <4>3. g[n] = step[<<n, f[par[n]]>>]
        BY <3>1, <3>3
      <4>4. QED
        BY <3>1, <4>2, <4>3
    <3>4. QED
      BY <3>2, <3>3
  <2>4. \A n \in Below(i + 1) : g[n] \in V
    BY <2>2 DEF Typed
  <2>5. Follows(g, Below(i + 1), H, par, val, V, step)
    <3> SUFFICES ASSUME NEW n \in Below(i + 1)
                 PROVE  IF n \in H THEN g[n] = val[n]
                        ELSE g[par[n]] \in V => g[n] = step[<<n, g[par[n]]>>]
      BY DEF Follows
    <3>1. CASE n \in H
      BY <3>1
    <3>2. CASE n \notin H
      <4>1. g[par[n]] = f[par[n]]
        BY <2>2, <2>3, <3>2
      <4>2. g[n] = step[<<n, f[par[n]]>>]
        BY <3>2
      <4>3. QED
        BY <3>2, <4>1, <4>2
    <3>3. QED
      BY <3>1, <3>2
  <2>6. Solves(g, i + 1)
    BY <2>4, <2>5
  <2> HIDE DEF g, Solves
  <2>7. \E h : Solves(h, i + 1)
    BY <2>6
  <2>8. QED
    BY <2>7
<1>3. \A i \in Nat : i \in S
  <2> HIDE DEF S
  <2>1. QED
    BY <1>1, <1>2, Numbers
<1>4. k + 1 \in Nat /\ Below(k + 1) = D
  BY DEF Founded
<1>5. QED
  BY <1>3, <1>4

-----------------------------------------------------------------------------
(* The walk of sabi_ns_exists. *)

(* Where it is now, and where it goes. *)
Walk(c, w, s) == IF c = NULL THEN NULL ELSE IF node[c].name = s THEN c ELSE w[next[c]]

(* The walk has a result at every node, because the list leads to older    *)
(* nodes.                                                                  *)
LEMMA WalkIs ==
    ASSUME IInv, ListsInv, NEW s
    PROVE  \E w : /\ \A c \in Node \cup {NULL} : w[c] = Walk(c, w, s)
                  /\ \A p : NsExists(p, s) = w[child[p]]
<1> DEFINE D == Node \cup {NULL}
           rank == [c \in D |-> c + 1]
           H == {c \in D : c = NULL \/ node[c].name = s}
           par == [c \in D |-> next[c]]
           val == [c \in D |-> c]
           step == [x \in D \X D |-> x[2]]
           F == CHOOSE f : f = [c \in D |-> IF c = NULL THEN NULL
                                            ELSE IF node[c].name = s THEN c
                                            ELSE f[next[c]]]
<1>1. MaxNodes \in Nat /\ Node = 0..MaxNodes /\ NULL = -1
  BY BoundsAssumption DEF Node, NULL
<1>2. \A c \in Node : next[c] \in D /\ next[c] < c
  BY DEF ListsInv, ListsGrounded
<1>3. Founded(D, rank, MaxNodes + 1, H, par)
  BY <1>1, <1>2 DEF Founded
<1>4. Typed(D, H, val, D, step)
  BY DEF Typed
<1>5. \E f \in [D -> D] : Follows(f, D, H, par, val, D, step)
  <2> HIDE DEF D, rank, H, par, val, step
  <2>1. QED
    BY <1>3, <1>4, Recursion
<1>6. PICK f \in [D -> D] : Follows(f, D, H, par, val, D, step)
  BY <1>5
<1>7. f = [c \in D |-> IF c = NULL THEN NULL
                       ELSE IF node[c].name = s THEN c
                       ELSE f[next[c]]]
  <2> SUFFICES ASSUME NEW c \in D
               PROVE  f[c] = IF c = NULL THEN NULL
                             ELSE IF node[c].name = s THEN c
                             ELSE f[next[c]]
    OBVIOUS
  <2>1. CASE c \in H
    BY <1>6, <2>1 DEF Follows
  <2>2. CASE c \notin H
    <3>1. c \in Node /\ node[c].name # s /\ c # NULL
      BY <2>2
    <3>2. par[c] = next[c] /\ par[c] \in D
      BY <1>2, <3>1
    <3>3. f[par[c]] \in D
      BY <3>2
    <3>4. f[c] = step[<<c, f[par[c]]>>]
      BY <1>6, <2>2, <3>3 DEF Follows
    <3>5. step[<<c, f[par[c]]>>] = f[par[c]]
      BY <3>3
    <3>6. QED
      BY <3>1, <3>2, <3>4, <3>5
  <2>3. QED
    BY <2>1, <2>2
<1>8. F = [c \in D |-> IF c = NULL THEN NULL
                       ELSE IF node[c].name = s THEN c
                       ELSE F[next[c]]]
  BY <1>7
<1>9. \A p : NsExists(p, s) = F[child[p]]
  BY DEF NsExists
<1>10. \A c \in D : F[c] = Walk(c, F, s)
  <2> HIDE DEF F
  <2>1. QED
    BY <1>8 DEF Walk
<1>11. QED
  <2> HIDE DEF F
  <2>1. QED
    BY <1>9, <1>10

(* What it finds is a child of that name, and it finds one if there is.    *)
LEMMA WalkFinds ==
    ASSUME IInv, ListsInv, NEW p \in Node, NEW s
    PROVE  /\ NsExists(p, s) # NULL => /\ NsExists(p, s) \in Live
                                      /\ node[NsExists(p, s)].parent = p
                                      /\ node[NsExists(p, s)].name = s
           /\ NsExists(p, s) = NULL => \A c \in Live : node[c].parent = p => node[c].name # s
<1>1. PICK w : /\ \A c \in Node \cup {NULL} : w[c] = Walk(c, w, s)
               /\ \A q : NsExists(q, s) = w[child[q]]
  BY WalkIs
<1>2. w[NULL] = NULL
  BY <1>1 DEF Walk
<1>3. Youngest \in Nat /\ Live = 0..Youngest /\ \A c \in Live : c \in Node /\ c \in Nat
  BY NodeFacts DEF IInv, TreeInv
<1> DEFINE Right(c) == /\ w[c] # NULL => /\ w[c] \in Live /\ node[w[c]].parent = p
                                         /\ node[w[c]].name = s
                       /\ w[c] = NULL => \A d \in Live : node[d].parent = p /\ d =< c
                                              => node[d].name # s
<1>4. CASE p \notin Live
  <2>1. child[p] = NULL
    BY <1>4 DEF ListsInv, ListsGrounded
  <2>2. \A c \in Live : node[c].parent # p
    <3>1. node[Root].parent = NULL /\ p # NULL
      BY NodeFacts DEF IInv, TreeInv
    <3>2. \A c \in Live \ {Root} : node[c].parent \in 0..(c - 1)
      BY DEF IInv, TreeInv
    <3>3. \A c \in Live \ {Root} : node[c].parent \in Live
      BY <1>3, <3>2
    <3>4. QED
      BY <1>4, <3>1, <3>3
  <2>3. QED
    BY <1>1, <1>2, <2>1, <2>2
<1>5. CASE p \in Live
  <2> DEFINE S == {i \in Nat : \A c \in Live : c < i /\ node[c].parent = p => Right(c)}
  <2>1. 0 \in S
    BY <1>3
  <2>2. ASSUME NEW i \in Nat, i \in S
        PROVE  i + 1 \in S
    <3> SUFFICES ASSUME NEW c \in Live, c < i + 1, node[c].parent = p PROVE Right(c)
      OBVIOUS
    <3>0. c \in Node /\ c \in Nat /\ c # NULL
      BY <1>3, NodeFacts
    <3>1. CASE node[c].name = s
      <4>1. w[c] = c
        BY <1>1, <3>0, <3>1 DEF Walk
      <4>2. QED
        BY <3>0, <3>1, <4>1
    <3>2. CASE node[c].name # s
      <4>1. \/ next[c] = NULL /\ \A d \in Live : node[d].parent = p => ~(d < c)
            \/ /\ next[c] \in Live /\ node[next[c]].parent = p /\ next[c] < c
               /\ \A d \in Live : node[d].parent = p /\ d < c => d =< next[c]
        BY <1>5 DEF ListsInv, ListsOrdered
      <4>2. w[c] = w[next[c]]
        BY <1>1, <3>0, <3>2 DEF Walk
      <4>3. CASE next[c] = NULL
        <5>1. w[c] = NULL
          BY <1>2, <4>2, <4>3
        <5>2. \A d \in Live : node[d].parent = p => ~(d < c)
          BY <1>3, <4>1, <4>3, NodeFacts
        <5>3. \A d \in Live : d =< c /\ ~(d < c) => d = c
          BY <1>3, <3>0
        <5>4. QED
          BY <3>2, <5>1, <5>2, <5>3
      <4>4. CASE next[c] # NULL
        <5>1. next[c] \in Live /\ node[next[c]].parent = p /\ next[c] < i /\ next[c] \in Nat
          BY <1>3, <3>0, <4>1, <4>4
        <5>2. Right(next[c])
          BY <2>2, <5>1
        <5>3. \A d \in Live : d =< c => d = c \/ d < c
          BY <1>3, <3>0
        <5>4. QED
          BY <3>2, <4>1, <4>2, <4>4, <5>2, <5>3
      <4>5. QED
        BY <4>3, <4>4
    <3>3. QED
      BY <3>1, <3>2
  <2>3. \A i \in Nat : i \in S
    <3> HIDE DEF S
    <3>1. QED
      BY <2>1, <2>2, Numbers
  <2>4. \A c \in Live : node[c].parent = p => Right(c)
    <3> TAKE c \in Live
    <3>1. c + 1 \in Nat /\ c < c + 1
      BY <1>3
    <3>2. c + 1 \in S
      BY <2>3, <3>1
    <3>3. QED
      BY <3>1, <3>2
  <2>5. \/ child[p] = NULL /\ \A c \in Live : node[c].parent # p
        \/ /\ child[p] \in Live /\ node[child[p]].parent = p
           /\ \A c \in Live : node[c].parent = p => c =< child[p]
    BY <1>5 DEF ListsInv, ListsOrdered
  <2>6. CASE child[p] = NULL
    <3>1. NULL \notin Live
      BY <1>3, NodeFacts
    <3>2. QED
      BY <1>1, <1>2, <2>5, <2>6, <3>1
  <2>7. CASE child[p] # NULL
    <3>1. Right(child[p])
      BY <2>4, <2>5, <2>7
    <3>2. QED
      BY <1>1, <2>5, <2>7, <3>1
  <2>8. QED
    BY <2>6, <2>7
<1>6. QED
  BY <1>4, <1>5

(* sabi_ns_exists says that there is none, and there is none. *)
LEMMA NoSuchChild ==
    ASSUME IInv, ListsInv, NEW p \in Node, NEW s, NsExists(p, s) = NULL
    PROVE  \A c \in Live : node[c].parent = p => node[c].name # s
BY WalkFinds

(* What sabi_ns_exists finds is a child of that name. *)
LEMMA ExistsIs ==
    ASSUME IInv, ListsInv, NEW p \in Node, NEW s, NsExists(p, s) # NULL
    PROVE  /\ NsExists(p, s) \in Live
           /\ node[NsExists(p, s)].parent = p /\ node[NsExists(p, s)].name = s
BY WalkFinds

-----------------------------------------------------------------------------
(* Names are unique among siblings. *)

(* The predefined nodes have different names. *)
LEMMA InitUnique == Init => SiblingNamesUnique
<1> SUFFICES ASSUME Init, NEW c \in Live \ {Root}, NEW d \in Live \ {Root},
                    node[c].name = node[d].name
             PROVE  c = d
  BY DEF SiblingNamesUnique
<1>1. Len(Predefined) = 7 /\ DOMAIN Predefined = 1..7
  BY DEF Predefined
<1>2. \A n \in Live \ {Root} : n \in 1..7 /\ node[n].name = Predefined[n].name
  BY <1>1 DEF Init, Live, InitialNode, Blank
<1>3. \A i, j \in 1..7 : Predefined[i].name = Predefined[j].name => i = j
  BY DEF Predefined
<1>4. QED
  BY <1>2, <1>3

(* A node is made only where the lookup found none of that name. *)
LEMMA StepUnique ==
    ASSUME IInv, ListsInv, SiblingNamesUnique, [Next]_vars
    PROVE  SiblingNamesUnique'
<1>1. CASE UNCHANGED tree
  BY <1>1 DEF SiblingNamesUnique, Live, tree
<1>2. CASE FreeNode
  <2> DEFINE n == Youngest
  <2>1. Live = 0..n /\ n \in Nat /\ Live' = 0..(n - 1)
        /\ \A m \in Live' : node'[m] = node[m]
    BY <1>2, GoneNode
  <2>2. \A m \in Live' : m \in Live
    BY <2>1
  <2>3. QED
    BY <2>1, <2>2 DEF SiblingNamesUnique
<1>3. CASE AddNew
  <2> DEFINE n == Youngest + 1
  <2>1. /\ Live = 0..Youngest /\ Youngest \in Nat /\ Live' = 0..n
        /\ node'[n].name = Segment /\ node'[n].parent = job.cur
        /\ \A m \in Live : node'[m] = node[m]
        /\ job.cur \in Node
    BY <1>3, NewNode DEF Live
  <2>0. \A m \in Live : node[m].parent = job.cur => node[m].name # Segment
    BY <1>3, <2>1, NoSuchChild DEF AddNew
  <2>2. \A m \in Live' : m = n \/ m \in Live
    BY <2>1
  <2> HIDE DEF n
  <2>3. SUFFICES ASSUME NEW c \in Live' \ {Root}, NEW d \in Live' \ {Root},
                        node'[c].parent = node'[d].parent, node'[c].name = node'[d].name
                 PROVE  c = d
    BY DEF SiblingNamesUnique
  <2>4. CASE c = n /\ d = n
    BY <2>4
  <2>5. CASE c = n /\ d # n
    BY <2>0, <2>1, <2>2, <2>3, <2>5
  <2>6. CASE c # n /\ d = n
    BY <2>0, <2>1, <2>2, <2>3, <2>6
  <2>7. CASE c # n /\ d # n
    BY <2>1, <2>2, <2>3, <2>7 DEF SiblingNamesUnique
  <2>8. QED
    BY <2>4, <2>5, <2>6, <2>7
<1>4. QED
  BY <1>1, <1>2, <1>3, TreeSteps

(* No scope has two children of one name: sabi_ns_add_scope makes a node    *)
(* only after sabi_ns_exists has found none, and freeing makes no names.   *)
THEOREM NamesUnique == Spec => []SiblingNamesUnique
<1>1. Init => SiblingNamesUnique
  BY InitUnique
<1>2. IInv /\ ListsInv /\ SiblingNamesUnique /\ [Next]_vars => SiblingNamesUnique'
  BY StepUnique
<1>3. QED
  BY <1>1, <1>2, Shape, ListsHold, PTL DEF Spec

-----------------------------------------------------------------------------
(* The namespace implements ScopedNamespace. *)

(* A function on 1..k is a sequence. *)
LEMMA IsSequence ==
    ASSUME NEW k \in Nat, NEW s, s = [i \in 1..k |-> s[i]]
    PROVE  s \in Seq({s[i] : i \in 1..k}) /\ Len(s) = k
<1> DEFINE S == {s[i] : i \in 1..k}
<1>1. s \in [1..k -> S]
  OBVIOUS
<1> HIDE DEF S
<1>2. s \in Seq(S)
  BY <1>1
<1>3. Len(s) = k
  BY <1>1, <1>2
<1>4. QED
  BY <1>2, <1>3 DEF S

(* Two of them that differ by the last element. *)
LEMMA OneMore ==
    ASSUME NEW k \in Nat, NEW s, s = [i \in 1..k |-> s[i]],
           NEW t, t = [i \in 1..(k + 1) |-> t[i]], \A i \in 1..k : t[i] = s[i]
    PROVE  t = Append(s, t[k + 1]) /\ s = SubSeq(t, 1, k)
<1> DEFINE T == {t[i] : i \in 1..(k + 1)}
<1>1. t \in Seq(T) /\ Len(t) = k + 1
  BY IsSequence
<1>2. \A i \in 1..(k + 1) : t[i] \in T
  OBVIOUS
<1> HIDE DEF T
<1>3. s \in [1..k -> T]
  <2>1. \A i \in 1..k : i \in 1..(k + 1)
    OBVIOUS
  <2>2. \A i \in 1..k : s[i] \in T
    BY <1>2, <2>1
  <2>3. QED
    BY <2>2
<1>4. s \in Seq(T) /\ Len(s) = k
  BY <1>3
<1>5. t[k + 1] \in T
  BY <1>2
<1>6. t = Append(s, t[k + 1])
  <2>1. /\ Append(s, t[k + 1]) \in Seq(T) /\ Len(Append(s, t[k + 1])) = k + 1
        /\ \A i \in 1..k : Append(s, t[k + 1])[i] = s[i]
        /\ Append(s, t[k + 1])[k + 1] = t[k + 1]
    BY <1>4, <1>5, AppendProperties
  <2>2. \A i \in 1..(k + 1) : i \in 1..k \/ i = k + 1
    OBVIOUS
  <2>3. \A i \in 1..(k + 1) : Append(s, t[k + 1])[i] = t[i]
    BY <2>1, <2>2
  <2>4. QED
    BY <1>1, <2>1, <2>3, SeqEqual
<1>7. s = SubSeq(t, 1, k)
  <2>1. /\ SubSeq(t, 1, k) \in Seq(T) /\ Len(SubSeq(t, 1, k)) = k
        /\ \A i \in 1..k : SubSeq(t, 1, k)[i] = t[i]
    BY <1>1
  <2>2. QED
    BY <1>4, <2>1, SeqEqual
<1>8. QED
  BY <1>6, <1>7

(* The tree and the marks, and how many of each there are. *)
LEMMA TreeIs ==
    ASSUME IInv
    PROVE  /\ LiveTree = [n \in 0..Youngest |-> node[n]] /\ DOMAIN LiveTree = 0..Youngest
           /\ Marks = [i \in 1..Depth |-> Marks[i]]
           /\ \A i \in 1..Depth :
                Marks[i] = [kind |-> frames[i].fn,
                            tree |-> [n \in 0..frames[i].base |-> frames[i].entry[n]]]
           /\ Len(Marks) = Depth /\ Depth \in Nat /\ Youngest \in Nat
<1>1. Depth \in Nat /\ DOMAIN frames = 1..Depth
  BY FrameFacts
<1>2. Live = 0..Youngest /\ Youngest \in Nat
  BY NodeFacts DEF IInv, TreeInv
<1>3. Marks = [i \in 1..Depth |->
                 [kind |-> frames[i].fn,
                  tree |-> [n \in 0..frames[i].base |-> frames[i].entry[n]]]]
  BY <1>1 DEF Marks
<1>4. Marks = [i \in 1..Depth |-> Marks[i]]
  BY <1>3
<1>5. Len(Marks) = Depth
  BY <1>1, <1>4, IsSequence
<1>6. LiveTree = [n \in 0..Youngest |-> node[n]]
  BY <1>2 DEF LiveTree
<1>7. QED
  BY <1>1, <1>2, <1>3, <1>4, <1>5, <1>6

(* The tree before the first table, and no marks. *)
LEMMA InitMaps == Init => Scoped!Init
<1> SUFFICES ASSUME Init PROVE Scoped!Init
  OBVIOUS
<1>1. IInv
  BY InitIInv
<1>2. LiveTree = [n \in 0..Youngest |-> node[n]] /\ Youngest \in Nat /\ Live = 0..Youngest
  BY <1>1, TreeIs DEF IInv, TreeInv
<1>3. Len(Predefined) = 7 /\ DOMAIN Predefined = 1..7
  BY DEF Predefined
<1>4. \A n \in Node : n \in Live <=> n \in 0..7
  BY <1>3 DEF Init, Live, InitialNode, Blank, Root, Predefined
<1>5. 0..7 \subseteq Node
  BY <1>3, PredefinedAssumption, BoundsAssumption DEF Node
<1>6. Live = 0..7
  BY <1>4, <1>5 DEF Live
<1>7. \A n \in 0..7 : node[n] = InitialNode(n)
  BY <1>5 DEF Init
<1>8. LiveTree = [n \in 0..Len(Predefined) |-> InitialNode(n)]
  BY <1>3, <1>6, <1>7 DEF LiveTree
<1>9. Marks = <<>>
  <2>1. frames = <<>>
    BY DEF Init
  <2>2. DOMAIN frames = {}
    BY <2>1
  <2>3. Marks = [i \in {} |-> Marks[i]]
    BY <2>2 DEF Marks
  <2>4. QED
    BY <2>3
<1>10. QED
  BY <1>8, <1>9 DEF Scoped!Init

(* Steps that change nothing but a frame's scope or its stack of nodes. *)
SameFrames ==
    /\ DOMAIN frames' = DOMAIN frames
    /\ \A i \in DOMAIN frames : /\ frames'[i].fn = frames[i].fn
                                 /\ frames'[i].base = frames[i].base
                                 /\ frames'[i].entry = frames[i].entry

(* They leave the marks as they are. *)
LEMMA SameMarks ==
    ASSUME SameFrames
    PROVE  UNCHANGED Marks
BY DEF SameFrames, Marks

(* A new scope, or a new head of the stack, is such a step. *)
LEMMA Touched ==
    ASSUME IInv, NEW x,
           \/ frames' = frames
           \/ frames' = [frames EXCEPT ![Depth].scope = x]
           \/ frames' = [frames EXCEPT ![Depth].head = x]
    PROVE  SameFrames
<1>1. DOMAIN frames = 1..Depth /\ \A d \in 1..Depth : frames[d] \in Frame
  BY FrameFacts
<1>2. CASE frames' = frames
  BY <1>2 DEF SameFrames
<1>3. CASE frames' = [frames EXCEPT ![Depth].scope = x]
  BY <1>1, <1>3 DEF SameFrames, Frame
<1>4. CASE frames' = [frames EXCEPT ![Depth].head = x]
  BY <1>1, <1>4 DEF SameFrames, Frame
<1>5. QED
  BY <1>2, <1>3, <1>4

(* Each step calls, returns, frees a node, makes one, or does none of it. *)
LEMMA Kinds ==
    ASSUME IInv, [Next]_vars
    PROVE  \/ \E fn \in {"table", "method"}, n \in Node :
                 PushFrame(fn, n) /\ (fn = "table" => frames = <<>>)
           \/ EndTable \/ FreeState \/ FreeNode \/ AddNew
           \/ UNCHANGED tree /\ SameFrames
<1> DEFINE Still == UNCHANGED tree /\ SameFrames
           Push == \E fn \in {"table", "method"}, n \in Node :
                     PushFrame(fn, n) /\ (fn = "table" => frames = <<>>)
<1>1. \A x : (UNCHANGED tree
                /\ (frames' = frames \/ frames' = [frames EXCEPT ![Depth].scope = x])) => Still
  BY Touched
<1> HIDE DEF Still
<1>2. \A why : Stop(why) => Still
  BY <1>1 DEF Stop
<1>3. \A nm, rest, type, target, open : StartAdd(nm, rest, type, target, open) => Still
  BY <1>1, <1>2 DEF StartAdd
<1>4. RegisterTable => Push
  BY NodeFacts DEF RegisterTable
<1>5. \A m \in Node : EvalMethod(m) => Push
  BY DEF EvalMethod
<1>6. \A nm : CallMethod(nm) => Push \/ Still
  <2> SUFFICES ASSUME NEW nm, CallMethod(nm) PROVE Push \/ Still
    OBVIOUS
  <2> DEFINE m == NsFind(Scope, nm)
  <2>1. \/ m \in Live /\ PushFrame("method", m)
        \/ Stop(IF m = FAULT THEN "fault" ELSE "panic")
    BY DEF CallMethod
  <2> HIDE DEF m
  <2>2. QED
    BY <1>2, <2>1 DEF Live
<1>7. \A nm, type, src, list :
        DefObject(nm, type) \/ DefAlias(src, nm) \/ DefDevice(nm)
          \/ DefFaults(nm) \/ DefField(nm, list)
        => Still
  BY <1>2, <1>3 DEF DefObject, DefAlias, DefDevice, DefFaults, DefField
<1>8. \A nm : DefScope(nm) => Still
  BY <1>1, <1>2 DEF DefScope, tree
<1>9. EndMethod \/ AddExisting \/ UNCHANGED vars => Still
  BY <1>1 DEF EndMethod, AddExisting, vars, tree
<1>10. AddReturn => Still
  BY <1>1, <1>3 DEF AddReturn
<1>11. LeaveBlock => Still
  BY <1>1 DEF LeaveBlock
<1>12. QED
  BY <1>4, <1>5, <1>6, <1>7, <1>8, <1>9, <1>10, <1>11 DEF Next, Still

(* A new frame is a mark that remembers the tree of its call. *)
LEMMA BeginMaps ==
    ASSUME IInv, IInv', NEW fn \in {"table", "method"}, NEW n \in Node, PushFrame(fn, n),
           fn = "table" => frames = <<>>
    PROVE  Scoped!Begin(fn)
<1>1. frames \in Seq(Frame) /\ Depth \in Nat /\ Depth = Len(frames)
  BY FrameFacts DEF Depth
<1> DEFINE f == [fn |-> fn, node |-> n, scope |-> n, head |-> NULL,
                 base |-> Youngest, entry |-> node]
<1>2. frames' = Append(frames, f) /\ UNCHANGED tree
  BY DEF PushFrame
<1>3. frames' \in Seq(Frame)
  BY DEF IInv, TypeOK
<1>4. Len(frames') = Depth + 1 /\ (\A i \in 1..Depth : frames'[i] = frames[i])
      /\ frames'[Depth + 1] = f
  BY <1>1, <1>2
<1>5. Marks = [i \in 1..Depth |-> Marks[i]]
      /\ LiveTree = [m \in 0..Youngest |-> node[m]]
      /\ \A i \in 1..Depth :
            Marks[i] = [kind |-> frames[i].fn,
                        tree |-> [m \in 0..frames[i].base |-> frames[i].entry[m]]]
  BY TreeIs
<1>6. Marks' = [i \in 1..(Depth + 1) |->
                 [kind |-> frames'[i].fn,
                  tree |-> [m \in 0..frames'[i].base |-> frames'[i].entry[m]]]]
  <2>1. DOMAIN frames' = 1..(Depth + 1)
    BY <1>3, <1>4
  <2>2. QED
    BY <2>1 DEF Marks
<1>7. Marks' = [i \in 1..(Depth + 1) |-> Marks'[i]]
  BY <1>6
<1>8. \A i \in 1..Depth : Marks'[i] = Marks[i]
  BY <1>1, <1>4, <1>5, <1>6
<1>9. Marks'[Depth + 1] = [kind |-> fn, tree |-> LiveTree]
  <2>1. Depth + 1 \in 1..(Depth + 1)
    BY <1>1
  <2>2. Marks'[Depth + 1] = [kind |-> frames'[Depth + 1].fn,
                             tree |-> [m \in 0..frames'[Depth + 1].base
                                         |-> frames'[Depth + 1].entry[m]]]
    BY <1>6, <2>1
  <2>3. /\ frames'[Depth + 1].fn = fn /\ frames'[Depth + 1].base = Youngest
        /\ frames'[Depth + 1].entry = node
    BY <1>4
  <2>4. QED
    BY <1>5, <2>2, <2>3
<1>10. Marks' = Append(Marks, Marks'[Depth + 1])
  BY <1>1, <1>5, <1>7, <1>8, OneMore
<1>11. UNCHANGED LiveTree
  BY <1>2 DEF LiveTree, Live, tree
<1>12. fn = "table" => Marks = <<>>
  <2>1. ASSUME fn = "table" PROVE Marks = <<>>
    <3>1. Depth = 0
      BY <1>1, <2>1
    <3>2. Len(Marks) = 0 /\ Marks \in Seq({Marks[i] : i \in 1..Depth})
      BY <1>1, <1>5, <3>1, IsSequence
    <3>3. QED
      BY <3>2, EmptySeq
  <2>2. QED
    BY <2>1
<1>13. QED
  BY <1>9, <1>10, <1>11, <1>12 DEF Scoped!Begin, Scoped!Running

(* The marks without the last, when its frame is popped. *)
LEMMA PopMarks ==
    ASSUME IInv, IInv', Depth > 0, frames' = SubSeq(frames, 1, Depth - 1)
    PROVE  Marks' = SubSeq(Marks, 1, Len(Marks) - 1)
<1>1. frames \in Seq(Frame) /\ Depth \in Nat /\ Depth = Len(frames)
  BY FrameFacts DEF Depth
<1> PICK k \in Nat : Depth = k + 1
  <2>1. Depth - 1 \in Nat /\ Depth = (Depth - 1) + 1
    BY <1>1
  <2>2. QED
    BY <2>1
<1>2. Len(frames') = k /\ \A i \in 1..k : frames'[i] = frames[i]
  BY <1>1
<1>3. DOMAIN frames' = 1..k
  <2>1. frames' \in Seq(Frame)
    BY DEF IInv, TypeOK
  <2>2. QED
    BY <1>2, <2>1
<1>4. Marks = [i \in 1..(k + 1) |-> Marks[i]] /\ Len(Marks) = k + 1
      /\ \A i \in 1..(k + 1) :
            Marks[i] = [kind |-> frames[i].fn,
                        tree |-> [m \in 0..frames[i].base |-> frames[i].entry[m]]]
  BY TreeIs
<1>5. Marks' = [i \in 1..k |->
                 [kind |-> frames'[i].fn,
                  tree |-> [m \in 0..frames'[i].base |-> frames'[i].entry[m]]]]
  BY <1>3 DEF Marks
<1>6. Marks' = [i \in 1..k |-> Marks'[i]]
  BY <1>5
<1>7. ASSUME NEW i \in 1..k
      PROVE  Marks[i] = Marks'[i]
  <2>1. i \in 1..(k + 1) /\ frames'[i] = frames[i]
    BY <1>2
  <2>2. Marks[i] = [kind |-> frames[i].fn,
                    tree |-> [m \in 0..frames[i].base |-> frames[i].entry[m]]]
    BY <1>4, <2>1
  <2>3. Marks'[i] = [kind |-> frames'[i].fn,
                     tree |-> [m \in 0..frames'[i].base |-> frames'[i].entry[m]]]
    BY <1>5
  <2>4. QED
    BY <2>1, <2>2, <2>3
<1>8. Marks = [i \in 1..(k + 1) |-> Marks[i]]
  BY <1>4
<1>9. Marks' = SubSeq(Marks, 1, k)
  BY <1>6, <1>7, <1>8, OneMore
<1>10. QED
  BY <1>4, <1>9

(* The end of a table, which has the only frame. *)
LEMMA CommitMaps ==
    ASSUME IInv, IInv', EndTable
    PROVE  Scoped!Commit
<1>1. frames # <<>> /\ Top.fn = "table" /\ frames' = SubSeq(frames, 1, Depth - 1)
      /\ UNCHANGED tree
  BY DEF EndTable
<1>2. Depth \in 1..Depth /\ Depth > 0
  BY <1>1, FrameFacts
<1>3. Depth = 1
  BY <1>1, <1>2, BoundFacts DEF FrameInv, Top
<1>4. Len(Marks) = 1 /\ Marks[1].kind = "table"
  <2>1. Len(Marks) = Depth /\ Marks[1].kind = frames[1].fn
    BY <1>2, <1>3, TreeIs
  <2>2. QED
    BY <1>1, <1>3, <2>1 DEF Top
<1>5. Marks' = SubSeq(Marks, 1, 0)
  BY <1>1, <1>2, <1>4, PopMarks
<1>6. Marks' = <<>>
  BY <1>5, SubSeqEmpty
<1>7. UNCHANGED LiveTree
  BY <1>1 DEF LiveTree, Live, tree
<1>8. QED
  BY <1>4, <1>6, <1>7 DEF Scoped!Commit, Scoped!Last

(* The end of a method, which has freed all it made. *)
LEMMA ReturnMaps ==
    ASSUME IInv, IInv', FreeState
    PROVE  Scoped!Return
<1>1. frames # <<>> /\ Top.fn = "method"
  BY DEF FreeState, IInv, PhaseInv
<1>2. Top.head = NULL /\ frames' = SubSeq(frames, 1, Depth - 1) /\ UNCHANGED tree
  BY DEF FreeState
<1>3. Depth \in 1..Depth /\ Depth > 0
  BY <1>1, FrameFacts
<1>4. Top.base = Youngest /\ Youngest \in Nat
      /\ Top.entry = [n \in Node |-> IF n =< Youngest THEN node[n] ELSE Blank]
  <2>1. /\ FrameInv(Depth) /\ Bound(Depth) = Youngest /\ Youngest \in Nat
        /\ Top = frames[Depth] /\ Top.base =< Youngest /\ Top.base \in Nat
    BY <1>3, FrameFacts, BoundFacts, NodeFacts DEF Top, IInv, TreeInv
  <2>2. Top.base = Youngest
    BY <1>2, <2>1, NodeFacts DEF FrameInv
  <2>3. QED
    BY <2>1, <2>2 DEF FrameInv
<1>5. \A n \in 0..Youngest : n \in Node
  BY NodeFacts DEF IInv, TreeInv
<1>6. [n \in 0..Top.base |-> Top.entry[n]] = [n \in 0..Youngest |-> node[n]]
  BY <1>4, <1>5
<1>7. Len(Marks) = Depth /\ LiveTree = [n \in 0..Youngest |-> node[n]]
      /\ Marks[Depth] = [kind |-> Top.fn, tree |-> [n \in 0..Top.base |-> Top.entry[n]]]
  BY <1>3, TreeIs DEF Top
<1>8. Marks[Len(Marks)].kind = "method" /\ LiveTree = Marks[Len(Marks)].tree
  <2>1. Marks[Depth].kind = Top.fn /\ Marks[Depth].tree = [n \in 0..Top.base |-> Top.entry[n]]
    BY <1>7
  <2>2. QED
    BY <1>1, <1>6, <1>7, <2>1
<1>9. Marks # <<>>
  BY <1>3, <1>7
<1>10. Marks' = SubSeq(Marks, 1, Len(Marks) - 1)
  BY <1>2, <1>3, PopMarks
<1>11. UNCHANGED LiveTree
  BY <1>2 DEF LiveTree, Live, tree
<1>12. QED
  BY <1>8, <1>9, <1>10, <1>11 DEF Scoped!Return, Scoped!Running, Scoped!Last

(* The node that is freed: nothing is younger, so nothing points to it. *)
LEMMA DropMaps ==
    ASSUME IInv, IInv', FreeNode
    PROVE  \E n \in Node : Scoped!Drop(n)
<1> DEFINE n == Youngest
<1>1. /\ Live = 0..n /\ n \in Nat /\ n > 0 /\ Live' = 0..(n - 1)
      /\ \A m \in Live' : node'[m] = node[m]
  BY GoneNode
<1>2. n \in Node
  BY DEF IInv, TreeInv
<1>3. /\ frames # <<>> /\ Top.fn = "method" /\ Depth \in 1..Depth /\ Top.base < n
      /\ Top.base \in Nat /\ Depth > 0 /\ phase = "free"
      /\ \E x : frames' = [frames EXCEPT ![Depth].head = x]
  <2>1. phase = "free" /\ Top.head # NULL
    BY DEF FreeNode
  <2>2. frames # <<>> /\ Top.base < n /\ Depth > 0 /\ Depth \in 1..Depth
    BY <2>1, FreedNode
  <2>3. Top.base \in Nat
    BY <2>2, BoundFacts DEF Top
  <2>4. Top.fn = "method"
    BY <2>1 DEF IInv, PhaseInv
  <2>5. \E x : frames' = [frames EXCEPT ![Depth].head = x]
    BY DEF FreeNode
  <2>6. QED
    BY <2>1, <2>2, <2>3, <2>4, <2>5
<1>4. UNCHANGED Marks
  BY <1>3, Touched, SameMarks
<1>5. Len(Marks) = Depth /\ LiveTree = [m \in 0..n |-> node[m]] /\ DOMAIN LiveTree = 0..n
      /\ Marks[Depth] = [kind |-> Top.fn, tree |-> [m \in 0..Top.base |-> Top.entry[m]]]
  BY <1>3, TreeIs DEF Top
<1>6. Marks # <<>> /\ Marks[Len(Marks)].kind = "method"
      /\ DOMAIN Marks[Len(Marks)].tree = 0..Top.base
  BY <1>3, <1>5
<1>7. n \in DOMAIN LiveTree \ DOMAIN Marks[Len(Marks)].tree
  BY <1>1, <1>3, <1>5, <1>6
<1>8. \A m \in DOMAIN LiveTree : LiveTree[m].parent # n /\ LiveTree[m].target # n
  <2>1. \A m \in 0..n : LiveTree[m] = node[m]
    BY <1>5
  <2>2. \A m \in Live \ {Root} : node[m].parent \in 0..(m - 1)
    BY DEF IInv, TreeInv
  <2>3. \A m \in Live : node[m].target # NULL => node[m].target \in 0..(m - 1)
    BY DEF IInv, TreeInv
  <2>4. node[Root].parent = NULL /\ NULL # n
    BY <1>1, NodeFacts DEF IInv, TreeInv
  <2>5. \A m \in 0..n : n \notin 0..(m - 1)
    BY <1>1
  <2>6. QED
    BY <1>1, <1>5, <2>1, <2>2, <2>3, <2>4, <2>5
<1>9. LiveTree' = [m \in DOMAIN LiveTree \ {n} |-> LiveTree[m]]
  <2>1. LiveTree' = [m \in Live' |-> node'[m]]
    BY DEF LiveTree
  <2>2. Live' = (0..n) \ {n}
    BY <1>1
  <2>3. \A m \in Live' : node'[m] = LiveTree[m]
    BY <1>1, <1>5, <2>2
  <2>4. QED
    BY <1>5, <2>1, <2>2, <2>3
<1> HIDE DEF n
<1>10. Scoped!Drop(n)
  BY <1>4, <1>6, <1>7, <1>8, <1>9
     DEF Scoped!Drop, Scoped!Running, Scoped!Last, Scoped!Present
<1>11. QED
  BY <1>2, <1>10

(* The node that is made, with a name that none of its siblings has. *)
LEMMA DefineMaps ==
    ASSUME IInv, IInv', ListsInv, AddNew
    PROVE  \E n \in Node : n \in DOMAIN LiveTree' /\ Scoped!Define(n, LiveTree'[n])
<1> DEFINE n == Youngest + 1
<1>1. /\ Live = 0..Youngest /\ Youngest \in Nat /\ n \in Node /\ Live' = 0..n
      /\ job.cur \in Live /\ job.target \in Live \cup {NULL}
      /\ node'[n] = [name |-> Segment, parent |-> job.cur,
                     type |-> job.type, target |-> job.target]
      /\ \A m \in Live : node'[m] = node[m]
  BY NewNode
<1>0. \A m \in Live : node[m].parent = job.cur => node[m].name # Segment
  <2>1. job.cur \in Node
    BY <1>1 DEF Live
  <2>2. QED
    BY <2>1, NoSuchChild DEF AddNew
<1>2. frames # <<>> /\ \E x : frames' = [frames EXCEPT ![Depth].head = x]
  BY DEF AddNew, Adding, IInv, PhaseInv
<1>3. UNCHANGED Marks
  BY <1>2, Touched, SameMarks
<1>4. Marks # <<>>
  <2>1. Depth > 0 /\ Len(Marks) = Depth
    BY <1>2, FrameFacts, TreeIs
  <2>2. QED
    BY <2>1
<1>5. LiveTree = [m \in Live |-> node[m]] /\ LiveTree' = [m \in Live' |-> node'[m]]
  BY DEF LiveTree
<1>6. n \notin Live /\ n \in Live' /\ Live' = Live \cup {n}
  BY <1>1
<1>7. LiveTree'[n].parent = job.cur /\ LiveTree'[n].target = job.target
      /\ LiveTree'[n].name = Segment
  BY <1>1, <1>5, <1>6
<1> HIDE DEF n
<1>8. \A m \in DOMAIN LiveTree :
        LiveTree[m].parent = LiveTree'[n].parent => LiveTree[m].name # LiveTree'[n].name
  BY <1>0, <1>1, <1>5, <1>7
<1>9. LiveTree' = [m \in DOMAIN LiveTree \cup {n} |->
                    IF m = n THEN LiveTree'[n] ELSE LiveTree[m]]
  <2>1. \A m \in Live' : node'[m] = IF m = n THEN LiveTree'[n] ELSE LiveTree[m]
    BY <1>1, <1>5, <1>6
  <2>2. QED
    BY <1>5, <1>6, <2>1
<1>10. Scoped!Define(n, LiveTree'[n])
  BY <1>1, <1>3, <1>4, <1>5, <1>6, <1>7, <1>8, <1>9
     DEF Scoped!Define, Scoped!Running, Scoped!Present
<1>11. QED
  BY <1>1, <1>5, <1>6, <1>10

(* Every step maps to a step of the promise, or to none. *)
LEMMA NextMaps == IInv /\ ListsInv /\ [Next]_vars => [Scoped!Next]_(Scoped!vars)
<1> SUFFICES ASSUME IInv, ListsInv, [Next]_vars PROVE [Scoped!Next]_(Scoped!vars)
  OBVIOUS
<1>0. IInv'
  BY StepIInv
<1>1. ASSUME NEW fn \in {"table", "method"}, NEW n \in Node, PushFrame(fn, n),
             fn = "table" => frames = <<>>
      PROVE  Scoped!Next
  BY <1>0, <1>1, BeginMaps DEF Scoped!Next
<1>2. CASE EndTable
  BY <1>0, <1>2, CommitMaps DEF Scoped!Next
<1>3. CASE FreeState
  BY <1>0, <1>3, ReturnMaps DEF Scoped!Next
<1>4. CASE FreeNode
  BY <1>0, <1>4, DropMaps DEF Scoped!Next
<1>5. CASE AddNew
  BY <1>0, <1>5, DefineMaps DEF Scoped!Next
<1>6. CASE UNCHANGED tree /\ SameFrames
  <2>1. UNCHANGED LiveTree
    BY <1>6 DEF LiveTree, Live, tree
  <2>2. UNCHANGED Marks
    BY <1>6, SameMarks
  <2>3. QED
    BY <2>1, <2>2 DEF Scoped!vars
<1>7. QED
  BY <1>1, <1>2, <1>3, <1>4, <1>5, <1>6, Kinds

(* The lists and stacks of the namespace implement the tree with marks:    *)
(* siblings have different names, nothing refers to what is gone, what a   *)
(* method defines goes when it returns, what a table defines stays.        *)
THEOREM TreeKeepsPromise == Spec => ScopedSpec
<1>1. Init => Scoped!Init
  BY InitMaps
<1>2. IInv /\ ListsInv /\ [Next]_vars => [Scoped!Next]_(Scoped!vars)
  BY NextMaps
<1>3. QED
  BY <1>1, <1>2, Shape, ListsHold, PTL DEF Spec, ScopedSpec, Scoped!Spec

-----------------------------------------------------------------------------
(* Lookups. *)

(* A live child is what it finds under its name. *)
LEMMA ExistsOnly ==
    ASSUME IInv, ListsInv, SiblingNamesUnique, NEW c \in Live, node[c].parent \in Live
    PROVE  NsExists(node[c].parent, node[c].name) = c
<1> DEFINE e == NsExists(node[c].parent, node[c].name)
<1>0. node[c].parent \in Node
  BY DEF Live
<1>1. e # NULL
  BY <1>0, NoSuchChild
<1>2. e \in Live /\ node[e].parent = node[c].parent /\ node[e].name = node[c].name
  BY <1>0, <1>1, ExistsIs
<1>3. c # Root /\ e # Root
  <2>1. node[Root].parent \notin Live
    BY NodeFacts DEF IInv, TreeInv, Live
  <2>2. QED
    BY <1>2, <2>1
<1>4. QED
  BY <1>2, <1>3 DEF SiblingNamesUnique

(* An alias stands for a live node, or for none. *)
LEMMA DerefIs ==
    ASSUME IInv, NEW c \in Live
    PROVE  Deref(c) \in Live \cup {NULL}
<1>1. Youngest \in Nat /\ Live = 0..Youngest
  BY NodeFacts DEF IInv, TreeInv
<1>2. node[c].target # NULL => node[c].target \in 0..(c - 1)
  BY DEF IInv, TreeInv
<1>3. QED
  BY <1>1, <1>2 DEF Deref

(* sabi_ns_search finds nothing but what one of the scopes has under that  *)
(* name, and the scope's own if there is one.                              *)
LEMMA SearchIs ==
    ASSUME IInv, ListsInv, NEW s, NEW V, NULL \in V,
           \A p \in Node : NsExists(p, s) # NULL => Deref(NsExists(p, s)) \in V
    PROVE  \A n \in Live : /\ NsSearch(n, s) \in V
                           /\ NsExists(n, s) # NULL => NsSearch(n, s) = Deref(NsExists(n, s))
<1> DEFINE D == Node \cup {NULL}
           rank == [n \in D |-> n + 1]
           H == {n \in D : n = NULL \/ NsExists(n, s) # NULL}
           par == [n \in D |-> node[n].parent]
           val == [n \in D |-> IF n = NULL THEN NULL ELSE Deref(NsExists(n, s))]
           step == [x \in D \X V |-> x[2]]
           F == CHOOSE f : f = [m \in D |-> IF m = NULL THEN NULL
                                            ELSE IF NsExists(m, s) = NULL THEN f[node[m].parent]
                                            ELSE Deref(NsExists(m, s))]
<1>1. MaxNodes \in Nat /\ Node = 0..MaxNodes /\ NULL = -1
  BY BoundsAssumption DEF Node, NULL
<1>2. \A n \in Node : node[n].parent \in D /\ node[n].parent < n
  <2> TAKE n \in Node
  <2>1. CASE n \in Live /\ n # Root
    <3>1. node[n].parent \in 0..(n - 1)
      BY <2>1 DEF IInv, TreeInv
    <3>2. QED
      BY <1>1, <3>1
  <2>2. CASE n = Root
    BY <1>1, <2>2 DEF IInv, TreeInv, Root
  <2>3. CASE n \notin Live
    BY <1>1, <2>3 DEF IInv, TreeInv, Blank
  <2>4. QED
    BY <2>1, <2>2, <2>3
<1>3. Founded(D, rank, MaxNodes + 1, H, par)
  BY <1>1, <1>2 DEF Founded
<1>4. Typed(D, H, val, V, step)
  BY DEF Typed
<1>5. \E f \in [D -> V] : Follows(f, D, H, par, val, V, step)
  <2> HIDE DEF D, rank, H, par, val, step
  <2>1. QED
    BY <1>3, <1>4, Recursion
<1>6. PICK f \in [D -> V] : Follows(f, D, H, par, val, V, step)
  BY <1>5
<1>7. f = [m \in D |-> IF m = NULL THEN NULL
                       ELSE IF NsExists(m, s) = NULL THEN f[node[m].parent]
                       ELSE Deref(NsExists(m, s))]
  <2> SUFFICES ASSUME NEW m \in D
               PROVE  f[m] = IF m = NULL THEN NULL
                             ELSE IF NsExists(m, s) = NULL THEN f[node[m].parent]
                             ELSE Deref(NsExists(m, s))
    OBVIOUS
  <2>1. CASE m \in H
    BY <1>6, <2>1 DEF Follows
  <2>2. CASE m \notin H
    <3>1. m \in Node /\ NsExists(m, s) = NULL /\ m # NULL
      BY <2>2
    <3>2. par[m] = node[m].parent /\ par[m] \in D
      BY <1>2, <3>1
    <3>3. f[par[m]] \in V
      BY <3>2
    <3>4. f[m] = step[<<m, f[par[m]]>>]
      BY <1>6, <2>2, <3>3 DEF Follows
    <3>5. step[<<m, f[par[m]]>>] = f[par[m]]
      BY <3>3
    <3>6. QED
      BY <3>1, <3>2, <3>4, <3>5
  <2>3. QED
    BY <2>1, <2>2
<1>8. F = [m \in D |-> IF m = NULL THEN NULL
                       ELSE IF NsExists(m, s) = NULL THEN F[node[m].parent]
                       ELSE Deref(NsExists(m, s))]
  BY <1>7
<1>9. \A n : NsSearch(n, s) = F[n]
  BY DEF NsSearch
<1>10. \A m \in D : F[m] = IF m = NULL THEN NULL
                           ELSE IF NsExists(m, s) = NULL THEN F[node[m].parent]
                           ELSE Deref(NsExists(m, s))
  <2> HIDE DEF F
  <2>1. QED
    BY <1>8
<1>11. Follows(F, D, H, par, val, V, step)
  <2> HIDE DEF F
  <2> SUFFICES ASSUME NEW m \in D
               PROVE  IF m \in H THEN F[m] = val[m]
                      ELSE F[par[m]] \in V => F[m] = step[<<m, F[par[m]]>>]
    BY DEF Follows
  <2>1. CASE m \in H
    BY <1>10, <2>1
  <2>2. CASE m \notin H
    BY <1>10, <2>2
  <2>3. QED
    BY <2>1, <2>2
<1>12. \A n \in D : F[n] \in V
  <2> HIDE DEF D, rank, H, par, val, step, F
  <2>1. QED
    BY <1>3, <1>4, <1>11, RecursionTyped
<1>13. ASSUME NEW n \in Live
       PROVE  /\ NsSearch(n, s) \in V
              /\ NsExists(n, s) # NULL => NsSearch(n, s) = Deref(NsExists(n, s))
  <2>1. n \in D /\ n # NULL
    BY <1>1 DEF Live
  <2> HIDE DEF F, D
  <2>2. QED
    BY <1>9, <1>10, <1>12, <2>1
<1>14. QED
  BY <1>13

(* The numbers up to k, each with its predecessor. *)
LEMMA Counted ==
    ASSUME NEW k \in Nat
    PROVE  Founded(0..k, [i \in 0..k |-> i], k, {0}, [i \in 0..k |-> i - 1])
BY DEF Founded

(* What sabi_ns_path does with a segment. *)
PathStep(m, s) ==
    IF m = NULL THEN FAULT
    ELSE IF m \in {FAULT, Missing} THEN m
    ELSE IF NsExists(m, s) = NULL THEN Missing
    ELSE Deref(NsExists(m, s))
PathEnds == Live \cup {NULL, FAULT, Missing}

(* A step leads to a node or out. *)
LEMMA PathStepIs ==
    ASSUME IInv, ListsInv, NEW m \in PathEnds, NEW s
    PROVE  PathStep(m, s) \in PathEnds
<1>1. CASE m \in Node
  <2>1. NsExists(m, s) # NULL => Deref(NsExists(m, s)) \in Live \cup {NULL}
    BY <1>1, ExistsIs, DerefIs
  <2>2. QED
    BY <2>1 DEF PathStep, PathEnds
<1>2. CASE m \notin Node
  BY <1>2 DEF PathStep, PathEnds, Live
<1>3. QED
  BY <1>1, <1>2

(* It takes the segments one by one. *)
LEMMA PathIs ==
    ASSUME IInv, ListsInv, NEW n \in Live, NEW segs \in Seq(Seg)
    PROVE  \E w : /\ w[0] = n
                  /\ \A i \in 0..Len(segs) : w[i] \in PathEnds
                  /\ \A i \in 1..Len(segs) : w[i] = PathStep(w[i - 1], segs[i])
                  /\ NsPath(n, segs) = IF w[Len(segs)] = Missing THEN NULL ELSE w[Len(segs)]
<1> DEFINE k == Len(segs)
           D == 0..k
           rank == [i \in D |-> i]
           par == [i \in D |-> i - 1]
           val == [i \in D |-> n]
           V == PathEnds
           step == [x \in D \X V |-> PathStep(x[2], segs[x[1]])]
           Body(f, i) == IF i = 0 THEN n
                         ELSE LET m == f[i - 1]
                              IN  IF m = NULL THEN FAULT
                                  ELSE IF m \in {FAULT, Missing} THEN m
                                  ELSE IF NsExists(m, segs[i]) = NULL THEN Missing
                                  ELSE Deref(NsExists(m, segs[i]))
           F == CHOOSE f : f = [i \in 0..Len(segs) |-> Body(f, i)]
<1>1. k \in Nat
  OBVIOUS
<1>2. Founded(D, rank, k, {0}, par)
  BY <1>1, Counted
<1>3. Typed(D, {0}, val, V, step)
  BY PathStepIs DEF Typed, PathEnds
<1>4. PICK f \in [D -> V] : Follows(f, D, {0}, par, val, V, step)
  <2> HIDE DEF D, rank, par, val, step, V
  <2>1. QED
    BY <1>2, <1>3, Recursion
<1>5. \A g, i : Body(g, i) = IF i = 0 THEN n ELSE PathStep(g[i - 1], segs[i])
  BY DEF PathStep
<1>6. f = [i \in 0..Len(segs) |-> Body(f, i)]
  <2> HIDE DEF Body
  <2> SUFFICES ASSUME NEW i \in D PROVE f[i] = Body(f, i)
    OBVIOUS
  <2>1. CASE i = 0
    BY <1>4, <1>5, <2>1 DEF Follows
  <2>2. CASE i # 0
    <3>1. i - 1 \in D /\ par[i] = i - 1
      BY <1>1, <2>2
    <3>2. f[i - 1] \in V
      BY <3>1
    <3> HIDE DEF V
    <3>3. f[i] = step[<<i, f[i - 1]>>]
      BY <1>4, <2>2, <3>1, <3>2 DEF Follows
    <3>4. QED
      BY <1>5, <2>2, <3>2, <3>3
  <2>3. QED
    BY <2>1, <2>2
<1>7. F = [i \in 0..Len(segs) |-> Body(F, i)]
  <2> HIDE DEF Body
  <2>1. QED
    BY <1>6
<1>8. NsPath(n, segs) = IF F[Len(segs)] = Missing THEN NULL ELSE F[Len(segs)]
  BY DEF NsPath
<1>9. \A i \in 0..Len(segs) : F[i] = IF i = 0 THEN n ELSE PathStep(F[i - 1], segs[i])
  <2> HIDE DEF F, Body
  <2>1. QED
    BY <1>5, <1>7
<1>10. F[0] = n /\ \A i \in 1..Len(segs) : F[i] = PathStep(F[i - 1], segs[i])
  <2> HIDE DEF F
  <2>1. QED
    BY <1>1, <1>9
<1>11. Follows(F, D, {0}, par, val, V, step)
  <2> HIDE DEF F, V
  <2> SUFFICES ASSUME NEW i \in D
               PROVE  IF i \in {0} THEN F[i] = val[i]
                      ELSE F[par[i]] \in V => F[i] = step[<<i, F[par[i]]>>]
    BY DEF Follows
  <2>1. CASE i = 0
    BY <1>10, <2>1
  <2>2. CASE i # 0
    <3>1. i \in 1..Len(segs) /\ par[i] = i - 1
      BY <1>1, <2>2
    <3>2. F[i] = PathStep(F[i - 1], segs[i])
      BY <1>10, <3>1
    <3>3. QED
      BY <2>2, <3>1, <3>2
  <2>3. QED
    BY <2>1, <2>2
<1>12. \A i \in D : F[i] \in V
  <2> HIDE DEF D, rank, par, val, step, V, F
  <2>1. QED
    BY <1>2, <1>3, <1>11, RecursionTyped
<1>13. QED
  <2> HIDE DEF F
  <2>1. QED
    BY <1>8, <1>10, <1>12

(* A caret leads to the parent. *)
Above(m) == IF m = NULL THEN NULL ELSE node[m].parent

(* The parent of a live node is live, or there is none. *)
LEMMA AboveIs ==
    ASSUME IInv, NEW m \in Live \cup {NULL}
    PROVE  Above(m) \in Live \cup {NULL}
<1>1. Youngest \in Nat /\ Live = 0..Youngest
  BY NodeFacts DEF IInv, TreeInv
<1>2. m \in Live /\ m # Root => node[m].parent \in 0..(m - 1)
  BY DEF IInv, TreeInv
<1>3. m = Root => node[m].parent = NULL
  BY DEF IInv, TreeInv
<1>4. QED
  BY <1>1, <1>2, <1>3 DEF Above

(* A prefix of carets takes them one by one. *)
LEMMA AscendIs ==
    ASSUME IInv, NEW n \in Live, NEW up \in Nat
    PROVE  \E a \in [0..up -> Live \cup {NULL}] :
             /\ a[0] = n /\ \A i \in 1..up : a[i] = Above(a[i - 1])
             /\ Ascend(n, up) = a[up]
<1> DEFINE D == 0..up
           rank == [i \in D |-> i]
           par == [i \in D |-> i - 1]
           val == [i \in D |-> n]
           V == Live \cup {NULL}
           step == [x \in D \X V |-> Above(x[2])]
           Body(f, i) == IF i = 0 THEN n
                         ELSE IF f[i - 1] = NULL THEN NULL
                         ELSE node[f[i - 1]].parent
           F == CHOOSE f : f = [i \in 0..up |-> Body(f, i)]
<1>2. Founded(D, rank, up, {0}, par)
  BY Counted
<1>3. Typed(D, {0}, val, V, step)
  BY AboveIs DEF Typed
<1>4. PICK f \in [D -> V] : Follows(f, D, {0}, par, val, V, step)
  <2> HIDE DEF D, rank, par, val, step, V
  <2>1. QED
    BY <1>2, <1>3, Recursion
<1>5. \A g, i : Body(g, i) = IF i = 0 THEN n ELSE Above(g[i - 1])
  BY DEF Above
<1>6. f = [i \in 0..up |-> Body(f, i)]
  <2> HIDE DEF Body
  <2> SUFFICES ASSUME NEW i \in D PROVE f[i] = Body(f, i)
    OBVIOUS
  <2>1. CASE i = 0
    BY <1>4, <1>5, <2>1 DEF Follows
  <2>2. CASE i # 0
    <3>1. i - 1 \in D /\ par[i] = i - 1
      BY <2>2
    <3>2. f[i - 1] \in V
      BY <3>1
    <3> HIDE DEF V
    <3>3. f[i] = step[<<i, f[i - 1]>>]
      BY <1>4, <2>2, <3>1, <3>2 DEF Follows
    <3>4. QED
      BY <1>5, <2>2, <3>2, <3>3
  <2>3. QED
    BY <2>1, <2>2
<1>7. F = [i \in 0..up |-> Body(F, i)]
  <2> HIDE DEF Body
  <2>1. QED
    BY <1>6
<1>8. Ascend(n, up) = F[up]
  BY DEF Ascend, Absolute
<1>9. \A i \in 0..up : F[i] = IF i = 0 THEN n ELSE Above(F[i - 1])
  <2> HIDE DEF F, Body
  <2>1. QED
    BY <1>5, <1>7
<1>10. Follows(F, D, {0}, par, val, V, step)
  <2> HIDE DEF F
  <2> SUFFICES ASSUME NEW i \in D
               PROVE  IF i \in {0} THEN F[i] = val[i]
                      ELSE F[par[i]] \in V => F[i] = step[<<i, F[par[i]]>>]
    BY DEF Follows
  <2>1. QED
    BY <1>9
<1>11. \A i \in D : F[i] \in V
  <2> HIDE DEF D, rank, par, val, step, V, F
  <2>1. QED
    BY <1>2, <1>3, <1>10, RecursionTyped
<1>12. F \in [0..up -> Live \cup {NULL}]
  <2> HIDE DEF F, Body
  <2>1. F = [i \in 0..up |-> F[i]]
    BY <1>7
  <2>2. QED
    BY <1>11, <2>1
<1>13. F[0] = n /\ \A i \in 1..up : F[i] = Above(F[i - 1])
  <2> HIDE DEF F
  <2>1. QED
    BY <1>9
<1>14. QED
  <2> HIDE DEF F
  <2>1. QED
    BY <1>8, <1>12, <1>13

-----------------------------------------------------------------------------
(* What a lookup finds is no alias. *)

Proper == {c \in Live : node[c].type # "alias"}
AliasInv ==
    /\ AliasResolved
    /\ Root \in Proper
    /\ phase = "add" /\ job.type = "alias" /\ job.target # NULL => job.target \in Proper

(* A name has a segment, unless it is the root's. *)
Named(nm) == nm.up \in Nat => nm.segs # <<>>

(* One alias is followed, and it stands for a proper object. *)
LEMMA DerefProper ==
    ASSUME IInv, AliasResolved, NEW c \in Live
    PROVE  Deref(c) \in Proper \cup {NULL}
BY DerefIs DEF Deref, AliasResolved, Proper

(* A prefix leads to a live node, or to none. *)
LEMMA AscendLive ==
    ASSUME IInv, NEW n \in Live, NEW up \in Nat \cup {Absolute}
    PROVE  Ascend(n, up) \in Live \cup {NULL}
<1>1. CASE up \in Nat
  <2>1. PICK a \in [0..up -> Live \cup {NULL}] : Ascend(n, up) = a[up]
    BY <1>1, AscendIs
  <2>2. QED
    BY <1>1, <2>1
<1>2. CASE up = Absolute
  <2>1. Root \in Live
    BY NodeFacts DEF IInv, TreeInv, Root
  <2>2. QED
    BY <1>2, <2>1 DEF Ascend
<1>3. QED
  BY <1>1, <1>2

(* So sabi_ns_find, which follows an alias behind each segment. *)
LEMMA FindProper ==
    ASSUME IInv, ListsInv, AliasResolved, Root \in Proper, NEW n \in Live, NEW nm \in NameString,
           Named(nm), NsFind(n, nm) \in Live
    PROVE  NsFind(n, nm) \in Proper
<1>1. nm.up \in Nat \cup {Absolute} /\ nm.segs \in Seq(Seg)
  BY DEF NameString
<1>2. NULL \notin Live /\ FAULT \notin Live /\ Missing \notin Live
  BY BoundsAssumption DEF Live, Node, NULL, FAULT, Missing
<1>3. CASE nm.up = 0 /\ Len(nm.segs) = 1
  <2> DEFINE V == Proper \cup {NULL}
             s == nm.segs[1]
  <2>1. \A p \in Node : NsExists(p, s) # NULL => Deref(NsExists(p, s)) \in V
    BY ExistsIs, DerefProper
  <2>2. NULL \in V
    OBVIOUS
  <2>3. NsSearch(n, s) \in V
    <3> HIDE DEF V, s
    <3>1. QED
      BY <2>1, <2>2, SearchIs
  <2>4. NsFind(n, nm) = NsSearch(n, s)
    BY <1>3 DEF NsFind
  <2>5. QED
    BY <1>2, <2>3, <2>4
<1>4. CASE ~(nm.up = 0 /\ Len(nm.segs) = 1)
  <2> DEFINE a == Ascend(n, nm.up)
             k == Len(nm.segs)
  <2>1. a # NULL /\ NsFind(n, nm) = NsPath(a, nm.segs)
    BY <1>2, <1>4 DEF NsFind
  <2>2. a \in Live
    BY <1>1, <2>1, AscendLive
  <2>3. k \in Nat
    BY <1>1
  <2>4. PICK w : /\ w[0] = a
                 /\ \A i \in 0..k : w[i] \in PathEnds
                 /\ \A i \in 1..k : w[i] = PathStep(w[i - 1], nm.segs[i])
                 /\ NsPath(a, nm.segs) = IF w[k] = Missing THEN NULL ELSE w[k]
    <3> HIDE DEF a
    <3>1. QED
      BY <1>1, <2>2, PathIs
  <2> HIDE DEF a, k
  <2>5. w[k] \in Live /\ NsFind(n, nm) = w[k]
    BY <1>2, <2>1, <2>4
  <2>6. CASE k = 0
    <3>1. nm.segs = <<>>
      BY <1>1, <2>6 DEF k
    <3>2. nm.up = Absolute
      BY <1>1, <3>1 DEF Named
    <3>3. a = Root
      BY <3>2 DEF a, Ascend
    <3>4. QED
      BY <2>4, <2>5, <2>6, <3>3
  <2>7. CASE k # 0
    <3>1. k \in 1..k
      BY <2>3, <2>7
    <3> DEFINE m == w[k - 1]
               e == NsExists(m, nm.segs[k])
    <3>2. w[k] = PathStep(m, nm.segs[k])
      BY <2>4, <3>1
    <3>3. e # NULL /\ w[k] = Deref(e)
      BY <1>2, <2>5, <3>2 DEF PathStep
    <3>0. m \in PathEnds /\ m \notin {NULL, FAULT, Missing}
      <4>1. k - 1 \in 0..k
        BY <2>3, <2>7
      <4>2. m \in PathEnds
        BY <2>4, <4>1
      <4>3. QED
        BY <1>2, <2>5, <3>2, <4>2 DEF PathStep
    <3>4. e \in Live
      BY <3>0, <3>3, ExistsIs DEF PathEnds, Live
    <3> HIDE DEF m, e
    <3>5. Deref(e) \in Proper \cup {NULL}
      BY <3>4, DerefProper
    <3>6. QED
      BY <1>2, <2>5, <3>3, <3>5
  <2>8. QED
    BY <2>6, <2>7
<1>5. QED
  BY <1>3, <1>4

(* The scope of the running frame is live, as long as it runs. *)
LEMMA ScopeLive ==
    ASSUME IInv, frames # <<>>
    PROVE  Scope \in Live
<1>1. Depth \in 1..Depth /\ Depth \in Nat
  BY FrameFacts
<1>2. frames[Depth] \in Frame /\ FrameInv(Depth) /\ Bound(Depth) = Youngest
  BY <1>1, FrameFacts, BoundFacts
<1>3. Youngest \in Nat /\ Live = 0..Youngest
  BY NodeFacts DEF IInv, TreeInv
<1>4. Scope \in Nat /\ Scope =< Youngest
  BY <1>2, NodeFacts DEF Frame, FrameInv, Scope, Top
<1>5. QED
  BY <1>3, <1>4

(* The predefined nodes are no aliases. *)
LEMMA InitAlias == Init => AliasInv
<1> SUFFICES ASSUME Init PROVE AliasInv
  OBVIOUS
<1>1. Len(Predefined) = 7 /\ DOMAIN Predefined = 1..7
  BY DEF Predefined
<1>2. \A i \in 1..7 : Predefined[i].type \in {"device", "name", "osi"}
  BY DEF Predefined
<1>3. \A n \in Node : node[n] = InitialNode(n)
  BY DEF Init
<1>4. \A n \in Node : node[n].type # "alias"
  <2> TAKE n \in Node
  <2>1. CASE n = Root
    BY <1>3, <2>1 DEF InitialNode, Blank
  <2>2. CASE n # Root /\ n \in 1..7
    <3>1. n \in DOMAIN Predefined
      BY <1>1, <2>2
    <3>2. InitialNode(n) = [name |-> Predefined[n].name, parent |-> Root,
                            type |-> Predefined[n].type, target |-> NULL]
      BY <2>2, <3>1, Zenon DEF InitialNode
    <3>3. InitialNode(n).type = Predefined[n].type
      BY <3>2
    <3>4. QED
      BY <1>2, <1>3, <2>2, <3>3
  <2>3. CASE n # Root /\ n \notin 1..7
    <3>1. n \notin DOMAIN Predefined
      BY <1>1, <2>3
    <3>2. InitialNode(n) = Blank
      BY <2>3, <3>1, Zenon DEF InitialNode
    <3>3. QED
      BY <1>3, <3>2 DEF Blank
  <2>4. QED
    BY <2>1, <2>2, <2>3
<1>5. Root \in Node /\ node[Root].type = "root"
  BY <1>3, NodeFacts DEF InitialNode, Blank
<1>6. QED
  BY <1>4, <1>5 DEF AliasInv, AliasResolved, Proper, Live, Init

(* Where the tree stays, it depends on what is about to be defined. *)
LEMMA AliasQuiet ==
    ASSUME AliasInv, UNCHANGED tree,
           phase' = "add" /\ job'.type = "alias" /\ job'.target # NULL => job'.target \in Proper
    PROVE  AliasInv'
BY DEF AliasInv, AliasResolved, Proper, Live, tree

(* A definition that starts has the type and the target it is given. *)
LEMMA AliasStart ==
    ASSUME AliasInv, NEW nm, NEW rest, NEW type, NEW target, NEW open,
           StartAdd(nm, rest, type, target, open),
           type = "alias" /\ target # NULL => target \in Proper
    PROVE  AliasInv'
<1>1. UNCHANGED tree
  BY DEF StartAdd, Stop
<1>2. phase' = "add" => job'.type = type /\ job'.target = target
  BY DEF StartAdd, Stop
<1>3. QED
  BY <1>1, <1>2, AliasQuiet

(* A node is made with the target that the definition was given. *)
LEMMA AliasNew ==
    ASSUME IInv, AliasInv, AddNew
    PROVE  AliasInv'
<1> DEFINE n == Youngest + 1
<1>1. /\ Live = 0..Youngest /\ Youngest \in Nat /\ n \in Node /\ Live' = 0..n
      /\ job.target \in Live \cup {NULL}
      /\ node'[n] = [name |-> Segment, parent |-> job.cur,
                     type |-> job.type, target |-> job.target]
      /\ \A m \in Live : node'[m] = node[m]
  BY NewNode
<1>2. phase = "add" /\ job'.type = job.type /\ job'.target = job.target
  <2>1. job \in Job
    BY DEF IInv, TypeOK
  <2>2. PICK c : job' = [job EXCEPT !.cur = c, !.pos = @ + 1]
    BY DEF AddNew
  <2>3. QED
    BY <2>1, <2>2 DEF AddNew, Adding, Job
<1>3. \A m \in Live' : m = n \/ m \in Live
  BY <1>1
<1>4. \A m \in Live : m \in Live'
  BY <1>1
<1> HIDE DEF n
<1>5. \A m \in Proper : m \in Proper'
  BY <1>1, <1>4 DEF Proper
<1>6. ASSUME NEW m \in Live', node'[m].type = "alias", node'[m].target # NULL
      PROVE  node'[node'[m].target].type # "alias"
  <2>1. CASE m = n
    <3>1. job.type = "alias" /\ job.target # NULL /\ node'[m].target = job.target
      BY <1>1, <1>6, <2>1
    <3>2. job.target \in Proper'
      BY <1>2, <1>5, <3>1 DEF AliasInv
    <3>3. QED
      BY <3>1, <3>2 DEF Proper
  <2>2. CASE m \in Live
    <3>1. node'[m] = node[m]
      BY <1>1, <2>2
    <3>2. node[m].target \in Live
      BY <1>1, <1>6, <2>2, <3>1 DEF IInv, TreeInv
    <3>3. node[m].target \in Proper
      BY <1>6, <2>2, <3>1, <3>2 DEF AliasInv, AliasResolved, Proper
    <3>4. node[m].target \in Proper'
      BY <1>5, <3>3
    <3>5. QED
      BY <3>1, <3>4 DEF Proper
  <2>3. QED
    BY <1>3, <2>1, <2>2
<1>7. AliasResolved'
  BY <1>6 DEF AliasResolved
<1>8. Root \in Proper'
  BY <1>5 DEF AliasInv
<1>9. phase' = "add" /\ job'.type = "alias" /\ job'.target # NULL => job'.target \in Proper'
  BY <1>2, <1>5 DEF AliasInv
<1>10. QED
  BY <1>7, <1>8, <1>9 DEF AliasInv

(* The node that is freed is no other node's target. *)
LEMMA AliasGone ==
    ASSUME IInv, AliasInv, FreeNode
    PROVE  AliasInv'
<1> DEFINE n == Youngest
<1>1. /\ Live = 0..n /\ n \in Nat /\ n > 0 /\ Live' = 0..(n - 1)
      /\ \A m \in Live' : node'[m] = node[m]
  BY GoneNode
<1> HIDE DEF n
<1>2. \A m \in Live' : m \in Live
  BY <1>1
<1>3. \A m \in Live' : node[m].target # NULL => node[m].target \in Live'
  <2> TAKE m \in Live'
  <2>1. m \in Nat /\ m =< n - 1
    BY <1>1
  <2>2. node[m].target # NULL => node[m].target \in 0..(m - 1)
    BY <1>2 DEF IInv, TreeInv
  <2>3. QED
    BY <1>1, <2>1, <2>2
<1>4. AliasResolved'
  BY <1>1, <1>2, <1>3 DEF AliasInv, AliasResolved
<1>5. Root \in Proper'
  <2>1. Root \in Live'
    BY <1>1 DEF Root
  <2>2. QED
    BY <1>1, <2>1 DEF AliasInv, Proper
<1>6. phase' = "free"
  BY DEF FreeNode
<1>7. QED
  BY <1>4, <1>5, <1>6 DEF AliasInv

(* Every step. *)
LEMMA StepAlias ==
    ASSUME \A nm \in NameStrings : Named(nm), IInv, ListsInv, AliasInv, [Next]_vars
    PROVE  AliasInv'
<1>1. ASSUME UNCHANGED tree, phase' # "add"
      PROVE  AliasInv'
  BY <1>1, AliasQuiet
<1>2. \A why : Stop(why) => UNCHANGED tree /\ phase' = why
  BY DEF Stop
<1>3. \A fn, n : PushFrame(fn, n) => UNCHANGED tree /\ phase' = phase
  BY DEF PushFrame
<1>4. CASE RegisterTable \/ EndTable \/ EndMethod \/ FreeState \/ LeaveBlock
  <2>1. UNCHANGED tree /\ phase' # "add"
    BY <1>3, <1>4 DEF RegisterTable, EndTable, EndMethod, FreeState, LeaveBlock
  <2>2. QED
    BY <1>1, <2>1
<1>5. CASE \E m \in Node : EvalMethod(m)
  BY <1>1, <1>3, <1>5 DEF EvalMethod
<1>6. ASSUME NEW nm \in NameStrings, CallMethod(nm) \/ DefScope(nm) \/ DefFaults(nm)
      PROVE  AliasInv'
  <2>1. UNCHANGED tree /\ phase' # "add"
    BY <1>2, <1>3, <1>6 DEF CallMethod, DefScope, DefFaults
  <2>2. QED
    BY <1>1, <2>1
<1>7. ASSUME NEW nm \in NameStrings, NEW type \in {"name", "method"}, DefObject(nm, type)
      PROVE  AliasInv'
  BY <1>7, AliasStart DEF DefObject
<1>8. ASSUME NEW nm \in NameStrings, DefDevice(nm)
      PROVE  AliasInv'
  BY <1>8, AliasStart DEF DefDevice
<1>9. ASSUME NEW src \in NameStrings, NEW nm \in NameStrings, DefAlias(src, nm)
      PROVE  AliasInv'
  <2>1. PICK t \in Live \cup {NULL} : /\ t = NsFind(Scope, src)
                                      /\ StartAdd(nm, <<>>, "alias", t, FALSE)
    BY <1>9 DEF DefAlias
  <2>2. Scope \in Live
    BY <1>9, ScopeLive DEF DefAlias
  <2>3. src \in NameString /\ Named(src)
    BY NamesAssumption
  <2>4. t # NULL => t \in Proper
    <3>1. t # NULL => NsFind(Scope, src) \in Live
      BY <2>1
    <3>2. QED
      BY <2>1, <2>2, <2>3, <3>1, FindProper DEF AliasInv
  <2>5. QED
    BY <2>1, <2>4, AliasStart
<1>10. ASSUME NEW nm \in NameStrings, NEW list \in FieldLists, DefField(nm, list)
       PROVE  AliasInv'
  BY <1>10, AliasStart DEF DefField
<1>11. CASE AddExisting
  <2>1. job \in Job
    BY DEF IInv, TypeOK
  <2>2. PICK c : job' = [job EXCEPT !.cur = c, !.pos = @ + 1]
    BY <1>11 DEF AddExisting
  <2>3. job'.type = job.type /\ job'.target = job.target
    BY <2>1, <2>2 DEF Job
  <2>4. UNCHANGED <<tree, phase>>
    BY <1>11 DEF AddExisting
  <2>5. QED
    BY <2>3, <2>4, AliasQuiet DEF AliasInv
<1>12. CASE AddReturn
  <2>1. phase = "add"
    BY <1>12 DEF AddReturn
  <2>2. CASE /\ job.rest # <<>>
             /\ StartAdd(Plain(Head(job.rest)), Tail(job.rest), job.type, job.target, FALSE)
    <3>1. job.type = "alias" /\ job.target # NULL => job.target \in Proper
      BY <2>1 DEF AliasInv
    <3>2. QED
      BY <2>2, <3>1, AliasStart
  <2>3. CASE UNCHANGED tree /\ phase' = "run"
    BY <1>1, <2>3
  <2>4. QED
    BY <1>12, <2>2, <2>3 DEF AddReturn
<1>13. CASE UNCHANGED vars
  BY <1>13, AliasQuiet DEF AliasInv, vars, tree
<1>14. CASE FreeNode
  BY <1>14, AliasGone
<1>15. CASE AddNew
  BY <1>15, AliasNew
<1>16. QED
  BY <1>4, <1>5, <1>6, <1>7, <1>8, <1>9, <1>10, <1>11, <1>12, <1>13, <1>14, <1>15 DEF Next

(* An alias never stands for an alias, if a name without segments is       *)
(* nothing but the root's: sabi_def_alias stores what sabi_ns_find gives   *)
(* it, which has been followed already, unless it is a scope's parent.     *)
THEOREM AliasesAreResolved ==
    ASSUME \A nm \in NameStrings : Named(nm)
    PROVE  Spec => []AliasResolved
<1>1. Init => AliasInv
  BY InitAlias
<1>2. IInv /\ ListsInv /\ AliasInv /\ [Next]_vars => AliasInv'
  BY StepAlias
<1>3. AliasInv => AliasResolved
  BY DEF AliasInv
<1>4. QED
  BY <1>1, <1>2, <1>3, Shape, ListsHold, PTL DEF Spec

-----------------------------------------------------------------------------
(* What is defined is found. *)

(* Carets lead from n to s, by the parents in nd of the nodes in L. *)
Climbs(nd, L, n, up, s) ==
    IF up = Absolute THEN s = Root
    ELSE \E a \in [0..up -> L] : /\ a[0] = n /\ a[up] = s
                                 /\ \A i \in 1..up : a[i] = nd[a[i - 1]].parent

(* The first k segments lead from s to c, by children of these names. *)
Trails(nd, L, s, segs, k, c) ==
    \E t \in [0..k -> L] : /\ t[0] = s /\ t[k] = c
                           /\ \A i \in 1..k : /\ nd[t[i]].parent = t[i - 1]
                                              /\ nd[t[i]].name = segs[i]

(* The node that a definition has come to. *)
TrailInv ==
    phase = "add" =>
      /\ job.pos - 1 =< Len(job.name.segs)
      /\ \E s \in Live : /\ Climbs(node, Live, Scope, job.name.up, s)
                         /\ Trails(node, Live, s, job.name.segs, job.pos - 1, job.cur)

(* Nodes that stay keep both. *)
LEMMA Stays ==
    ASSUME \A m \in Live : m \in Live' /\ node'[m] = node[m],
           NEW n, NEW up \in Nat \cup {Absolute}, NEW s, NEW segs, NEW k \in Nat, NEW c
    PROVE  /\ Climbs(node, Live, n, up, s) => Climbs(node', Live', n, up, s)
           /\ Trails(node, Live, s, segs, k, c) => Trails(node', Live', s, segs, k, c)
<1>1. ASSUME Climbs(node, Live, n, up, s), up # Absolute
      PROVE  Climbs(node', Live', n, up, s)
  <2>1. PICK a \in [0..up -> Live] : /\ a[0] = n /\ a[up] = s
                                     /\ \A i \in 1..up : a[i] = node[a[i - 1]].parent
    BY <1>1 DEF Climbs
  <2>2. up \in Nat
    BY <1>1
  <2>3. a \in [0..up -> Live']
    OBVIOUS
  <2>4. \A i \in 1..up : a[i] = node'[a[i - 1]].parent
    <3> TAKE i \in 1..up
    <3>1. i - 1 \in 0..up
      BY <2>2
    <3>2. QED
      BY <2>1, <3>1
  <2>5. QED
    BY <1>1, <2>1, <2>3, <2>4 DEF Climbs
<1>2. ASSUME Trails(node, Live, s, segs, k, c)
      PROVE  Trails(node', Live', s, segs, k, c)
  <2>1. PICK t \in [0..k -> Live] : /\ t[0] = s /\ t[k] = c
                                    /\ \A i \in 1..k : /\ node[t[i]].parent = t[i - 1]
                                                       /\ node[t[i]].name = segs[i]
    BY <1>2 DEF Trails
  <2>2. t \in [0..k -> Live']
    OBVIOUS
  <2>3. \A i \in 1..k : node'[t[i]] = node[t[i]]
    <3> TAKE i \in 1..k
    <3>1. i \in 0..k
      OBVIOUS
    <3>2. QED
      BY <3>1
  <2>4. QED
    BY <2>1, <2>2, <2>3 DEF Trails
<1>3. QED
  BY <1>1, <1>2 DEF Climbs

(* One segment more. *)
LEMMA Longer ==
    ASSUME NEW nd, NEW L, NEW s, NEW segs, NEW k \in Nat, NEW c, Trails(nd, L, s, segs, k, c),
           NEW e \in L, nd[e].parent = c, nd[e].name = segs[k + 1]
    PROVE  Trails(nd, L, s, segs, k + 1, e)
<1>1. PICK t \in [0..k -> L] : /\ t[0] = s /\ t[k] = c
                               /\ \A i \in 1..k : /\ nd[t[i]].parent = t[i - 1]
                                                  /\ nd[t[i]].name = segs[i]
  BY DEF Trails
<1> DEFINE u == [i \in 0..(k + 1) |-> IF i = k + 1 THEN e ELSE t[i]]
<1>2. u \in [0..(k + 1) -> L] /\ u[0] = s /\ u[k + 1] = e
  BY <1>1
<1>3. ASSUME NEW i \in 1..(k + 1)
      PROVE  nd[u[i]].parent = u[i - 1] /\ nd[u[i]].name = segs[i]
  <2>1. i - 1 \in 0..(k + 1) /\ i - 1 # k + 1 /\ u[i - 1] = t[i - 1]
    OBVIOUS
  <2>2. CASE i = k + 1
    BY <1>1, <2>1, <2>2
  <2>3. CASE i # k + 1
    <3>1. i \in 1..k /\ u[i] = t[i]
      BY <2>3
    <3>2. QED
      BY <1>1, <2>1, <3>1
  <2>4. QED
    BY <2>2, <2>3
<1> HIDE DEF u
<1>4. QED
  BY <1>2, <1>3 DEF Trails

(* A prefix that leads to a node is climbed node by node. *)
LEMMA AscendClimbs ==
    ASSUME IInv, NEW n \in Live, NEW up \in Nat \cup {Absolute}, Ascend(n, up) # NULL
    PROVE  Climbs(node, Live, n, up, Ascend(n, up))
<1>1. CASE up = Absolute
  BY <1>1 DEF Ascend, Climbs
<1>2. CASE up # Absolute
  <2>1. up \in Nat
    BY <1>2
  <2>2. PICK a \in [0..up -> Live \cup {NULL}] :
          /\ a[0] = n /\ \A i \in 1..up : a[i] = Above(a[i - 1])
          /\ Ascend(n, up) = a[up]
    BY <2>1, AscendIs
  <2>3. ASSUME NEW i \in 0..up, a[i] = NULL
        PROVE  FALSE
    <3> DEFINE S == {j \in Nat : i + j =< up => a[i + j] = NULL}
    <3>1. 0 \in S
      BY <2>3
    <3>2. ASSUME NEW j \in Nat, j \in S
          PROVE  j + 1 \in S
      <4>1. SUFFICES ASSUME i + (j + 1) =< up
                     PROVE  a[i + (j + 1)] = NULL
        OBVIOUS
      <4>2. i + (j + 1) \in 1..up /\ (i + (j + 1)) - 1 = i + j /\ i + j =< up
        BY <2>1, <4>1
      <4>3. a[i + j] = NULL
        BY <3>2, <4>2
      <4>4. a[i + (j + 1)] = Above(a[i + j])
        BY <2>2, <4>2
      <4>5. QED
        BY <4>3, <4>4 DEF Above
    <3>3. \A j \in Nat : j \in S
      <4> HIDE DEF S
      <4>1. QED
        BY <3>1, <3>2, Numbers
    <3>4. up - i \in Nat /\ i + (up - i) = up
      BY <2>1
    <3>5. a[up] = NULL
      BY <3>3, <3>4
    <3>6. QED
      BY <2>2, <3>5
  <2>4. a \in [0..up -> Live]
    BY <2>3
  <2>5. \A i \in 1..up : a[i] = node[a[i - 1]].parent
    <3> TAKE i \in 1..up
    <3>1. i - 1 \in 0..up
      BY <2>1
    <3>2. a[i - 1] # NULL
      BY <2>3, <3>1
    <3>3. QED
      BY <2>2, <3>2 DEF Above
  <2>6. QED
    BY <1>2, <2>2, <2>4, <2>5 DEF Climbs
<1>3. QED
  BY <1>1, <1>2

(* And the reverse. *)
LEMMA ClimbsAscend ==
    ASSUME IInv, NEW n \in Live, NEW up \in Nat \cup {Absolute}, NEW s \in Live,
           Climbs(node, Live, n, up, s)
    PROVE  Ascend(n, up) = s
<1>1. CASE up = Absolute
  BY <1>1 DEF Ascend, Climbs
<1>2. CASE up # Absolute
  <2>1. up \in Nat
    BY <1>2
  <2>2. PICK a \in [0..up -> Live \cup {NULL}] :
          /\ a[0] = n /\ \A i \in 1..up : a[i] = Above(a[i - 1])
          /\ Ascend(n, up) = a[up]
    BY <2>1, AscendIs
  <2>3. PICK b \in [0..up -> Live] : /\ b[0] = n /\ b[up] = s
                                     /\ \A i \in 1..up : b[i] = node[b[i - 1]].parent
    BY <1>2 DEF Climbs
  <2>4. NULL \notin Live
    BY BoundsAssumption DEF Live, Node, NULL
  <2> DEFINE S == {i \in Nat : i =< up => a[i] = b[i]}
  <2>5. 0 \in S
    BY <2>2, <2>3
  <2>6. ASSUME NEW i \in Nat, i \in S
        PROVE  i + 1 \in S
    <3>1. SUFFICES ASSUME i + 1 =< up
                   PROVE  a[i + 1] = b[i + 1]
      OBVIOUS
    <3>2. i + 1 \in 1..up /\ (i + 1) - 1 = i /\ i \in 0..up
      BY <2>1, <3>1
    <3>3. a[i] = b[i] /\ b[i] \in Live
      BY <2>6, <3>2
    <3>4. a[i + 1] = Above(a[i]) /\ b[i + 1] = node[b[i]].parent
      BY <2>2, <2>3, <3>2
    <3>5. QED
      BY <2>4, <3>3, <3>4 DEF Above
  <2>7. \A i \in Nat : i \in S
    <3> HIDE DEF S
    <3>1. QED
      BY <2>5, <2>6, Numbers
  <2>8. a[up] = b[up]
    BY <2>1, <2>7
  <2>9. QED
    BY <2>2, <2>3, <2>8
<1>3. QED
  BY <1>1, <1>2

(* A node and the nodes above it, as DefinedIsFound has them. *)
Ancestry == CHOOSE f : f = [n \in Live |-> IF n = Root THEN {Root}
                                           ELSE {n} \cup f[node[n].parent]]

(* There are such sets. *)
LEMMA Ancestors ==
    ASSUME IInv
    PROVE  \A n \in Live : Ancestry[n] = IF n = Root THEN {Root}
                                         ELSE {n} \cup Ancestry[node[n].parent]
<1> DEFINE rank == [n \in Live |-> n]
           par == [n \in Live |-> node[n].parent]
           val == [n \in Live |-> {Root}]
           V == SUBSET Live
           step == [x \in Live \X V |-> {x[1]} \cup x[2]]
           Body(f, n) == IF n = Root THEN {Root} ELSE {n} \cup f[node[n].parent]
<1>1. Youngest \in Nat /\ Live = 0..Youngest
  BY NodeFacts DEF IInv, TreeInv
<1>2. \A n \in Live : n # Root => node[n].parent \in Live /\ node[n].parent < n
  <2> TAKE n \in Live
  <2>1. n # Root => node[n].parent \in 0..(n - 1)
    BY DEF IInv, TreeInv
  <2>2. QED
    BY <1>1, <2>1
<1>3. Founded(Live, rank, Youngest, {Root}, par)
  BY <1>1, <1>2 DEF Founded
<1>4. Typed(Live, {Root}, val, V, step)
  <2>1. Root \in Live
    BY <1>1 DEF Root
  <2>2. QED
    BY <2>1 DEF Typed
<1>5. PICK f \in [Live -> V] : Follows(f, Live, {Root}, par, val, V, step)
  <2> HIDE DEF rank, par, val, step, V
  <2>1. QED
    BY <1>3, <1>4, Recursion
<1>6. f = [n \in Live |-> Body(f, n)]
  <2> SUFFICES ASSUME NEW n \in Live PROVE f[n] = Body(f, n)
    OBVIOUS
  <2>1. CASE n = Root
    BY <1>5, <2>1 DEF Follows
  <2>2. CASE n # Root
    <3>1. par[n] = node[n].parent /\ f[par[n]] \in V
      BY <1>2, <2>2
    <3>2. f[n] = step[<<n, f[par[n]]>>]
      BY <1>5, <2>2, <3>1 DEF Follows
    <3> HIDE DEF par
    <3>3. step[<<n, f[par[n]]>>] = {n} \cup f[par[n]]
      BY <3>1
    <3>4. QED
      BY <2>2, <3>1, <3>2, <3>3
  <2>3. QED
    BY <2>1, <2>2
<1>7. Ancestry = [n \in Live |-> Body(Ancestry, n)]
  BY <1>6 DEF Ancestry
<1>8. QED
  BY <1>7

(* A lookup goes the way that the definition has gone. *)
LEMMA FoundAgain ==
    ASSUME IInv, ListsInv, SiblingNamesUnique, NEW n \in Live, NEW nm \in NameString, NEW s \in Live,
           NEW c, Climbs(node, Live, n, nm.up, s),
           Trails(node, Live, s, nm.segs, Len(nm.segs), c),
           \A x \in Ancestry[c] : x # Root => node[x].type # "alias"
    PROVE  NsFind(n, nm) = c
<1> DEFINE k == Len(nm.segs)
<1>1. nm.up \in Nat \cup {Absolute} /\ nm.segs \in Seq(Seg) /\ k \in Nat
  BY DEF NameString
<1>2. Ascend(n, nm.up) = s
  BY <1>1, ClimbsAscend
<1>3. PICK t \in [0..k -> Live] : /\ t[0] = s /\ t[k] = c
                                  /\ \A i \in 1..k : /\ node[t[i]].parent = t[i - 1]
                                                     /\ node[t[i]].name = nm.segs[i]
  BY DEF Trails
<1>4. NULL \notin Live /\ FAULT \notin Live /\ Missing \notin Live
  BY BoundsAssumption DEF Live, Node, NULL, FAULT, Missing
<1> HIDE DEF k
<1>5. \A i \in 1..k : i \in 0..k /\ i - 1 \in 0..k
  BY <1>1
<1>6. \A i \in 1..k : t[i] \in Live /\ t[i - 1] \in Live /\ t[i] # Root
  <2>1. node[Root].parent = NULL
    BY DEF IInv, TreeInv
  <2>2. QED
    BY <1>3, <1>4, <1>5, <2>1
<1>7. \A i \in 1..k : NsExists(t[i - 1], nm.segs[i]) = t[i]
  <2> TAKE i \in 1..k
  <2>1. node[t[i]].parent = t[i - 1] /\ node[t[i]].name = nm.segs[i]
    BY <1>3
  <2>2. t[i] \in Live /\ node[t[i]].parent \in Live
    BY <1>6, <2>1
  <2>3. NsExists(node[t[i]].parent, node[t[i]].name) = t[i]
    BY <2>2, ExistsOnly
  <2>4. QED
    BY <2>1, <2>3
<1>8. \A i \in 0..k : t[i] \in Ancestry[c]
  <2> DEFINE S == {j \in Nat : j =< k => \A i \in 0..j : t[i] \in Ancestry[t[j]]}
  <2>1. 0 \in S
    <3>1. t[0] \in Live
      BY <1>1, <1>3
    <3>2. t[0] \in Ancestry[t[0]]
      BY <3>1, Ancestors
    <3>3. \A i \in 0..0 : i = 0
      OBVIOUS
    <3>4. QED
      BY <3>2, <3>3
  <2>2. ASSUME NEW j \in Nat, j \in S
        PROVE  j + 1 \in S
    <3>1. SUFFICES ASSUME j + 1 =< k, NEW i \in 0..(j + 1)
                   PROVE  t[i] \in Ancestry[t[j + 1]]
      OBVIOUS
    <3>2. j + 1 \in 1..k /\ (j + 1) - 1 = j /\ j =< k
      BY <1>1, <3>1
    <3>3. t[j + 1] \in Live /\ t[j + 1] # Root /\ node[t[j + 1]].parent = t[j]
      BY <1>3, <1>6, <3>2
    <3>4. Ancestry[t[j + 1]] = {t[j + 1]} \cup Ancestry[t[j]]
      BY <3>3, Ancestors
    <3>5. CASE i = j + 1
      BY <3>4, <3>5
    <3>6. CASE i # j + 1
      <4>1. i \in 0..j
        BY <3>6
      <4>2. t[i] \in Ancestry[t[j]]
        BY <2>2, <3>2, <4>1
      <4>3. QED
        BY <3>4, <4>2
    <3>7. QED
      BY <3>5, <3>6
  <2>3. \A j \in Nat : j \in S
    <3> HIDE DEF S
    <3>1. QED
      BY <2>1, <2>2, Numbers
  <2>4. k \in S
    BY <1>1, <2>3
  <2>5. k =< k
    BY <1>1
  <2>6. \A i \in 0..k : t[i] \in Ancestry[t[k]]
    BY <2>4, <2>5
  <2>7. QED
    BY <1>3, <2>6
<1>9. \A i \in 1..k : Deref(t[i]) = t[i]
  BY <1>5, <1>6, <1>8 DEF Deref
<1>10. CASE nm.up = 0 /\ k = 1
  <2>1. s = n
    BY <1>10 DEF Climbs, Absolute
  <2>2. 1 \in 1..k /\ 1 - 1 = 0
    BY <1>10
  <2>3. NsExists(n, nm.segs[1]) = t[1] /\ t[1] = c /\ t[1] # NULL /\ Deref(t[1]) = t[1]
    BY <1>3, <1>4, <1>6, <1>7, <1>9, <1>10, <2>1, <2>2
  <2> DEFINE V == Live \cup {NULL}
             g == nm.segs[1]
  <2>4. NULL \in V /\ \A p \in Node : NsExists(p, g) # NULL => Deref(NsExists(p, g)) \in V
    BY ExistsIs, DerefIs
  <2>5. NsExists(n, g) # NULL => NsSearch(n, g) = Deref(NsExists(n, g))
    <3> HIDE DEF V, g
    <3>1. QED
      BY <2>4, SearchIs
  <2>6. NsFind(n, nm) = NsSearch(n, g)
    BY <1>10 DEF NsFind, k
  <2>7. QED
    BY <2>3, <2>5, <2>6
<1>11. CASE ~(nm.up = 0 /\ k = 1)
  <2>1. NsFind(n, nm) = NsPath(s, nm.segs)
    BY <1>2, <1>4, <1>11 DEF NsFind, k
  <2>2. PICK w : /\ w[0] = s
                 /\ \A i \in 1..k : w[i] = PathStep(w[i - 1], nm.segs[i])
                 /\ NsPath(s, nm.segs) = IF w[k] = Missing THEN NULL ELSE w[k]
    BY <1>1, PathIs DEF k
  <2> DEFINE S == {i \in Nat : i =< k => w[i] = t[i]}
  <2>3. 0 \in S
    BY <1>3, <2>2
  <2>4. ASSUME NEW i \in Nat, i \in S
        PROVE  i + 1 \in S
    <3>1. SUFFICES ASSUME i + 1 =< k
                   PROVE  w[i + 1] = t[i + 1]
      OBVIOUS
    <3>2. i + 1 \in 1..k /\ (i + 1) - 1 = i /\ i =< k
      BY <1>1, <3>1
    <3>3. w[i + 1] = PathStep(t[i], nm.segs[i + 1])
      BY <2>2, <2>4, <3>2
    <3>4. NsExists(t[i], nm.segs[i + 1]) = t[i + 1] /\ t[i] \in Live /\ t[i + 1] \in Live
      BY <1>6, <1>7, <3>2
    <3>5. Deref(t[i + 1]) = t[i + 1]
      BY <1>9, <3>2
    <3>6. QED
      BY <1>4, <3>3, <3>4, <3>5 DEF PathStep
  <2>5. \A i \in Nat : i \in S
    <3> HIDE DEF S
    <3>1. QED
      BY <2>3, <2>4, Numbers
  <2>6. w[k] = c
    BY <1>1, <1>3, <2>5
  <2>7. c \in Live
    BY <1>1, <1>3
  <2>8. QED
    BY <1>4, <2>1, <2>2, <2>6, <2>7
<1>12. QED
  BY <1>10, <1>11

(* A definition starts where the prefix leads. *)
LEMMA TrailStart ==
    ASSUME IInv, frames # <<>>, NEW nm \in NameString, NEW rest, NEW type, NEW target, NEW open,
           StartAdd(nm, rest, type, target, open)
    PROVE  TrailInv'
<1> SUFFICES ASSUME phase' = "add" PROVE TrailInv'
  BY DEF TrailInv
<1> DEFINE s == Ascend(Scope, nm.up)
<1>1. /\ s \in Live /\ s # NULL
      /\ job' = [name |-> nm, rest |-> rest, pos |-> 1, cur |-> s,
                 type |-> type, target |-> target, open |-> open]
      /\ UNCHANGED <<tree, frames, saved>>
  <2>1. NULL \notin Live
    BY BoundsAssumption DEF Live, Node, NULL
  <2>2. QED
    BY <2>1 DEF StartAdd, Stop
<1>2. nm.up \in Nat \cup {Absolute} /\ nm.segs \in Seq(Seg)
  BY DEF NameString
<1>3. Scope \in Live
  BY ScopeLive
<1>4. Climbs(node, Live, Scope, nm.up, s)
  BY <1>1, <1>2, <1>3, AscendClimbs
<1> HIDE DEF s
<1>5. Trails(node, Live, s, nm.segs, 0, s)
  <2> DEFINE t == [i \in 0..0 |-> s]
  <2>1. t \in [0..0 -> Live] /\ t[0] = s
    BY <1>1
  <2> HIDE DEF t
  <2>2. QED
    BY <2>1 DEF Trails
<1>6. job'.pos - 1 = 0 /\ job'.name = nm /\ job'.cur = s
  BY <1>1
<1>7. node' = node /\ Live' = Live /\ Scope' = Scope
  BY <1>1 DEF tree, Live, Scope, Top, Depth
<1>8. job'.pos - 1 =< Len(job'.name.segs)
  BY <1>2, <1>6
<1>9. /\ Climbs(node', Live', Scope', job'.name.up, s)
      /\ Trails(node', Live', s, job'.name.segs, job'.pos - 1, job'.cur)
  BY <1>4, <1>5, <1>6, <1>7
<1>10. s \in Live'
  BY <1>1, <1>7
<1>11. QED
  BY <1>8, <1>9, <1>10 DEF TrailInv

(* It goes on to a child that has the next segment as its name. *)
LEMMA TrailGoes ==
    ASSUME IInv, TrailInv, Adding, \A m \in Live : m \in Live' /\ node'[m] = node[m],
           Scope' = Scope, NEW e \in Live', job' = [job EXCEPT !.cur = e, !.pos = @ + 1],
           node'[e].parent = job.cur, node'[e].name = Segment
    PROVE  TrailInv'
<1> DEFINE k == job.pos - 1
<1>1. job \in Job /\ job.pos \in Nat /\ k \in Nat /\ job.pos =< Len(job.name.segs)
  BY DEF IInv, TypeOK, Job, Adding
<1>2. job.name.up \in Nat \cup {Absolute} /\ job.name.segs \in Seq(Seg)
  BY <1>1 DEF Job, NameString
<1>3. job'.name = job.name /\ job'.cur = e /\ job'.pos - 1 = k + 1 /\ k + 1 = job.pos
  BY <1>1 DEF Job
<1> HIDE DEF k
<1>4. PICK s \in Live : /\ Climbs(node, Live, Scope, job.name.up, s)
                        /\ Trails(node, Live, s, job.name.segs, k, job.cur)
  BY DEF TrailInv, Adding, k
<1>5. /\ Climbs(node', Live', Scope, job.name.up, s)
      /\ Trails(node', Live', s, job.name.segs, k, job.cur)
  <2>1. k \in Nat /\ job.name.up \in Nat \cup {Absolute}
    BY <1>1, <1>2
  <2>2. Climbs(node, Live, Scope, job.name.up, s) => Climbs(node', Live', Scope, job.name.up, s)
    BY <2>1, Stays
  <2>3. Trails(node, Live, s, job.name.segs, k, job.cur)
          => Trails(node', Live', s, job.name.segs, k, job.cur)
    BY <2>1, Stays
  <2>4. QED
    BY <1>4, <2>2, <2>3
<1>6. node'[e].name = job.name.segs[k + 1]
  BY <1>3 DEF Segment
<1>7. Trails(node', Live', s, job.name.segs, k + 1, e)
  BY <1>1, <1>5, <1>6, Longer
<1>8. job'.pos - 1 =< Len(job'.name.segs)
  BY <1>1, <1>2, <1>3
<1>9. s \in Live'
  BY <1>4
<1>10. QED
  BY <1>3, <1>5, <1>7, <1>8, <1>9 DEF TrailInv

(* Every step. *)
LEMMA StepTrail ==
    ASSUME IInv, ListsInv, TrailInv, [Next]_vars
    PROVE  TrailInv'
<1>1. ASSUME phase' # "add"
      PROVE  TrailInv'
  BY <1>1 DEF TrailInv
<1>2. \A why : Stop(why) => phase' = why
  BY DEF Stop
<1>3. \A fn, n : PushFrame(fn, n) => phase' = phase
  BY DEF PushFrame
<1>4. CASE RegisterTable \/ EndTable \/ EndMethod \/ FreeState \/ LeaveBlock \/ FreeNode
  <2>1. phase' # "add"
    BY <1>3, <1>4 DEF RegisterTable, EndTable, EndMethod, FreeState, LeaveBlock, FreeNode
  <2>2. QED
    BY <1>1, <2>1
<1>5. CASE \E m \in Node : EvalMethod(m)
  BY <1>1, <1>3, <1>5 DEF EvalMethod
<1>6. ASSUME NEW nm \in NameStrings, CallMethod(nm) \/ DefScope(nm) \/ DefFaults(nm)
      PROVE  TrailInv'
  <2>1. phase' # "add"
    BY <1>2, <1>3, <1>6 DEF CallMethod, DefScope, DefFaults
  <2>2. QED
    BY <1>1, <2>1
<1>7. ASSUME NEW nm \in NameStrings, NEW type \in {"name", "method"}, DefObject(nm, type)
      PROVE  TrailInv'
  <2>1. nm \in NameString /\ frames # <<>> /\ StartAdd(nm, <<>>, type, NULL, FALSE)
    BY <1>7, NamesAssumption DEF DefObject
  <2>2. QED
    BY <2>1, TrailStart
<1>8. ASSUME NEW nm \in NameStrings, DefDevice(nm)
      PROVE  TrailInv'
  <2>1. nm \in NameString /\ frames # <<>> /\ StartAdd(nm, <<>>, "device", NULL, TRUE)
    BY <1>8, NamesAssumption DEF DefDevice
  <2>2. QED
    BY <2>1, TrailStart
<1>9. ASSUME NEW src \in NameStrings, NEW nm \in NameStrings, DefAlias(src, nm)
      PROVE  TrailInv'
  <2>1. PICK t : StartAdd(nm, <<>>, "alias", t, FALSE)
    BY <1>9 DEF DefAlias
  <2>2. nm \in NameString /\ frames # <<>>
    BY <1>9, NamesAssumption DEF DefAlias
  <2>3. QED
    BY <2>1, <2>2, TrailStart
<1>10. ASSUME NEW nm \in NameStrings, NEW list \in FieldLists, DefField(nm, list)
       PROVE  TrailInv'
  <2>1. PICK t : StartAdd(Plain(Head(list)), Tail(list), "field", t, FALSE)
    BY <1>10 DEF DefField
  <2>2. list \in Seq(Seg) /\ Len(list) > 0 /\ frames # <<>>
    BY <1>10, FieldsAssumption DEF DefField, Room
  <2>3. Head(list) \in Seg
    BY <2>2
  <2>4. Plain(Head(list)) \in NameString
    BY <2>3 DEF Plain, NameString
  <2>5. QED
    BY <2>1, <2>2, <2>4, TrailStart
<1>11. CASE AddExisting
  <2>1. PICK c \in Live : /\ c = NsExists(job.cur, Segment)
                          /\ job' = [job EXCEPT !.cur = c, !.pos = @ + 1]
    BY <1>11 DEF AddExisting
  <2>2. NULL \notin Live
    BY BoundsAssumption DEF Live, Node, NULL
  <2>0. job.cur \in Node
    BY <1>11 DEF AddExisting, Adding, IInv, PhaseInv, Live
  <2>3. node[c].parent = job.cur /\ node[c].name = Segment
    BY <2>0, <2>1, <2>2, ExistsIs
  <2>4. Adding /\ UNCHANGED <<tree, frames>>
    BY <1>11 DEF AddExisting
  <2>5. node' = node /\ Live' = Live /\ Scope' = Scope
    BY <2>4 DEF tree, Live, Scope, Top, Depth
  <2>6. QED
    BY <2>1, <2>3, <2>4, <2>5, TrailGoes
<1>12. CASE AddNew
  <2> DEFINE n == Youngest + 1
  <2>1. /\ Live = 0..Youngest /\ Youngest \in Nat /\ Live' = 0..n
        /\ node'[n] = [name |-> Segment, parent |-> job.cur,
                       type |-> job.type, target |-> job.target]
        /\ \A m \in Live : node'[m] = node[m]
    BY <1>12, NewNode
  <2>2. /\ Adding /\ job' = [job EXCEPT !.cur = n, !.pos = @ + 1]
        /\ frames' = [frames EXCEPT ![Depth].head = n]
    BY <1>12 DEF AddNew
  <2>3. n \in Live' /\ \A m \in Live : m \in Live'
    BY <2>1
  <2> HIDE DEF n
  <2>4. Scope' = Scope
    <3>1. frames # <<>>
      BY <2>2 DEF IInv, PhaseInv, Adding
    <3>2. frames \in Seq(Frame) /\ Depth \in 1..Depth /\ Depth \in Nat /\ DOMAIN frames = 1..Depth
      BY <3>1, FrameFacts
    <3>3. frames[Depth] \in Frame
      BY <3>2, FrameFacts
    <3>4. Len(frames') = Depth
      BY <2>2, <3>2 DEF Depth
    <3>5. frames'[Depth].scope = frames[Depth].scope
      BY <2>2, <3>2, <3>3 DEF Frame
    <3>6. QED
      BY <3>4, <3>5 DEF Scope, Top, Depth
  <2>5. node'[n].parent = job.cur /\ node'[n].name = Segment
    BY <2>1
  <2>6. QED
    BY <2>1, <2>2, <2>3, <2>4, <2>5, TrailGoes
<1>13. CASE AddReturn
  <2>1. frames # <<>> /\ job \in Job
    BY <1>13 DEF AddReturn, IInv, PhaseInv, TypeOK
  <2>2. CASE /\ job.rest # <<>>
             /\ StartAdd(Plain(Head(job.rest)), Tail(job.rest), job.type, job.target, FALSE)
    <3>1. job.rest \in Seq(Seg)
      BY <2>1 DEF Job
    <3>2. Head(job.rest) \in Seg
      BY <2>2, <3>1, HeadTailProperties
    <3>3. Plain(Head(job.rest)) \in NameString
      BY <3>2 DEF Plain, NameString
    <3>4. QED
      BY <2>1, <2>2, <3>3, TrailStart
  <2>3. CASE phase' = "run"
    BY <1>1, <2>3
  <2>4. QED
    BY <1>13, <2>2, <2>3 DEF AddReturn
<1>14. CASE UNCHANGED vars
  <2>1. UNCHANGED <<node, frames, phase, job>>
    BY <1>14 DEF vars, tree
  <2>2. Live' = Live /\ Scope' = Scope
    BY <2>1 DEF Live, Scope, Top, Depth
  <2>3. QED
    BY <2>1, <2>2 DEF TrailInv
<1>15. QED
  BY <1>4, <1>5, <1>6, <1>7, <1>8, <1>9, <1>10, <1>11, <1>12, <1>13, <1>14 DEF Next

(* At the end of a definition the trail is the whole name. *)
LEMMA TrailsEnd ==
    ASSUME IInv, ListsInv, SiblingNamesUnique, TrailInv
    PROVE  DefinedIsFound
<1> SUFFICES ASSUME phase = "add", job.pos > Len(job.name.segs),
                    \A x \in {y \in Ancestry[job.cur] : y # Root} : node[x].type # "alias"
             PROVE  NsFind(Scope, job.name) = job.cur
  BY DEF DefinedIsFound, Ancestry
<1>1. job \in Job /\ frames # <<>>
  BY DEF IInv, TypeOK, PhaseInv
<1>2. job.name \in NameString /\ job.name.segs \in Seq(Seg) /\ job.pos \in Nat
  BY <1>1 DEF Job, NameString
<1>3. job.pos - 1 = Len(job.name.segs)
  BY <1>2 DEF TrailInv
<1>4. PICK s \in Live : /\ Climbs(node, Live, Scope, job.name.up, s)
                        /\ Trails(node, Live, s, job.name.segs, Len(job.name.segs), job.cur)
  BY <1>3 DEF TrailInv
<1>5. Scope \in Live
  BY <1>1, ScopeLive
<1>6. QED
  BY <1>2, <1>4, <1>5, FoundAgain

(* What sabi_ns_add_scope has defined, sabi_ns_find finds under that name  *)
(* from that scope, whatever the name's prefix, its number of segments and *)
(* how many of them there were already, if no alias is on the way.         *)
THEOREM DefinitionsAreFound == Spec => []DefinedIsFound
<1>1. Init => TrailInv
  BY DEF Init, TrailInv
<1>2. IInv /\ ListsInv /\ TrailInv /\ [Next]_vars => TrailInv'
  BY StepTrail
<1>3. IInv /\ ListsInv /\ SiblingNamesUnique /\ TrailInv => DefinedIsFound
  BY TrailsEnd
<1>4. QED
  BY <1>1, <1>2, <1>3, Shape, ListsHold, NamesUnique, PTL DEF Spec

=============================================================================
