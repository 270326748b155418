--------------------------- MODULE DataStepProofs ---------------------------
(***************************************************************************)
(* Proofs about DataOwnership, continued: each step of the code keeps the  *)
(* inductive invariant, and what follows from it.                          *)
(***************************************************************************)
EXTENDS DataProofs

(* The blocks S that are held are freed, and what they own. *)
Freed(h, H, g, S) ==
    /\ HeapOK(g, H \ S) /\ Alters(h, g, {}, Tree(h, S), {})
    /\ S \subseteq Tree(h, S) /\ Tree(h, S) \cap H = S /\ Tree(h, S) \subseteq DOMAIN h
    /\ DOMAIN g = DOMAIN h \ Tree(h, S)
    /\ \A a, i, c : Points(h, a, i, c) => (c \in Tree(h, S) <=> a \in Tree(h, S))

(* To free the blocks S, which are held, with all they own, leaves a sound *)
(* heap.                                                                   *)
LEMMA FreedIs ==
    ASSUME NEW h, NEW H, HeapOK(h, H), NEW S \in SUBSET H, NEW g, g = Without(h, Tree(h, S))
    PROVE  Freed(h, H, g, S)
<1>1. HeapOK(g, H \ S)
  BY FreeOK
<1>2. Alters(h, g, {}, Tree(h, S), {})
  BY FreeAlters
<1>3. /\ S \subseteq Tree(h, S) /\ Tree(h, S) \cap H = S /\ Tree(h, S) \subseteq DOMAIN h
      /\ \A a, i, c : Points(h, a, i, c) => (c \in Tree(h, S) <=> a \in Tree(h, S))
  BY FreeOK
<1>4. DOMAIN g = DOMAIN h \ Tree(h, S)
  BY DEF Without
<1>5. QED
  BY <1>1, <1>2, <1>3, <1>4 DEF Freed

(* The argument of the host alters nothing that there was. *)
LEMMA PassedIs ==
    ASSUME NEW h, NEW H, HeapOK(h, H), IsFiniteSet(DOMAIN heap), NEW f \in DOMAIN h,
           f \notin DOMAIN heap, DOMAIN h[f].cells = 1..3, NEW g \in Passed(h, <<f, ARG>>)
    PROVE  \E L : HeapOK(g, H) /\ Alters(h, g, {<<f, ARG>>}, {}, L)
<1>1. 1 \in Number /\ ARG \in DOMAIN h[f].cells
  BY DEF Number, ARG
<1>2. CASE g = h
  <2>1. Alters(h, g, {}, {}, {})
    BY <1>2, AltersNone
  <2>2. Alters(h, g, {<<f, ARG>>}, {}, {})
    BY <2>1, AltersMore
  <2>3. QED
    BY <1>2, <2>2
<1>3. CASE g = Put(h, <<f, ARG>>, Integer(1))
  <2>1. Integer(1) \in Value /\ Owns(Integer(1)) = {} /\ ~Borrows(Integer(1))
    BY <1>1, IntegerValue
  <2>2. HeapOK(g, H) /\ Alters(h, g, {<<f, ARG>>}, {}, Owns(h[f].cells[ARG]))
    BY <1>1, <1>3, <2>1, PutAlters
  <2>3. QED
    BY <2>2
<1>4. ASSUME NEW type \in {"string", "buffer"}, g = Make(h, <<f, ARG>>, type, 1)
      PROVE  HeapOK(g, H) /\ Alters(h, g, {<<f, ARG>>}, {}, Owns(h[f].cells[ARG]))
  BY <1>1, <1>4, MakeIs
<1>5. QED
  BY <1>2, <1>3, <1>4 DEF Passed

(* The host's evaluation of a method keeps the invariant. *)
LEMMA EvalMethodOK ==
    ASSUME IInv, EvalMethod
    PROVE  IInv'
<1>1. stack = <<>> /\ lang' = lang /\ names' = names
  BY DEF EvalMethod
<1> Null \in {Null, Junk}
  OBVIOUS
<1>2. PICK b, h : b = New(heap) /\ h = With(heap, b, Array(<<Null>>))
  OBVIOUS
<1>3. PICK f : f = New(h)
  OBVIOUS
<1> DEFINE e == [do |-> "host", own |-> b]
<1>4. heap' \in Passed(NewFrame(h, f), <<f, ARG>>) /\ stack' = <<e, Run(f)>>
  BY <1>2, <1>3 DEF EvalMethod
<1>5. HeapOK(heap, Holders) /\ IsFiniteSet(DOMAIN heap)
  BY HeldFacts
<1>6. /\ HeapOK(h, Holders \cup {b}) /\ Alters(heap, h, {}, {}, {b})
      /\ b \in Nat /\ b \notin DOMAIN heap /\ b \in DOMAIN h /\ DOMAIN h[b].cells = {1}
  <2>1. NewCell(heap, Holders, h, b, Null)
    BY <1>2, <1>5, NewCellIs
  <2>2. QED
    BY <2>1 DEF NewCell
<1>7. PICK W, D, L :
        /\ W = {<<f, ARG>>} /\ D = {}
        /\ HeapOK(heap', (Holders \cup {b}) \cup {f}) /\ Alters(heap, heap', W, D, L)
        /\ f \in Nat /\ f \notin DOMAIN h /\ f \notin DOMAIN heap
        /\ f \in DOMAIN heap' /\ DOMAIN heap'[f].cells = 1..3
        /\ b \in DOMAIN heap' /\ DOMAIN heap'[b].cells = {1}
  <2>1. PICK g : g = NewFrame(h, f)
    OBVIOUS
  <2>2. /\ HeapOK(g, (Holders \cup {b}) \cup {f}) /\ Alters(h, g, {}, {}, {f})
        /\ f \in Nat /\ f \notin DOMAIN h /\ f \notin DOMAIN heap
        /\ f \in DOMAIN g /\ DOMAIN g[f].cells = 1..3
    BY <1>3, <1>5, <1>6, <2>1, NewFrameIs
  <2>3. heap' \in Passed(g, <<f, ARG>>)
    BY <1>4, <2>1
  <2>4. \E K : HeapOK(heap', (Holders \cup {b}) \cup {f}) /\ Alters(g, heap', {<<f, ARG>>}, {}, K)
    BY <1>5, <2>2, <2>3, PassedIs
  <2>5. PICK K : HeapOK(heap', (Holders \cup {b}) \cup {f}) /\ Alters(g, heap', {<<f, ARG>>}, {}, K)
    BY <2>4
  <2>6. Alters(heap, g, {} \cup {}, {} \cup {}, {b} \cup {f})
    BY <1>6, <2>2, AltersOnwards
  <2>7. Alters(heap, g, {}, {}, {b, f})
    BY <2>6, AltersMore
  <2>8. Alters(heap, heap', {} \cup {<<f, ARG>>}, {} \cup {}, {b, f} \cup K)
    BY <2>5, <2>7, AltersOnwards
  <2>9. Alters(heap, heap', {<<f, ARG>>}, {}, {b, f} \cup K)
    BY <2>8, AltersMore
  <2>10. f \in DOMAIN heap' /\ DOMAIN heap'[f].cells = 1..3
    BY <2>2, <2>5 DEF Alters
  <2>11. b \in DOMAIN g /\ DOMAIN g[b].cells = {1}
    BY <1>6, <2>2 DEF Alters
  <2>12. b \in DOMAIN heap' /\ DOMAIN heap'[b].cells = {1}
    BY <2>5, <2>11 DEF Alters
  <2>13. QED
    BY <2>2, <2>5, <2>9, <2>10, <2>12
<1>8. /\ e \in Entry /\ Held(e) = {b} /\ e.do = "host" /\ e.own = b
       /\ Run(f) \in Entry /\ Held(Run(f)) = {f} /\ Run(f).do = "run"
  BY <1>6, <1>7, EntryMade DEF Run, Held
<1> HIDE DEF e
<1>9. stack' \in Seq(Entry) /\ Len(stack') = 2 /\ stack'[1] = e /\ stack'[2] = Run(f)
  BY <1>4, <1>8
<1>10. Kept(0) /\ RunsStay(0) /\ FramesGo(0) /\ Spared(0, W, D) /\ ~Building(0)
  BY <1>1, <1>9, HostFacts
<1>11. Fits(0, stack'[1])
  BY <1>6, <1>7, <1>8, <1>9, <1>10 DEF Fits, Loose, Sized, Blank
<1>12. Fits(0, stack'[2])
  BY <1>7, <1>8, <1>9, <1>10 DEF Fits, Loose, Sized, Blank
<1>13. Stands(1)
  BY <1>8, <1>9 DEF Stands, Above, Wants
<1>14. Tops(0) /\ Joined(0)
  <2>1. 0 + 1 = 1 /\ 0 + 2 = 2 /\ b # f
    BY <1>6, <1>7
  <2>2. Held(stack'[1]) \cap Held(stack'[2]) = {}
    BY <1>8, <1>9, <2>1
  <2>3. QED
    BY <1>8, <1>9, <1>10, <1>11, <1>12, <1>13, <2>1, <2>2, PushTwo
<1>15. \A i \in (0 + 1)..Len(stack') : Held(stack'[i]) \subseteq (Holders \cup {b}) \cup {f}
  <2>1. \A i \in (0 + 1)..Len(stack') : i = 1 \/ i = 2
    BY <1>9
  <2>2. QED
    BY <1>8, <1>9, <2>1
<1>16. BuffersKept(W)
  <2>1. \A n \in DOMAIN names : names[n].at \in DOMAIN heap
    BY HeldFacts
  <2>2. QED
    BY <1>7, <2>1 DEF BuffersKept
<1>17. Holders \subseteq ((Holders \cup {b}) \cup {f}) \cup D
  OBVIOUS
<1>18. \A n \in DOMAIN names : names[n].at \notin D
  BY <1>7
<1>19. QED
  BY <1>1, <1>7, <1>10, <1>14, <1>15, <1>16, <1>17, <1>18, Pushed

(* What can be cloned can be cloned in a heap with a new block. *)
LEMMA SourceMore ==
    ASSUME NEW H, HeapOK(heap, H), NEW h, NEW G, HeapOK(h, G), NEW W, NEW D, NEW L,
           Alters(heap, h, W, D, L),
           \A a, i, c : Points(h, a, i, c) <=> Points(heap, a, i, c),
           NEW v, Source(heap, v)
    PROVE  Source(h, v)
<1>1. Owns(v) \in SUBSET Nat /\ v \in Value
  BY OwnsIs DEF Source
<1>2. Tree(h, Owns(v)) \cap DOMAIN heap \subseteq Tree(heap, Owns(v))
  BY <1>1, TreesOld
<1>3. ASSUME NEW a, NEW i, NEW c, a \in Tree(h, Owns(v)), Points(h, a, i, c) PROVE c \notin Owns(v)
  <2>1. Points(heap, a, i, c)
    BY <1>3
  <2>2. a \in Tree(heap, Owns(v))
    BY <1>2, <1>3, <2>1 DEF Points
  <2>3. QED
    BY <2>1, <2>2 DEF Source
<1>4. \A c \in Owns(v) : Owned(h, c)
  BY DEF Source, Owned
<1>5. QED
  BY <1>1, <1>3, <1>4 DEF Source

(* The host's evaluation of a data object keeps the invariant. *)
LEMMA EvalNodeOK ==
    ASSUME IInv, NEW n \in Names, EvalNode(n)
    PROVE  IInv'
<1>1. stack = <<>> /\ lang' = lang /\ names' = names /\ n \in DOMAIN names
  BY DEF EvalNode
<1> Null \in {Null, Junk}
  OBVIOUS
<1>2. PICK b, h, op, v : /\ b = New(heap) /\ h = With(heap, b, Array(<<Null>>))
                         /\ op = InCell("data", <<names[n].at, 1>>) /\ v = Read(heap, op)
  OBVIOUS
<1> DEFINE e == [do |-> "host", own |-> b]
<1>3. heap' = Clone(h, <<b, 1>>, v) /\ stack' = <<e>>
  BY <1>2 DEF EvalNode
<1>4. HeapOK(heap, Holders) /\ IsFiniteSet(DOMAIN heap) /\ Plain(heap)
  BY HeldFacts, PlainHeap
<1>5. /\ HeapOK(h, Holders \cup {b}) /\ Alters(heap, h, {}, {}, {b})
      /\ b \in Nat /\ b \notin DOMAIN heap /\ b \in DOMAIN h /\ DOMAIN h[b].cells = {1}
      /\ Owns(h[b].cells[1]) = {}
  <2>1. NewCell(heap, Holders, h, b, Null)
    BY <1>2, <1>4, NewCellIs
  <2>2. QED
    BY <2>1 DEF NewCell
<1>6. \A a, i, c : Points(h, a, i, c) <=> Points(heap, a, i, c)
  <2>1. Bare(Array(<<Null>>))
    BY CellBare
  <2>2. QED
    BY <1>2, <1>4, <1>5, <2>1, WithIs
<1>7. Readable(v) /\ v.type # "reference"
  <2>1. Direct(op)
    BY <1>1, <1>2 DEF Direct
  <2>2. Readable(v)
    BY <1>2, <2>1, DirectIs, CellRead
  <2>3. v.type # "reference"
    BY <1>1, <2>2 DEF Readable, IInv, BorrowedCells
  <2>4. QED
    BY <2>2, <2>3
<1>8. Source(h, v) /\ ~Borrows(v) /\ Plain(h)
  BY <1>4, <1>5, <1>6, <1>7, SourceMore, PlainKept DEF Readable, Borrows
<1>9. HeapOK(heap', Holders \cup {b}) /\ Alters(h, heap', {<<b, 1>>}, {}, Owns(h[b].cells[1]))
  BY <1>3, <1>4, <1>5, <1>8, CloneAlters
<1>10. Alters(heap, heap', {} \cup {<<b, 1>>}, {} \cup {}, {b} \cup Owns(h[b].cells[1]))
  BY <1>5, <1>9, AltersOnwards
<1>11. b \in DOMAIN heap' /\ DOMAIN heap'[b].cells = {1}
  BY <1>5, <1>9 DEF Alters
<1>12. e \in Entry /\ Held(e) = {b} /\ e.do = "host" /\ e.own = b
  BY <1>5, EntryMade DEF Held
<1> HIDE DEF e
<1>13. stack' \in Seq(Entry) /\ Len(stack') = 1 /\ stack'[1] = e
  BY <1>3, <1>12
<1>14. Kept(0) /\ RunsStay(0) /\ FramesGo(0) /\ Spared(0, {} \cup {<<b, 1>>}, {} \cup {}) /\ ~Building(0)
  BY <1>1, <1>13, HostFacts
<1>15. Fits(0, stack'[1])
  BY <1>5, <1>11, <1>12, <1>13, <1>14 DEF Fits, Loose, Sized, Blank
<1>16. Tops(0) /\ Joined(0)
  <2>1. 0 + 1 = 1
    OBVIOUS
  <2>2. QED
    BY <1>12, <1>13, <1>14, <1>15, <2>1, PushOne
<1>17. \A i \in (0 + 1)..Len(stack') : Held(stack'[i]) \subseteq Holders \cup {b}
  BY <1>12, <1>13
<1>18. BuffersKept({} \cup {<<b, 1>>})
  <2>1. \A m \in DOMAIN names : names[m].at # b
    BY <1>5, HeldFacts
  <2>2. QED
    BY <2>1 DEF BuffersKept
<1>19. Holders \subseteq (Holders \cup {b}) \cup ({} \cup {})
       /\ \A m \in DOMAIN names : names[m].at \notin {} \cup {}
  OBVIOUS
<1>20. QED
  BY <1>1, <1>9, <1>10, <1>14, <1>16, <1>17, <1>18, <1>19, Pushed

(* The host's sabi_clean_object of its result keeps the invariant. *)
LEMMA HostDoneOK ==
    ASSUME IInv, HostDone
    PROVE  IInv'
<1>1. PICK k : k = Len(stack) - 1
  OBVIOUS
<1>2. stack # <<>> /\ Top.do = "host" /\ lang' = lang /\ names' = names /\ stack' = <<>>
  BY DEF HostDone
<1>3. /\ k \in Nat /\ Len(stack) = k + 1 /\ k + 1 \in 1..Len(stack) /\ Top = stack[k + 1]
      /\ stack[k + 1] \in Entry /\ Len(Pop) = k /\ Pop \in Seq(Entry)
  BY <1>1, <1>2, TopIs
<1>4. k = 0
  <2>1. SUFFICES ASSUME k # 0 PROVE FALSE
    OBVIOUS
  <2>2. k \in 1..Len(stack) /\ Above(stack[k], stack[k + 1]) /\ stack[k] \in Entry
    BY <1>3, <2>1, HeldFacts, StackFacts
  <2>3. QED
    BY <1>2, <1>3, <2>2, AboveIs
<1>5. stack' = Pop
  BY <1>2, <1>3, <1>4
<1>6. PICK b : b = Top.own
  OBVIOUS
<1>7. heap' = Without(heap, Tree(heap, {b}))
  BY <1>6 DEF HostDone
<1>8. HeapOK(heap, Holders) /\ Holders \subseteq Nat
  BY HeldFacts
<1>9. Held(stack[k + 1]) = {b} /\ k + 1 \in DOMAIN stack
  BY <1>2, <1>3, <1>6, HeldIs, HeldFacts, StackFacts
<1>10. {b} \in SUBSET Holders
  BY <1>3, <1>9, HeldFacts
<1> Freed(heap, Holders, heap', {b})
  BY <1>7, <1>8, <1>10, FreedIs
<1>11. HeapOK(heap', Holders \ {b}) /\ Tree(heap, {b}) \cap Holders = {b}
  BY DEF Freed
<1>12. Alters(heap, heap', {}, Tree(heap, {b}), {})
  BY DEF Freed
<1>13. \A n \in DOMAIN names : names[n].at \notin Tree(heap, {b})
  <2>1. \A n \in DOMAIN names : names[n].at # b /\ names[n].at \in Holders
    BY <1>9, HeldFacts DEF IInv, HeldOnce
  <2>2. QED
    BY <1>11, <2>1
<1>14. Spared(k, {}, Tree(heap, {b})) /\ BuffersKept({})
  BY <1>4 DEF Spared, BuffersKept
<1>15. Holders \subseteq (Holders \ {b}) \cup Tree(heap, {b})
  BY <1>11
<1>16. QED
  BY <1>1, <1>2, <1>5, <1>11, <1>12, <1>13, <1>14, <1>15, Popped

(* The end of a table keeps the invariant. *)
LEMMA EndTableOK ==
    ASSUME IInv, EndTable
    PROVE  IInv'
<1>1. stack # <<>> /\ Top.do \in {"run", "return"} /\ Base = 1 /\ lang' = lang /\ names' = names
      /\ stack' = <<>>
  BY DEF EndTable, Ended
<1>2. StackOK /\ Len(stack) \in Nat /\ DOMAIN stack = 1..Len(stack)
  BY HeldFacts, StackFacts
<1>3. PICK f : f = Frame
  OBVIOUS
<1>4. /\ 1 \in 1..Len(stack) /\ stack[1].do = "run" /\ stack[1] \in Entry /\ f = stack[1].frame
      /\ \A i \in DOMAIN stack : stack[i].do = "run" => i =< 1
      /\ Top.do = "run" => 1 = Len(stack)
      /\ Top.do = "return" => 1 = Len(stack) - 1
  BY <1>1, <1>2, <1>3, BaseIs
<1> (Top.do = "run" => Len(stack) = 1) /\ (Top.do = "return" => Len(stack) = 2)
  BY <1>1, <1>2, BaseIs
<1>5. Held(stack[1]) = {f}
  BY <1>4, HeldIs
<1>6. OfFrame(f) = {}
  <2>1. SUFFICES ASSUME NEW n \in DOMAIN names, names[n].frame = f PROVE FALSE
    BY DEF OfFrame
  <2>2. f \in DOMAIN heap /\ 0 \notin DOMAIN heap
    BY <1>4, <1>5, HeldFacts
  <2>3. RunsBelow(f, Len(stack))
    BY <2>1, <2>2 DEF IInv, NamesOK
  <2>4. QED
    BY <1>2, <1>4, <2>3 DEF RunsBelow
<1>7. heap' = Without(heap, Tree(heap, {f}))
  <2>1. {f} \cup {names[n].at : n \in OfFrame(f)} = {f}
    BY <1>6
  <2>2. QED
    BY <1>3, <2>1 DEF EndTable, FreeFrame
<1>8. HeapOK(heap, Holders) /\ {f} \in SUBSET Holders
  BY <1>4, <1>5, HeldFacts
<1> Freed(heap, Holders, heap', {f})
  BY <1>7, <1>8, FreedIs
<1>9. /\ HeapOK(heap', Holders \ {f}) /\ Tree(heap, {f}) \cap Holders = {f}
      /\ DOMAIN heap' = DOMAIN heap \ Tree(heap, {f})
  BY DEF Freed
<1>10. Alters(heap, heap', {}, Tree(heap, {f}), {})
  BY DEF Freed
<1>11. \A n \in DOMAIN names : names[n].at \notin Tree(heap, {f})
  <2>1. \A n \in DOMAIN names : names[n].at # f /\ names[n].at \in Holders
    BY <1>2, <1>4, <1>5, HeldFacts DEF IInv, HeldOnce
  <2>2. QED
    BY <1>9, <2>1
<1>12. stack' \in Seq(Entry) /\ Len(stack') = 0 /\ Kept(0)
  BY <1>1, <1>2 DEF Kept
<1>13. Tops(0) /\ Joined(0)
  BY <1>12, CutStep
<1>14. RunsStay(0)
  BY <1>2, <1>4 DEF RunsStay
<1>15. FramesGo(0)
  <2>1. ASSUME NEW i \in 1..Len(stack), stack[i].do \in {"run", "args"}
        PROVE  stack[i].frame \notin DOMAIN heap'
    <3>1. i = 1
      <4>1. CASE Top.do = "run"
        <5>1. Len(stack) = 1
          BY <4>1
        <5>2. QED
          BY <2>1, <5>1
      <4>2. CASE Top.do = "return"
        <5>1. Len(stack) = 2
          BY <4>2
        <5>2. Top = stack[2]
          BY <1>1, <5>1 DEF Top, Last
        <5>3. QED
          BY <2>1, <4>2, <5>1, <5>2
      <4>3. QED
        BY <1>1, <4>1, <4>2
    <3>2. QED
      BY <1>4, <1>9, <3>1
  <2>2. QED
    BY <2>1 DEF FramesGo
<1>16. Spared(0, {}, Tree(heap, {f})) /\ BuffersKept({})
  BY DEF Spared, BuffersKept
<1>17. Holders \subseteq (Holders \ {f}) \cup Tree(heap, {f})
  BY <1>9
<1>18. \A i \in (0 + 1)..Len(stack') : Held(stack'[i]) \subseteq Holders \ {f}
  BY <1>12
<1>19. QED
  BY <1>1, <1>9, <1>10, <1>11, <1>12, <1>13, <1>14, <1>15, <1>16, <1>17, <1>18, Pushed

(* Statements: the innermost function runs a frame. *)
LEMMA RunningIs ==
    ASSUME IInv, Running, NEW k, k = Len(stack)
    PROVE  /\ k \in 1..Len(stack) /\ k \in Nat /\ k # 0 /\ stack[k].do = "run" /\ stack[k] \in Entry
           /\ Frame = stack[k].frame /\ Held(stack[k]) = {Frame} /\ Frame \in Nat
           /\ Frame \in DOMAIN heap /\ Frame \in Holders /\ DOMAIN heap[Frame].cells = 1..3
           /\ ~Building(k) /\ \A n \in DOMAIN names : names[n].at # Frame
           /\ RunsStay(k) /\ FramesGo(k) /\ stack \in Seq(Entry) /\ stack # <<>>
<1>1. stack # <<>> /\ Top.do = "run" /\ StackOK /\ stack \in Seq(Entry) /\ Len(stack) \in Nat
      /\ DOMAIN stack = 1..Len(stack)
  BY HeldFacts, StackFacts DEF Running
<1>2. k \in 1..Len(stack) /\ k \in Nat /\ k # 0
  BY <1>1
<1>3. Base = k /\ stack[Base].do = "run" /\ stack[Base] \in Entry /\ Frame = stack[Base].frame
      /\ Frame \in Nat
  BY <1>1, BaseIs
<1>4. stack[k].do = "run" /\ stack[k] \in Entry /\ Frame = stack[k].frame /\ Held(stack[k]) = {Frame}
  BY <1>3, HeldIs
<1>5. Frame \in DOMAIN heap /\ Frame \in Holders
  BY <1>2, <1>4, HeldFacts
<1>6. DOMAIN heap[Frame].cells = 1..3
  BY <1>1, <1>2, <1>4 DEF IInv, Sizes, Sized
<1>7. \A n \in DOMAIN names : names[n].at # Frame
  BY <1>1, <1>2, <1>4 DEF IInv, HeldOnce
<1>8. ~Building(k)
  <2>1. SUFFICES ASSUME NEW i \in 1..(k - 1), stack[i].do = "return",
                        stack[i + 1].do \in {"elements", "convert"}
                 PROVE  FALSE
    BY DEF Building
  <2>2. k \in (i + 1)..Len(stack) /\ i \in 1..(Len(stack) - 1)
    BY <1>1, <1>2
  <2>3. stack[k].do \in {"eval", "elements", "convert"}
    BY <2>1, <2>2 DEF IInv, Returning
  <2>4. QED
    BY <1>4, <2>3
<1>9. RunsStay(k) /\ FramesGo(k)
  BY AllStay
<1>10. QED
  BY <1>1, <1>2, <1>3, <1>4, <1>5, <1>6, <1>7, <1>8, <1>9

(* A local variable of the C stack that nothing has initialised. *)
LEMMA JunkCell ==
    ASSUME IInv, NEW b, b = New(heap), NEW g, g = With(heap, b, Array(<<Junk>>))
    PROVE  NewCell(heap, Holders, g, b, Junk)
<1>1. HeapOK(heap, Holders) /\ IsFiniteSet(DOMAIN heap)
  BY HeldFacts
<1>2. Junk \in {Null, Junk}
  OBVIOUS
<1>3. QED
  BY <1>1, <1>2, NewCellIs

(* The functions d and e are put on top. *)
PutsOn(d, e) == stack' = stack \o <<d, e>>

(* A statement that starts with a local variable and the evaluation of its *)
(* operand keeps the invariant.                                            *)
LEMMA StatementOK ==
    ASSUME IInv, Running, lang' = lang, names' = names, NEW b,
           NewCell(heap, Holders, heap', b, Junk),
           NEW e, b \in Nat => e \in Entry, e.do \in {"store", "name"}, e.own = b,
           PutsOn(e, Eval(<<b, 1>>))
    PROVE  IInv'
<1>1. PICK k : k = Len(stack)
  OBVIOUS
<1>2. /\ k \in 1..Len(stack) /\ k \in Nat /\ k # 0 /\ stack[k].do = "run"
      /\ ~Building(k) /\ RunsStay(k) /\ FramesGo(k) /\ stack \in Seq(Entry) /\ k \in 0..Len(stack)
  BY <1>1, RunningIs
<1>3. HeapOK(heap, Holders) /\ IsFiniteSet(DOMAIN heap)
  BY HeldFacts
<1>4. NewCell(heap, Holders, heap', b, Junk)
  OBVIOUS
<1>5. e \in Entry /\ Eval(<<b, 1>>) \in Entry
  BY <1>4, EntryMade DEF NewCell
<1>6. /\ Held(e) = {b} /\ Held(Eval(<<b, 1>>)) = {} /\ Eval(<<b, 1>>).do = "eval"
      /\ Eval(<<b, 1>>).dest = <<b, 1>>
  BY <1>5, HeldIs DEF Eval
<1>7. /\ stack' \in Seq(Entry) /\ Len(stack') = k + 2 /\ \A i \in 1..k : stack'[i] = stack[i]
      /\ stack'[k + 1] = e /\ stack'[k + 2] = Eval(<<b, 1>>)
  BY <1>1, <1>2, <1>5, AppendTwoIs DEF PutsOn
<1>8. Kept(k) /\ stack'[k] = stack[k]
  BY <1>2, <1>7 DEF Kept
<1>9. Fits(k, stack'[k + 1]) /\ Fits(k, stack'[k + 2])
  BY <1>2, <1>4, <1>6, <1>7 DEF NewCell, Fits, Loose, Sized, Blank
<1>10. Stands(k)
  BY <1>2, <1>7, <1>8 DEF Stands, Above, Wants, Gives
<1>11. Stands(k + 1)
  <2>1. k + 1 + 1 = k + 2
    BY <1>2
  <2>2. SlotOf(stack', k + 1) = <<b, 1>>
    BY <1>7 DEF SlotOf
  <2>3. Owns(At(heap', <<b, 1>>)) = {}
    BY <1>4 DEF NewCell, At
  <2>4. Dest(heap', stack', k + 1)
    BY <1>6, <1>7, <2>1, <2>2, <2>3 DEF Dest
  <2>5. QED
    BY <1>6, <1>7, <2>1, <2>4 DEF Stands, Above, Gives
<1>12. Tops(k) /\ Joined(k)
  <2>1. Held(stack'[k + 1]) \cap Held(stack'[k + 2]) = {} /\ stack'[k].do # "return"
    BY <1>2, <1>6, <1>7, <1>8
  <2>2. QED
    BY <1>2, <1>7, <1>8, <1>9, <1>10, <1>11, <2>1, PushTwo
<1>13. \A i \in (k + 1)..Len(stack') : Held(stack'[i]) \subseteq Holders \cup {b}
  <2>1. \A i \in (k + 1)..Len(stack') : i = k + 1 \/ i = k + 2
    BY <1>2, <1>7
  <2>2. QED
    BY <1>6, <1>7, <2>1
<1>14. Spared(k, {}, {}) /\ BuffersKept({})
  BY <1>2, SparedNone DEF BuffersKept
<1>15. HeapOK(heap', Holders \cup {b}) /\ Alters(heap, heap', {}, {}, {b})
  BY <1>4 DEF NewCell
<1>16. QED
  BY <1>2, <1>8, <1>12, <1>13, <1>14, <1>15, Pushed

(* The start of a Store keeps the invariant. *)
LEMMA BeginStoreOK ==
    ASSUME IInv, BeginStore
    PROVE  IInv'
<1>1. PICK b : b = New(heap)
  OBVIOUS
<1> DEFINE e == [do |-> "store", own |-> b]
<1>2. /\ Running /\ lang' = lang /\ names' = names
      /\ PutsOn(e, Eval(<<b, 1>>))
  BY <1>1 DEF BeginStore, PutsOn
<1> NewCell(heap, Holders, heap', b, Junk)
  BY <1>1, JunkCell DEF BeginStore
<1>3. (b \in Nat => e \in Entry) /\ e.do \in {"store", "name"} /\ e.own = b
  BY EntryMade
<1> HIDE DEF e
<1>4. QED
  BY <1>1, <1>2, <1>3, StatementOK

(* The start of a Name keeps the invariant. *)
LEMMA BeginNameOK ==
    ASSUME IInv, NEW n \in Names, BeginName(n)
    PROVE  IInv'
<1>1. PICK b : b = New(heap)
  OBVIOUS
<1> DEFINE e == [do |-> "name", name |-> n, own |-> b]
<1>2. /\ Running /\ lang' = lang /\ names' = names
      /\ PutsOn(e, Eval(<<b, 1>>))
  BY <1>1 DEF BeginName, PutsOn
<1> NewCell(heap, Holders, heap', b, Junk)
  BY <1>1, JunkCell DEF BeginName
<1>3. (b \in Nat => e \in Entry) /\ e.do \in {"store", "name"} /\ e.own = b
  BY EntryMade
<1> HIDE DEF e
<1>4. QED
  BY <1>1, <1>2, <1>3, StatementOK

(* The cell of a frame that runs: nobody below waits for it. *)
LEMMA AsideRetv ==
    ASSUME IInv, NEW m \in 1..Len(stack), stack[m].do = "run", NEW k \in 0..m,
           NEW c, c = <<stack[m].frame, RETV>>
    PROVE  /\ Aside(k, c) /\ BuffersKept({c})
           /\ \A i \in 1..m : Wants(stack[i]) => Slot(i) # c
<1>1. StackOK /\ Len(stack) \in Nat /\ DOMAIN stack = 1..Len(stack) /\ stack[m] \in Entry
      /\ m \in Nat /\ k \in Nat
  BY HeldFacts, StackFacts
<1>2. Held(stack[m]) = {stack[m].frame} /\ stack[m].frame \in Holders
  BY <1>1, HeldIs, HeldFacts
<1>3. ASSUME NEW i \in 1..m, Wants(stack[i]) PROVE Slot(i)[1] # stack[m].frame
  <2>1. i \in 1..Len(stack)
    BY <1>1
  <2>2. CASE stack[i].do = "elements"
    <3>1. stack[i].at \notin Holders /\ Slot(i)[1] = stack[i].at
      <4>1. i \in 2..Len(stack)
        BY <1>1, <1>3, <2>1, StackFacts
      <4>2. QED
        BY <1>1, <1>3, <2>2, <4>1, ElementsHome, SlotIs
    <3>2. QED
      BY <1>2, <3>1
  <2>3. CASE stack[i].do # "elements"
    <3>1. SUFFICES ASSUME Slot(i)[1] = stack[m].frame PROVE FALSE
      OBVIOUS
    <3>2. \E j \in 1..Len(stack) : Slot(i)[1] \in Held(stack[j]) /\ j # m
      <4>1. CASE /\ stack[i].do = "return" /\ i - 1 \in 1..Len(stack)
                 /\ Slot(i)[1] \in Held(stack[i - 1]) /\ stack[i - 1].do = "run"
        <5>1. i - 1 # m
          BY <1>1
        <5>2. QED
          BY <4>1, <5>1
      <4>2. CASE stack[i].do # "return" /\ Slot(i)[1] \in Held(stack[i]) /\ stack[i].do # "run"
        BY <2>1, <4>2
      <4>3. QED
        BY <1>1, <1>3, <2>1, <2>3, <4>1, <4>2, SlotHeld
    <3>3. QED
      BY <1>1, <1>2, <3>1, <3>2 DEF IInv, HeldOnce
  <2>4. QED
    BY <2>2, <2>3
<1>4. ASSUME NEW i \in 1..m, stack[i].do = "elements" PROVE stack[i].at # stack[m].frame
  <2>1. i \in 2..Len(stack)
    BY <1>1, <1>4, StackFacts DEF Wants
  <2>2. QED
    BY <1>2, <1>4, <2>1, ElementsHome
<1>5. 1..(k - 1) \subseteq 1..m /\ 1..k \subseteq 1..m
  BY <1>1
<1>6. \A i \in 1..m : Wants(stack[i]) => Slot(i) # c
  BY <1>3
<1>7. Aside(k, c)
  BY <1>4, <1>5, <1>6 DEF Aside
<1>8. BuffersKept({c})
  BY <1>1, <1>2 DEF IInv, HeldOnce, BuffersKept
<1>9. QED
  BY <1>6, <1>7, <1>8

(* The start of a Return keeps the invariant. *)
LEMMA BeginReturnOK ==
    ASSUME IInv, BeginReturn
    PROVE  IInv'
<1>1. PICK k, f : k = Len(stack) /\ f = Frame
  OBVIOUS
<1> DEFINE e == [do |-> "return"]
           c == <<f, RETV>>
<1>2. /\ Running /\ lang' = lang /\ names' = names /\ heap' = Clean(heap, c)
      /\ stack' = stack \o <<e, Eval(c)>>
  BY <1>1 DEF BeginReturn, Retv
<1>3. /\ k \in 1..Len(stack) /\ k \in Nat /\ k # 0 /\ stack[k].do = "run" /\ f = stack[k].frame
      /\ f \in Nat /\ f \in DOMAIN heap /\ f \in Holders /\ DOMAIN heap[f].cells = 1..3
      /\ ~Building(k) /\ RunsStay(k) /\ FramesGo(k) /\ stack \in Seq(Entry) /\ k \in 0..Len(stack)
      /\ k \in 0..k /\ \A n \in DOMAIN names : names[n].at # f
  BY <1>1, <1>2, RunningIs
<1>4. HeapOK(heap, Holders) /\ IsFiniteSet(DOMAIN heap) /\ RETV \in DOMAIN heap[f].cells /\ RETV \in Nat
  BY <1>3, HeldFacts DEF RETV
<1> DEFINE D == Beneath(heap, f, RETV)
<1>5. /\ D \cap Holders = {}
      /\ \A a, j, x : Points(heap, a, j, x) =>
           (x \in D <=> a \in D \/ (a = f /\ j = RETV))
  BY <1>3, <1>4, BelowIs
<1>6. f \notin D
  BY <1>3, <1>5
<1>7. HeapOK(heap', Holders) /\ Cleaned(heap, heap', f, RETV)
  BY <1>2, <1>3, <1>4, <1>6, CleanIs
<1>8. Alters(heap, heap', {c}, D, {})
  BY <1>2, <1>3, <1>4, <1>6, CleanAlters
<1>9. /\ e \in Entry /\ Eval(c) \in Entry /\ e.do = "return" /\ Eval(c).do = "eval" /\ Eval(c).dest = c
      /\ Held(e) = {} /\ Held(Eval(c)) = {}
  BY <1>3, <1>4, EntryMade DEF Eval, Held
<1> HIDE DEF e, D
<1>10. /\ stack' \in Seq(Entry) /\ Len(stack') = k + 2 /\ \A i \in 1..k : stack'[i] = stack[i]
       /\ stack'[k + 1] = e /\ stack'[k + 2] = Eval(c)
  <2> HIDE DEF c
  <2>1. QED
    BY <1>1, <1>2, <1>3, <1>9, AppendTwoIs
<1>11. Kept(k) /\ stack'[k] = stack[k]
  BY <1>3, <1>10 DEF Kept
<1>12. Fits(k, stack'[k + 1]) /\ Fits(k, stack'[k + 2])
  BY <1>3, <1>9, <1>10 DEF Fits, Sized, Blank
<1>13. Stands(k)
  BY <1>3, <1>9, <1>10, <1>11 DEF Stands, Above, Wants, Gives
<1>14. Stands(k + 1)
  <2>1. k + 1 + 1 = k + 2 /\ k + 1 - 1 = k
    BY <1>3
  <2>2. SlotOf(stack', k + 1) = c
    BY <1>3, <1>9, <1>10, <1>11, <2>1 DEF SlotOf
  <2>3. Owns(At(heap', c)) = {}
    <3>1. At(heap', c) = Null
      BY <1>4, <1>7 DEF Cleaned, At
    <3>2. QED
      BY <3>1, OwnsIs DEF Null
  <2> HIDE DEF c
  <2>4. Dest(heap', stack', k + 1)
    BY <1>9, <1>10, <2>1, <2>2, <2>3 DEF Dest
  <2>5. QED
    BY <1>9, <1>10, <2>1, <2>4 DEF Stands, Above, Gives
<1>15. Tops(k) /\ Joined(k)
  <2>1. Held(stack'[k + 1]) \cap Held(stack'[k + 2]) = {} /\ stack'[k].do # "return"
    BY <1>3, <1>9, <1>10, <1>11
  <2>2. QED
    BY <1>3, <1>10, <1>11, <1>12, <1>13, <1>14, <2>1, PushTwo
<1>16. \A i \in (k + 1)..Len(stack') : Held(stack'[i]) \subseteq Holders
  <2>1. \A i \in (k + 1)..Len(stack') : i = k + 1 \/ i = k + 2
    BY <1>3, <1>10
  <2>2. QED
    BY <1>9, <1>10, <2>1
<1>17. Aside(k, c) /\ BuffersKept({c}) /\ \A i \in 1..k : Wants(stack[i]) => Slot(i) # c
  BY <1>3, AsideRetv
<1>18. Spared(k, {c}, D)
  <2>1. \A i \in 1..k : Held(stack[i]) \cap D = {}
    BY <1>1, <1>5, HeldFacts
  <2>2. \A a, j, x : Points(heap, a, j, x) /\ x \in D => a \in D \/ <<a, j>> \in {c}
    BY <1>5
  <2>3. \A i \in 1..(k - 1) : Wants(stack[i]) => Slot(i) \notin {c}
    BY <1>3, <1>17
  <2> HIDE DEF c
  <2>4. QED
    BY <1>3, <1>17, <2>1, <2>2, <2>3, SparedIs
<1>19. Holders \subseteq Holders \cup D /\ \A n \in DOMAIN names : names[n].at \notin D
  BY <1>5, HeldFacts
<1> HIDE DEF c
<1>20. QED
  BY <1>2, <1>3, <1>7, <1>8, <1>11, <1>15, <1>16, <1>17, <1>18, <1>19, Pushed

(* A name may be defined: it belongs to the frame that runs. *)
LEMMA NodeFrameIs ==
    ASSUME IInv, stack # <<>>, Top.do # "host", NEW k \in 0..Len(stack), RunsStay(k)
    PROVE  NodeFrame # 0 => RunsBelow(NodeFrame, k)
<1>1. StackOK /\ Len(stack) \in Nat /\ DOMAIN stack = 1..Len(stack)
  BY HeldFacts, StackFacts
<1>2. Base \in 1..Len(stack) /\ stack[Base].do = "run" /\ Frame = stack[Base].frame
  BY <1>1, BaseIs
<1>3. CASE Base = 1
  BY <1>3 DEF NodeFrame
<1>4. CASE Base # 1
  <2>1. Base \in 2..Len(stack)
    BY <1>1, <1>2, <1>4
  <2>2. Base \in 2..k
    BY <1>2, <2>1 DEF RunsStay
  <2>3. QED
    BY <1>2, <1>4, <2>2 DEF NodeFrame, RunsBelow
<1>5. QED
  BY <1>3, <1>4

(* What a name is defined to be. *)
Defined(n, b, f) ==
    /\ DOMAIN names' = DOMAIN names \cup {n}
    /\ \A m \in DOMAIN names : names'[m] = names[m]
    /\ n \notin DOMAIN names => names'[n] = [at |-> b, frame |-> f]

(* Define is Defined, with the frame that new objects belong to. *)
LEMMA DefineIs ==
    ASSUME NEW n, NEW b, Define(n, b)
    PROVE  Defined(n, b, NodeFrame)
BY DEF Define, Defined

(* A definition leaves the names of the others, and the blocks they hold. *)
LEMMA DefinedIs ==
    ASSUME IInv, NEW n \in Names, NEW b, NEW f, Defined(n, b, f),
           NEW k \in 0..Len(stack), RunsStay(k), f # 0 => RunsBelow(f, k), Len(stack') = k,
           Loose(k, b), b \in DOMAIN heap', DOMAIN heap'[b].cells = {1}
    PROVE  Named(k, {}) /\ Lasting(k)
<1>1. Len(stack) \in Nat /\ k \in Nat /\ (k + 1)..Len(stack') = {}
  BY HeldFacts, StackFacts
<1>2. \A x : RunsBelow(x, Len(stack)) => RunsBelow(x, k)
  BY <1>1 DEF RunsBelow, RunsStay
<1>3. ASSUME NEW m \in DOMAIN names
      PROVE  /\ m \in Names /\ names[m] = [at |-> names[m].at, frame |-> names[m].frame]
             /\ names[m].frame # 0 => RunsBelow(names[m].frame, k)
  BY <1>2 DEF IInv, NamesOK
<1>4. ASSUME n \notin DOMAIN names PROVE NewName(k, n)
  BY <1>1, <1>4 DEF Defined, NewName
<1>5. QED
  BY <1>3, <1>4 DEF Named, Lasting, Defined

(* The end of a Name keeps the invariant. *)
LEMMA EndNameOK ==
    ASSUME IInv, EndName
    PROVE  IInv'
<1>1. PICK k, n, b : k = Len(stack) - 1 /\ n = Top.name /\ b = Top.own
  OBVIOUS
<1>2. /\ stack # <<>> /\ Top.do = "name" /\ Define(n, b)
      /\ lang' = lang /\ heap' = heap
  BY <1>1 DEF EndName
<1>3. /\ k \in 0..Len(stack) /\ k \in Nat /\ Len(stack) = k + 1 /\ k + 1 \in 1..Len(stack)
      /\ Top = stack[k + 1] /\ stack[k + 1] \in Entry
      /\ Kept(k) /\ Len(stack') = k
  BY <1>1, <1>2, TopIs DEF Kept, EndName
<1>4. RunsStay(k) /\ FramesGo(k)
  BY <1>1, <1>2, TopGoes
<1>5. /\ n \in Names /\ Held(stack[k + 1]) = {b} /\ k + 1 \in DOMAIN stack
  BY <1>1, <1>2, <1>3, EntryIs, HeldIs, HeldFacts, StackFacts
<1>6. b \in Holders /\ b \in DOMAIN heap' /\ Loose(k, b)
  <2>1. b \in Holders
    BY <1>3, <1>5, HeldFacts
  <2>2. k + 1 \in (k + 1)..Len(stack)
    BY <1>3
  <2>3. QED
    BY <1>2, <1>5, <2>1, <2>2, HeldFacts DEF Loose
<1>7. DOMAIN heap'[b].cells = {1}
  BY <1>2, <1>3, <1>5 DEF IInv, Sizes, Sized
<1>8. Defined(n, b, NodeFrame) /\ (NodeFrame # 0 => RunsBelow(NodeFrame, k))
  BY <1>2, <1>3, <1>4, DefineIs, NodeFrameIs
<1>9. Named(k, {}) /\ Lasting(k)
  BY <1>3, <1>4, <1>5, <1>6, <1>7, <1>8, DefinedIs
<1>10. Tops(k) /\ Joined(k)
  BY <1>3, CutStep
<1>11. Holding(k, {}, Holders)
  <2>1. (k + 1)..Len(stack') = {}
    BY <1>3
  <2>2. \A m \in DOMAIN names' : m \notin DOMAIN names => names'[m].at \in Holders
    BY <1>6, <1>8 DEF Defined
  <2>3. QED
    BY <2>1, <2>2 DEF Holding
<1>12. Alters(heap, heap', {}, {}, {}) /\ HeapOK(heap', Holders)
  BY <1>2, AltersNone, HeldFacts
<1>13. Spared(k, {}, {}) /\ BuffersKept({})
  BY <1>3, SparedNone DEF BuffersKept
<1>14. lang' = lang
  BY <1>2
<1>15. QED
  BY <1>3, <1>4, <1>9, <1>10, <1>11, <1>12, <1>13, <1>14, StepOK

(* The object of a buffer field owns nothing. *)
LEMMA FieldBare ==
    ASSUME NEW a \in Nat
    PROVE  Bare(Array(<<Field(a)>>)) /\ DOMAIN Array(<<Field(a)>>).cells = {1}
           /\ Array(<<Field(a)>>).cells[1] = Field(a)
<1> DEFINE x == Array(<<Field(a)>>)
<1>1. /\ x.cells = <<Field(a)>> /\ x.val = 0 /\ x = [cells |-> x.cells, val |-> x.val]
  BY DEF Array
<1>2. DOMAIN x.cells = {1} /\ x.cells[1] = Field(a)
  BY <1>1
<1>3. Field(a) \in Value /\ Field(a).type = "field"
  BY DEF Field, Value
<1>4. x.cells \in [DOMAIN x.cells -> Value]
  <2>1. <<Field(a)>> = [i \in {1} |-> Field(a)]
    OBVIOUS
  <2>2. QED
    BY <1>1, <1>2, <1>3, <2>1
<1> HIDE DEF x
<1>5. Bare(x)
  BY <1>1, <1>2, <1>3, <1>4, OwnsIs DEF Bare, IsBlock, Number
<1>6. QED
  BY <1>2, <1>5 DEF x

(* The new field of a name that lives as long as the buffer's. *)
LEMMA OutlivesNew ==
    ASSUME IInv, Running, NEW k, k = Len(stack), stack' = stack,
           NEW m \in DOMAIN names, NEW n, n \notin DOMAIN names, NEW b, Defined(n, b, NodeFrame)
    PROVE  Outlives(m, n)'
<1>1. /\ k \in 1..Len(stack) /\ k \in Nat /\ stack[k].do = "run" /\ stack[k] \in Entry
      /\ Frame = stack[k].frame /\ Held(stack[k]) = {Frame} /\ Frame \in DOMAIN heap
      /\ RunsStay(k)
  BY RunningIs
<1>2. /\ Len(stack) \in Nat /\ DOMAIN stack = 1..Len(stack)
      /\ \A i \in 1..Len(stack) : stack[i] \in Entry
      /\ 0 \notin DOMAIN heap
  BY HeldFacts, StackFacts
<1>3. names'[m] = names[m] /\ names'[n].frame = NodeFrame
  BY DEF Defined
<1>4. SUFFICES ASSUME names[m].frame # 0
               PROVE  /\ NodeFrame # 0
                      /\ \A i \in DOMAIN stack : stack[i].do = "run" /\ stack[i].frame = NodeFrame
                           => RunsBelow(names[m].frame, i)
  BY <1>3 DEF Outlives, RunsBelow
<1>5. PICK j \in 2..Len(stack) : stack[j].do = "run" /\ stack[j].frame = names[m].frame
  BY <1>4 DEF IInv, NamesOK, RunsBelow
<1>6. NodeFrame = Frame /\ NodeFrame # 0
  <2>1. StackOK /\ stack # <<>> /\ Top.do = "run"
    BY HeldFacts DEF Running
  <2>2. Base = k
    BY <2>1, BaseIs
  <2>3. k # 1
    BY <1>5
  <2>4. QED
    BY <1>1, <1>2, <2>2, <2>3 DEF NodeFrame
<1>7. ASSUME NEW i \in 1..Len(stack), stack[i].do = "run", stack[i].frame = NodeFrame
      PROVE  RunsBelow(names[m].frame, i)
  <2>1. Held(stack[i]) = {Frame}
    BY <1>2, <1>6, <1>7, HeldIs
  <2>2. i = k
    BY <1>1, <1>2, <2>1 DEF IInv, HeldOnce
  <2>3. QED
    BY <1>5, <2>2 DEF RunsBelow
<1>8. QED
  BY <1>2, <1>6, <1>7

(* The creation of a buffer field keeps the invariant. *)
LEMMA CreateFieldOK ==
    ASSUME IInv, NEW m \in Names, NEW n \in Names, CreateField(m, n)
    PROVE  IInv'
<1>1. PICK k, b, v, x : /\ k = Len(stack) /\ b = New(heap) /\ v = At(heap, <<names[m].at, 1>>)
                        /\ x = Array(<<Field(v.at)>>)
  OBVIOUS
<1>2. /\ Running /\ m \in DOMAIN names /\ v.type = "buffer" /\ heap' = With(heap, b, x)
      /\ Define(n, b) /\ lang' = lang /\ stack' = stack
  BY <1>1 DEF CreateField
<1>3. /\ k \in 1..Len(stack) /\ k \in Nat /\ ~Building(k) /\ RunsStay(k) /\ FramesGo(k)
      /\ stack \in Seq(Entry) /\ stack # <<>> /\ k \in 0..Len(stack)
  BY <1>1, <1>2, RunningIs
<1>4. HeapOK(heap, Holders) /\ IsFiniteSet(DOMAIN heap) /\ 0 \notin DOMAIN heap
  BY HeldFacts
<1>5. b \in Nat /\ b # 0 /\ b \notin DOMAIN heap
  BY <1>1, <1>4, NewIs
<1>6. names[m].at \in DOMAIN heap /\ 1 \in DOMAIN heap[names[m].at].cells
      /\ v = heap[names[m].at].cells[1]
  BY <1>1, <1>2, HeldFacts DEF IInv, Sizes, At
<1>7. v = Owner("buffer", v.at) /\ v.at \in Nat
  <2>1. v \in Value
    BY <1>4, <1>6, HeapFacts
  <2>2. v \in [type : {"string", "buffer", "package"}, at : Nat]
    BY <1>2, <2>1 DEF Value
  <2>3. QED
    BY <1>2, <2>2 DEF Owner
<1>8. Bare(x) /\ DOMAIN x.cells = {1} /\ x.cells[1] = Field(v.at)
  BY <1>1, <1>7, FieldBare
<1>9. HeapOK(heap', Holders \cup {b}) /\ \A a, i, c : Points(heap', a, i, c) <=> Points(heap, a, i, c)
  BY <1>2, <1>4, <1>5, <1>8, WithIs
<1>10. /\ DOMAIN heap' = DOMAIN heap \cup {b} /\ heap'[b] = x
       /\ \A a \in DOMAIN heap : heap'[a] = heap[a]
  BY <1>2, <1>5 DEF With
<1>11. Keeps(heap, heap', {}, {}) /\ OwnersOld
  BY <1>9, <1>10 DEF Keeps, OwnersOld
<1>12. Defined(n, b, NodeFrame) /\ (NodeFrame # 0 => RunsBelow(NodeFrame, k))
  <2>1. Top.do # "host"
    BY <1>2 DEF Running
  <2>2. QED
    BY <1>2, <1>3, <2>1, DefineIs, NodeFrameIs
<1>13. Kept(k) /\ Len(stack') = k
  BY <1>1, <1>2, <1>3 DEF Kept
<1>14. Named(k, {}) /\ Lasting(k)
  <2>1. Loose(k, b) /\ b \in DOMAIN heap' /\ DOMAIN heap'[b].cells = {1}
    BY <1>5, <1>8, <1>10 DEF Loose
  <2>2. QED
    BY <1>3, <1>12, <1>13, <2>1, DefinedIs
<1>15. Tops(k) /\ Joined(k)
  BY <1>13, CutStep
<1>16. Spared(k, {}, {}) /\ BuffersKept({})
  BY <1>3, SparedNone DEF BuffersKept
<1>17. Holding(k, {}, Holders \cup {b})
  <2>1. (k + 1)..Len(stack') = {}
    BY <1>3, <1>13
  <2>2. \A j \in DOMAIN names' : j \notin DOMAIN names => names'[j].at = b
    BY <1>12 DEF Defined
  <2>3. QED
    BY <2>1, <2>2 DEF Holding
<1>18. (StackOK /\ HeldOnce /\ Sizes /\ Destined /\ Unwritten /\ Returning)'
  BY <1>11, <1>13, <1>14, <1>15, <1>16, StackPart
<1>19. 0 \notin DOMAIN heap'
  BY <1>4, <1>5, <1>10
<1>20. NamesOK'
  BY <1>13, <1>14, <1>19, NamesPart
<1>21. HeapOK(heap, Holders)'
  BY <1>9, <1>13, <1>14, <1>16, <1>17, HoldersKept
<1>22. ASSUME NEW w, w = Field(v.at) PROVE FieldOK(b, w)'
  <2>1. b \notin UNION {OwnedBy(heap', a) : a \in DOMAIN heap'}
    <3>1. SUFFICES ASSUME NEW a \in DOMAIN heap', NEW i \in DOMAIN heap'[a].cells,
                          b \in Owns(heap'[a].cells[i])
                   PROVE  FALSE
      BY DEF OwnedBy
    <3>2. Points(heap', a, i, b)
      BY <3>1 DEF Points
    <3>3. Points(heap, a, i, b)
      BY <1>9, <3>2
    <3>4. QED
      BY <1>5, <3>3, HeldFacts
  <2>2. \A i \in DOMAIN stack' : b \notin Held(stack'[i])
    <3>1. DOMAIN stack = 1..Len(stack)
      BY HeldFacts, StackFacts
    <3>2. QED
      BY <1>2, <1>5, <3>1, HeldFacts
  <2>3. ASSUME NEW j \in DOMAIN names', names'[j].at = b
        PROVE  /\ m \in DOMAIN names' /\ At(heap', <<names'[m].at, 1>>) = Owner("buffer", w.of)
               /\ Outlives(m, j)'
    <3>1. j \notin DOMAIN names
      <4>1. SUFFICES ASSUME j \in DOMAIN names PROVE FALSE
        OBVIOUS
      <4>2. names[j].at = b
        BY <1>12, <2>3, <4>1 DEF Defined
      <4>3. QED
        BY <1>5, <4>1, <4>2, HeldFacts
    <3>2. j = n
      BY <1>12, <3>1 DEF Defined
    <3>3. Outlives(m, j)'
      BY <1>1, <1>2, <1>12, <3>1, <3>2, OutlivesNew
    <3>4. m \in DOMAIN names' /\ names'[m] = names[m]
      BY <1>2, <1>12 DEF Defined
    <3>5. w.of = v.at
      BY <1>22 DEF Field
    <3>6. At(heap', <<names'[m].at, 1>>) = v
      BY <1>6, <1>10, <3>4 DEF At
    <3>7. QED
      BY <1>7, <3>3, <3>4, <3>5, <3>6
  <2> DEFINE here(j) == \E i \in DOMAIN names' :
               At(heap', <<names'[i].at, 1>>) = Owner("buffer", w.of) /\ Outlives(i, j)'
  <2>4. \A j \in DOMAIN names' : names'[j].at = b => here(j)
    BY <2>3
  <2>5. QED
    BY <2>1, <2>2, <2>4 DEF FieldOK, Owner, At
<1>23. ASSUME NEW a \in DOMAIN heap', NEW i \in DOMAIN heap'[a].cells,
              NEW w, w = heap'[a].cells[i]
       PROVE  /\ w.type = "reference" => ReferenceOK(a, i, w)'
              /\ w.type = "field" => FieldOK(a, w)'
  <2>1. CASE a = b
    <3>1. w = Field(v.at)
      BY <1>8, <1>10, <1>23, <2>1
    <3>2. w.type = "field"
      BY <3>1 DEF Field
    <3>3. QED
      BY <1>22, <2>1, <3>1, <3>2
  <2>2. CASE a # b
    <3>1. a \in DOMAIN heap /\ i \in DOMAIN heap[a].cells /\ w = heap[a].cells[i]
      BY <1>10, <1>23, <2>2
    <3>2. w.type = "reference" => ReferenceOK(a, i, w)'
      BY <1>3, <1>13, <1>14, <3>1, OldReference
    <3>3. w.type = "field" => FieldOK(a, w)'
      BY <1>11, <1>13, <1>14, <1>15, <1>16, <1>18, <3>1, OldField
    <3>4. QED
      BY <3>2, <3>3
  <2>3. QED
    BY <2>1, <2>2
<1>24. BorrowedCells' /\ BorrowedBytes'
  BY <1>23 DEF BorrowedCells, ReferenceOK, BorrowedBytes, FieldOK
<1>25. QED
  BY <1>2, <1>18, <1>20, <1>21, <1>24 DEF IInv

(* The function d puts data at c, where there is nothing to lose. *)
Filled(d, c) ==
    IF d.do = "elements"
    THEN /\ At(heap', c) = Owner("package", d.at) /\ d.next \in 1..(d.given + 1)
         /\ 1..d.given \subseteq DOMAIN heap'[d.at].cells
    ELSE /\ d.dest = c
         /\ IF d.do = "call" /\ d.as = "integer" THEN At(heap', c).type = "integer"
            ELSE Owns(At(heap', c)) = {}

(* Another function takes the place of one that gives data. *)
LEMMA StandsThere ==
    ASSUME IInv, stack # <<>>, Gives(Top), NEW k, k = Len(stack) - 1, Kept(k),
           k + 1 =< Len(stack'), Gives(stack'[k + 1]), Filled(stack'[k + 1], Slot(k)),
           stack[k].do = "return" /\ stack'[k + 1].do = "call" => stack'[k + 1].as = "data"
    PROVE  k # 0 /\ Stands(k)
<1>1. /\ k \in 0..Len(stack) /\ k \in Nat /\ Len(stack) = k + 1 /\ k + 1 \in 1..Len(stack)
      /\ Top = stack[k + 1] /\ Top \in Entry /\ StackOK
  BY TopIs, HeldFacts
<1>2. k # 0
  BY <1>1, StackFacts DEF Gives
<1>3. k \in 1..Len(stack) /\ k \in 1..(Len(stack) - 1) /\ stack[k] \in Entry
      /\ Above(stack[k], stack[k + 1])
  BY <1>1, <1>2, StackFacts
<1>4. Wants(stack[k]) /\ stack[k].do \notin {"host", "run", "call", "eval"}
  <2>1. Wants(stack[k])
    BY <1>1, <1>3, AboveIs
  <2>2. QED
    BY <2>1 DEF Wants
<1>5. stack'[k] = stack[k] /\ \A i \in 1..k : stack'[i] = stack[i]
  BY <1>3 DEF Kept
<1>6. SlotOf(stack', k) = Slot(k)
  BY <1>1, <1>3, <1>4, <1>5, SlotKept
<1>7. stack[k].do = "elements" => stack[k].next > 1
  BY <1>3, <1>4 DEF IInv, Destined, Dest
<1>8. Dest(heap', stack', k)
  BY <1>5, <1>6, <1>7 DEF Dest, Filled
<1>9. Above(stack'[k], stack'[k + 1])
  BY <1>4, <1>5 DEF Above
<1>10. QED
  BY <1>2, <1>5, <1>8, <1>9 DEF Stands

(* The elements of a new package own and borrow nothing. *)
LEMMA JunkBare ==
    ASSUME NEW n
    PROVE  /\ Bare(Array([i \in 1..n |-> Junk]))
           /\ \A k \in DOMAIN Array([i \in 1..n |-> Junk]).cells :
                ~Borrows(Array([i \in 1..n |-> Junk]).cells[k])
           /\ DOMAIN Array([i \in 1..n |-> Junk]).cells = 1..n
<1> DEFINE c == [i \in 1..n |-> Junk]
           x == Array(c)
<1>1. x.cells = c /\ x.val = 0 /\ x = [cells |-> x.cells, val |-> x.val]
  BY DEF Array
<1>2. Junk \in Value /\ Owns(Junk) = {} /\ ~Borrows(Junk)
  BY OwnsIs DEF Junk, Value, Borrows
<1>3. x.cells \in [DOMAIN x.cells -> Value] /\ \A i \in DOMAIN x.cells : x.cells[i] = Junk
  BY <1>1, <1>2
<1>4. DOMAIN x.cells = 1..n /\ x.val \in Number
  BY <1>1 DEF Number
<1> HIDE DEF x
<1>5. Bare(x)
  BY <1>1, <1>2, <1>3, <1>4 DEF Bare, IsBlock
<1>6. QED
  BY <1>2, <1>3, <1>4, <1>5 DEF x

(* A package b with nothing in it is at c. *)
Packed(b, c) ==
    /\ HeapOK(heap', Holders) /\ \E L : Alters(heap, heap', {c}, {}, L)
    /\ At(heap', c) = Owner("package", b)
    /\ DOMAIN heap'[b].cells \subseteq Nat
    /\ \A i \in DOMAIN heap'[b].cells : Owns(heap'[b].cells[i]) = {}

(* The start of a package keeps the invariant. *)
LEMMA BeginPackageOK ==
    ASSUME IInv, BeginPackage
    PROVE  IInv'
<1>1. PICK k, b, c : k = Len(stack) - 1 /\ b = New(heap) /\ c = Top.dest
  OBVIOUS
<1>2. stack # <<>> /\ Top.do = "eval" /\ lang' = lang /\ names' = names
  BY DEF BeginPackage, Evaluating
<1>3. PICK count \in 1..lang.elements, given \in 0..lang.elements :
        /\ given =< count
        /\ heap' = Put(With(heap, b, Array([i \in 1..count |-> Junk])), c, Owner("package", b))
        /\ stack' = Append(Pop, [do |-> "elements", at |-> b, next |-> 1, given |-> given])
  BY <1>1 DEF BeginPackage
<1>4. lang.elements \in Nat /\ count \in Nat /\ given \in Nat
  <2>1. lang \in [forms : SUBSET Form, frames : Nat, elements : Nat, pending : Nat, blocks : Nat]
    BY LanguagesAssumption DEF IInv
  <2>2. QED
    BY <1>3, <2>1
<1>5. PICK x : x = Array([i \in 1..count |-> Junk])
  OBVIOUS
<1>6. Bare(x) /\ (\A i \in DOMAIN x.cells : ~Borrows(x.cells[i])) /\ DOMAIN x.cells = 1..count
  BY <1>5, JunkBare
<1>7. /\ k \in 1..Len(stack) /\ Wants(stack[k]) /\ c = Slot(k)
      /\ c = <<c[1], c[2]>> /\ c[1] \in DOMAIN heap /\ c[2] \in DOMAIN heap[c[1]].cells
      /\ Aside(k, c) /\ BuffersKept({c}) /\ RunsStay(k) /\ FramesGo(k)
  BY <1>1, <1>2, EvalIs
<1>8. HeapOK(heap, Holders) /\ IsFiniteSet(DOMAIN heap)
  BY HeldFacts
<1>9. b \in Nat /\ b # 0 /\ b \notin DOMAIN heap
  BY <1>1, <1>8, NewIs
<1> DEFINE e == [do |-> "elements", at |-> b, next |-> 1, given |-> given]
<1> Packed(b, c) /\ heap'[b] = x
  <2> DEFINE g == Put(With(heap, b, x), <<c[1], c[2]>>, Owner("package", b))
  <2>1. "package" \in {"string", "buffer", "package"}
    OBVIOUS
  <2>2. Attached(heap, Holders, g, c[1], c[2], b, x, "package")
    BY <1>6, <1>7, <1>8, <1>9, <2>1, AttachIs
  <2>3. HeapOK(g, Holders) /\ Alters(heap, g, {<<c[1], c[2]>>}, {}, Owns(heap[c[1]].cells[c[2]]))
    BY <2>2 DEF Attached
  <2>4. At(g, <<c[1], c[2]>>) = Owner("package", b) /\ g[b] = x
    BY <2>2 DEF Attached
  <2>5. heap' = g
    BY <1>3, <1>5, <1>7
  <2> HIDE DEF g
  <2>6. HeapOK(heap', Holders) /\ heap'[b] = x /\ At(heap', c) = Owner("package", b)
    BY <1>7, <2>3, <2>4, <2>5
  <2>7. Alters(heap, heap', {c}, {}, Owns(heap[c[1]].cells[c[2]]))
    BY <1>7, <2>3, <2>5
  <2>8. DOMAIN x.cells \subseteq Nat /\ \A i \in DOMAIN x.cells : Owns(x.cells[i]) = {}
    BY <1>4, <1>6 DEF Bare
  <2>9. QED
    BY <2>6, <2>7, <2>8 DEF Packed
<1>10. e \in Entry /\ Held(e) = {} /\ e.do = "elements" /\ e.at = b /\ e.next = 1 /\ e.given = given
  BY <1>4, <1>9, EntryMade DEF Held
<1>11. /\ k \in 0..Len(stack) /\ k \in Nat /\ Len(Pop) = k /\ Pop \in Seq(Entry)
       /\ \A i \in 1..k : Pop[i] = stack[i]
  BY <1>1, <1>2, TopIs
<1>12. stack' = Append(Pop, e)
  BY <1>3
<1> HIDE DEF e
<1>13. /\ stack' \in Seq(Entry) /\ Len(stack') = k + 1 /\ stack'[k + 1] = e
       /\ \A i \in 1..k : stack'[i] = stack[i]
  BY <1>10, <1>11, <1>12, AppendIs
<1>14. Kept(k)
  BY <1>11, <1>13 DEF Kept
<1>15. Fits(k, stack'[k + 1])
  BY <1>10, <1>13 DEF Fits, Sized, Blank, Packed
<1>16. Filled(e, Slot(k))
  <2>1. 1 \in 1..(given + 1) /\ 1..given \subseteq 1..count
    BY <1>3, <1>4
  <2>2. QED
    BY <1>6, <1>7, <1>10, <2>1 DEF Filled, Packed
<1>17. k # 0 /\ Stands(k)
  <2>1. Gives(Top) /\ Gives(e) /\ e.do # "call"
    BY <1>2, <1>10 DEF Gives
  <2>2. k + 1 =< Len(stack')
    BY <1>11, <1>13
  <2>3. QED
    BY <1>1, <1>2, <1>13, <1>14, <1>16, <2>1, <2>2, StandsThere
<1>18. Tops(k) /\ Joined(k)
  BY <1>13, <1>14, <1>15, <1>17, PushOne
<1>19. \A i \in (k + 1)..Len(stack') : Held(stack'[i]) \subseteq Holders
  <2>1. \A i \in (k + 1)..Len(stack') : i = k + 1
    BY <1>11, <1>13
  <2>2. QED
    BY <1>10, <1>13, <2>1
<1>20. Spared(k, {c}, {})
  BY <1>7, <1>11, SparedNone
<1>21. PICK L : Alters(heap, heap', {c}, {}, L)
  BY DEF Packed
<1>22. Holders \subseteq Holders \cup {} /\ HeapOK(heap', Holders)
       /\ \A n \in DOMAIN names : names[n].at \notin {}
  BY DEF Packed
<1>23. QED
  BY <1>2, <1>7, <1>14, <1>18, <1>19, <1>20, <1>21, <1>22, Pushed

(* The next element of a package keeps the invariant. *)
LEMMA NextElementOK ==
    ASSUME IInv, NextElement
    PROVE  IInv'
<1>1. PICK k, a, n, c : k = Len(stack) - 1 /\ a = Top.at /\ n = Top.next /\ c = <<a, n>>
  OBVIOUS
<1>2. /\ stack # <<>> /\ Top.do = "elements" /\ n =< Top.given /\ lang' = lang /\ names' = names
      /\ heap' = heap
  BY <1>1 DEF NextElement
<1>3. stack' = Append([stack EXCEPT ![Len(stack)].next = n + 1], Eval(c))
  BY <1>1 DEF NextElement
<1>4. /\ k \in 0..Len(stack) /\ k \in Nat /\ Len(stack) = k + 1 /\ k + 1 \in 1..Len(stack)
      /\ Top = stack[k + 1] /\ Top \in Entry /\ stack \in Seq(Entry) /\ StackOK
  BY <1>1, <1>2, TopIs, HeldFacts, StackFacts
<1>5. PICK given : given = Top.given
  OBVIOUS
<1> DEFINE d == [do |-> "elements", at |-> a, next |-> n + 1, given |-> given]
<1>6. a \in Nat /\ n \in Nat /\ given \in Nat
  BY <1>1, <1>2, <1>4, <1>5, EntryIs
<1>7. Top = [do |-> "elements", at |-> a, next |-> n, given |-> given]
  BY <1>1, <1>2, <1>4, <1>5 DEF Entry
<1>8. d \in Entry /\ Held(d) = {} /\ d.do = "elements" /\ d.at = a /\ d.next = n + 1 /\ d.given = given
  BY <1>6, EntryMade DEF Held
<1>9. [stack EXCEPT ![Len(stack)].next = n + 1] = [stack EXCEPT ![Len(stack)] = d]
  <2>1. [stack[Len(stack)] EXCEPT !.next = n + 1] = d
    BY <1>4, <1>7
  <2>2. QED
    BY <2>1
<1> HIDE DEF d
<1>10. Eval(c) \in Entry /\ Held(Eval(c)) = {} /\ Eval(c).do = "eval" /\ Eval(c).dest = c
  BY <1>1, <1>6, EntryMade DEF Held, Eval
<1>11. PICK s : s = [stack EXCEPT ![Len(stack)] = d]
  OBVIOUS
<1>12. s \in Seq(Entry) /\ Len(s) = k + 1 /\ s[k + 1] = d /\ \A i \in 1..k : s[i] = stack[i]
  BY <1>4, <1>8, <1>11
<1>13. /\ stack' \in Seq(Entry) /\ Len(stack') = k + 2 /\ stack'[k + 1] = d /\ stack'[k + 2] = Eval(c)
       /\ \A i \in 1..k : stack'[i] = stack[i]
  <2>1. /\ stack' = Append(s, Eval(c)) /\ k + 1 + 1 = k + 2 /\ Len(s) + 1 = k + 2
        /\ \A i \in 1..k : i \in 1..Len(s)
        /\ k + 1 \in 1..Len(s)
    BY <1>3, <1>4, <1>9, <1>11, <1>12
  <2>2. /\ stack' \in Seq(Entry) /\ Len(stack') = Len(s) + 1 /\ stack'[Len(s) + 1] = Eval(c)
        /\ \A i \in 1..Len(s) : stack'[i] = s[i]
    BY <1>10, <1>12, <2>1, AppendIs
  <2>3. QED
    BY <1>12, <2>1, <2>2
<1>14. Kept(k)
  BY <1>4, <1>13 DEF Kept
<1>15. /\ k + 1 \in 2..Len(stack) /\ a \in DOMAIN heap
       /\ 1..given \subseteq DOMAIN heap[a].cells /\ n \in 1..(given + 1)
       /\ At(heap, Slot((k + 1) - 1)) = Owner("package", a)
  <2>1. Wants(stack[k + 1])
    BY <1>2, <1>4 DEF Wants
  <2>2. k + 1 \in 2..Len(stack)
    BY <1>4, <2>1, StackFacts
  <2>3. QED
    BY <1>1, <1>2, <1>4, <1>5, <2>2, ElementsHome
<1>16. (k + 1) - 1 = k /\ k + 1 + 1 = k + 2 /\ (n + 1) - 1 = n /\ n + 1 > 1 /\ k # 0
  BY <1>4, <1>6, <1>15
<1>27. DOMAIN heap[a].cells \subseteq Nat
       /\ \A i \in DOMAIN heap[a].cells : i >= n => Owns(heap[a].cells[i]) = {}
  <2>1. Blank(heap, stack[k + 1])
    BY <1>4, HeldFacts, StackFacts DEF IInv, Unwritten
  <2>2. QED
    BY <1>1, <1>2, <1>4, <2>1 DEF Blank
<1>17. Fits(k, stack'[k + 1])
  <2>1. ASSUME NEW i \in DOMAIN heap[a].cells, i >= n + 1 PROVE Owns(heap[a].cells[i]) = {}
    <3>1. i >= n
      BY <1>6, <1>27, <2>1
    <3>2. QED
      BY <1>27, <2>1, <3>1
  <2>2. Blank(heap', d)
    BY <1>2, <1>8, <1>27, <2>1 DEF Blank
  <2>3. QED
    BY <1>8, <1>13, <2>2 DEF Fits, Sized
<1>18. Fits(k, stack'[k + 2])
  BY <1>10, <1>13 DEF Fits, Sized, Blank
<1>19. Stands(k)
  <2>1. Filled(d, Slot(k))
    <3>1. n + 1 \in 1..(given + 1)
      BY <1>2, <1>5, <1>6
    <3>2. QED
      BY <1>2, <1>8, <1>15, <1>16, <3>1 DEF Filled
  <2>2. Gives(Top) /\ Gives(d) /\ d.do # "call"
    BY <1>2, <1>8 DEF Gives
  <2>3. k + 1 =< Len(stack')
    BY <1>4, <1>13
  <2>4. QED
    BY <1>1, <1>2, <1>13, <1>14, <2>1, <2>2, <2>3, StandsThere
<1>20. Stands(k + 1)
  <2>1. SlotOf(stack', k + 1) = c
    BY <1>1, <1>8, <1>13, <1>16 DEF SlotOf
  <2>2. Owns(At(heap', c)) = {}
    <3>1. n \in DOMAIN heap[a].cells
      BY <1>2, <1>5, <1>6, <1>15
    <3>2. Owns(heap[a].cells[n]) = {}
      BY <1>6, <1>27, <3>1
    <3>3. QED
      BY <1>1, <1>2, <3>2 DEF At
  <2>3. Dest(heap', stack', k + 1)
    BY <1>8, <1>10, <1>13, <1>16, <2>1, <2>2 DEF Dest
  <2>4. QED
    BY <1>8, <1>10, <1>13, <1>16, <2>3 DEF Stands, Above, Gives
<1>21. Tops(k) /\ Joined(k)
  <2>1. Held(stack'[k + 1]) \cap Held(stack'[k + 2]) = {}
    BY <1>8, <1>13
  <2>2. QED
    BY <1>10, <1>13, <1>14, <1>16, <1>17, <1>18, <1>19, <1>20, <2>1, PushTwo
<1>22. \A i \in (k + 1)..Len(stack') : Held(stack'[i]) \subseteq Holders
  <2>1. \A i \in (k + 1)..Len(stack') : i = k + 1 \/ i = k + 2
    BY <1>4, <1>13
  <2>2. QED
    BY <1>8, <1>10, <1>13, <2>1
<1>23. Alters(heap, heap', {}, {}, {}) /\ HeapOK(heap', Holders)
  BY <1>2, AltersNone, HeldFacts
<1>24. Spared(k, {}, {}) /\ BuffersKept({}) /\ RunsStay(k) /\ FramesGo(k)
  BY <1>1, <1>2, <1>4, SparedNone, TopGoes DEF BuffersKept
<1>25. Holders \subseteq Holders \cup {} /\ \A m \in DOMAIN names : names[m].at \notin {}
  OBVIOUS
<1>26. QED
  BY <1>2, <1>14, <1>21, <1>22, <1>23, <1>24, <1>25, Pushed

(* Cells that own nothing become null. *)
Nulled(h, g, W) ==
    /\ DOMAIN g = DOMAIN h
    /\ \A a \in DOMAIN h : DOMAIN g[a].cells = DOMAIN h[a].cells /\ IsBlock(g[a])
    /\ \A a \in DOMAIN h : \A i \in DOMAIN h[a].cells :
         g[a].cells[i] = IF <<a, i>> \in W THEN Null ELSE h[a].cells[i]

(* Cells that own nothing, made null. *)
LEMMA NulledIs ==
    ASSUME NEW h, NEW H, HeapOK(h, H), NEW g, NEW W, Nulled(h, g, W),
           \A a \in DOMAIN h : \A i \in DOMAIN h[a].cells : <<a, i>> \in W => Owns(h[a].cells[i]) = {}
    PROVE  HeapOK(g, H) /\ Alters(h, g, W, {}, {})
<1>1. Owns(Null) = {} /\ ~Borrows(Null)
  BY OwnsIs DEF Null, Borrows
<1>2. \A a, i, c : Points(g, a, i, c) <=> Points(h, a, i, c)
  BY <1>1 DEF Points, Nulled
<1>3. HeapOK(g, H)
  <2>1. /\ IsFiniteSet(DOMAIN g) /\ DOMAIN g \subseteq Nat /\ H \subseteq DOMAIN g
        /\ \A a \in DOMAIN g : IsBlock(g[a])
    BY DEF HeapOK, Nulled
  <2>2. \A a, i, b : Points(g, a, i, b) => b \in DOMAIN g /\ b \notin H
    BY <1>2, HeapFacts DEF Nulled
  <2>3. \A a, i, c, j, b : Points(g, a, i, b) /\ Points(g, c, j, b) => a = c /\ i = j
    BY <1>2, HeapFacts
  <2>4. QED
    BY <2>1, <2>2, <2>3, HeapMade
<1>4. \A a \in DOMAIN g : \A k \in DOMAIN g[a].cells :
        Borrows(g[a].cells[k]) => /\ a \in DOMAIN h /\ k \in DOMAIN h[a].cells
                                  /\ g[a].cells[k] = h[a].cells[k]
  BY <1>1 DEF Nulled
<1>5. \A a \in DOMAIN g : Owned(g, a) \/ a \in {} \/ (a \in DOMAIN h /\ ~Owned(h, a))
  BY <1>2 DEF Nulled, Owned
<1>6. QED
  BY <1>2, <1>3, <1>4, <1>5 DEF Alters, Nulled

(* The end of a package keeps the invariant. *)
LEMMA EndPackageOK ==
    ASSUME IInv, EndPackage
    PROVE  IInv'
<1>1. PICK k, a, n, given : k = Len(stack) - 1 /\ a = Top.at /\ n = Top.next /\ given = Top.given
  OBVIOUS
<1> DEFINE W == {<<a, i>> : i \in {j \in DOMAIN heap[a].cells : j > given}}
<1>2. /\ stack # <<>> /\ Top.do = "elements" /\ n > given /\ lang' = lang /\ names' = names
      /\ stack' = Pop
  BY <1>1 DEF EndPackage
<1>3. heap' = [heap EXCEPT ![a].cells = [i \in DOMAIN @ |-> IF i > given THEN Null ELSE @[i]]]
  BY <1>1 DEF EndPackage
<1>4. /\ k \in 0..Len(stack) /\ k \in Nat /\ Len(stack) = k + 1 /\ k + 1 \in 1..Len(stack)
      /\ Top = stack[k + 1] /\ Top \in Entry /\ StackOK
  BY <1>1, <1>2, TopIs, HeldFacts
<1>5. n \in Nat /\ given \in Nat /\ k + 1 \in 2..Len(stack) /\ Wants(stack[k + 1])
  <2>1. Wants(stack[k + 1])
    BY <1>2, <1>4 DEF Wants
  <2>2. QED
    BY <1>1, <1>2, <1>4, <2>1, EntryIs, StackFacts
<1>6. a \in DOMAIN heap /\ n \in 1..(given + 1) /\ a \notin Holders
  BY <1>1, <1>2, <1>4, <1>5, ElementsHome
<1>7. Slot(k + 1) = <<a, n - 1>>
  BY <1>1, <1>2, <1>4, <1>5, SlotIs
<1>8. /\ DOMAIN heap[a].cells \subseteq Nat
      /\ \A i \in DOMAIN heap[a].cells : i >= n => Owns(heap[a].cells[i]) = {}
  <2>1. Blank(heap, stack[k + 1])
    BY <1>4, StackFacts DEF IInv, Unwritten
  <2>2. QED
    BY <1>1, <1>2, <1>4, <2>1 DEF Blank
<1>9. \A i \in DOMAIN heap[a].cells : i > given => i >= n
  BY <1>5, <1>6, <1>8
<1>10. HeapOK(heap, Holders)
  BY HeldFacts
<1>11. IsBlock(heap'[a]) /\ DOMAIN heap'[a].cells = DOMAIN heap[a].cells
       /\ \A i \in DOMAIN heap[a].cells :
            heap'[a].cells[i] = IF i > given THEN Null ELSE heap[a].cells[i]
  <2>1. IsBlock(heap[a])
    BY <1>6, <1>10 DEF HeapOK
  <2> DEFINE f == [i \in DOMAIN heap[a].cells |-> IF i > given THEN Null ELSE heap[a].cells[i]]
  <2>2. heap'[a] = [cells |-> f, val |-> heap[a].val]
    BY <1>3, <1>6, <2>1 DEF IsBlock
  <2>3. Null \in Value
    BY DEF Null, Value
  <2>4. f \in [DOMAIN heap[a].cells -> Value]
    BY <2>1, <2>3 DEF IsBlock
  <2>5. QED
    BY <2>1, <2>2, <2>4 DEF IsBlock
<1>12. Nulled(heap, heap', W)
  <2>1. DOMAIN heap' = DOMAIN heap /\ \A b \in DOMAIN heap : b # a => heap'[b] = heap[b]
    BY <1>3
  <2>2. \A b \in DOMAIN heap : \A i : <<b, i>> \in W <=> b = a /\ i \in DOMAIN heap[a].cells /\ i > given
    OBVIOUS
  <2>3. \A b \in DOMAIN heap : IsBlock(heap[b])
    BY <1>10 DEF HeapOK
  <2> HIDE DEF W
  <2>4. QED
    BY <1>11, <2>1, <2>2, <2>3 DEF Nulled
<1>13. HeapOK(heap', Holders) /\ Alters(heap, heap', W, {}, {})
  <2>1. \A b \in DOMAIN heap : \A i \in DOMAIN heap[b].cells :
          <<b, i>> \in W => Owns(heap[b].cells[i]) = {}
    BY <1>8, <1>9
  <2> HIDE DEF W
  <2>2. QED
    BY <1>10, <1>12, <2>1, NulledIs
<1>14. ASSUME NEW c \in W PROVE Aside(k, c)
  <2>1. PICK j : c = <<a, j>>
    BY <1>14
  <2>2. ASSUME NEW i \in 1..k, Wants(stack[i]) PROVE Slot(i)[1] # a
    <3>1. i \in 1..Len(stack) /\ i # k + 1
      BY <1>4
    <3>2. Slot(k + 1)[1] = a
      BY <1>7
    <3>3. QED
      BY <1>4, <1>5, <2>2, <3>1, <3>2, SlotsApart
  <2>3. ASSUME NEW i \in 1..k, stack[i].do = "elements" PROVE stack[i].at # a
    <3>1. Wants(stack[i]) /\ i \in 1..Len(stack)
      BY <1>4, <2>3 DEF Wants
    <3>2. Slot(i) = <<stack[i].at, stack[i].next - 1>>
      BY <1>4, <2>3, <3>1, SlotIs
    <3>3. QED
      BY <2>2, <3>1, <3>2
  <2>4. 1..(k - 1) \subseteq 1..k
    BY <1>4
  <2>5. QED
    BY <2>1, <2>2, <2>3, <2>4 DEF Aside
<1>15. BuffersKept(W)
  <2>1. \A m \in DOMAIN names : names[m].at # a
    BY <1>6, HeldFacts
  <2>2. QED
    BY <2>1 DEF BuffersKept
<1> HIDE DEF W
<1>16. Spared(k, W, {})
  BY <1>4, <1>14, SparedNone
<1>17. Holders \subseteq Holders \cup {} /\ \A m \in DOMAIN names : names[m].at \notin {}
  OBVIOUS
<1>18. Top.do \notin {"run", "args"}
  BY <1>2
<1>19. QED
  BY <1>1, <1>2, <1>13, <1>15, <1>16, <1>17, <1>18, Popped

(* The start of a conversion keeps the invariant. *)
LEMMA BeginConvertOK ==
    ASSUME IInv, NEW type \in {"string", "buffer"}, BeginConvert(type)
    PROVE  IInv'
<1>1. PICK k, b, c : k = Len(stack) - 1 /\ b = New(heap) /\ c = Top.dest
  OBVIOUS
<1> DEFINE d == [do |-> "convert", own |-> b, type |-> type, dest |-> c]
           e == Eval(<<b, 1>>)
<1>2. stack # <<>> /\ Top.do = "eval" /\ lang' = lang /\ names' = names
      /\ stack' = Pop \o <<d, e>>
  BY <1>1 DEF BeginConvert, Evaluating
<1> NewCell(heap, Holders, heap', b, Junk)
  BY <1>1, JunkCell DEF BeginConvert
<1>3. /\ k \in 1..Len(stack) /\ Wants(stack[k]) /\ c = Slot(k) /\ c \in Nat \X Nat
      /\ c = <<c[1], c[2]>> /\ c[1] \in DOMAIN heap /\ c[2] \in DOMAIN heap[c[1]].cells
      /\ Owns(heap[c[1]].cells[c[2]]) = {} /\ RunsStay(k) /\ FramesGo(k)
  BY <1>1, <1>2, EvalIs
<1>4. /\ k \in 0..Len(stack) /\ k \in Nat /\ Len(Pop) = k /\ Pop \in Seq(Entry)
      /\ \A i \in 1..k : Pop[i] = stack[i]
  BY <1>1, <1>2, TopIs
<1>5. b \in Nat /\ b \notin DOMAIN heap
  BY DEF NewCell
<1>6. /\ d \in Entry /\ d.do = "convert" /\ d.own = b /\ d.dest = c /\ Held(d) = {b}
      /\ e \in Entry /\ e.do = "eval" /\ e.dest = <<b, 1>> /\ Held(e) = {}
  BY <1>3, <1>5, EntryMade DEF Held, Eval
<1> HIDE DEF d, e
<1>7. /\ stack' \in Seq(Entry) /\ Len(stack') = k + 2 /\ \A i \in 1..k : stack'[i] = stack[i]
      /\ stack'[k + 1] = d /\ stack'[k + 2] = e
  <2>1. PICK s : s = Pop
    OBVIOUS
  <2>2. s \in Seq(Entry) /\ Len(s) = k /\ \A i \in 1..k : s[i] = stack[i]
    BY <1>4, <2>1
  <2>3. /\ s \o <<d, e>> \in Seq(Entry) /\ Len(s \o <<d, e>>) = k + 2
        /\ \A i \in 1..k : (s \o <<d, e>>)[i] = s[i]
        /\ (s \o <<d, e>>)[k + 1] = d /\ (s \o <<d, e>>)[k + 2] = e
    BY <1>6, <2>2, AppendTwoIs
  <2>4. stack' = s \o <<d, e>>
    BY <1>2, <2>1
  <2>5. QED
    BY <2>2, <2>3, <2>4
<1>8. Kept(k)
  BY <1>4, <1>7 DEF Kept
<1>9. Fits(k, stack'[k + 1])
  BY <1>6, <1>7 DEF NewCell, Fits, Loose, Sized, Blank
<1>10. Fits(k, stack'[k + 2])
  BY <1>6, <1>7 DEF Fits, Sized, Blank
<1>11. k # 0 /\ Stands(k)
  <2>1. At(heap', c) = heap[c[1]].cells[c[2]]
    BY <1>3 DEF NewCell, Alters, At
  <2>2. Filled(d, Slot(k))
    BY <1>3, <1>6, <2>1 DEF Filled
  <2>3. Gives(Top) /\ Gives(d) /\ d.do # "call"
    BY <1>2, <1>6 DEF Gives
  <2>4. k + 1 =< Len(stack')
    BY <1>4, <1>7
  <2>5. QED
    BY <1>1, <1>2, <1>7, <1>8, <2>2, <2>3, <2>4, StandsThere
<1>12. Stands(k + 1)
  <2>1. k + 1 + 1 = k + 2
    BY <1>4
  <2>2. SlotOf(stack', k + 1) = <<b, 1>>
    BY <1>6, <1>7 DEF SlotOf
  <2>3. Owns(At(heap', <<b, 1>>)) = {}
    BY DEF NewCell, At
  <2>4. Dest(heap', stack', k + 1)
    BY <1>6, <1>7, <2>1, <2>2, <2>3 DEF Dest
  <2>5. QED
    BY <1>6, <1>7, <2>1, <2>4 DEF Stands, Above, Gives
<1>13. Tops(k) /\ Joined(k)
  <2>1. Held(stack'[k + 1]) \cap Held(stack'[k + 2]) = {}
    BY <1>6, <1>7
  <2>2. QED
    BY <1>6, <1>7, <1>8, <1>9, <1>10, <1>11, <1>12, <2>1, PushTwo
<1>14. \A i \in (k + 1)..Len(stack') : Held(stack'[i]) \subseteq Holders \cup {b}
  <2>1. \A i \in (k + 1)..Len(stack') : i = k + 1 \/ i = k + 2
    BY <1>4, <1>7
  <2>2. QED
    BY <1>6, <1>7, <2>1
<1>15. Spared(k, {}, {}) /\ BuffersKept({})
  BY <1>4, SparedNone DEF BuffersKept
<1>16. HeapOK(heap', Holders \cup {b}) /\ Alters(heap, heap', {}, {}, {b})
  BY DEF NewCell
<1>17. Holders \subseteq (Holders \cup {b}) \cup {} /\ \A m \in DOMAIN names : names[m].at \notin {}
  OBVIOUS
<1>18. QED
  BY <1>2, <1>3, <1>8, <1>13, <1>14, <1>15, <1>16, <1>17, Pushed

(* The end of the arguments keeps the invariant. *)
LEMMA EndArgsOK ==
    ASSUME IInv, EndArgs
    PROVE  IInv'
<1>1. PICK k, f : k = Len(stack) - 1 /\ f = Top.frame
  OBVIOUS
<1>2. /\ stack # <<>> /\ Top.do = "args" /\ lang' = lang /\ names' = names /\ heap' = heap
      /\ stack' = Append(Pop, Run(f))
  BY <1>1 DEF EndArgs
<1>3. /\ k \in 0..Len(stack) /\ k \in Nat /\ Len(stack) = k + 1 /\ k + 1 \in 1..Len(stack)
      /\ Top = stack[k + 1] /\ Top \in Entry /\ StackOK /\ DOMAIN stack = 1..Len(stack)
      /\ Len(Pop) = k /\ Pop \in Seq(Entry) /\ \A i \in 1..k : Pop[i] = stack[i]
  BY <1>1, <1>2, TopIs, HeldFacts, StackFacts
<1>4. Held(stack[k + 1]) = {f} /\ f \in Nat /\ f \in DOMAIN heap /\ f \in Holders
  <2>1. Held(stack[k + 1]) = {f} /\ f \in Nat
    BY <1>1, <1>2, <1>3, HeldIs, EntryIs
  <2>2. QED
    BY <1>3, <2>1, HeldFacts
<1>5. Run(f) \in Entry /\ Held(Run(f)) = {f} /\ Run(f).do = "run" /\ Run(f).frame = f
  BY <1>4, EntryMade DEF Held, Run
<1>6. /\ stack' \in Seq(Entry) /\ Len(stack') = k + 1 /\ stack'[k + 1] = Run(f)
      /\ \A i \in 1..k : stack'[i] = stack[i]
  BY <1>2, <1>3, <1>5, AppendIs
<1>7. Kept(k)
  BY <1>3, <1>6 DEF Kept
<1>8. k \in 1..Len(stack) /\ k # 0 /\ stack[k].do = "call"
  <2>1. k + 1 \in 2..Len(stack)
    BY <1>2, <1>3, StackFacts DEF Wants
  <2>2. k \in 1..Len(stack) /\ k # 0 /\ k \in 1..(Len(stack) - 1)
    BY <1>3, <2>1
  <2>3. QED
    BY <1>2, <1>3, <2>2, StackFacts, AboveIs
<1>9. ~Building(k)
  <2>1. SUFFICES ASSUME NEW i \in 1..(k - 1), stack[i].do = "return",
                        stack[i + 1].do \in {"elements", "convert"}
                 PROVE  FALSE
    BY DEF Building
  <2>2. k + 1 \in (i + 1)..Len(stack) /\ i \in 1..(Len(stack) - 1)
    BY <1>3
  <2>3. stack[k + 1].do \in {"eval", "elements", "convert"}
    BY <2>1, <2>2 DEF IInv, Returning
  <2>4. QED
    BY <1>2, <1>3, <2>3
<1>10. Fits(k, stack'[k + 1])
  <2>1. DOMAIN heap'[f].cells = 1..3
    BY <1>2, <1>3, <1>4 DEF IInv, Sizes, Sized
  <2>2. k + 1 \in (k + 1)..Len(stack)
    BY <1>3
  <2>3. QED
    BY <1>2, <1>4, <1>5, <1>6, <1>9, <2>1, <2>2 DEF Fits, Loose, Sized, Blank
<1>11. Stands(k)
  <2>1. stack'[k] = stack[k]
    BY <1>6, <1>8
  <2>2. QED
    BY <1>5, <1>6, <1>8, <2>1 DEF Stands, Above, Wants
<1>12. Tops(k) /\ Joined(k)
  BY <1>6, <1>7, <1>8, <1>10, <1>11, PushOne
<1>13. RunsStay(k)
  <2>1. \A j \in 2..Len(stack) : j =< k \/ j = k + 1
    BY <1>3
  <2>2. QED
    BY <1>2, <1>3, <2>1 DEF RunsStay
<1>14. FramesGo(k)
  <2>1. \A i \in (k + 1)..Len(stack) : i = k + 1
    BY <1>3
  <2>2. stack'[k + 1].frame = stack[k + 1].frame /\ stack'[k + 1].do \in {"run", "args"}
        /\ k + 1 =< Len(stack')
    BY <1>1, <1>3, <1>5, <1>6
  <2>3. QED
    BY <2>1, <2>2 DEF FramesGo
<1>15. \A i \in (k + 1)..Len(stack') : Held(stack'[i]) \subseteq Holders
  <2>1. \A i \in (k + 1)..Len(stack') : i = k + 1
    BY <1>3, <1>6
  <2>2. QED
    BY <1>4, <1>5, <1>6, <2>1
<1>16. Alters(heap, heap', {}, {}, {}) /\ HeapOK(heap', Holders)
  BY <1>2, AltersNone, HeldFacts
<1>17. Spared(k, {}, {}) /\ BuffersKept({})
  BY <1>3, SparedNone DEF BuffersKept
<1>18. Holders \subseteq Holders \cup {} /\ \A m \in DOMAIN names : names[m].at \notin {}
  OBVIOUS
<1>19. lang' = lang /\ names' = names
  BY <1>2
<1>20. QED
  BY <1>7, <1>12, <1>13, <1>14, <1>15, <1>16, <1>17, <1>18, <1>19, Pushed

(* What was never allocated is not freed. *)
LEMMA AltersLess ==
    ASSUME NEW h, NEW g, NEW W, NEW D, NEW L, Alters(h, g, W, D, L)
    PROVE  Alters(h, g, W, D \cap DOMAIN h, L)
BY DEF Alters

(* The blocks T are not among those that change. *)
Clear(T, W, D) == T \cap D = {} /\ \A a \in T : \A i : <<a, i>> \notin W
SameTree(h, S) == Tree(h, S) = Tree(heap, S)

(* What is owned in S is so after a change elsewhere. *)
LEMMA TreeSame ==
    ASSUME NEW G, HeapOK(heap, G), NEW h, NEW H, HeapOK(h, H),
           NEW W, NEW D, NEW L, Alters(heap, h, W, D, L),
           NEW S \in SUBSET G, Clear(Tree(heap, S), W, D)
    PROVE  SameTree(h, S)
<1> DEFINE T == Tree(heap, S)
<1>1. Whole(h) /\ Whole(heap) /\ S \in SUBSET Nat
  BY HeapFacts DEF HeapOK
<1>2. /\ S \subseteq T /\ T \subseteq DOMAIN heap
      /\ \A a, i, b : a \in T /\ Points(heap, a, i, b) => b \in T
      /\ \A C : S \subseteq C /\ (\A a, i, b : a \in C /\ Points(heap, a, i, b) => b \in C)
                  => T \subseteq C
  <2>1. T \subseteq DOMAIN heap
    BY FreeOK
  <2>2. QED
    BY <1>1, <2>1, TreeIs
<1> HIDE DEF T
<1>3. /\ S \subseteq Tree(h, S)
      /\ \A a, i, b : a \in Tree(h, S) /\ Points(h, a, i, b) => b \in Tree(h, S)
      /\ \A C : S \subseteq C /\ (\A a, i, b : a \in C /\ Points(h, a, i, b) => b \in C)
                  => Tree(h, S) \subseteq C
  BY <1>1, TreeIs
<1>9. T \cap D = {} /\ \A a \in T : \A i : <<a, i>> \notin W
  BY DEF T, Clear
<1>4. \A a \in T : /\ a \in DOMAIN h /\ DOMAIN h[a].cells = DOMAIN heap[a].cells
                   /\ \A i \in DOMAIN heap[a].cells : h[a].cells[i] = heap[a].cells[i]
  BY <1>2, <1>9 DEF Alters
<1>5. \A a, i, b : a \in T => (Points(h, a, i, b) <=> Points(heap, a, i, b))
  BY <1>2, <1>4 DEF Points
<1>6. Tree(h, S) \subseteq T
  BY <1>2, <1>3, <1>5
<1>7. T \subseteq Tree(h, S)
  <2> DEFINE C == Tree(h, S) \cap T
  <2>1. S \subseteq C
    BY <1>2, <1>3
  <2>2. \A a, i, b : a \in C /\ Points(heap, a, i, b) => b \in C
    BY <1>2, <1>3, <1>5
  <2> HIDE DEF C
  <2>3. T \subseteq C
    BY <1>2, <2>1, <2>2
  <2>4. QED
    BY <2>3 DEF C
<1>8. QED
  BY <1>6, <1>7 DEF T, SameTree

(* A variable is not what a function holds that does not run. *)
LEMMA DirectApart ==
    ASSUME IInv, NEW d, Direct(d), NEW i \in 1..Len(stack), stack[i].do # "run"
    PROVE  d.cell[1] \notin Held(stack[i])
<1>1. StackOK /\ DOMAIN stack = 1..Len(stack)
  BY HeldFacts, StackFacts
<1>2. CASE \E n \in DOMAIN names : d = InCell("data", <<names[n].at, 1>>)
  BY <1>1, <1>2 DEF IInv, HeldOnce, InCell
<1>3. CASE \E j \in 1..Len(stack) :
             /\ stack[j].do = "run"
             /\ d \in {InCell("local", <<stack[j].frame, LOCAL0>>), InCell("arg", <<stack[j].frame, ARG>>)}
  <2>1. PICK j \in 1..Len(stack) : stack[j].do = "run" /\ d.cell[1] = stack[j].frame
    BY <1>3 DEF InCell
  <2>2. stack[j] \in Entry /\ Held(stack[j]) = {d.cell[1]}
    BY <1>1, <2>1, StackFacts, HeldIs
  <2>3. QED
    BY <1>1, <2>1, <2>2 DEF IInv, HeldOnce
<1>4. QED
  BY <1>2, <1>3 DEF Direct

(* Operands are variables or in what variables own. *)
LEMMA OperandHome ==
    ASSUME IInv, stack # <<>>, Top.do # "host", NEW op \in Operands, op.flag # "field"
    PROVE  \E d : Direct(d) /\ \/ op.cell[1] = d.cell[1]
                               \/ \E j : Points(heap, d.cell[1], j, op.cell[1])
<1>1. CASE op \in Variables
  BY <1>1, VariablesDirect
<1>2. CASE \E d \in Variables : op \in Referred(d)
  BY <1>2, VariablesDirect
<1>3. CASE \E d \in Variables \cup UNION {Referred(o) : o \in Variables} : op \in Elements(d)
  <2>1. PICK d \in Variables \cup UNION {Referred(o) : o \in Variables} : op \in Elements(d)
    BY <1>3
  <2>2. Direct(d)
    BY <2>1, VariablesDirect
  <2>3. Place(d)
    BY <2>2, DirectIs
  <2> DEFINE a == d.cell[1]
             j == d.cell[2]
             v == heap[a].cells[j]
  <2>4. a \in DOMAIN heap /\ j \in DOMAIN heap[a].cells /\ At(heap, d.cell) = v
    BY <2>3 DEF Place, At
  <2> HIDE DEF v
  <2>5. v.type = "package" /\ op.cell[1] = v.at
    <3>1. CASE v.type = "package"
      BY <2>1, <2>4, <3>1 DEF Elements, InCell
    <3>2. CASE v.type \in {"string", "buffer"}
      <4>1. v.type # "package"
        BY <3>2
      <4>2. op = InBytes(v.at)
        BY <2>1, <2>4, <3>2, <4>1 DEF Elements
      <4>3. QED
        BY <4>2 DEF InBytes
    <3>3. CASE v.type \notin {"package", "string", "buffer"}
      BY <2>1, <2>4, <3>3 DEF Elements
    <3>4. QED
      BY <3>1, <3>2, <3>3
  <2>6. Points(heap, a, j, op.cell[1])
    BY <2>4, <2>5 DEF Points, Owns, v
  <2>7. QED
    BY <2>2, <2>6
<1>4. QED
  BY <1>1, <1>2, <1>3 DEF Operands

(* No operand is in what a function holds that does not run. *)
LEMMA OperandApart ==
    ASSUME IInv, stack # <<>>, Top.do # "host", NEW op \in Operands, op.flag # "field",
           NEW i \in 1..Len(stack), stack[i].do # "run", NEW T, T = Tree(heap, Held(stack[i]))
    PROVE  op.cell[1] \notin T
<1>1. PICK d : Direct(d) /\ \/ op.cell[1] = d.cell[1]
                            \/ \E j : Points(heap, d.cell[1], j, op.cell[1])
  BY OperandHome
<1>2. Held(stack[i]) \in SUBSET Holders /\ HeapOK(heap, Holders)
  BY HeldFacts
<1>3. /\ T \cap Holders = Held(stack[i])
      /\ \A a, j, c : Points(heap, a, j, c) => (c \in T <=> a \in T)
  <2>1. PICK S : S = Held(stack[i])
    OBVIOUS
  <2>2. S \in SUBSET Holders /\ T = Tree(heap, S)
    BY <1>2, <2>1
  <2>3. S \in SUBSET Holders /\ HeapOK(heap, Holders)
    BY <1>2, <2>2
  <2>4. /\ Tree(heap, S) \cap Holders = S
        /\ \A a, j, c : Points(heap, a, j, c) => (c \in Tree(heap, S) <=> a \in Tree(heap, S))
    BY <2>3, FreeOK
  <2>5. QED
    BY <2>1, <2>2, <2>4
<1>4. d.cell[1] \in Holders /\ d.cell[1] \notin Held(stack[i])
  BY <1>1, DirectIs, DirectApart
<1>5. d.cell[1] \notin T
  BY <1>3, <1>4
<1>6. QED
  BY <1>1, <1>3, <1>5

-----------------------------------------------------------------------------
(* What the functions that are kept do not need. *)
LEMMA SpareTree ==
    ASSUME IInv, NEW k \in 0..Len(stack), NEW S \in SUBSET Holders,
           \A i \in 1..k : Held(stack[i]) \cap S = {}
    PROVE  Spared(k, {}, Tree(heap, S))
<1> DEFINE T == Tree(heap, S)
<1>1. T \cap Holders = S /\ \A a, j, c : Points(heap, a, j, c) => (c \in T <=> a \in T)
  BY HeldFacts, FreeOK
<1> HIDE DEF T
<1>2. Len(stack) \in Nat /\ 1..k \subseteq 1..Len(stack)
  BY HeldFacts, StackFacts
<1>3. \A i \in 1..k : Held(stack[i]) \cap T = {}
  BY <1>1, <1>2, HeldFacts
<1>4. \A a, j, c : Points(heap, a, j, c) /\ c \in T => a \in T \/ <<a, j>> \in {}
  BY <1>1
<1>5. Spared(k, {}, T)
  BY <1>3, <1>4, SparedIs
<1>6. QED
  BY <1>5 DEF T

(* Two alterations that spare what the stack waits on, together. *)
LEMMA SparedBoth ==
    ASSUME NEW k, NEW W, NEW D, NEW V, NEW C, Spared(k, W, D), Spared(k, V, C)
    PROVE  Spared(k, W \cup V, D \cup C)
BY DEF Spared

(* No activation that stays waits on a cell of a freed block. *)
LEMMA SlotOutside ==
    ASSUME IInv, NEW k \in 0..Len(stack), NEW W, NEW D, Spared(k, W, D),
           NEW i \in 1..k, Wants(stack[i])
    PROVE  Slot(i)[1] \notin D
<1>1. StackOK /\ Len(stack) \in Nat /\ i \in 1..Len(stack)
  BY HeldFacts, StackFacts
<1>2. \/ \E j \in 1..Len(stack) : j =< i /\ Slot(i)[1] \in Held(stack[j])
      \/ stack[i].do = "elements" /\ Slot(i)[1] = stack[i].at
  BY <1>1, SlotBlock
<1>3. \A j \in 1..Len(stack) : j =< i => j \in 1..k
  BY <1>1
<1>4. QED
  BY <1>2, <1>3 DEF Spared

(* An operand may be written to. *)
LEMMA SpareWrite ==
    ASSUME IInv, stack # <<>>, Top.do # "host", NEW op \in Operands, NEW k \in 0..Len(stack)
    PROVE  /\ Writable(heap, op) /\ Spared(k, {}, Gone(heap, op)) /\ Gone(heap, op) \cap Holders = {}
           /\ Gone(heap, op) \subseteq DOMAIN heap
<1>1. CASE op.flag = "field"
  <2>1. Gone(heap, op) = {} /\ Writable(heap, op)
    BY <1>1 DEF Gone, Writable
  <2>2. Spared(k, {}, {})
    BY SparedNone
  <2>3. QED
    BY <2>1, <2>2
<1>2. CASE op.flag # "field"
  <2>1. Place(op)
    BY <1>2, OperandIs
  <2> DEFINE b == op.cell[1]
             i == op.cell[2]
             B == Beneath(heap, b, i)
  <2>2. Writable(heap, op) /\ Gone(heap, op) = B /\ op.cell = <<b, i>>
    BY <1>2, <2>1 DEF Place, Writable, Gone
  <2>3. /\ B \subseteq DOMAIN heap /\ B \cap Holders = {}
        /\ \A a, j, c : Points(heap, a, j, c) => (c \in B <=> a \in B \/ (a = b /\ j = i))
    BY <2>1, HeldFacts, BelowIs DEF Place
  <2> HIDE DEF B
  <2>4. Len(stack) \in Nat /\ 1..k \subseteq 1..Len(stack) /\ 1..(k - 1) \subseteq 1..Len(stack)
    BY HeldFacts, StackFacts
  <2>5. \A j \in 1..k : Held(stack[j]) \cap B = {}
    BY <2>3, <2>4, HeldFacts
  <2>6. \A a, j, c : Points(heap, a, j, c) /\ c \in B => a \in B \/ <<a, j>> \in {op.cell}
    BY <2>2, <2>3
  <2>7. \A j \in 1..(k - 1) : Wants(stack[j]) => Slot(j) \notin {op.cell}
    BY <2>1, <2>4 DEF Place
  <2>8. Spared(k, {}, B)
    BY <2>5, <2>6, <2>7, SparedIs
  <2>9. QED
    BY <2>2, <2>3, <2>8
<1>3. QED
  BY <1>1, <1>2

(* A cell that an operand leads to changes, unless it is a buffer's. *)
LEMMA SpareTouched ==
    ASSUME IInv, stack # <<>>, Top.do # "host", NEW op \in Operands, NEW k \in 0..Len(stack),
           NEW h, op.flag # "field" => At(h, op.cell) = At(heap, op.cell)
    PROVE  Spared(k, Touched(h, op), {}) /\ BuffersKept(Touched(h, op))
<1>1. CASE op.flag = "field"
  <2>1. Touched(h, op) = {}
    BY <1>1 DEF Touched
  <2>2. Spared(k, {}, {}) /\ BuffersKept({})
    BY SparedNone DEF BuffersKept
  <2>3. QED
    BY <2>1, <2>2
<1>2. CASE op.flag # "field"
  <2>1. Place(op) /\ Aside(k, op.cell)
    BY <1>2, OperandIs, AsidePlace
  <2>2. \A c \in Touched(h, op) : Aside(k, c)
    BY <1>2, <2>1 DEF Touched
  <2>3. BuffersKept(Touched(h, op))
    <3>1. SUFFICES ASSUME NEW n \in DOMAIN names, At(heap, <<names[n].at, 1>>).type = "buffer",
                          <<names[n].at, 1>> \in Touched(h, op)
                   PROVE  FALSE
      BY DEF BuffersKept
    <3>2. op.cell = <<names[n].at, 1>> /\ op.flag # "data"
      BY <1>2, <3>1 DEF Touched
    <3>3. \E i \in 1..Len(stack) : names[n].at \in Held(stack[i])
      BY <1>2, <2>1, <3>2 DEF Place
    <3>4. QED
      BY <3>3, HeldFacts, StackFacts DEF IInv, HeldOnce
  <2>4. QED
    BY <2>2, <2>3, SparedNone
<1>3. QED
  BY <1>1, <1>2

(* An integer that is written to an operand keeps the invariant. *)
LEMMA IntegerWritten ==
    ASSUME IInv, Running, lang' = lang, names' = names, stack' = stack,
           NEW op \in Operands, NEW x \in Number, heap' = Write(heap, op, Integer(x))
    PROVE  IInv'
<1>1. Running /\ lang' = lang /\ names' = names /\ stack' = stack /\ stack # <<>> /\ Top.do # "host"
  BY DEF Running
<1>2. PICK k, v : k = Len(stack) /\ v = Integer(x)
  OBVIOUS
<1>3. /\ k \in 0..Len(stack) /\ k \in Nat /\ RunsStay(k) /\ FramesGo(k) /\ stack \in Seq(Entry)
  BY <1>1, <1>2, RunningIs
<1>4. Kept(k) /\ Len(stack') = k
  BY <1>1, <1>2, <1>3 DEF Kept
<1>5. Tops(k) /\ Joined(k)
  BY <1>4, CutStep
<1>6. HeapOK(heap, Holders) /\ IsFiniteSet(DOMAIN heap) /\ Plain(heap)
  BY HeldFacts, PlainHeap
<1>7. Storable(heap, op, v)
  <2>1. v \in Value /\ Owns(v) = {} /\ ~Borrows(v)
    BY <1>2, IntegerValue
  <2>2. Source(heap, v)
    BY <1>6, <2>1, SourceBare
  <2>3. QED
    BY <2>1, <2>2 DEF Storable
<1>8. /\ Writable(heap, op) /\ Spared(k, {}, Gone(heap, op)) /\ Gone(heap, op) \cap Holders = {}
      /\ Spared(k, Touched(heap, op), {}) /\ BuffersKept(Touched(heap, op))
  BY <1>1, <1>3, SpareWrite, SpareTouched
<1> DEFINE W == {} \cup Touched(heap, op)
           D == {} \cup Gone(heap, op)
           L == {} \cup Leaked(heap, op)
<1>9. HeapOK(heap', Holders) /\ Alters(heap, heap', W, D, L)
  <2>1. Alters(heap, heap, {}, {}, {})
    BY AltersNone
  <2>2. HeapOK(Write(heap, op, v), Holders) /\ Alters(heap, Write(heap, op, v), W, D, L)
    BY <1>6, <1>7, <1>8, <2>1, WriteIs
  <2>3. heap' = Write(heap, op, v)
    BY <1>2
  <2> HIDE DEF W, D, L
  <2>4. QED
    BY <2>2, <2>3
<1>10. Spared(k, W, D) /\ BuffersKept(W)
  <2>1. Spared(k, Touched(heap, op) \cup {}, {} \cup Gone(heap, op))
    BY <1>8, SparedBoth
  <2>2. Touched(heap, op) \cup {} = W
    OBVIOUS
  <2>3. W = Touched(heap, op)
    OBVIOUS
  <2>4. QED
    BY <1>8, <2>1, <2>2, <2>3
<1>11. \A n \in DOMAIN names : names[n].at \notin D
  BY <1>8, HeldFacts
<1> HIDE DEF W, D, L
<1>12. \A i \in (k + 1)..Len(stack') : Held(stack'[i]) \subseteq Holders
  <2>1. (k + 1)..Len(stack') = {}
    BY <1>3, <1>4
  <2>2. QED
    BY <2>1
<1>13. Holders \subseteq Holders \cup D /\ lang' = lang /\ names' = names
  BY <1>1
<1>14. QED
  BY <1>3, <1>4, <1>5, <1>9, <1>10, <1>11, <1>12, <1>13, Pushed

(* An operator of the integers keeps the invariant. *)
LEMMA ComputeOK ==
    ASSUME IInv, Compute
    PROVE  IInv'
<1>1. PICK op \in Operands : heap' = Write(heap, op, Integer(0))
  BY DEF Compute
<1>2. Running /\ lang' = lang /\ names' = names /\ stack' = stack
  BY DEF Compute
<1>3. PICK x \in Number : x = 0
  BY DEF Number
<1>4. QED
  BY <1>1, <1>2, <1>3, IntegerWritten

(* The increment of an integer keeps the invariant. *)
LEMMA IncrementOK ==
    ASSUME IInv, Increment
    PROVE  IInv'
<1>1. PICK op \in Operands : /\ Read(heap, op).type = "integer"
                             /\ heap' = Write(heap, op, Integer(1 - Read(heap, op).val))
  BY DEF Increment
<1>2. Running /\ lang' = lang /\ names' = names /\ stack' = stack
  BY DEF Increment
<1>3. stack # <<>> /\ Top.do # "host"
  BY <1>2 DEF Running
<1>4. Read(heap, op) \in Value
  BY <1>3, ReadIs DEF Readable
<1>5. PICK x \in Number : x = 1 - Read(heap, op).val
  <2>1. Read(heap, op).val \in {0, 1}
    BY <1>1, <1>4 DEF Value, Number
  <2>2. 1 - Read(heap, op).val \in Number
    BY <2>1 DEF Number
  <2>3. QED
    BY <2>2
<1>6. heap' = Write(heap, op, Integer(x))
  BY <1>1, <1>5
<1>7. QED
  BY <1>2, <1>6, IntegerWritten

(* What is stored to does not own what is stored. *)
LEMMA ApartTree ==
    ASSUME IInv, stack # <<>>, Top.do # "host", NEW op \in Operands,
           NEW i \in 1..Len(stack), stack[i].do # "run"
    PROVE  Tree(heap, Held(stack[i])) \cap Gone(heap, op) = {}
<1>1. CASE op.flag = "field"
  BY <1>1 DEF Gone
<1>2. CASE op.flag # "field"
  <2> DEFINE S == Held(stack[i])
             T == Tree(heap, S)
             B == Gone(heap, op)
  <2>1. S \in SUBSET Holders /\ HeapOK(heap, Holders) /\ Whole(heap) /\ S \in SUBSET Nat
    BY HeldFacts, HeapFacts
  <2>2. op.cell[1] \notin T /\ Place(op)
    BY <1>2, OperandApart, OperandIs
  <2>3. B = Beneath(heap, op.cell[1], op.cell[2])
    BY <1>2 DEF Gone
  <2>4. /\ B \cap Holders = {}
        /\ \A a, j, c : Points(heap, a, j, c) =>
             (c \in B <=> a \in B \/ (a = op.cell[1] /\ j = op.cell[2]))
    BY <2>1, <2>2, <2>3, BelowIs DEF Place
  <2> DEFINE C == T \ B
  <2> HIDE DEF B, S
  <2>5. S \subseteq T /\ \A a, j, b : a \in T /\ Points(heap, a, j, b) => b \in T
    BY <2>1, TreeIs
  <2>6. S \subseteq C
    BY <2>1, <2>4, <2>5
  <2>7. \A a, j, b : a \in C /\ Points(heap, a, j, b) => b \in C
    BY <2>2, <2>4, <2>5
  <2> HIDE DEF C
  <2>8. T \subseteq C
    BY <2>1, <2>6, <2>7, TreeIs
  <2>9. QED
    BY <2>8 DEF C, B, S
<1>3. QED
  BY <1>1, <1>2

(* The data that has been evaluated to a local variable. *)
LEMMA OwnData ==
    ASSUME IInv, stack # <<>>, Top.do \in {"store", "convert"},
           NEW k, k = Len(stack) - 1, NEW b, b = Top.own
    PROVE  /\ k + 1 \in 1..Len(stack) /\ Top = stack[k + 1] /\ Held(stack[k + 1]) = {b}
           /\ b \in Holders /\ b \in DOMAIN heap /\ 1 \in DOMAIN heap[b].cells
           /\ b \notin Beneath(heap, b, 1)
           /\ heap[b].cells[1] \in Value /\ Owns(heap[b].cells[1]) \subseteq DOMAIN heap
           /\ Source(heap, heap[b].cells[1]) /\ ~Borrows(heap[b].cells[1])
<1>1. /\ k + 1 \in 1..Len(stack) /\ Top = stack[k + 1] /\ stack[k + 1] \in Entry
      /\ DOMAIN stack = 1..Len(stack) /\ HeapOK(heap, Holders)
  BY TopIs, HeldFacts, StackFacts
<1>2. Held(stack[k + 1]) = {b}
  BY <1>1, HeldIs
<1>3. b \in Holders /\ b \in DOMAIN heap
  BY <1>1, <1>2, HeldFacts
<1>4. 1 \in DOMAIN heap[b].cells
  BY <1>1, <1>2 DEF IInv, Sizes, Sized
<1>5. b \notin Beneath(heap, b, 1) /\ Owns(heap[b].cells[1]) \subseteq DOMAIN heap
  BY <1>1, <1>3, <1>4, BelowIs
<1>6. Source(heap, heap[b].cells[1]) /\ heap[b].cells[1] \in Value
  BY <1>1, <1>3, <1>4, <1>5, SourceCell, HeapFacts
<1>7. heap[b].cells[1].type # "reference"
  BY <1>3, <1>4 DEF IInv, BorrowedCells, ARG
<1>8. heap[b].cells[1].type # "field"
  BY <1>1, <1>2, <1>3, <1>4 DEF IInv, BorrowedBytes
<1>9. QED
  BY <1>1, <1>2, <1>3, <1>4, <1>5, <1>6, <1>7, <1>8 DEF Borrows

Releases(h) == heap' = Without(h, Tree(heap, {Top.own}))

(* The innermost function has stored its data and cleans it. *)
LEMMA ReleasedOK ==
    ASSUME IInv, lang' = lang, names' = names, stack # <<>>, stack' = Pop,
           Top.do \in {"store", "convert"}, NEW k, k = Len(stack) - 1,
           NEW h, HeapOK(h, Holders), NEW W, NEW D, NEW L, Alters(heap, h, W, D, L),
           D \cap Holders = {}, Spared(k, W, D), BuffersKept(W),
           Clear(Tree(heap, {Top.own}), W, D), Releases(h)
    PROVE  IInv'
<1>1. PICK b, T : b = Top.own /\ T = Tree(heap, {b})
  OBVIOUS
<1>2. k + 1 \in 1..Len(stack) /\ Held(stack[k + 1]) = {b} /\ b \in Holders
  BY <1>1, OwnData
<1>3. /\ k \in 0..Len(stack) /\ k \in Nat /\ DOMAIN stack = 1..Len(stack) /\ Len(stack) \in Nat
      /\ HeapOK(heap, Holders)
  BY TopIs, HeldFacts, StackFacts
<1>4. {b} \in SUBSET Holders
  BY <1>2
<1>5. T \cap Holders = {b}
  <2>1. PICK S : S = {b}
    OBVIOUS
  <2>2. S \in SUBSET Holders
    BY <1>4, <2>1
  <2>3. Tree(heap, S) \cap Holders = S
    BY <1>3, <2>2, FreeOK
  <2>4. QED
    BY <1>1, <2>1, <2>3
<1>6. Tree(h, {b}) = T
  <2>1. PICK S : S = {b}
    OBVIOUS
  <2>2. S \in SUBSET Holders /\ Clear(Tree(heap, S), W, D)
    BY <1>1, <1>4, <2>1
  <2>3. SameTree(h, S)
    BY <1>3, <2>2, TreeSame
  <2>4. QED
    BY <1>1, <2>1, <2>3 DEF SameTree
<1>7. heap' = Without(h, Tree(h, {b}))
  BY <1>1, <1>6 DEF Releases
<1> Freed(h, Holders, heap', {b})
  BY <1>4, <1>7, FreedIs
<1>8. HeapOK(heap', Holders \ {b}) /\ Alters(h, heap', {}, T, {})
  BY <1>6 DEF Freed
<1>9. Alters(heap, heap', W \cup {}, D \cup T, L \cup {})
  BY <1>8, AltersOnwards
<1>10. Spared(k, W \cup {}, D \cup T)
  <2>1. \A i \in 1..k : Held(stack[i]) \cap {b} = {}
    <3>1. \A i \in 1..k : i \in 1..Len(stack) /\ i # k + 1
      BY <1>3
    <3>2. QED
      BY <1>2, <1>3, <3>1 DEF IInv, HeldOnce
  <2>2. Spared(k, {}, Tree(heap, {b}))
    BY <1>3, <1>4, <2>1, SpareTree
  <2>3. Spared(k, {}, T)
    BY <1>1, <2>2
  <2>4. QED
    BY <2>3, SparedBoth
<1>11. \A n \in DOMAIN names : names[n].at \notin D \cup T
  <2>1. \A n \in DOMAIN names : names[n].at # b
    BY <1>2, <1>3 DEF IInv, HeldOnce
  <2>2. QED
    BY <1>5, <2>1, HeldFacts
<1>12. Holders \subseteq (Holders \ {b}) \cup (D \cup T)
  BY <1>5
<1>13. BuffersKept(W \cup {}) /\ Top.do \notin {"run", "args"}
  BY DEF BuffersKept
<1>14. QED
  BY <1>8, <1>9, <1>10, <1>11, <1>12, <1>13, Popped

(* The end of a Store keeps the invariant. *)
LEMMA EndStoreOK ==
    ASSUME IInv, EndStore
    PROVE  IInv'
<1>1. PICK k, b, v : k = Len(stack) - 1 /\ b = Top.own /\ v = At(heap, <<b, 1>>)
  OBVIOUS
<1>2. PICK op \in Operands : heap' = Without(Write(heap, op, v), Tree(heap, {b}))
  BY <1>1 DEF EndStore
<1>3. stack # <<>> /\ Top.do = "store" /\ lang' = lang /\ names' = names /\ stack' = Pop
  BY DEF EndStore
<1>4. /\ k + 1 \in 1..Len(stack) /\ Top = stack[k + 1] /\ Held(stack[k + 1]) = {b}
      /\ b \in Holders /\ b \in DOMAIN heap /\ 1 \in DOMAIN heap[b].cells
      /\ Source(heap, heap[b].cells[1]) /\ ~Borrows(heap[b].cells[1])
  BY <1>1, <1>3, OwnData
<1>5. v = heap[b].cells[1]
  BY <1>1 DEF At
<1>6. HeapOK(heap, Holders) /\ IsFiniteSet(DOMAIN heap) /\ Plain(heap) /\ k \in 0..Len(stack)
  BY <1>1, <1>3, HeldFacts, PlainHeap, TopIs
<1>7. /\ Writable(heap, op) /\ Spared(k, {}, Gone(heap, op)) /\ Gone(heap, op) \cap Holders = {}
      /\ Spared(k, Touched(heap, op), {}) /\ BuffersKept(Touched(heap, op))
  BY <1>3, <1>6, SpareWrite, SpareTouched
<1>8. Tree(heap, {b}) \cap Gone(heap, op) = {}
  BY <1>3, <1>4, ApartTree
<1>9. op.flag # "field" => op.cell[1] \notin Tree(heap, {b})
  BY <1>3, <1>4, OperandApart
<1>10. {b} \in SUBSET Holders
  BY <1>4
<1>11. b \in Tree(heap, {b})
  <2>1. {b} \subseteq Tree(heap, {b})
    BY <1>6, <1>10, FreeOK
  <2>2. QED
    BY <2>1
<1>12. Storable(heap, op, v)
  <2>1. ASSUME op.flag # "field" PROVE Owns(v) \cap Beneath(heap, op.cell[1], op.cell[2]) = {}
    <3>1. SUFFICES ASSUME NEW x \in Owns(v), x \in Beneath(heap, op.cell[1], op.cell[2]) PROVE FALSE
      OBVIOUS
    <3>2. Points(heap, b, 1, x)
      BY <1>4, <1>5, <3>1 DEF Points
    <3>3. Place(op)
      BY <1>3, <2>1, OperandIs
    <3>4. b \in Beneath(heap, op.cell[1], op.cell[2]) \/ b = op.cell[1]
      BY <1>6, <3>1, <3>2, <3>3, BelowIs DEF Place
    <3>5. Beneath(heap, op.cell[1], op.cell[2]) = Gone(heap, op)
      BY <2>1 DEF Gone
    <3>6. QED
      BY <1>4, <1>7, <1>9, <1>11, <2>1, <3>4, <3>5
  <2>2. QED
    BY <1>4, <1>5, <2>1 DEF Storable
<1> DEFINE W == {} \cup Touched(heap, op)
           D == {} \cup Gone(heap, op)
           L == {} \cup Leaked(heap, op)
<1>13. PICK h : h = Write(heap, op, v)
  OBVIOUS
<1>14. HeapOK(h, Holders) /\ Alters(heap, h, W, D, L)
  <2>1. Alters(heap, heap, {}, {}, {})
    BY AltersNone
  <2>2. HeapOK(Write(heap, op, v), Holders) /\ Alters(heap, Write(heap, op, v), W, D, L)
    BY <1>6, <1>7, <1>12, <2>1, WriteIs
  <2> HIDE DEF W, D, L
  <2>3. QED
    BY <1>13, <2>2
<1>15. Spared(k, W, D)
  <2>1. Spared(k, Touched(heap, op) \cup {}, {} \cup Gone(heap, op))
    BY <1>7, SparedBoth
  <2>2. Touched(heap, op) \cup {} = W
    OBVIOUS
  <2>3. QED
    BY <2>1, <2>2
<1>16. BuffersKept(W) /\ D \cap Holders = {} /\ Tree(heap, {Top.own}) \cap D = {}
  <2>1. W = Touched(heap, op) /\ D = Gone(heap, op)
    OBVIOUS
  <2> HIDE DEF W, D
  <2>2. QED
    BY <1>1, <1>7, <1>8, <2>1
<1>17. \A a \in Tree(heap, {Top.own}) : \A i : <<a, i>> \notin W
  <2>1. SUFFICES ASSUME NEW a \in Tree(heap, {b}), NEW i, <<a, i>> \in Touched(heap, op) PROVE FALSE
    BY <1>1
  <2>2. op.flag # "field" /\ op.cell = <<a, i>>
    BY <2>1 DEF Touched
  <2>3. QED
    BY <1>9, <2>1, <2>2
<1>18. heap' = Without(h, Tree(heap, {Top.own}))
  BY <1>1, <1>2, <1>13
<1> HIDE DEF W, D, L
<1>21. Releases(h) /\ Clear(Tree(heap, {Top.own}), W, D)
  BY <1>16, <1>17, <1>18 DEF Releases, Clear
<1>19. Top.do \in {"store", "convert"}
  BY <1>3
<1>20. QED
  BY <1>1, <1>3, <1>14, <1>15, <1>16, <1>19, <1>21, ReleasedOK

(* What has been made for a place that waits may be stored as well. *)
LEMMA MadeStorable ==
    ASSUME IInv, stack # <<>>, Top.do = "convert", NEW op \in Operands,
           NEW k, k = Len(stack) - 1, NEW b, NEW j, <<b, j>> = Top.dest,
           NEW g, HeapOK(g, Holders), NEW L, Alters(heap, g, {<<b, j>>}, {}, L),
           NEW type \in {"string", "buffer"}, Made(heap, g, b, j, type)
    PROVE  /\ Writable(g, op) /\ Storable(g, op, At(g, <<b, j>>))
           /\ Gone(g, op) \cap DOMAIN heap \subseteq Gone(heap, op)
           /\ op.flag # "field" => At(g, op.cell) = At(heap, op.cell)
<1>1. /\ k \in 1..Len(stack) /\ k \in 0..Len(stack) /\ Wants(stack[k]) /\ <<b, j>> = Slot(k)
      /\ b \in DOMAIN heap /\ j \in DOMAIN heap[b].cells
  <2>1. k \in 0..Len(stack)
    BY TopIs
  <2>2. /\ k \in 1..Len(stack) /\ Wants(stack[k]) /\ Top.dest = Slot(k)
        /\ Top.dest[1] \in DOMAIN heap /\ Top.dest[2] \in DOMAIN heap[Top.dest[1]].cells
    BY EvalIs
  <2>3. Top.dest[1] = b /\ Top.dest[2] = j
    OBVIOUS
  <2>4. QED
    BY <2>1, <2>2, <2>3
<1>2. HeapOK(heap, Holders)
  BY HeldFacts
<1> DEFINE n == New(heap)
           v == At(g, <<b, j>>)
<1>3. /\ DOMAIN g = DOMAIN heap \cup {n} /\ v = Owner(type, n) /\ DOMAIN g[n].cells = {}
      /\ n \notin DOMAIN heap /\ n \in Nat
  BY DEF Made
<1> HIDE DEF n
<1>4. b \in DOMAIN g /\ DOMAIN g[b].cells = DOMAIN heap[b].cells /\ g[b].cells[j] = v /\ b # n
  BY <1>1, <1>3 DEF Alters, At
<1> HIDE DEF v
<1>5. Owns(v) = {n} /\ v.type = type
  BY <1>3, OwnsIs DEF Owner
<1>6. \A a, i, c : Points(g, a, i, c) => a # n
  BY <1>3 DEF Points
<1>7. b \notin Beneath(g, b, j)
  <2>1. Owns(g[b].cells[j]) \subseteq {n} /\ \A a, i, c : a \in {n} /\ Points(g, a, i, c) => c \in {n}
    BY <1>4, <1>5, <1>6
  <2>2. Beneath(g, b, j) \subseteq {n}
    BY <1>1, <1>4, <2>1, BelowIs
  <2>3. QED
    BY <1>4, <2>2
<1>8. Source(g, v) /\ ~Borrows(v)
  <2>1. Source(g, g[b].cells[j])
    BY <1>1, <1>4, <1>7, SourceCell
  <2>2. QED
    BY <1>4, <1>5, <2>1 DEF Borrows
<1>9. CASE op.flag = "field"
  BY <1>8, <1>9 DEF v, Writable, Storable, Gone
<1>10. CASE op.flag # "field"
  <2>1. Place(op) /\ op.cell # <<b, j>>
    <3>1. Place(op)
      BY <1>10, OperandIs
    <3>2. QED
      BY <1>1, <3>1 DEF Place
  <2> DEFINE a == op.cell[1]
             i == op.cell[2]
  <2>2. /\ op.cell = <<a, i>> /\ a \in DOMAIN heap /\ i \in DOMAIN heap[a].cells
        /\ a \notin Beneath(heap, a, i) /\ op.flag \in {"data", "local", "arg"}
        /\ <<a, i>> # <<b, j>>
    BY <2>1 DEF Place
  <2> HIDE DEF a, i
  <2>3. a \in DOMAIN g /\ i \in DOMAIN g[a].cells /\ g[a].cells[i] = heap[a].cells[i]
    BY <2>2 DEF Alters
  <2>4. Beneath(g, a, i) \cap DOMAIN heap \subseteq Beneath(heap, a, i)
    BY <1>2, <2>2, <2>3, TreesOld
  <2>5. Writable(g, op) /\ Gone(g, op) = Beneath(g, a, i) /\ Gone(heap, op) = Beneath(heap, a, i)
    <3>1. a \notin Beneath(g, a, i)
      BY <2>2, <2>4
    <3>2. QED
      BY <1>10, <2>2, <2>3, <3>1 DEF a, i, Writable, Gone
  <2>6. n \notin Beneath(g, a, i)
    <3>1. Points(g, b, j, n)
      BY <1>1, <1>4, <1>5 DEF Points
    <3>2. n \in Beneath(g, a, i) <=> b \in Beneath(g, a, i) \/ (b = a /\ j = i)
      BY <2>3, <3>1, BelowIs
    <3>3. Spared(k, {}, Gone(heap, op))
      BY <1>1, SpareWrite
    <3>4. b \notin Beneath(heap, a, i)
      <4>1. Slot(k)[1] \notin Gone(heap, op)
        <5>1. k \in 1..k
          BY <1>1
        <5>2. QED
          BY <1>1, <3>3, <5>1, SlotOutside
      <4>2. QED
        BY <1>1, <2>5, <4>1
    <3>5. QED
      BY <1>1, <2>2, <2>4, <3>2, <3>4
  <2>7. Storable(g, op, v)
    BY <1>5, <1>8, <2>6 DEF a, i, Storable
  <2>8. At(g, op.cell) = At(heap, op.cell)
    BY <2>2, <2>3 DEF At
  <2>9. QED
    BY <2>4, <2>5, <2>7, <2>8 DEF v
<1>11. QED
  BY <1>9, <1>10

(* The end of a conversion keeps the invariant. *)
LEMMA EndConvertOK ==
    ASSUME IInv, EndConvert
    PROVE  IInv'
<1>1. PICK k, own, c, v, x, b, j, type :
        /\ k = Len(stack) - 1 /\ own = Top.own /\ c = Top.dest /\ v = At(heap, <<own, 1>>)
        /\ x = ToInteger(heap, v) /\ b = c[1] /\ j = c[2] /\ type = Top.type
  OBVIOUS
<1>2. PICK g : g = Make(heap, c, type, x)
  OBVIOUS
<1>3. PICK h \in {g} \cup {Write(g, op, At(g, c)) : op \in Operands} :
        heap' = Without(h, Tree(heap, {own}))
  BY <1>1, <1>2 DEF EndConvert
<1>4. stack # <<>> /\ Top.do = "convert" /\ lang' = lang /\ names' = names /\ stack' = Pop
  BY DEF EndConvert
<1>5. /\ k + 1 \in 1..Len(stack) /\ Top = stack[k + 1] /\ Held(stack[k + 1]) = {own}
      /\ own \in Holders /\ v \in Value /\ Owns(v) \subseteq DOMAIN heap
  BY <1>1, <1>4, OwnData DEF At
<1>6. HeapOK(heap, Holders) /\ IsFiniteSet(DOMAIN heap) /\ Plain(heap) /\ k \in 0..Len(stack)
      /\ Top \in Entry /\ k \in Nat /\ DOMAIN stack = 1..Len(stack) /\ Len(stack) = k + 1
  BY <1>1, <1>4, HeldFacts, PlainHeap, TopIs, StackFacts
<1>7. /\ k \in 1..Len(stack) /\ Wants(stack[k]) /\ c = Slot(k) /\ c = <<b, j>>
      /\ b \in DOMAIN heap /\ j \in DOMAIN heap[b].cells
      /\ Aside(k, c) /\ BuffersKept({c})
  BY <1>1, <1>4, EvalIs
<1>8. x \in Number /\ type \in {"string", "buffer"}
  BY <1>1, <1>4, <1>5, <1>6, IntegerOf, EntryIs
<1>9. PICK L : /\ HeapOK(g, Holders) /\ Alters(heap, g, {<<b, j>>}, {}, L)
               /\ Made(heap, g, b, j, type)
  <2>1. g = Make(heap, <<b, j>>, type, x)
    BY <1>2, <1>7
  <2> DEFINE m == Make(heap, <<b, j>>, type, x)
  <2>2. /\ HeapOK(m, Holders) /\ Alters(heap, m, {<<b, j>>}, {}, Owns(heap[b].cells[j]))
        /\ Made(heap, m, b, j, type)
    BY <1>6, <1>7, <1>8, MakeIs
  <2> HIDE DEF m
  <2>3. g = m
    BY <2>1 DEF m
  <2>4. QED
    BY <2>2, <2>3
<1>10. PICK T : T = Tree(heap, {own})
  OBVIOUS
<1>11. Spared(k, {}, T)
  <2>1. {own} \in SUBSET Holders
    BY <1>5
  <2>2. \A i \in 1..k : Held(stack[i]) \cap {own} = {}
    <3>1. \A i \in 1..k : i \in 1..Len(stack) /\ i # k + 1
      BY <1>6
    <3>2. QED
      BY <1>5, <1>6, <3>1 DEF IInv, HeldOnce
  <2>3. Spared(k, {}, Tree(heap, {own}))
    BY <1>6, <2>1, <2>2, SpareTree
  <2>4. QED
    BY <1>10, <2>3
<1>12. b \notin T
  <2>1. k \in 1..k
    BY <1>7
  <2>2. Slot(k)[1] \notin T
    BY <1>6, <1>7, <1>11, <2>1, SlotOutside
  <2>3. QED
    BY <1>7, <2>2
<1>13. Top.do \in {"store", "convert"} /\ Spared(k, {c}, {})
  BY <1>4, <1>6, <1>7, SparedNone
<1>14. Releases(h)
  BY <1>1, <1>3 DEF Releases
<1>15. CASE h = g
  <2>1. Clear(Tree(heap, {Top.own}), {c}, {})
    BY <1>1, <1>7, <1>10, <1>12 DEF Clear
  <2>2. Alters(heap, h, {c}, {}, L) /\ HeapOK(h, Holders) /\ {} \cap Holders = {}
    BY <1>7, <1>9, <1>15
  <2>3. QED
    BY <1>1, <1>4, <1>7, <1>13, <1>14, <2>1, <2>2, ReleasedOK
<1>16. CASE \E op \in Operands : h = Write(g, op, At(g, c))
  <2>1. PICK op \in Operands : h = Write(g, op, At(g, c))
    BY <1>16
  <2>2. PICK w : w = At(g, <<b, j>>)
    OBVIOUS
  <2>3. /\ Writable(g, op) /\ Storable(g, op, w)
        /\ Gone(g, op) \cap DOMAIN heap \subseteq Gone(heap, op)
        /\ op.flag # "field" => At(g, op.cell) = At(heap, op.cell)
    <3>1. <<b, j>> = Top.dest
      BY <1>1, <1>7
    <3>2. QED
      BY <1>1, <1>4, <1>8, <1>9, <2>2, <3>1, MadeStorable
  <2>4. Plain(g)
    BY <1>6, <1>9, PlainKept
  <2> DEFINE W == {<<b, j>>} \cup Touched(g, op)
             C == {} \cup Gone(g, op)
             K == L \cup Leaked(g, op)
             D == Gone(heap, op)
  <2>5. HeapOK(h, Holders) /\ Alters(heap, h, W, C, K)
    <3>1. HeapOK(Write(g, op, w), Holders) /\ Alters(heap, Write(g, op, w), W, C, K)
      BY <1>6, <1>9, <2>3, <2>4, WriteIs
    <3>2. h = Write(g, op, w)
      BY <1>7, <2>1, <2>2
    <3> HIDE DEF W, C, K
    <3>3. QED
      BY <3>1, <3>2
  <2>6. Alters(heap, h, W, D, K)
    <3>1. C \cap DOMAIN heap \subseteq D
      BY <2>3
    <3> HIDE DEF W, C, K, D
    <3>2. Alters(heap, h, W, C \cap DOMAIN heap, K)
      BY <2>5, AltersLess
    <3>3. W \subseteq W /\ K \subseteq K
      OBVIOUS
    <3>4. QED
      BY <3>1, <3>2, <3>3, AltersMore
  <2>7. /\ Spared(k, {}, D) /\ D \cap Holders = {}
        /\ Spared(k, Touched(g, op), {}) /\ BuffersKept(Touched(g, op))
    BY <1>4, <1>6, <2>3, SpareWrite, SpareTouched
  <2>8. Spared(k, W, D)
    <3>1. Spared(k, {c} \cup Touched(g, op), {} \cup {})
      BY <1>13, <2>7, SparedBoth
    <3>2. {c} \cup Touched(g, op) = W /\ {} \cup {} = {}
      BY <1>7
    <3> HIDE DEF W, D
    <3>3. Spared(k, W \cup {}, {} \cup D)
      BY <2>7, <3>1, <3>2, SparedBoth
    <3>4. W \cup {} = W /\ {} \cup D = D
      OBVIOUS
    <3>5. QED
      BY <3>3, <3>4
  <2>9. BuffersKept(W)
    BY <1>7, <2>7 DEF BuffersKept
  <2>10. Clear(Tree(heap, {Top.own}), W, D)
    <3>1. T \cap D = {}
      BY <1>4, <1>5, <1>10, ApartTree
    <3>2. \A a \in T : \A i : <<a, i>> \notin Touched(g, op)
      <4>1. SUFFICES ASSUME NEW a \in T, NEW i, <<a, i>> \in Touched(g, op) PROVE FALSE
        OBVIOUS
      <4>2. op.flag # "field" /\ op.cell = <<a, i>>
        BY <4>1 DEF Touched
      <4>3. op.cell[1] \notin T
        BY <1>4, <1>5, <1>10, <4>2, OperandApart
      <4>4. QED
        BY <4>1, <4>2, <4>3
    <3>3. QED
      BY <1>1, <1>10, <1>12, <3>1, <3>2 DEF Clear
  <2> HIDE DEF W, D, K
  <2>11. QED
    BY <1>1, <1>4, <1>13, <1>14, <2>5, <2>6, <2>7, <2>8, <2>9, <2>10, ReleasedOK
<1>17. QED
  BY <1>3, <1>15, <1>16

(* The frame f is new. *)
NewFrameIn(f) ==
    /\ f \in Nat /\ f \notin DOMAIN heap /\ f \in DOMAIN heap' /\ DOMAIN heap'[f].cells = 1..3
    /\ Owns(At(heap', <<f, ARG>>)) = {} /\ HeapOK(heap', Holders \cup {f})

(* A call of a method whose arguments are evaluated, or that has none. *)
Calls(k, f) ==
    \/ Len(stack') = k + 2 /\ stack'[k + 2] = Run(f)
    \/ /\ Len(stack') = k + 3 /\ stack'[k + 2] = [do |-> "args", frame |-> f]
       /\ stack'[k + 3] = Eval(<<f, ARG>>)

(* A step that calls a method, with a new frame for it, keeps the          *)
(* invariant.                                                              *)
LEMMA CallOK ==
    ASSUME IInv, lang' = lang, names' = names, NEW k, k # 0, Kept(k), RunsStay(k), FramesGo(k),
           ~Building(k), Stands(k), stack'[k + 1].do = "call", NEW f, NewFrameIn(f), Calls(k, f),
           NEW W, NEW L, Alters(heap, heap', W, {}, L), Spared(k, W, {}), BuffersKept(W)
    PROVE  IInv'
<1>1. k \in Nat
  BY DEF Kept
<1>2. Held(stack'[k + 1]) = {}
  BY DEF Held
<1>3. Fits(k, stack'[k + 1])
  BY <1>2 DEF Fits, Sized, Blank
<1>4. /\ Held(Run(f)) = {f} /\ Run(f).do = "run"
      /\ Held([do |-> "args", frame |-> f]) = {f}
      /\ Held(Eval(<<f, ARG>>)) = {} /\ Eval(<<f, ARG>>).do = "eval" /\ Eval(<<f, ARG>>).dest = <<f, ARG>>
  BY DEF Held, Run, Eval
<1>5. Fits(k, Run(f)) /\ Fits(k, [do |-> "args", frame |-> f])
  BY <1>4 DEF NewFrameIn, Fits, Loose, Sized, Blank
<1>6. Fits(k, Eval(<<f, ARG>>))
  BY <1>4 DEF Fits, Sized, Blank
<1>7. k + 1 + 1 = k + 2 /\ k + 2 + 1 = k + 3
  BY <1>1
<1>8. CASE Len(stack') = k + 2 /\ stack'[k + 2] = Run(f)
  <2>1. Stands(k + 1)
    BY <1>4, <1>7, <1>8 DEF Stands, Above, Wants
  <2>2. Held(stack'[k + 1]) \cap Held(stack'[k + 2]) = {}
    BY <1>2
  <2>3. Tops(k) /\ Joined(k)
    BY <1>3, <1>5, <1>8, <2>1, <2>2, PushTwo
  <2>4. \A i \in (k + 1)..Len(stack') : Held(stack'[i]) \subseteq Holders \cup {f}
    <3>1. \A i \in (k + 1)..Len(stack') : i = k + 1 \/ i = k + 2
      BY <1>1, <1>8
    <3>2. QED
      BY <1>2, <1>4, <1>8, <3>1
  <2>5. Holders \subseteq (Holders \cup {f}) \cup {} /\ HeapOK(heap', Holders \cup {f})
        /\ \A m \in DOMAIN names : names[m].at \notin {}
    BY DEF NewFrameIn
  <2>6. QED
    BY <2>3, <2>4, <2>5, Pushed
<1>9. CASE /\ Len(stack') = k + 3 /\ stack'[k + 2] = [do |-> "args", frame |-> f]
           /\ stack'[k + 3] = Eval(<<f, ARG>>)
  <2>1. stack'[k + 2].do = "args" /\ stack'[k + 2].frame = f
    BY <1>9
  <2>2. Stands(k + 1)
    BY <1>7, <2>1 DEF Stands, Above, Wants
  <2>3. Stands(k + 2)
    <3>1. SlotOf(stack', k + 2) = <<f, ARG>>
      BY <2>1 DEF SlotOf
    <3>2. Dest(heap', stack', k + 2)
      BY <1>4, <1>7, <1>9, <2>1, <3>1 DEF Dest, NewFrameIn
    <3>3. QED
      BY <1>4, <1>7, <1>9, <2>1, <3>2 DEF Stands, Above, Gives
  <2>4. Held(stack'[k + 3]) = {} /\ stack'[k + 3].do = "eval"
    BY <1>4, <1>9
  <2>5. Fits(k, stack'[k + 2]) /\ Fits(k, stack'[k + 3])
    BY <1>5, <1>6, <1>9
  <2>6. Tops(k) /\ Joined(k)
    BY <1>2, <1>3, <1>9, <2>1, <2>2, <2>3, <2>4, <2>5, PushThree
  <2>7. \A i \in (k + 1)..Len(stack') : Held(stack'[i]) \subseteq Holders \cup {f}
    <3>1. \A i \in (k + 1)..Len(stack') : i = k + 1 \/ i = k + 2 \/ i = k + 3
      BY <1>1, <1>9
    <3>2. QED
      BY <1>2, <1>4, <1>9, <3>1
  <2>8. Holders \subseteq (Holders \cup {f}) \cup {} /\ HeapOK(heap', Holders \cup {f})
        /\ \A m \in DOMAIN names : names[m].at \notin {}
    BY DEF NewFrameIn
  <2>9. QED
    BY <2>6, <2>7, <2>8, Pushed
<1>10. QED
  BY <1>8, <1>9 DEF Calls

(* The number of the next block depends on the heap's domain only. *)
LEMMA NewSame ==
    ASSUME NEW h, DOMAIN h = DOMAIN heap
    PROVE  New(h) = New(heap)
BY DEF New, Free, Used

(* The frame f of a call is in g, and cells are as they are in h. *)
Framed(h, g, f) ==
    /\ f \in Nat /\ f \notin DOMAIN heap /\ f \in DOMAIN g /\ DOMAIN g[f].cells = 1..3
    /\ Owns(At(g, <<f, ARG>>)) = {} /\ HeapOK(g, Holders \cup {f})
    /\ \A c : c[1] \in DOMAIN heap /\ c[2] \in DOMAIN heap[c[1]].cells => At(g, c) = At(h, c)

(* The frame of a call, after a cell may have become an integer. *)
LEMMA CallFrame ==
    ASSUME IInv, NEW h, HeapOK(h, Holders), DOMAIN h = DOMAIN heap, NEW W, NEW L,
           Alters(heap, h, W, {}, L), NEW f, f = New(heap), NEW g, g = NewFrame(h, f)
    PROVE  Framed(h, g, f) /\ Alters(heap, g, W, {}, L \cup {f})
<1>1. IsFiniteSet(DOMAIN heap) /\ f = New(h)
  BY HeldFacts, NewSame
<1>2. /\ HeapOK(g, Holders \cup {f}) /\ Alters(h, g, {}, {}, {f})
      /\ f \in Nat /\ f \notin DOMAIN heap /\ f \in DOMAIN g /\ DOMAIN g[f].cells = 1..3
  BY <1>1, NewFrameIs
<1>3. Owns(At(g, <<f, ARG>>)) = {}
  <2>1. g[f] = Array(<<Null, Null, Null>>)
    BY DEF NewFrame, With
  <2>2. At(g, <<f, ARG>>) = Null
    BY <2>1 DEF Array, At, ARG
  <2>3. QED
    BY <2>2, OwnsIs DEF Null
<1>4. Alters(heap, g, W \cup {}, {} \cup {}, L \cup {f})
  BY <1>2, AltersOnwards
<1>5. W \cup {} = W /\ {} \cup {} = {}
  OBVIOUS
<1>6. ASSUME NEW c, c[1] \in DOMAIN heap, c[2] \in DOMAIN heap[c[1]].cells PROVE At(g, c) = At(h, c)
  BY <1>2, <1>6 DEF NewFrame, With, At
<1>7. QED
  BY <1>2, <1>3, <1>4, <1>5, <1>6 DEF Framed

(* The stack of a call. *)
LEMMA CallStack ==
    ASSUME NEW k \in Nat, NEW s \in Seq(Entry), Len(s) = k, \A i \in 1..k : s[i] = stack[i],
           k \in 0..Len(stack), NEW d \in Entry, NEW f \in Nat,
           stack' \in {Append(Append(s, d), Run(f)),
                       Append(s, d) \o <<[do |-> "args", frame |-> f], Eval(<<f, ARG>>)>>}
    PROVE  Kept(k) /\ stack'[k + 1] = d /\ Calls(k, f) /\ k + 1 =< Len(stack')
<1> DEFINE e == [do |-> "args", frame |-> f]
<1>1. Run(f) \in Entry /\ e \in Entry /\ Eval(<<f, ARG>>) \in Entry
  BY EntryMade DEF ARG
<1>2. PICK t : t = Append(s, d)
  OBVIOUS
<1>3. t \in Seq(Entry) /\ Len(t) = k + 1 /\ t[k + 1] = d /\ \A i \in 1..k : t[i] = stack[i]
  BY <1>2, AppendIs
<1>4. 1..k \subseteq 1..Len(t) /\ k + 1 \in 1..Len(t) /\ Len(t) + 1 = k + 2 /\ Len(t) + 2 = k + 3
  BY <1>3
<1> HIDE DEF e
<1>5. CASE stack' = Append(t, Run(f))
  <2>1. /\ Append(t, Run(f)) \in Seq(Entry) /\ Len(Append(t, Run(f))) = Len(t) + 1
        /\ \A i \in 1..Len(t) : Append(t, Run(f))[i] = t[i]
        /\ Append(t, Run(f))[Len(t) + 1] = Run(f)
    BY <1>1, <1>3, AppendIs
  <2>2. stack' \in Seq(Entry) /\ Len(stack') = k + 2 /\ stack'[k + 2] = Run(f)
        /\ stack'[k + 1] = d /\ \A i \in 1..k : stack'[i] = stack[i]
    BY <1>3, <1>4, <1>5, <2>1
  <2>3. QED
    BY <2>2 DEF Kept, Calls
<1>6. CASE stack' = t \o <<e, Eval(<<f, ARG>>)>>
  <2>1. PICK u : u = t \o <<e, Eval(<<f, ARG>>)>>
    OBVIOUS
  <2>2. /\ u \in Seq(Entry) /\ Len(u) = Len(t) + 2 /\ \A i \in 1..Len(t) : u[i] = t[i]
        /\ u[Len(t) + 1] = e /\ u[Len(t) + 2] = Eval(<<f, ARG>>)
    BY <1>1, <1>3, <2>1, AppendTwoIs
  <2>3. stack' \in Seq(Entry) /\ Len(stack') = k + 3 /\ stack'[k + 2] = e
        /\ stack'[k + 3] = Eval(<<f, ARG>>)
        /\ stack'[k + 1] = d /\ \A i \in 1..k : stack'[i] = stack[i]
    BY <1>3, <1>4, <1>6, <2>1, <2>2
  <2>4. QED
    BY <2>3 DEF Kept, Calls, e
<1>7. QED
  BY <1>2, <1>5, <1>6 DEF e

(* A part of what is returned is evaluated by the frame that runs. *)
LEMMA BuildingIs ==
    ASSUME IInv, stack # <<>>, Top.do = "eval", NEW k, k = Len(stack) - 1, Building(k)
    PROVE  Computed
<1>1. /\ k \in Nat /\ Len(stack) = k + 1 /\ StackOK /\ DOMAIN stack = 1..Len(stack)
      /\ \A i \in 1..Len(stack) : stack[i] \in Entry
  BY TopIs, HeldFacts, StackFacts
<1>2. PICK i \in 1..(k - 1) : stack[i].do = "return" /\ stack[i + 1].do \in {"elements", "convert"}
  BY DEF Building
<1>3. /\ i \in 2..Len(stack) /\ i \in 1..(Len(stack) - 1) /\ i - 1 \in 1..Len(stack)
      /\ stack[i - 1].do = "run"
  <2>1. i \in 2..Len(stack)
    BY <1>1, <1>2, StackFacts DEF Wants
  <2>2. Above(stack[i - 1], stack[i]) /\ i - 1 \in 1..Len(stack)
    BY <1>1, <2>1, StackFacts
  <2>3. QED
    BY <1>1, <1>2, <2>1, <2>2, AboveIs
<1>4. \A j \in (i + 1)..Len(stack) : stack[j].do \in {"eval", "elements", "convert"}
  BY <1>2, <1>3 DEF IInv, Returning
<1>5. Base = i - 1
  <2>1. Base \in 1..Len(stack) /\ stack[Base].do = "run" /\ i - 1 =< Base
    BY <1>1, <1>3, BaseIs
  <2>2. Base \notin (i + 1)..Len(stack)
    BY <1>4, <2>1
  <2>3. Base # i
    BY <1>2, <2>1
  <2>4. QED
    BY <1>1, <1>2, <2>1, <2>2, <2>3
<1>6. Base < Len(stack) /\ Base + 1 = i /\ Base + 2 = i + 1
  BY <1>1, <1>2, <1>5
<1>7. QED
  BY <1>2, <1>6 DEF Computed

(* What is returned goes to the frame that runs. *)
LEMMA ReturnedIs ==
    ASSUME IInv, stack # <<>>, Top.do = "eval", NEW k, k = Len(stack) - 1, k # 0,
           stack[k].do = "return"
    PROVE  Top.dest = Retv
<1>1. /\ k \in Nat /\ Len(stack) = k + 1 /\ StackOK /\ DOMAIN stack = 1..Len(stack)
      /\ \A i \in 1..Len(stack) : stack[i] \in Entry /\ Top = stack[k + 1]
  BY TopIs, HeldFacts, StackFacts
<1>2. k \in 1..Len(stack) /\ Wants(stack[k]) /\ Top.dest = Slot(k)
  BY <1>1, EvalIs
<1>3. Slot(k) = <<stack[k - 1].frame, RETV>> /\ stack[k - 1].do = "run" /\ k - 1 \in 1..Len(stack)
  BY <1>1, <1>2, SlotIs
<1>4. Base \in 1..Len(stack) /\ stack[Base].do = "run" /\ k - 1 =< Base /\ Frame = stack[Base].frame
  BY <1>1, <1>3, BaseIs
<1>5. Base # k /\ Base # k + 1
  BY <1>1, <1>4
<1>6. Base = k - 1
  BY <1>1, <1>4, <1>5
<1>7. QED
  BY <1>2, <1>3, <1>4, <1>6 DEF Retv

(* A call that is a statement keeps the invariant. *)
LEMMA CallStatementOK ==
    ASSUME IInv, BeginCall("statement")
    PROVE  IInv'
<1>1. PICK k, f : k = Len(stack) /\ f = New(heap)
  OBVIOUS
<1> DEFINE d == [do |-> "call", as |-> "statement"]
<1>2. /\ Running /\ lang' = lang /\ names' = names
      /\ stack' \in {Append(Append(stack, d), Run(f)),
                     Append(stack, d) \o <<[do |-> "args", frame |-> f], Eval(<<f, ARG>>)>>}
  BY <1>1 DEF BeginCall, MayCall
<1>3. PICK g : g = NewFrame(heap, f)
  OBVIOUS
<1>4. heap' = g
  BY <1>1, <1>3 DEF BeginCall
<1>5. /\ k \in 1..Len(stack) /\ k \in Nat /\ k # 0 /\ stack[k].do = "run"
      /\ ~Building(k) /\ RunsStay(k) /\ FramesGo(k) /\ stack \in Seq(Entry) /\ k \in 0..Len(stack)
  BY <1>1, <1>2, RunningIs
<1>6. /\ f \in Nat /\ f \notin DOMAIN heap /\ f \in DOMAIN g /\ DOMAIN g[f].cells = 1..3
      /\ Owns(At(g, <<f, ARG>>)) = {} /\ HeapOK(g, Holders \cup {f})
      /\ Alters(heap, g, {}, {}, {} \cup {f})
  BY <1>1, <1>3, HeldFacts, AltersNone, CallFrame DEF Framed
<1>7. NewFrameIn(f) /\ Alters(heap, heap', {}, {}, {} \cup {f})
  BY <1>4, <1>6 DEF NewFrameIn
<1>8. d \in Entry /\ d.do = "call" /\ d.as = "statement"
  BY EntryMade
<1> HIDE DEF d
<1>9. Kept(k) /\ stack'[k + 1] = d /\ Calls(k, f)
  BY <1>1, <1>2, <1>5, <1>6, <1>8, CallStack
<1>10. Stands(k)
  <2>1. stack'[k] = stack[k]
    BY <1>5, <1>9 DEF Kept
  <2>2. QED
    BY <1>5, <1>8, <1>9, <2>1 DEF Stands, Above, Wants, Gives
<1>11. Spared(k, {}, {}) /\ BuffersKept({})
  BY <1>5, SparedNone DEF BuffersKept
<1>12. lang' = lang /\ names' = names /\ stack'[k + 1].do = "call"
  BY <1>2, <1>8, <1>9
<1>13. QED
  BY <1>5, <1>7, <1>9, <1>10, <1>11, <1>12, CallOK

(* A call for data: the frame is new, and the data's place is as it was or *)
(* an integer. *)
LEMMA CallForDataOK ==
    ASSUME IInv, ~Has("computed"), NEW as \in {"data", "integer"}, BeginCall(as)
    PROVE  IInv'
<1>1. PICK k, f, b, j, c : k = Len(stack) - 1 /\ f = New(heap) /\ c = Top.dest /\ b = c[1] /\ j = c[2]
  OBVIOUS
<1> DEFINE d == [do |-> "call", as |-> as, dest |-> c]
<1>2. /\ stack # <<>> /\ Top.do = "eval" /\ lang' = lang /\ names' = names
      /\ stack' \in {Append(Append(Pop, d), Run(f)),
                     Append(Pop, d) \o <<[do |-> "args", frame |-> f], Eval(<<f, ARG>>)>>}
      /\ ~Computed /\ (as = "integer" => Top.dest # Retv)
  BY <1>1 DEF BeginCall, MayCall, Evaluating
<1>3. PICK h, g : /\ h = IF as = "integer" THEN Put(heap, c, Integer(0)) ELSE heap
                  /\ g = NewFrame(h, f)
  OBVIOUS
<1>4. heap' = g
  BY <1>1, <1>3 DEF BeginCall
<1>5. /\ k \in 1..Len(stack) /\ k # 0 /\ Wants(stack[k]) /\ c = Slot(k) /\ c = <<b, j>> /\ c \in Nat \X Nat
      /\ b \in DOMAIN heap /\ j \in DOMAIN heap[b].cells /\ Owns(heap[b].cells[j]) = {}
      /\ Aside(k, c) /\ BuffersKept({c}) /\ RunsStay(k) /\ FramesGo(k)
  <2>1. Top.do \in {"eval", "convert"} /\ stack # <<>> /\ k = Len(stack) - 1
    BY <1>1, <1>2
  <2>2. /\ k \in 1..Len(stack) /\ Wants(stack[k]) /\ Top.dest = Slot(k)
        /\ Top.dest = <<Top.dest[1], Top.dest[2]>> /\ Top.dest \in Nat \X Nat
        /\ Top.dest[1] \in DOMAIN heap /\ Top.dest[2] \in DOMAIN heap[Top.dest[1]].cells
        /\ Owns(heap[Top.dest[1]].cells[Top.dest[2]]) = {}
        /\ Aside(k, Top.dest) /\ BuffersKept({Top.dest})
        /\ RunsStay(k) /\ FramesGo(k)
    BY <2>1, EvalIs
  <2>3. c = Top.dest /\ b = Top.dest[1] /\ j = Top.dest[2]
    BY <1>1
  <2>4. k # 0
    BY <2>2
  <2>5. QED
    BY <2>2, <2>3, <2>4
<1>6. /\ k \in 0..Len(stack) /\ k \in Nat /\ Len(Pop) = k /\ Pop \in Seq(Entry)
      /\ \A i \in 1..k : Pop[i] = stack[i]
  BY <1>1, <1>2, TopIs
<1>7. HeapOK(heap, Holders) /\ IsBlock(heap[b])
  BY <1>5, HeldFacts DEF HeapOK
<1>8. PICK L : HeapOK(h, Holders) /\ DOMAIN h = DOMAIN heap /\ Alters(heap, h, {c}, {}, L)
               /\ (as = "integer" => At(h, c).type = "integer")
               /\ (as # "integer" => At(h, c) = heap[b].cells[j])
  <2>1. CASE as = "integer"
    <3>1. 0 \in Number
      BY DEF Number
    <3>2. PICK v : v = Integer(0)
      OBVIOUS
    <3>3. v \in Value /\ Owns(v) = {} /\ ~Borrows(v) /\ v.type = "integer"
      BY <3>1, <3>2, IntegerValue
    <3>4. h = Put(heap, <<b, j>>, v)
      BY <1>3, <1>5, <2>1, <3>2
    <3> DEFINE m == Put(heap, <<b, j>>, v)
    <3>5. HeapOK(m, Holders) /\ Alters(heap, m, {<<b, j>>}, {}, Owns(heap[b].cells[j]))
      BY <1>5, <1>7, <3>3, PutAlters
    <3>6. DOMAIN m = DOMAIN heap /\ m[b].cells[j] = v
      BY <1>5, <1>7, PutIs
    <3> HIDE DEF m
    <3>7. h = m
      BY <3>4 DEF m
    <3>8. QED
      BY <1>5, <2>1, <3>3, <3>5, <3>6, <3>7 DEF At
  <2>2. CASE as # "integer"
    <3>1. h = heap
      BY <1>3, <2>2
    <3>2. At(heap, c) = heap[b].cells[j]
      BY <1>5 DEF At
    <3>3. Alters(heap, heap, {c}, {}, {})
      <4>1. Alters(heap, heap, {}, {}, {}) /\ {} \subseteq {c} /\ {} \subseteq {}
        BY AltersNone
      <4>2. QED
        BY <4>1, AltersMore
    <3>4. QED
      BY <1>7, <2>2, <3>1, <3>2, <3>3
  <2>3. QED
    BY <2>1, <2>2
<1>9. /\ f \in Nat /\ f \notin DOMAIN heap /\ f \in DOMAIN g /\ DOMAIN g[f].cells = 1..3
      /\ Owns(At(g, <<f, ARG>>)) = {} /\ HeapOK(g, Holders \cup {f})
      /\ Alters(heap, g, {c}, {}, L \cup {f})
      /\ At(g, c) = At(h, c)
  <2>1. c[1] \in DOMAIN heap /\ c[2] \in DOMAIN heap[c[1]].cells
    BY <1>1, <1>5
  <2>2. PICK W : W = {c}
    OBVIOUS
  <2>3. HeapOK(h, Holders) /\ DOMAIN h = DOMAIN heap /\ Alters(heap, h, W, {}, L)
        /\ f = New(heap) /\ g = NewFrame(h, f)
    BY <1>1, <1>3, <1>8, <2>2
  <2>4. Framed(h, g, f) /\ Alters(heap, g, W, {}, L \cup {f})
    BY <2>3, CallFrame
  <2>5. QED
    BY <2>1, <2>2, <2>4 DEF Framed
<1>10. NewFrameIn(f) /\ Alters(heap, heap', {c}, {}, L \cup {f})
  BY <1>4, <1>9 DEF NewFrameIn
<1>11. d \in Entry /\ d.do = "call" /\ d.as = as /\ d.dest = c
  BY <1>5, EntryMade
<1> HIDE DEF d
<1>12. Kept(k) /\ stack'[k + 1] = d /\ Calls(k, f) /\ k + 1 =< Len(stack')
  <2>1. PICK s : s = Pop
    OBVIOUS
  <2>2. /\ s \in Seq(Entry) /\ Len(s) = k /\ \A i \in 1..k : s[i] = stack[i]
        /\ stack' \in {Append(Append(s, d), Run(f)),
                       Append(s, d) \o <<[do |-> "args", frame |-> f], Eval(<<f, ARG>>)>>}
    BY <1>2, <1>6, <2>1
  <2>3. QED
    BY <1>6, <1>9, <1>11, <2>2, CallStack
<1>13. Stands(k)
  <2>1. Filled(d, Slot(k))
    BY <1>4, <1>5, <1>8, <1>9, <1>11 DEF Filled
  <2>2. stack[k].do = "return" => as = "data"
    BY <1>1, <1>2, <1>5, ReturnedIs
  <2>3. Gives(Top) /\ Gives(d)
    BY <1>2, <1>11 DEF Gives
  <2>4. QED
    BY <1>1, <1>2, <1>11, <1>12, <2>1, <2>2, <2>3, StandsThere
<1>14. ~Building(k)
  BY <1>1, <1>2, BuildingIs
<1>15. Spared(k, {c}, {})
  BY <1>5, <1>6, SparedNone
<1>16. lang' = lang /\ names' = names /\ stack'[k + 1].do = "call"
  BY <1>2, <1>11, <1>12
<1>17. QED
  BY <1>5, <1>10, <1>12, <1>13, <1>14, <1>15, <1>16, CallOK

(* A call keeps the invariant, if nothing that is returned is built from   *)
(* calls.                                                                  *)
LEMMA BeginCallOK ==
    ASSUME IInv, ~Has("computed"), NEW as \in {"statement", "data", "integer"}, BeginCall(as)
    PROVE  IInv'
<1>1. CASE as = "statement"
  BY <1>1, CallStatementOK
<1>2. CASE as \in {"data", "integer"}
  BY <1>2, CallForDataOK
<1>3. QED
  BY <1>1, <1>2

(* The frame f, which runs at place q, ends. *)
EndsAt(q, f) ==
    /\ q \in 2..Len(stack) /\ Len(stack) \in Nat /\ DOMAIN stack = 1..Len(stack)
    /\ stack[q].do = "run" /\ stack[q].frame = f /\ Held(stack[q]) = {f}
    /\ q - 1 \in 1..Len(stack) /\ stack[q - 1].do \in {"host", "call"}
    /\ \A i \in 1..Len(stack) : stack[i].do = "run" => i =< q
    /\ \A i \in (q + 1)..Len(stack) : stack[i].do = "return"
    /\ f \in Holders /\ f \in DOMAIN heap /\ f # 0 /\ f \in Nat
    /\ \A i \in 1..Len(stack) : f \in Held(stack[i]) => i = q
    /\ \A n \in DOMAIN names : names[n].at # f

(* The innermost method ends above the activation that called it. *)
LEMMA EndsIs ==
    ASSUME IInv, Ended, Base > 1, NEW q, q = Base, NEW f, f = Frame
    PROVE  EndsAt(q, f)
<1>1. /\ stack # <<>> /\ Top.do \in {"run", "return"} /\ StackOK /\ Top.do # "host"
      /\ Len(stack) \in Nat /\ DOMAIN stack = 1..Len(stack)
      /\ Top = stack[Len(stack)]
  BY HeldFacts, StackFacts, TopIs DEF Ended
<1>2. /\ q \in 1..Len(stack) /\ stack[q].do = "run" /\ stack[q] \in Entry
      /\ f = stack[q].frame /\ f \in Nat
      /\ \A i \in 1..Len(stack) : stack[i].do = "run" => i =< q
      /\ q = Len(stack) \/ q = Len(stack) - 1
      /\ Top.do = "run" => q = Len(stack)
  BY <1>1, BaseIs
<1>3. q \in 2..Len(stack)
  BY <1>2
<1>4. q - 1 \in 1..Len(stack) /\ Above(stack[q - 1], stack[q]) /\ stack[q - 1] \in Entry
  BY <1>1, <1>3, StackFacts
<1>5. stack[q - 1].do \in {"host", "call"}
  BY <1>2, <1>4, AboveIs
<1>6. Held(stack[q]) = {f}
  BY <1>2, HeldIs
<1>7. f \in Holders /\ f \in DOMAIN heap /\ f # 0
  BY <1>2, <1>6, HeldFacts
<1>8. /\ \A i \in 1..Len(stack) : f \in Held(stack[i]) => i = q
      /\ \A n \in DOMAIN names : names[n].at # f
  BY <1>1, <1>2, <1>6 DEF IInv, HeldOnce
<1>9. ASSUME NEW i \in (q + 1)..Len(stack) PROVE stack[i].do = "return"
  <2>1. i \in Int /\ q \in Int /\ Len(stack) \in Int /\ i >= q + 1 /\ i =< Len(stack)
    <3>1. Len(stack) \in Nat /\ q \in 1..Len(stack)
      BY <1>1, <1>2
    <3>2. QED
      BY <3>1
  <2>2. q = Len(stack) \/ q = Len(stack) - 1
    BY <1>2
  <2>3. i = Len(stack) /\ q # Len(stack)
    BY <2>1, <2>2
  <2>4. QED
    BY <1>1, <1>2, <2>3
<1>10. QED
  BY <1>1, <1>2, <1>3, <1>4, <1>5, <1>6, <1>7, <1>8, <1>9 DEF EndsAt

-----------------------------------------------------------------------------
(* What is freed with a frame. *)
FrameBlocks(f) == {f} \cup {names[n].at : n \in OfFrame(f)}

(* The blocks of the frame that ends are held by it alone. *)
LEMMA FrameHolds ==
    ASSUME IInv, NEW q, NEW f, EndsAt(q, f), NEW S, S = FrameBlocks(f)
    PROVE  /\ S \in SUBSET Holders /\ f \in S
           /\ \A i \in 1..(q - 1) : Held(stack[i]) \cap S = {}
           /\ \A n \in DOMAIN names : names[n].at \in S => n \in OfFrame(f)
<1>1. /\ q \in 2..Len(stack) /\ Len(stack) \in Nat /\ DOMAIN stack = 1..Len(stack)
      /\ f \in Holders
      /\ \A i \in 1..Len(stack) : f \in Held(stack[i]) => i = q
      /\ \A n \in DOMAIN names : names[n].at # f
  BY DEF EndsAt
<1>2. /\ \A n \in DOMAIN names : names[n].at \in Holders
      /\ \A m, n \in DOMAIN names : names[m].at = names[n].at => m = n
      /\ \A n \in DOMAIN names : \A i \in 1..Len(stack) : names[n].at \notin Held(stack[i])
  BY <1>1, HeldFacts DEF IInv, HeldOnce
<1>3. OfFrame(f) \subseteq DOMAIN names
  BY DEF OfFrame
<1>4. S \in SUBSET Holders /\ f \in S
  BY <1>1, <1>2, <1>3 DEF FrameBlocks
<1>5. ASSUME NEW i \in 1..(q - 1) PROVE Held(stack[i]) \cap S = {}
  <2>1. i \in 1..Len(stack) /\ i # q
    BY <1>1, <1>5
  <2>2. QED
    BY <1>1, <1>2, <1>3, <2>1 DEF FrameBlocks
<1>6. ASSUME NEW n \in DOMAIN names, names[n].at \in S PROVE n \in OfFrame(f)
  <2>1. names[n].at # f
    BY <1>1, <1>6
  <2>2. PICK m \in OfFrame(f) : names[n].at = names[m].at
    BY <1>6, <2>1 DEF FrameBlocks
  <2>3. QED
    BY <1>2, <1>3, <2>2
<1>7. QED
  BY <1>4, <1>5, <1>6

(* The frame f is freed from g. *)
FrameGone(g, h, S) ==
    /\ HeapOK(h, Holders \ S) /\ S \cap DOMAIN h = {}
    /\ \A a \in DOMAIN heap : a \in DOMAIN g /\ a \notin Tree(heap, S) => a \in DOMAIN h /\ h[a] = g[a]

(* sabi_free_frame leaves a sound heap, and frees what the frame owned. *)
LEMMA FrameFreed ==
    ASSUME IInv, NEW q, NEW f, EndsAt(q, f), NEW S, S = FrameBlocks(f),
           NEW g, HeapOK(g, Holders), NEW W, NEW D, NEW L, Alters(heap, g, W, D, L),
           NEW h, h = FreeFrame(g, f)
    PROVE  FrameGone(g, h, S) /\ Alters(heap, h, W, D \cup Tree(heap, S), L)
<1>1. S \in SUBSET Holders /\ S \in SUBSET Nat /\ HeapOK(heap, Holders)
  BY FrameHolds, HeldFacts
<1>2. h = Without(g, Tree(g, S))
  BY DEF FreeFrame, FrameBlocks
<1>3. Freed(g, Holders, h, S)
  BY <1>1, <1>2, FreedIs
<1>4. Tree(g, S) \cap DOMAIN heap \subseteq Tree(heap, S)
  BY <1>1, TreesOld
<1>5. FrameGone(g, h, S)
  <2>1. /\ HeapOK(h, Holders \ S) /\ S \subseteq Tree(g, S) /\ DOMAIN h = DOMAIN g \ Tree(g, S)
    BY <1>3 DEF Freed
  <2>2. \A a \in DOMAIN h : h[a] = g[a]
    BY <1>2 DEF Without
  <2>3. QED
    BY <1>4, <2>1, <2>2 DEF FrameGone
<1>6. Alters(heap, h, W \cup {}, D \cup Tree(g, S), L \cup {})
  <2>1. Alters(g, h, {}, Tree(g, S), {})
    BY <1>3 DEF Freed
  <2>2. QED
    BY <2>1, AltersOnwards
<1>7. Alters(heap, h, W \cup {}, (D \cup Tree(g, S)) \cap DOMAIN heap, L \cup {})
  BY <1>6, AltersLess
<1>8. (D \cup Tree(g, S)) \cap DOMAIN heap \subseteq D \cup Tree(heap, S)
      /\ W \cup {} \subseteq W /\ L \cup {} \subseteq L
  BY <1>4
<1>9. Alters(heap, h, W, D \cup Tree(heap, S), L)
  BY <1>7, <1>8, AltersMore
<1>10. QED
  BY <1>5, <1>9

(* It frees nothing the rest of the stack waits on. *)
LEMMA FrameSpared ==
    ASSUME IInv, NEW q, NEW f, EndsAt(q, f), NEW S, S = FrameBlocks(f),
           NEW k \in 0..(q - 1)
    PROVE  Spared(k, {}, Tree(heap, S)) /\ Tree(heap, S) \cap Holders = S
<1>1. /\ S \in SUBSET Holders /\ HeapOK(heap, Holders)
      /\ \A i \in 1..(q - 1) : Held(stack[i]) \cap S = {}
  BY FrameHolds, HeldFacts
<1>2. q \in 2..Len(stack) /\ Len(stack) \in Nat
  BY DEF EndsAt
<1>3. k \in 0..Len(stack) /\ 1..k \subseteq 1..(q - 1)
  BY <1>2
<1>4. Spared(k, {}, Tree(heap, S))
  BY <1>1, <1>3, SpareTree
<1>5. Tree(heap, S) \cap Holders = S
  <2>1. S \in SUBSET Holders /\ HeapOK(heap, Holders)
    BY <1>1
  <2>2. QED
    BY <2>1, FreeOK
<1>6. QED
  BY <1>4, <1>5

(* The names of the frame are gone. *)
NamesGo(f) == names' = [n \in DOMAIN names \ OfFrame(f) |-> names[n]]

(* The names that stay have their objects. *)
LEMMA FrameNames ==
    ASSUME IInv, NEW q, NEW f, EndsAt(q, f), NEW S, S = FrameBlocks(f), NamesGo(f),
           NEW k \in 0..(q - 1), \A i \in 1..(q - 1) : stack[i].do = "run" => i =< k,
           NEW D, D \cap Holders \subseteq S
    PROVE  Named(k, D) /\ Lasting(k) /\ (\A n \in DOMAIN names' : n \in DOMAIN names)
<1>1. /\ q \in 2..Len(stack) /\ Len(stack) \in Nat /\ DOMAIN stack = 1..Len(stack) /\ f # 0
      /\ stack[q].do = "run" /\ stack[q].frame = f /\ Held(stack[q]) = {f}
      /\ \A i \in 1..Len(stack) : stack[i].do = "run" => i =< q
      /\ \A i \in 1..Len(stack) : f \in Held(stack[i]) => i = q
  BY DEF EndsAt
<1>2. /\ DOMAIN names' = DOMAIN names \ OfFrame(f)
      /\ \A n \in DOMAIN names' : names'[n] = names[n]
  BY DEF NamesGo
<1>3. /\ \A n \in DOMAIN names : names[n].at \in Holders
      /\ \A n \in DOMAIN names : names[n].at \in S => n \in OfFrame(f)
  BY HeldFacts, FrameHolds
<1>4. Named(k, D)
  <2>1. SUFFICES ASSUME NEW n \in DOMAIN names'
                 PROVE  /\ n \in Names
                        /\ names[n] = [at |-> names[n].at, frame |-> names[n].frame]
                        /\ names[n].frame # 0 => RunsBelow(names[n].frame, k)
                        /\ names[n].at \notin D
    BY <1>2 DEF Named
  <2>2. n \in DOMAIN names /\ names[n].frame # f
    BY <1>2 DEF OfFrame
  <2>3. /\ n \in Names /\ names[n] = [at |-> names[n].at, frame |-> names[n].frame]
        /\ names[n].frame # 0 => RunsBelow(names[n].frame, Len(stack))
    BY <2>2 DEF IInv, NamesOK
  <2>4. ASSUME names[n].frame # 0 PROVE RunsBelow(names[n].frame, k)
    <3>1. PICK j \in 2..Len(stack) : stack[j].do = "run" /\ stack[j].frame = names[n].frame
      BY <2>3, <2>4 DEF RunsBelow
    <3>2. j # q /\ j =< q
      BY <1>1, <2>2, <3>1
    <3>3. j \in 1..(q - 1)
      BY <1>1, <3>1, <3>2
    <3>4. j \in 2..k
      BY <1>1, <3>1, <3>3
    <3>5. QED
      BY <3>1, <3>4 DEF RunsBelow
  <2>5. names[n].at \notin D
    BY <1>2, <1>3, <2>2
  <2>6. QED
    BY <2>3, <2>4, <2>5
<1>5. Lasting(k)
  <2>1. SUFFICES ASSUME NEW n \in DOMAIN names,
                        names[n].frame # 0 => RunsBelow(names[n].frame, k)
                 PROVE  n \notin OfFrame(f)
    BY <1>2 DEF Lasting
  <2>2. SUFFICES ASSUME names[n].frame = f PROVE FALSE
    BY DEF OfFrame
  <2>3. PICK j \in 2..k : stack[j].do = "run" /\ stack[j].frame = f
    BY <1>1, <2>1, <2>2 DEF RunsBelow
  <2>4. j \in 1..Len(stack) /\ j # q
    BY <1>1, <2>3
  <2>5. stack[j] \in Entry
    BY <2>4, HeldFacts, StackFacts
  <2>6. f \in Held(stack[j])
    BY <2>3, <2>5, HeldIs
  <2>7. QED
    BY <1>1, <2>4, <2>6
<1>6. QED
  BY <1>2, <1>4, <1>5

(* A frame ends: the first k functions below it stay. *)
LEMMA FrameEnds ==
    ASSUME IInv, lang' = lang, NEW q, NEW f, EndsAt(q, f), NEW S, S = FrameBlocks(f), NamesGo(f),
           NEW k \in 0..(q - 1), \A i \in 1..(q - 1) : stack[i].do = "run" => i =< k,
           \A i \in (k + 1)..(q - 1) : stack[i].do = "call",
           Kept(k), Len(stack') = k,
           NEW W, NEW D, NEW L, Alters(heap, heap', W, D, L), HeapOK(heap', Holders \ S),
           S \subseteq D, D \cap Holders \subseteq S, f \notin DOMAIN heap',
           Spared(k, W, D), BuffersKept(W)
    PROVE  IInv'
<1>1. Tops(k) /\ Joined(k)
  BY CutStep
<1>2. Named(k, D) /\ Lasting(k) /\ (\A n \in DOMAIN names' : n \in DOMAIN names)
  BY FrameNames
<1>3. FramesGo(k)
  <2>1. SUFFICES ASSUME NEW i \in (k + 1)..Len(stack), stack[i].do \in {"run", "args"}
                 PROVE  stack[i].frame \notin DOMAIN heap'
    BY DEF FramesGo
  <2>2. /\ q \in 2..Len(stack) /\ stack[q].frame = f
        /\ \A j \in (q + 1)..Len(stack) : stack[j].do = "return"
    BY DEF EndsAt
  <2>3. i \notin (k + 1)..(q - 1) /\ i \notin (q + 1)..Len(stack)
    BY <2>1, <2>2
  <2>4. i = q
    BY <2>2, <2>3
  <2>5. QED
    BY <2>2, <2>4
<1>4. PICK H : H = Holders \ S
  OBVIOUS
<1>5. Holding(k, D, H)
  <2>1. \A i \in (k + 1)..Len(stack') : FALSE
    BY DEF Kept
  <2>2. QED
    BY <1>2, <1>4, <2>1 DEF Holding
<1>6. HeapOK(heap', H)
  BY <1>4
<1>7. QED
  BY <1>1, <1>2, <1>3, <1>5, <1>6, StepOK

(* The result of a frame. *)
LEMMA RunCell ==
    ASSUME IInv, NEW m \in 1..Len(stack), stack[m].do = "run", NEW f, f = stack[m].frame
    PROVE  /\ Held(stack[m]) = {f} /\ f \in Holders /\ f \in DOMAIN heap
           /\ RETV \in DOMAIN heap[f].cells /\ f \notin Beneath(heap, f, RETV)
           /\ heap[f].cells[RETV] \in Value
           /\ Source(heap, heap[f].cells[RETV]) /\ ~Borrows(heap[f].cells[RETV])
<1>1. stack[m] \in Entry /\ DOMAIN stack = 1..Len(stack) /\ HeapOK(heap, Holders)
  BY HeldFacts, StackFacts
<1>2. Held(stack[m]) = {f}
  BY <1>1, HeldIs
<1>3. f \in Holders /\ f \in DOMAIN heap
  BY <1>1, <1>2, HeldFacts
<1>4. RETV \in DOMAIN heap[f].cells
  <2>1. DOMAIN heap[f].cells = 1..3
    BY <1>1, <1>2 DEF IInv, Sizes, Sized
  <2>2. QED
    BY <2>1 DEF RETV
<1>5. f \notin Beneath(heap, f, RETV)
  BY <1>1, <1>3, <1>4, BelowIs
<1>6. Source(heap, heap[f].cells[RETV]) /\ heap[f].cells[RETV] \in Value
  BY <1>1, <1>3, <1>4, <1>5, SourceCell, HeapFacts
<1>7. heap[f].cells[RETV].type # "reference"
  BY <1>3, <1>4 DEF IInv, BorrowedCells, ARG, RETV
<1>8. heap[f].cells[RETV].type # "field"
  BY <1>1, <1>2, <1>3, <1>4 DEF IInv, BorrowedBytes
<1>9. QED
  BY <1>2, <1>3, <1>4, <1>5, <1>6, <1>7, <1>8 DEF Borrows

-----------------------------------------------------------------------------
(* The host gets the result of a method. *)
LEMMA EndMethodOK ==
    ASSUME IInv, EndMethod
    PROVE  IInv'
<1>1. PICK q, f : q = Base /\ f = Frame
  OBVIOUS
<1>2. Ended /\ Base > 1 /\ lang' = lang /\ stack' = Below /\ Last(Below).do = "host"
  BY DEF EndMethod
<1>3. EndsAt(q, f)
  BY <1>1, <1>2, EndsIs
<1>4. /\ q \in 2..Len(stack) /\ Len(stack) \in Nat /\ DOMAIN stack = 1..Len(stack)
      /\ stack[q].do = "run" /\ stack[q].frame = f /\ f \in DOMAIN heap
      /\ q - 1 \in 1..Len(stack) /\ q \in 1..Len(stack)
  BY <1>3 DEF EndsAt
<1>5. /\ stack \in Seq(Entry) /\ StackOK /\ HeapOK(heap, Holders) /\ IsFiniteSet(DOMAIN heap)
      /\ \A i \in 1..Len(stack) : stack[i] \in Entry
  BY HeldFacts, StackFacts
<1>6. /\ Below \in Seq(Entry) /\ Len(Below) = q - 1 /\ Below # <<>>
      /\ \A i \in 1..(q - 1) : Below[i] = stack[i]
  <2>1. Below = SubSeq(stack, 1, q - 1)
    BY <1>1 DEF Below
  <2>2. QED
    BY <1>4, <1>5, <2>1
<1>7. Last(Below) = stack[q - 1]
  BY <1>4, <1>6, PopIs
<1>8. q = 2
  <2>1. SUFFICES ASSUME q - 1 # 1 PROVE FALSE
    BY <1>4
  <2>2. q - 1 \in 2..Len(stack)
    BY <1>4, <2>1
  <2>3. Above(stack[q - 1 - 1], stack[q - 1]) /\ stack[q - 1 - 1] \in Entry
    BY <1>5, <2>2, StackFacts
  <2>4. QED
    BY <1>2, <1>4, <1>5, <1>7, <2>3, AboveIs
<1>9. PICK b : b = stack[1].own
  OBVIOUS
<1>10. stack[1].do = "host" /\ stack[1] \in Entry /\ Held(stack[1]) = {b} /\ 1 \in 1..Len(stack)
  BY <1>2, <1>4, <1>5, <1>7, <1>8, <1>9, HeldIs
<1>11. /\ b \in DOMAIN heap /\ 1 \in DOMAIN heap[b].cells
       /\ \A n \in DOMAIN names : names[n].at # b
  <2>1. b \in DOMAIN heap
    BY <1>10, HeldFacts
  <2>2. DOMAIN heap[b].cells = {1} /\ \A n \in DOMAIN names : names[n].at # b
    BY <1>4, <1>10 DEF IInv, Sizes, Sized, HeldOnce
  <2>3. QED
    BY <2>1, <2>2
<1>12. PICK v : v = heap[f].cells[RETV]
  OBVIOUS
<1>13. Source(heap, v) /\ ~Borrows(v)
  BY <1>4, <1>12, RunCell
<1>14. PICK g : g = Clone(heap, <<b, 1>>, v)
  OBVIOUS
<1>15. PICK L : HeapOK(g, Holders) /\ Alters(heap, g, {<<b, 1>>}, {}, L)
  BY <1>5, <1>11, <1>13, <1>14, PlainHeap, CloneAlters
<1>16. PICK S, T : S = FrameBlocks(f) /\ T = Tree(heap, S)
  OBVIOUS
<1>17. heap' = FreeFrame(g, f)
  <2>1. Last(Below).own = b /\ v = At(heap, Retv)
    BY <1>1, <1>7, <1>8, <1>9, <1>12 DEF At, Retv
  <2>2. QED
    BY <1>1, <1>14, <2>1 DEF EndMethod
<1>18. FrameGone(g, heap', S) /\ Alters(heap, heap', {<<b, 1>>}, {} \cup Tree(heap, S), L)
  <2>1. PICK h : h = FreeFrame(g, f)
    OBVIOUS
  <2>2. FrameGone(g, h, S) /\ Alters(heap, h, {<<b, 1>>}, {} \cup Tree(heap, S), L)
    BY <1>3, <1>15, <1>16, <2>1, FrameFreed
  <2>3. QED
    BY <1>17, <2>1, <2>2
<1>19. Alters(heap, heap', {<<b, 1>>}, T, L)
  <2>1. {} \cup Tree(heap, S) = T
    BY <1>16
  <2>2. QED
    BY <1>18, <2>1
<1>20. S \in SUBSET Holders /\ f \in S
  BY <1>3, <1>16, FrameHolds
<1>21. /\ HeapOK(heap', Holders \ S) /\ f \notin DOMAIN heap'
  BY <1>18, <1>20 DEF FrameGone
<1>22. 1 \in 0..(q - 1) /\ 1 \in 0..Len(stack)
  BY <1>4, <1>8
<1>23. Spared(1, {}, T) /\ T \cap Holders = S
  BY <1>3, <1>16, <1>22, FrameSpared
<1>24. Spared(1, {<<b, 1>>}, T)
  <2>1. \A c \in {<<b, 1>>} : Aside(1, c)
    BY <1>10 DEF Aside
  <2>2. Spared(1, {<<b, 1>>}, {})
    BY <1>22, <2>1, SparedNone
  <2>3. Spared(1, {} \cup {<<b, 1>>}, T \cup {})
    BY <1>23, <2>2, SparedBoth
  <2>4. {} \cup {<<b, 1>>} = {<<b, 1>>} /\ T \cup {} = T
    OBVIOUS
  <2>5. QED
    BY <2>3, <2>4
<1>25. BuffersKept({<<b, 1>>})
  BY <1>11 DEF BuffersKept
<1>26. NamesGo(f)
  BY <1>1 DEF EndMethod, NamesGo
<1>27. Kept(1) /\ Len(stack') = 1
  BY <1>2, <1>4, <1>6, <1>8 DEF Kept
<1>28. /\ \A i \in 1..(q - 1) : stack[i].do = "run" => i =< 1
       /\ \A i \in (1 + 1)..(q - 1) : stack[i].do = "call"
  BY <1>8
<1>29. S \subseteq T /\ T \cap Holders \subseteq S
  BY <1>20, <1>23
<1>30. QED
  BY <1>2, <1>3, <1>16, <1>19, <1>21, <1>22, <1>24, <1>25, <1>26, <1>27, <1>28, <1>29, FrameEnds

-----------------------------------------------------------------------------
(* The end of a call.  The frame f, at place q, was called by one at place *)
(* m, and what called it waits at place k + 1.                             *)
Called(k, q, m) ==
    /\ k \in 1..Len(stack) /\ k \in Nat /\ k # 0 /\ q = k + 2 /\ k + 1 \in 1..Len(stack)
    /\ stack[k + 1].do = "call"
    /\ m \in 1..k /\ m \in 1..Len(stack) /\ m # q /\ stack[m].do = "run"
    /\ \A i \in 1..(q - 1) : stack[i].do = "run" => i =< m

(* The activations around a call that ends. *)
LEMMA CalledIs ==
    ASSUME IInv, Ended, Base > 1, NEW q, q = Base, Last(Below).do = "call",
           NEW k, k = q - 2, NEW m, m = RunOf(Below)
    PROVE  /\ Called(k, q, m) /\ Last(Below) = stack[k + 1] /\ Below[m] = stack[m]
           /\ Below \in Seq(Entry) /\ Len(Below) = k + 1 /\ Below # <<>>
           /\ \A i \in 1..(k + 1) : Below[i] = stack[i]
<1>1. EndsAt(q, Frame)
  BY EndsIs
<1>2. /\ q \in 2..Len(stack) /\ Len(stack) \in Nat /\ DOMAIN stack = 1..Len(stack)
      /\ stack[q].do = "run" /\ q - 1 \in 1..Len(stack)
  BY <1>1 DEF EndsAt
<1>3. /\ stack \in Seq(Entry) /\ StackOK
      /\ \A i \in 1..Len(stack) : stack[i] \in Entry
  BY HeldFacts, StackFacts
<1>4. PICK s : s = Below
  OBVIOUS
<1>5. /\ s \in Seq(Entry) /\ Len(s) = q - 1 /\ s # <<>> /\ DOMAIN s = 1..(q - 1)
      /\ \A i \in 1..(q - 1) : s[i] = stack[i]
  <2>1. s = SubSeq(stack, 1, q - 1)
    BY <1>4 DEF Below
  <2>2. QED
    BY <1>2, <1>3, <2>1
<1>6. Last(s) = stack[q - 1]
  BY <1>2, <1>5, PopIs
<1>7. stack[q - 1].do = "call"
  BY <1>4, <1>6
<1>8. q - 1 # 1
  <2>1. stack # <<>>
    BY <1>2
  <2>2. stack[1].do \in {"run", "host"}
    BY <1>3, <2>1, StackFacts
  <2>3. QED
    BY <1>7, <2>2
<1>9. /\ k \in 1..Len(stack) /\ k \in Nat /\ k # 0 /\ q = k + 2 /\ k + 1 \in 1..Len(stack)
      /\ k + 1 = q - 1
  BY <1>2, <1>8
<1>10. \E j \in 1..(q - 1) : stack[j].do = "run"
  <2>1. 1 \in 1..(q - 1) /\ 2 \in 1..(q - 1) /\ 2 \in 2..Len(stack) /\ stack # <<>>
    BY <1>2, <1>8
  <2>2. stack[1].do \in {"run", "host"}
    BY <1>3, <2>1, StackFacts
  <2>3. stack[1].do = "host" => stack[2].do = "run"
    <3>1. 2 - 1 = 1
      OBVIOUS
    <3>2. Above(stack[2 - 1], stack[2])
      BY <1>3, <2>1, StackFacts
    <3>3. 1 \in 1..Len(stack) /\ 2 \in 1..Len(stack)
      BY <2>1, <1>2
    <3>4. QED
      BY <1>3, <3>1, <3>2, <3>3, AboveIs
  <2>4. QED
    BY <2>1, <2>2, <2>3
<1>11. /\ m \in 1..(q - 1) /\ stack[m].do = "run"
       /\ \A i \in 1..(q - 1) : stack[i].do = "run" => i =< m
  <2>1. PICK j \in 1..(q - 1) : s[j].do = "run"
    BY <1>5, <1>10
  <2>2. j \in DOMAIN s
    BY <1>5
  <2>3. PICK r : r = RunOf(s)
    OBVIOUS
  <2>4. /\ r \in DOMAIN s /\ s[r].do = "run"
        /\ \A i \in DOMAIN s : s[i].do = "run" => i =< r
    BY <1>5, <2>1, <2>2, <2>3, RunOfIs
  <2>5. m = r
    BY <1>4, <2>3
  <2>6. QED
    BY <1>5, <2>4, <2>5
<1>12. m # k + 1
  BY <1>7, <1>9, <1>11
<1>13. m \in 1..k /\ m \in 1..Len(stack) /\ m # q
  BY <1>2, <1>9, <1>11, <1>12
<1>14. Called(k, q, m)
  BY <1>7, <1>9, <1>11, <1>13 DEF Called
<1>15. /\ Below \in Seq(Entry) /\ Len(Below) = k + 1 /\ Below # <<>>
       /\ \A i \in 1..(k + 1) : Below[i] = stack[i]
  BY <1>4, <1>5, <1>9
<1>16. Last(Below) = stack[k + 1] /\ Below[m] = stack[m]
  BY <1>4, <1>5, <1>6, <1>9, <1>11
<1>17. QED
  BY <1>14, <1>15, <1>16

(* What waits for a result below a frame that runs has called. *)
LEMMA ReturnCalls ==
    ASSUME IInv, NEW q, NEW f, EndsAt(q, f), NEW i \in 1..(q - 2), stack[i].do = "return"
    PROVE  stack[i + 1].do = "call"
<1>1. /\ q \in 2..Len(stack) /\ Len(stack) \in Nat /\ stack[q].do = "run"
  BY DEF EndsAt
<1>2. /\ StackOK /\ \A j \in 1..Len(stack) : stack[j] \in Entry
      /\ \A j \in 1..(Len(stack) - 1) : Above(stack[j], stack[j + 1])
  BY HeldFacts, StackFacts
<1>3. /\ i \in 1..Len(stack) /\ i + 1 \in 1..Len(stack) /\ i \in 1..(Len(stack) - 1)
      /\ i + 1 \in 1..(Len(stack) - 1) /\ i + 1 + 1 \in 1..Len(stack) /\ q \in (i + 1)..Len(stack)
  BY <1>1
<1>4. Above(stack[i], stack[i + 1]) /\ Above(stack[i + 1], stack[i + 1 + 1])
  BY <1>2, <1>3
<1>5. stack[i + 1].do # "eval"
  BY <1>2, <1>3, <1>4, AboveIs
<1>6. Gives(stack[i + 1])
  BY <1>2, <1>3, <1>4, AboveIs
<1>7. stack[i + 1].do \notin {"elements", "convert"}
  BY <1>1, <1>3 DEF IInv, Returning
<1>8. QED
  BY <1>5, <1>6, <1>7 DEF Gives

(* Only a Return of the caller waits for the caller's result. *)
LEMMA CallerSlot ==
    ASSUME IInv, NEW k, NEW q, NEW f, EndsAt(q, f), NEW m, Called(k, q, m),
           NEW b, b = stack[m].frame, NEW c, c = <<b, RETV>>,
           NEW i \in 1..k, Wants(stack[i]), Slot(i) = c
    PROVE  stack[i].do = "return"
<1>1. m \in 1..k /\ m \in 1..Len(stack) /\ k \in 1..Len(stack) /\ stack[m].do = "run"
      /\ i \in 1..Len(stack)
  BY DEF Called
<1>2. Held(stack[m]) = {b} /\ b \in Holders
  BY <1>1, RunCell
<1>3. Slot(i)[1] = b
  OBVIOUS
<1>4. StackOK /\ DOMAIN stack = 1..Len(stack)
  BY HeldFacts, StackFacts
<1>5. CASE stack[i].do = "elements"
  <2>1. i \in 2..Len(stack)
    BY <1>1, <1>4, StackFacts
  <2>2. stack[i].at \notin Holders
    BY <1>5, <2>1, ElementsHome
  <2>3. Slot(i)[1] = stack[i].at
    BY <1>1, <1>4, <1>5, SlotIs
  <2>4. QED
    BY <1>2, <1>3, <2>2, <2>3
<1>6. CASE stack[i].do # "elements" /\ stack[i].do # "return"
  <2>1. Slot(i)[1] \in Held(stack[i]) /\ stack[i].do # "run"
    BY <1>1, <1>4, <1>6, SlotHeld
  <2>2. Held(stack[i]) \cap Held(stack[m]) # {}
    BY <1>2, <1>3, <2>1
  <2>3. i = m
    BY <1>1, <1>4, <2>2 DEF IInv, HeldOnce
  <2>4. QED
    BY <1>1, <2>1, <2>3
<1>7. QED
  BY <1>5, <1>6

(* The caller's result may change. *)
LEMMA CallerAside ==
    ASSUME IInv, NEW k, NEW q, NEW f, EndsAt(q, f), NEW m, Called(k, q, m),
           NEW b, b = stack[m].frame, NEW c, c = <<b, RETV>>
    PROVE  /\ Aside(k, c) /\ BuffersKept({c})
           /\ \A i \in 1..(k - 1) : Wants(stack[i]) /\ stack[i + 1].do = "elements" => Slot(i) # c
<1>1. /\ k \in Nat /\ q = k + 2 /\ m \in 1..k /\ m \in 1..Len(stack) /\ k \in 1..Len(stack)
      /\ stack[m].do = "run"
  BY DEF Called
<1>2. \A i \in 1..(k - 1) : i \in 1..k /\ i \in 1..(q - 2)
  BY <1>1
<1>3. BuffersKept({c})
  <2>1. m \in 0..m
    BY <1>1
  <2>2. QED
    BY <1>1, <2>1, AsideRetv
<1>4. \A i \in 1..(k - 1) : Wants(stack[i]) /\ Slot(i) = c =>
        stack[i].do = "return" /\ stack[i + 1].do = "call"
  BY <1>2, CallerSlot, ReturnCalls
<1>5. \A i \in 1..k : stack[i].do = "elements" => stack[i].at # b
  <2>1. SUFFICES ASSUME NEW i \in 1..k, stack[i].do = "elements" PROVE stack[i].at # b
    OBVIOUS
  <2>2. i \in 2..Len(stack)
    <3>1. i \in 1..Len(stack) /\ Wants(stack[i]) /\ StackOK
      BY <1>1, <2>1, HeldFacts DEF Wants
    <3>2. QED
      BY <3>1, StackFacts
  <2>3. stack[i].at \notin Holders /\ b \in Holders
    BY <1>1, <2>1, <2>2, ElementsHome, RunCell
  <2>4. QED
    BY <2>3
<1>6. Aside(k, c)
  BY <1>4, <1>5 DEF Aside
<1>7. QED
  BY <1>3, <1>4, <1>6

(* The result of the frame f is at c, and the frame is freed. *)
CallFreed(k, f, S, h, c, D) ==
    /\ HeapOK(h, Holders \ S) /\ f \notin DOMAIN h /\ Alters(heap, h, {c}, D, {})
    /\ Spared(k, {c}, D) /\ BuffersKept({c}) /\ S \subseteq D /\ D \cap Holders \subseteq S

(* The returned value is copied to the caller, and the callee is freed. *)
LEMMA CallFreedIs ==
    ASSUME IInv, NEW q, NEW f, EndsAt(q, f), NEW k, NEW m, Called(k, q, m),
           NEW b, b = stack[m].frame, NEW c, c = <<b, RETV>>, NEW S, S = FrameBlocks(f),
           NEW g, g = Clone(Clean(heap, c), c, At(heap, <<f, RETV>>)),
           NEW h, h = FreeFrame(g, f), NEW D, D = Beneath(heap, b, RETV) \cup Tree(heap, S)
    PROVE  CallFreed(k, f, S, h, c, D)
<1>1. /\ k \in Nat /\ q = k + 2 /\ m \in 1..k /\ m \in 1..Len(stack) /\ k \in 1..Len(stack)
      /\ stack[m].do = "run" /\ m # q
  BY DEF Called
<1>2. /\ q \in 2..Len(stack) /\ q \in 1..Len(stack) /\ stack[q].do = "run" /\ stack[q].frame = f
      /\ Held(stack[q]) = {f} /\ \A i \in 1..Len(stack) : f \in Held(stack[i]) => i = q
  <2>1. /\ q \in 2..Len(stack) /\ stack[q].do = "run" /\ stack[q].frame = f /\ Len(stack) \in Nat
        /\ Held(stack[q]) = {f} /\ \A i \in 1..Len(stack) : f \in Held(stack[i]) => i = q
    BY DEF EndsAt
  <2>2. QED
    BY <2>1
<1>3. /\ HeapOK(heap, Holders) /\ IsFiniteSet(DOMAIN heap) /\ Plain(heap)
      /\ \A i \in 1..Len(stack) : Held(stack[i]) \subseteq Holders
  BY HeldFacts, PlainHeap
<1>4. PICK B, v, T : B = Beneath(heap, b, RETV) /\ v = heap[f].cells[RETV] /\ T = Tree(heap, S)
  OBVIOUS
<1>5. /\ Held(stack[m]) = {b} /\ b \in Holders /\ b \in DOMAIN heap
      /\ RETV \in DOMAIN heap[b].cells /\ b \notin B
  BY <1>1, <1>4, RunCell
<1>6. /\ f \in Holders /\ f \in DOMAIN heap /\ RETV \in DOMAIN heap[f].cells
      /\ Source(heap, v) /\ ~Borrows(v)
  BY <1>2, <1>4, RunCell
<1>7. b # f
  BY <1>1, <1>2, <1>5
<1>8. /\ B \subseteq DOMAIN heap /\ B \cap Holders = {}
      /\ \A a, i, x : Points(heap, a, i, x) => (x \in B <=> a \in B \/ (a = b /\ i = RETV))
  BY <1>3, <1>4, <1>5, BelowIs
<1>9. Owns(v) \cap B = {}
  <2>1. SUFFICES ASSUME NEW x \in Owns(v), x \in B PROVE FALSE
    OBVIOUS
  <2>2. Points(heap, f, RETV, x)
    BY <1>4, <1>6, <2>1 DEF Points
  <2>3. QED
    BY <1>6, <1>7, <1>8, <2>1, <2>2
<1>10. HeapOK(g, Holders) /\ Alters(heap, g, {c}, B, {})
  <2>1. PICK e : e = Clone(Clean(heap, <<b, RETV>>), <<b, RETV>>, v)
    OBVIOUS
  <2>2. Alters(heap, heap, {}, {}, {})
    BY AltersNone
  <2>3. /\ HeapOK(e, Holders)
        /\ Alters(heap, e, {} \cup {<<b, RETV>>}, {} \cup Beneath(heap, b, RETV), {})
    <3> DEFINE x == Clone(Clean(heap, <<b, RETV>>), <<b, RETV>>, v)
    <3>1. b \notin Beneath(heap, b, RETV) /\ Owns(v) \cap Beneath(heap, b, RETV) = {}
      BY <1>4, <1>5, <1>9
    <3>2. /\ HeapOK(x, Holders)
          /\ Alters(heap, x, {} \cup {<<b, RETV>>}, {} \cup Beneath(heap, b, RETV), {})
      BY <1>3, <1>5, <1>6, <2>2, <3>1, ReplaceIs
    <3> HIDE DEF x
    <3>3. e = x
      BY <2>1 DEF x
    <3>4. QED
      BY <3>2, <3>3
  <2>4. At(heap, <<f, RETV>>) = v
    BY <1>4 DEF At
  <2>5. g = e
    BY <2>1, <2>4
  <2>6. {} \cup {<<b, RETV>>} = {c} /\ {} \cup Beneath(heap, b, RETV) = B
    BY <1>4
  <2>7. QED
    BY <2>3, <2>5, <2>6
<1>11. FrameGone(g, h, S) /\ Alters(heap, h, {c}, D, {})
  <2>1. PICK W : W = {c}
    OBVIOUS
  <2>2. Alters(heap, g, W, B, {})
    BY <1>10, <2>1
  <2>3. FrameGone(g, h, S) /\ Alters(heap, h, W, B \cup Tree(heap, S), {})
    BY <1>10, <2>2, FrameFreed
  <2>4. QED
    BY <1>4, <2>1, <2>3
<1>12. S \in SUBSET Holders /\ f \in S
  BY FrameHolds
<1>13. k \in 0..(q - 1) /\ k \in 0..Len(stack)
  BY <1>1
<1>14. Spared(k, {}, T) /\ T \cap Holders = S
  BY <1>4, <1>13, FrameSpared
<1>15. Spared(k, {c}, B)
  <2>1. PICK X, W : X = {c} /\ W = {c}
    OBVIOUS
  <2>2. \A e \in W : Aside(k, e)
    BY <2>1, CallerAside
  <2>3. \A i \in 1..k : Held(stack[i]) \cap B = {}
    <3>1. 1..k \subseteq 1..Len(stack)
      BY <1>1
    <3>2. QED
      BY <1>3, <1>8, <3>1
  <2>4. \A a, i, x : Points(heap, a, i, x) /\ x \in B => a \in B \/ <<a, i>> \in X
    BY <1>8, <2>1
  <2>5. \A i \in 1..(k - 1) : Wants(stack[i]) /\ stack[i + 1].do = "elements" => Slot(i) \notin X
    BY <2>1, CallerAside
  <2>6. Spared(k, W, B)
    BY <1>13, <2>2, <2>3, <2>4, <2>5, SparedIs
  <2>7. QED
    BY <2>1, <2>6
<1>16. Spared(k, {c}, D)
  <2>1. Spared(k, {c} \cup {}, B \cup T)
    BY <1>14, <1>15, SparedBoth
  <2>2. {c} \cup {} = {c} /\ B \cup T = D
    BY <1>4
  <2>3. QED
    BY <2>1, <2>2
<1>17. BuffersKept({c})
  BY CallerAside
<1>18. S \subseteq D /\ D \cap Holders \subseteq S
  BY <1>4, <1>8, <1>14
<1>19. HeapOK(h, Holders \ S) /\ f \notin DOMAIN h
  BY <1>11, <1>12 DEF FrameGone
<1>20. QED
  BY <1>11, <1>16, <1>17, <1>18, <1>19 DEF CallFreed

(* What waits for the result may get something then. *)
LEMMA CallEnds ==
    ASSUME IInv, lang' = lang, NEW q, NEW f, EndsAt(q, f), NEW k, NEW m, Called(k, q, m),
           NEW S, S = FrameBlocks(f), NEW h, NEW c, NEW D, CallFreed(k, f, S, h, c, D),
           NamesGo(f), Kept(k), Len(stack') = k, NEW V, NEW K, Alters(h, heap', V, {}, K),
           HeapOK(heap', Holders \ S), Spared(k, V, {}), BuffersKept(V)
    PROVE  IInv'
<1>1. /\ k \in Nat /\ q = k + 2 /\ m \in 1..k /\ stack[k + 1].do = "call"
      /\ \A i \in 1..(q - 1) : stack[i].do = "run" => i =< m
  BY DEF Called
<1>2. /\ f \notin DOMAIN h /\ Alters(heap, h, {c}, D, {})
      /\ Spared(k, {c}, D) /\ BuffersKept({c}) /\ S \subseteq D /\ D \cap Holders \subseteq S
  BY DEF CallFreed
<1>3. PICK W : W = {c} \cup V
  OBVIOUS
<1>4. Alters(heap, heap', W, D, K)
  <2>1. Alters(heap, heap', {c} \cup V, D \cup {}, {} \cup K)
    BY <1>2, AltersOnwards
  <2>2. {c} \cup V = W /\ D \cup {} = D /\ {} \cup K = K
    BY <1>3
  <2>3. QED
    BY <2>1, <2>2
<1>5. Spared(k, W, D)
  <2>1. Spared(k, {c} \cup V, D \cup {})
    BY <1>2, SparedBoth
  <2>2. {c} \cup V = W /\ D \cup {} = D
    BY <1>3
  <2>3. QED
    BY <2>1, <2>2
<1>6. BuffersKept(W)
  BY <1>2, <1>3 DEF BuffersKept
<1>7. f \notin DOMAIN heap'
  <2>1. f \in DOMAIN heap
    BY DEF EndsAt
  <2>2. QED
    BY <1>2, <2>1 DEF Alters
<1>8. /\ k \in 0..(q - 1)
      /\ \A i \in 1..(q - 1) : stack[i].do = "run" => i =< k
      /\ \A i \in (k + 1)..(q - 1) : stack[i].do = "call"
  <2>1. \A i \in (k + 1)..(q - 1) : i = k + 1
    BY <1>1
  <2>2. \A i \in 1..(q - 1) : stack[i].do = "run" => i =< k
    <3>1. SUFFICES ASSUME NEW i \in 1..(q - 1), stack[i].do = "run" PROVE i =< k
      OBVIOUS
    <3>2. i =< m /\ i \in Nat /\ m \in Nat /\ m =< k
      BY <1>1, <3>1
    <3>3. QED
      BY <1>1, <3>2
  <2>3. k \in 0..(q - 1)
    BY <1>1
  <2>4. QED
    BY <1>1, <2>1, <2>2, <2>3
<1>9. QED
  BY <1>2, <1>4, <1>5, <1>6, <1>7, <1>8, FrameEnds

(* The place that waits for data, when the frame that was called is freed. *)
Awaited(k, h, c, b, j) ==
    /\ Wants(stack[k]) /\ stack[k + 1].dest = Slot(k) /\ Slot(k) = <<b, j>>
    /\ b \in DOMAIN h /\ j \in DOMAIN h[b].cells
    /\ Spared(k, {Slot(k)}, {}) /\ BuffersKept({Slot(k)})
    /\ stack[k + 1].as = "integer" => stack[k].do # "return" /\ At(heap, Slot(k)).type = "integer"
    /\ Slot(k) # c => h[b].cells[j] = At(heap, Slot(k))

(* The cell the caller waits on is still there. *)
LEMMA DestThere ==
    ASSUME IInv, NEW q, NEW f, EndsAt(q, f), NEW k, NEW m, Called(k, q, m),
           NEW S, NEW h, NEW c, NEW D, CallFreed(k, f, S, h, c, D),
           stack[k + 1].as # "statement", NEW b, NEW j, b = Slot(k)[1], j = Slot(k)[2]
    PROVE  Awaited(k, h, c, b, j)
<1>1. /\ k \in Nat /\ q = k + 2 /\ k \in 1..Len(stack) /\ k + 1 \in 1..Len(stack)
      /\ stack[k + 1].do = "call" /\ k \in 0..Len(stack) /\ k \in 1..k
  BY DEF Called
<1>2. Gives(stack[k + 1]) /\ stack[k + 1].do # "elements"
  BY <1>1 DEF Gives
<1>3. /\ Wants(stack[k]) /\ stack[k + 1].dest = Slot(k)
      /\ Slot(k) = <<Slot(k)[1], Slot(k)[2]>>
      /\ Slot(k)[1] \in DOMAIN heap /\ Slot(k)[2] \in DOMAIN heap[Slot(k)[1]].cells
      /\ At(heap, Slot(k)) = heap[Slot(k)[1]].cells[Slot(k)[2]]
      /\ stack[k + 1].do = "call" /\ stack[k + 1].as = "integer"
           => At(heap, Slot(k)).type = "integer"
  BY <1>1, <1>2, GivesIs
<1>4. Slot(k) = <<b, j>> /\ b \in DOMAIN heap /\ j \in DOMAIN heap[b].cells
      /\ At(heap, Slot(k)) = heap[b].cells[j]
  BY <1>3
<1>5. Alters(heap, h, {c}, D, {}) /\ Spared(k, {c}, D)
  BY DEF CallFreed
<1>6. b \notin D
  <2>1. PICK W : W = {c}
    OBVIOUS
  <2>2. Slot(k)[1] \notin D
    BY <1>1, <1>3, <1>5, <2>1, SlotOutside
  <2>3. QED
    BY <2>2
<1>7. /\ b \in DOMAIN h /\ DOMAIN h[b].cells = DOMAIN heap[b].cells
      /\ <<b, j>> \in {c} \/ h[b].cells[j] = heap[b].cells[j]
  BY <1>4, <1>5, <1>6 DEF Alters
<1>8. Spared(k, {Slot(k)}, {})
  <2>1. Aside(k, Slot(k))
    <3>1. k \in 0..k
      BY <1>1
    <3>2. QED
      BY <1>1, <1>3, <3>1, AsideSlot
  <2>2. PICK W : W = {Slot(k)}
    OBVIOUS
  <2>3. \A e \in W : Aside(k, e)
    BY <2>1, <2>2
  <2>4. Spared(k, W, {})
    BY <1>1, <2>3, SparedNone
  <2>5. QED
    BY <2>2, <2>4
<1>9. BuffersKept({Slot(k)})
  <2>1. \A n \in DOMAIN names : names[n].at # Slot(k)[1]
    BY <1>1, <1>3, SlotNoName
  <2>2. QED
    BY <1>3, <2>1 DEF BuffersKept
<1>10. stack[k + 1].as = "integer" => stack[k].do # "return"
  <2>1. k \in 1..(Len(stack) - 1)
    <3>1. Len(stack) \in Nat
      BY DEF EndsAt
    <3>2. QED
      BY <1>1, <3>1
  <2>2. QED
    BY <1>1, <2>1 DEF IInv, Returning
<1>11. QED
  BY <1>1, <1>3, <1>4, <1>7, <1>8, <1>9, <1>10 DEF Awaited

(* Data is cloned from the caller's result to where it goes. *)
LEMMA CallData ==
    ASSUME IInv, NEW q, NEW f, EndsAt(q, f), NEW k, NEW m, Called(k, q, m),
           NEW S, S = FrameBlocks(f), NEW b, b = stack[m].frame,
           NEW h, NEW c, c = <<b, RETV>>, NEW D, CallFreed(k, f, S, h, c, D),
           stack[k + 1].as # "statement",
           NEW e, e = Slot(k), e # c, NEW g, g = Clone(h, e, At(h, c))
    PROVE  HeapOK(g, Holders \ S) /\ \E K : Alters(h, g, {e}, {}, K)
<1>1. m \in 1..Len(stack) /\ stack[m].do = "run" /\ m # q
  BY DEF Called
<1>2. PICK v, H : v = heap[b].cells[RETV] /\ H = Holders \ S
  OBVIOUS
<1>3. /\ Held(stack[m]) = {b} /\ b \in Holders /\ b \in DOMAIN heap
      /\ RETV \in DOMAIN heap[b].cells /\ ~Borrows(v)
  BY <1>1, <1>2, RunCell
<1>4. /\ HeapOK(h, H) /\ Alters(heap, h, {c}, D, {}) /\ S \subseteq D /\ D \cap Holders \subseteq S
  BY <1>2 DEF CallFreed
<1>5. b \notin S
  <2>1. b # f /\ \A n \in DOMAIN names : names[n].at # b
    <3>1. Held(stack[q]) = {f} /\ q \in 2..Len(stack) /\ DOMAIN stack = 1..Len(stack)
          /\ Len(stack) \in Nat
      BY DEF EndsAt
    <3>2. q \in DOMAIN stack /\ m \in DOMAIN stack
      BY <1>1, <3>1
    <3>3. b # f
      BY <1>1, <1>3, <3>1, <3>2 DEF IInv, HeldOnce
    <3>4. \A n \in DOMAIN names : names[n].at # b
      BY <1>3, <3>2 DEF IInv, HeldOnce
    <3>5. QED
      BY <3>3, <3>4
  <2>2. OfFrame(f) \subseteq DOMAIN names
    BY DEF OfFrame
  <2>3. QED
    BY <2>1, <2>2 DEF FrameBlocks
<1>6. b \in H /\ b \notin D
  BY <1>2, <1>3, <1>4, <1>5
<1>7. b \in DOMAIN h /\ RETV \in DOMAIN h[b].cells
  BY <1>3, <1>4, <1>6 DEF Alters
<1>8. b \notin Beneath(h, b, RETV)
  BY <1>4, <1>6, <1>7, BelowIs
<1>9. PICK w : w = h[b].cells[RETV]
  OBVIOUS
<1>10. Source(h, w)
  BY <1>4, <1>7, <1>8, <1>9, SourceCell
<1>11. ~Borrows(w)
  <2>1. Borrows(w) => w = heap[b].cells[RETV]
    BY <1>4, <1>7, <1>9 DEF Alters
  <2>2. QED
    BY <1>2, <1>3, <2>1
<1>12. Plain(h)
  BY <1>4, PlainHeap, PlainKept
<1>13. PICK a, j : a = e[1] /\ j = e[2]
  OBVIOUS
<1>14. e = <<a, j>> /\ a \in DOMAIN h /\ j \in DOMAIN h[a].cells
  <2>1. a = Slot(k)[1] /\ j = Slot(k)[2]
    BY <1>13
  <2>2. Awaited(k, h, c, a, j)
    BY <2>1, DestThere
  <2>3. QED
    BY <2>2 DEF Awaited
<1>15. g = Clone(h, <<a, j>>, w)
  BY <1>9, <1>14 DEF At
<1>16. HeapOK(g, H) /\ Alters(h, g, {<<a, j>>}, {}, Owns(h[a].cells[j]))
  <2>1. IsFiniteSet(DOMAIN heap)
    BY HeldFacts
  <2> DEFINE x == Clone(h, <<a, j>>, w)
  <2>2. /\ HeapOK(x, H) /\ Alters(h, x, {<<a, j>>}, {}, Owns(h[a].cells[j]))
    BY <1>4, <1>10, <1>11, <1>12, <1>14, <2>1, CloneAlters
  <2> HIDE DEF x
  <2>3. g = x
    BY <1>15 DEF x
  <2>4. QED
    BY <2>2, <2>3
<1>17. QED
  BY <1>2, <1>14, <1>16

(* An integer gets its value. *)
LEMMA CallInteger ==
    ASSUME IInv, NEW q, NEW f, EndsAt(q, f), NEW k, NEW m, Called(k, q, m),
           NEW S, S = FrameBlocks(f), NEW b, b = stack[m].frame,
           NEW h, NEW c, c = <<b, RETV>>, NEW D, CallFreed(k, f, S, h, c, D),
           stack[k + 1].as = "integer", NEW e, e = Slot(k),
           NEW x \in Number, NEW g, g = Put(h, e, SetValue(At(h, e), x))
    PROVE  HeapOK(g, Holders \ S) /\ \E K : Alters(h, g, {e}, {}, K)
<1>1. PICK a, j, H : a = Slot(k)[1] /\ j = Slot(k)[2] /\ H = Holders \ S
  OBVIOUS
<1>2. HeapOK(h, H)
  BY <1>1 DEF CallFreed
<1>3. /\ Wants(stack[k]) /\ Slot(k) = <<a, j>> /\ a \in DOMAIN h /\ j \in DOMAIN h[a].cells
      /\ stack[k].do # "return" /\ At(heap, Slot(k)).type = "integer"
      /\ Slot(k) # c => h[a].cells[j] = At(heap, Slot(k))
  <2>1. stack[k + 1].as # "statement"
    OBVIOUS
  <2>2. Awaited(k, h, c, a, j)
    BY <1>1, <2>1, DestThere
  <2>3. QED
    BY <2>2 DEF Awaited
<1>4. e # c
  <2>1. k \in 1..k
    BY DEF Called
  <2>2. QED
    BY <1>3, <2>1, CallerSlot
<1>5. e = <<a, j>> /\ At(h, e) = h[a].cells[j] /\ At(h, e).type = "integer"
  BY <1>3, <1>4 DEF At
<1>6. PICK v : v = Integer(x)
  OBVIOUS
<1>7. SetValue(At(h, e), x) = v
  BY <1>5, <1>6, OwnsIs DEF SetValue
<1>8. v \in Value /\ Owns(v) = {} /\ ~Borrows(v)
  BY <1>6, IntegerValue
<1>9. g = Put(h, <<a, j>>, v)
  BY <1>5, <1>7
<1> DEFINE y == Put(h, <<a, j>>, v)
<1>10. HeapOK(y, H) /\ Alters(h, y, {<<a, j>>}, {}, Owns(h[a].cells[j]))
  BY <1>2, <1>3, <1>8, PutAlters
<1> HIDE DEF y
<1>11. g = y
  BY <1>9 DEF y
<1>12. QED
  BY <1>1, <1>5, <1>10, <1>11

(* The return of a call keeps the invariant. *)
LEMMA EndCallOK ==
    ASSUME IInv, EndCall
    PROVE  IInv'
<1>1. PICK q, f, k, m : q = Base /\ f = Frame /\ k = q - 2 /\ m = RunOf(Below)
  OBVIOUS
<1>2. PICK b, c, S : b = Below[m].frame /\ c = <<b, RETV>> /\ S = FrameBlocks(f)
  OBVIOUS
<1>3. PICK g, h, D : /\ g = Clone(Clean(heap, c), c, At(heap, <<f, RETV>>))
                     /\ h = FreeFrame(g, f)
                     /\ D = Beneath(heap, b, RETV) \cup Tree(heap, S)
  OBVIOUS
<1>4. PICK d : d = Last(Below)
  OBVIOUS
<1>5. Ended /\ Base > 1 /\ lang' = lang /\ d.do = "call" /\ stack' = Front(Below)
  BY <1>4 DEF EndCall
<1>6. EndsAt(q, f)
  BY <1>1, <1>5, EndsIs
<1>7. /\ Called(k, q, m) /\ d = stack[k + 1] /\ b = stack[m].frame
      /\ Below \in Seq(Entry) /\ Len(Below) = k + 1 /\ Below # <<>>
      /\ \A i \in 1..(k + 1) : Below[i] = stack[i]
  BY <1>1, <1>2, <1>4, <1>5, CalledIs
<1>8. CallFreed(k, f, S, h, c, D)
  BY <1>2, <1>3, <1>6, <1>7, CallFreedIs
<1>9. k \in Nat /\ k \in 1..Len(stack) /\ k + 1 \in 1..Len(stack) /\ d.do = "call"
  BY <1>5, <1>7 DEF Called
<1>10. Kept(k) /\ Len(stack') = k
  <2>1. PICK s : s = Below
    OBVIOUS
  <2>2. /\ s \in Seq(Entry) /\ Len(s) = k + 1 /\ s # <<>>
        /\ \A i \in 1..(k + 1) : s[i] = stack[i]
    BY <1>7, <2>1
  <2>3. /\ Front(s) \in Seq(Entry) /\ Len(Front(s)) = Len(s) - 1
        /\ \A i \in 1..(Len(s) - 1) : Front(s)[i] = s[i]
    BY <2>2, PopIs
  <2>4. /\ stack' \in Seq(Entry) /\ Len(stack') = k /\ \A i \in 1..k : stack'[i] = stack[i]
    BY <1>5, <1>9, <2>1, <2>2, <2>3
  <2>5. QED
    BY <1>9, <2>4 DEF Kept
<1>11. NamesGo(f)
  BY <1>1 DEF EndCall, NamesGo
<1>12. /\ d.as = "statement" => heap' = h
       /\ d.as = "data" => heap' = IF d.dest = c THEN h ELSE Clone(h, d.dest, At(h, c))
       /\ d.as = "integer" =>
            \E x \in Number : heap' = Put(h, d.dest, SetValue(At(h, d.dest), x))
  BY <1>1, <1>2, <1>3, <1>4 DEF EndCall, Retv
<1>13. d \in Entry /\ d.as \in {"statement", "data", "integer"}
  <2>1. d \in Entry
    BY <1>7, <1>9, HeldFacts, StackFacts
  <2>2. QED
    BY <1>9, <2>1, EntryIs
<1>14. CASE heap' = h
  <2>1. PICK V : V = {}
    OBVIOUS
  <2>2. Alters(h, heap', V, {}, {})
    BY <1>14, <2>1, AltersNone
  <2>3. HeapOK(heap', Holders \ S)
    BY <1>8, <1>14 DEF CallFreed
  <2>4. Spared(k, V, {}) /\ BuffersKept(V)
    <3>1. k \in 0..Len(stack) /\ \A e \in V : Aside(k, e)
      BY <1>9, <2>1
    <3>2. QED
      BY <2>1, <3>1, SparedNone DEF BuffersKept
  <2>5. QED
    BY <1>2, <1>5, <1>6, <1>7, <1>8, <1>10, <1>11, <2>2, <2>3, <2>4, CallEnds
<1>15. ASSUME d.as # "statement", NEW e, e = d.dest, HeapOK(heap', Holders \ S),
              NEW K, Alters(h, heap', {e}, {}, K)
       PROVE  IInv'
  <2>1. PICK V, a, j : V = {e} /\ a = Slot(k)[1] /\ j = Slot(k)[2]
    OBVIOUS
  <2>2. stack[k + 1].dest = Slot(k) /\ Spared(k, {Slot(k)}, {}) /\ BuffersKept({Slot(k)})
    <3>1. Awaited(k, h, c, a, j)
      BY <1>6, <1>7, <1>8, <1>15, <2>1, DestThere
    <3>2. QED
      BY <3>1 DEF Awaited
  <2>3. V = {Slot(k)}
    BY <1>7, <1>15, <2>1, <2>2
  <2>4. Alters(h, heap', V, {}, K) /\ Spared(k, V, {}) /\ BuffersKept(V)
    BY <1>15, <2>1, <2>2, <2>3
  <2>5. QED
    BY <1>2, <1>5, <1>6, <1>7, <1>8, <1>10, <1>11, <1>15, <2>4, CallEnds
<1>16. d.as # "statement" => d.dest = Slot(k)
  <2>1. PICK a, j : a = Slot(k)[1] /\ j = Slot(k)[2]
    OBVIOUS
  <2>2. d.as # "statement" => Awaited(k, h, c, a, j)
    BY <1>6, <1>7, <1>8, <2>1, DestThere
  <2>3. QED
    BY <1>7, <2>2 DEF Awaited
<1>17. CASE d.as = "data" /\ d.dest # c
  <2>1. PICK e, w : e = d.dest /\ w = Clone(h, e, At(h, c))
    OBVIOUS
  <2>2. heap' = w
    BY <1>12, <1>17, <2>1
  <2>3. e = Slot(k) /\ e # c /\ stack[k + 1].as # "statement"
    BY <1>7, <1>16, <1>17, <2>1
  <2>4. HeapOK(w, Holders \ S) /\ \E K : Alters(h, w, {e}, {}, K)
    BY <1>2, <1>6, <1>7, <1>8, <2>1, <2>3, CallData
  <2>5. QED
    BY <1>15, <1>17, <2>1, <2>2, <2>4
<1>18. CASE d.as = "integer"
  <2>1. PICK x \in Number : heap' = Put(h, d.dest, SetValue(At(h, d.dest), x))
    BY <1>12, <1>18
  <2>2. PICK e, w : e = d.dest /\ w = Put(h, e, SetValue(At(h, e), x))
    OBVIOUS
  <2>3. heap' = w
    BY <2>1, <2>2
  <2>4. e = Slot(k) /\ stack[k + 1].as = "integer"
    BY <1>7, <1>16, <1>18, <2>2
  <2>5. HeapOK(w, Holders \ S) /\ \E K : Alters(h, w, {e}, {}, K)
    BY <1>2, <1>6, <1>7, <1>8, <2>2, <2>4, CallInteger
  <2>6. QED
    BY <1>15, <1>18, <2>2, <2>3, <2>5
<1>19. QED
  BY <1>12, <1>13, <1>14, <1>17, <1>18

-----------------------------------------------------------------------------
(* The invariant holds from the beginning, and every step keeps it, if no  *)
(* language has calls in what is returned.                                 *)
NoneComputed == \A l \in Languages : "computed" \notin l.forms

(* The invariant holds at first. *)
LEMMA InitOK ==
    ASSUME Init
    PROVE  IInv
<1>1. DOMAIN heap = {} /\ DOMAIN names = {} /\ stack = <<>> /\ lang \in Languages
  BY DEF Init
<1>2. Len(stack) = 0 /\ DOMAIN stack = {} /\ stack \in Seq(Entry)
  BY <1>1
<1>3. Holders = {}
  BY <1>1, <1>2 DEF Holders
<1>4. IsFiniteSet({})
  BY FS_EmptySet
<1>5. HeapOK(heap, Holders)
  BY <1>1, <1>3, <1>4 DEF HeapOK
<1>6. StackOK /\ Destined /\ Returning
  BY <1>1, <1>2 DEF StackOK, Destined, Returning
<1>7. HeldOnce /\ Sizes /\ Unwritten
  BY <1>1, <1>2 DEF HeldOnce, Sizes, Unwritten
<1>8. NamesOK /\ BorrowedCells /\ BorrowedBytes
  BY <1>1, <1>2 DEF NamesOK, BorrowedCells, BorrowedBytes
<1>9. QED
  BY <1>1, <1>5, <1>6, <1>7, <1>8 DEF IInv

(* The invariant holds when nothing changes. *)
LEMMA StutterOK ==
    ASSUME IInv, UNCHANGED vars
    PROVE  IInv'
<1>1. lang' = lang /\ names' = names /\ stack' = stack
  BY DEF vars
<1>2. heap' = heap
  BY DEF vars
<1>3. PICK k : k = Len(stack)
  OBVIOUS
<1>4. RunsStay(k) /\ FramesGo(k) /\ k \in 0..Len(stack) /\ k \in Nat
  BY <1>3, AllStay
<1>5. stack \in Seq(Entry) /\ HeapOK(heap, Holders)
  BY HeldFacts, StackFacts
<1>6. Kept(k) /\ Len(stack') = k
  BY <1>1, <1>3, <1>4, <1>5 DEF Kept
<1>7. Tops(k) /\ Joined(k)
  BY <1>6, CutStep
<1>8. Spared(k, {}, {}) /\ BuffersKept({})
  BY <1>4, SparedNone DEF BuffersKept
<1>9. Alters(heap, heap', {}, {}, {}) /\ HeapOK(heap', Holders)
  BY <1>2, <1>5, AltersNone
<1>10. /\ Holders \subseteq Holders \cup {}
       /\ \A i \in (k + 1)..Len(stack') : Held(stack'[i]) \subseteq Holders
       /\ \A n \in DOMAIN names : names[n].at \notin {}
  <2>1. \A i \in (k + 1)..Len(stack') : FALSE
    BY <1>4, <1>6
  <2>2. QED
    BY <2>1
<1>11. QED
  BY <1>1, <1>4, <1>6, <1>7, <1>8, <1>9, <1>10, Pushed

(* Each step keeps the invariant. *)
LEMMA StepKeeps ==
    ASSUME NoneComputed, IInv, Step
    PROVE  IInv'
<1>1. ~Has("computed")
  BY DEF NoneComputed, Has, IInv
<1>2. CASE LoadTable
  BY <1>2, LoadTableOK
<1>3. CASE EvalMethod
  BY <1>3, EvalMethodOK
<1>4. CASE HostDone
  BY <1>4, HostDoneOK
<1>5. ASSUME NEW n \in Names, EvalNode(n) PROVE IInv'
  BY <1>5, EvalNodeOK
<1>6. CASE BeginStore
  BY <1>6, BeginStoreOK
<1>7. CASE EndStore
  BY <1>7, EndStoreOK
<1>8. CASE Compute
  BY <1>8, ComputeOK
<1>9. CASE BeginReturn
  BY <1>9, BeginReturnOK
<1>10. ASSUME NEW n \in Names, BeginName(n) PROVE IInv'
  BY <1>10, BeginNameOK
<1>11. ASSUME NEW n \in Names, NEW m \in Names, CreateField(m, n) PROVE IInv'
  BY <1>11, CreateFieldOK
<1>12. CASE EndName
  BY <1>12, EndNameOK
<1>13. CASE Literal
  BY <1>13, LiteralOK
<1>14. CASE Operand
  BY <1>14, OperandOK
<1>15. CASE RefOf
  BY <1>15, RefOfOK
<1>16. CASE BeginPackage
  BY <1>16, BeginPackageOK
<1>17. CASE NextElement
  BY <1>17, NextElementOK
<1>18. CASE EndPackage
  BY <1>18, EndPackageOK
<1>19. ASSUME NEW type \in {"string", "buffer"}, BeginConvert(type) PROVE IInv'
  BY <1>19, BeginConvertOK
<1>20. CASE EndConvert
  BY <1>20, EndConvertOK
<1>21. ASSUME NEW as \in {"statement", "data", "integer"}, BeginCall(as) PROVE IInv'
  BY <1>1, <1>21, BeginCallOK
<1>22. CASE EndArgs
  BY <1>22, EndArgsOK
<1>23. CASE EndCall
  BY <1>23, EndCallOK
<1>24. CASE EndMethod
  BY <1>24, EndMethodOK
<1>25. CASE EndTable
  BY <1>25, EndTableOK
<1>26. CASE Increment
  BY <1>26, IncrementOK
<1>27. QED
  BY <1>2, <1>3, <1>4, <1>5, <1>6, <1>7, <1>8, <1>9, <1>10, <1>11, <1>12, <1>13, <1>14,
     <1>15, <1>16, <1>17, <1>18, <1>19, <1>20, <1>21, <1>22, <1>23, <1>24, <1>25, <1>26 DEF Step

(* The invariant holds in every reachable state: each block has one owner, *)
(* each function that waits has a place for what it waits for, and what    *)
(* points without owning points to what is there. Nothing that is returned *)
(* may be built from calls: the code then frees what it is building, as    *)
(* the run data_computed shows.                                            *)
THEOREM DataInvariantHolds ==
    ASSUME NoneComputed
    PROVE  Spec => []IInv
<1>1. Init => IInv
  BY InitOK
<1>2. IInv /\ [Next]_vars => IInv'
  BY StepKeeps, StutterOK DEF Next
<1>3. QED
  BY <1>1, <1>2, PTL DEF Spec

-----------------------------------------------------------------------------
(* Names, blocks and functions are of their kinds. *)
LEMMA TypesIs ==
    ASSUME IInv
    PROVE  TypeOK
<1>1. /\ StackOK /\ DOMAIN stack = 1..Len(stack) /\ Len(stack) \in Nat
      /\ \A i \in 1..Len(stack) : stack[i] \in Entry
  BY HeldFacts, StackFacts
<1>2. lang \in Languages
  BY DEF IInv
<1>3. DOMAIN heap \subseteq Nat \ {0} /\ \A b \in DOMAIN heap : heap[b].val \in Number
  BY DEF IInv, HeapOK, IsBlock, NamesOK
<1>4. DOMAIN names \subseteq Names
  BY DEF IInv, NamesOK
<1>5. ASSUME NEW n \in DOMAIN names
      PROVE  names[n].frame \in {0} \cup {stack[i].frame :
                               i \in {j \in DOMAIN stack : stack[j].do = "run"}}
  <2>1. names[n].frame # 0 => RunsBelow(names[n].frame, Len(stack))
    BY DEF IInv, NamesOK
  <2>2. QED
    BY <1>1, <2>1 DEF RunsBelow
<1>6. \A i \in DOMAIN stack :
         stack[i].do \in {"run", "host", "store", "return", "name", "eval",
                          "elements", "convert", "call", "args"}
  BY <1>1, EntryIs
<1>7. QED
  BY <1>2, <1>3, <1>4, <1>5, <1>6 DEF TypeOK

(* Names, blocks and functions that wait are of their kinds; a name's      *)
(* frame is one that runs.                                                 *)
THEOREM DataTypes ==
    ASSUME NoneComputed
    PROVE  Spec => []TypeOK
BY DataInvariantHolds, TypesIs, PTL

-----------------------------------------------------------------------------
(* As many blocks are owned as there are cells that own one. *)
LEMMA OwnersCount ==
    ASSUME IInv, NEW owners, owners = {c \in Cells : Owns(At(heap, c)) # {}},
           NEW owned, owned = {At(heap, c).at : c \in owners}
    PROVE  Cardinality(owned) = Cardinality(owners) /\ owned \subseteq DOMAIN heap \ Holders
<1>1. /\ HeapOK(heap, Holders) /\ IsFiniteSet(DOMAIN heap)
      /\ \A a, i, b : Points(heap, a, i, b) => b \notin Holders /\ b \in DOMAIN heap
      /\ \A a, i, c, j, b : Points(heap, a, i, b) /\ Points(heap, c, j, b) => a = c /\ i = j
  BY HeldFacts
<1>2. \A c \in owners : c = <<c[1], c[2]>> /\ Points(heap, c[1], c[2], At(heap, c).at)
  <2>1. SUFFICES ASSUME NEW c \in owners
                 PROVE  c = <<c[1], c[2]>> /\ Points(heap, c[1], c[2], At(heap, c).at)
    OBVIOUS
  <2>2. PICK b \in DOMAIN heap : c \in {b} \X DOMAIN heap[b].cells
    BY DEF Cells
  <2>3. c = <<c[1], c[2]>> /\ c[1] \in DOMAIN heap /\ c[2] \in DOMAIN heap[c[1]].cells
    BY <2>2
  <2>4. Owns(At(heap, c)) = {At(heap, c).at}
    BY OwnsIs
  <2>5. QED
    BY <2>3, <2>4 DEF Points, At
<1>3. owned \subseteq DOMAIN heap \ Holders
  BY <1>1, <1>2
<1>4. IsFiniteSet(owned)
  BY <1>1, <1>3, FS_Subset
<1> DEFINE f == [c \in owners |-> At(heap, c).at]
<1>5. f \in Injection(owners, owned)
  <2>1. f \in [owners -> owned]
    OBVIOUS
  <2>2. ASSUME NEW c \in owners, NEW d \in owners, f[c] = f[d] PROVE c = d
    <3>1. At(heap, c).at = At(heap, d).at
      BY <2>2
    <3>2. c[1] = d[1] /\ c[2] = d[2]
      BY <1>1, <1>2, <3>1
    <3>3. QED
      BY <1>2, <3>2
  <2>3. QED
    BY <2>1, <2>2 DEF Injection, IsInjective
<1>6. f \in Surjection(owners, owned)
  BY DEF Surjection
<1>7. Cardinality(owners) = Cardinality(owned)
  BY <1>4, <1>5, <1>6, FS_Injection
<1>8. QED
  BY <1>3, <1>7

(* The invariant gives OwnedOnce. *)
LEMMA OwnedOnceIs ==
    ASSUME IInv
    PROVE  OwnedOnce
<1>1. PICK owners : owners = {c \in Cells : Owns(At(heap, c)) # {}}
  OBVIOUS
<1>2. PICK owned : owned = {At(heap, c).at : c \in owners}
  OBVIOUS
<1>3. Cardinality(owned) = Cardinality(owners) /\ owned \subseteq DOMAIN heap \ Holders
  BY <1>1, <1>2, OwnersCount
<1>4. Holders \subseteq DOMAIN heap
  BY HeldFacts
<1>5. QED
  BY <1>1, <1>2, <1>3, <1>4 DEF OwnedOnce

(* Each block that a variable, a name, an element or a function owns is    *)
(* allocated and has no other owner, so that none is freed twice. This is  *)
(* of programs in which only integers are incremented: sabi_def_increment  *)
(* reads what it is given without a copy, and writes back the moved        *)
(* pointer of anything else. And sabi_integer, which converts a variable   *)
(* that it has not set, is taken to get a number from it, or not to return.*)
THEOREM DataOwnedOnce ==
    ASSUME NoneComputed
    PROVE  Spec => []OwnedOnce
BY DataInvariantHolds, OwnedOnceIs, PTL

-----------------------------------------------------------------------------
(* What is owned by what is held. *)
LEMMA AliveIs ==
    ASSUME IInv, NEW T, T = Tree(heap, Holders)
    PROVE  /\ Holders \subseteq T /\ T \subseteq DOMAIN heap
           /\ \A a, i, b : a \in T /\ Points(heap, a, i, b) => b \in T
           /\ \A x \in T : \/ x \in Holders
                           \/ \E a, i : a \in T /\ Points(heap, a, i, x)
<1>1. HeapOK(heap, Holders) /\ Holders \in SUBSET Nat /\ Holders \subseteq DOMAIN heap
  BY HeldFacts
<1>2. Whole(heap)
  BY <1>1, HeapFacts
<1>3. /\ Holders \subseteq Tree(heap, Holders) /\ Tree(heap, Holders) \subseteq Holders \cup DOMAIN heap
      /\ \A a, i, b : a \in Tree(heap, Holders) /\ Points(heap, a, i, b) => b \in Tree(heap, Holders)
      /\ \A x \in Tree(heap, Holders) :
           \/ x \in Holders
           \/ \E a, i : a \in Tree(heap, Holders) /\ Points(heap, a, i, x)
  BY <1>1, <1>2, TreeIs
<1>4. QED
  BY <1>1, <1>3

(* The invariant gives PendingAlive. *)
LEMMA PendingAliveIs ==
    ASSUME IInv
    PROVE  PendingAlive
<1>1. /\ StackOK /\ DOMAIN stack = 1..Len(stack) /\ Len(stack) \in Nat
      /\ \A i \in 1..Len(stack) : stack[i] \in Entry
      /\ \A i \in 1..Len(stack) : Held(stack[i]) \subseteq Holders
      /\ \A a, i, b : Points(heap, a, i, b) => b \notin Holders /\ b \in DOMAIN heap
  BY HeldFacts, StackFacts
<1>2. PICK T : T = Tree(heap, Holders)
  OBVIOUS
<1>3. /\ Holders \subseteq T /\ T \subseteq DOMAIN heap
      /\ \A a, i, b : a \in T /\ Points(heap, a, i, b) => b \in T
  BY <1>2, AliveIs
<1>4. PICK k, D, X : k = Len(stack) /\ D = DOMAIN heap \ T /\ X = {}
  OBVIOUS
<1>5. \A i \in 1..k : stack[i].do = "elements" => stack[i].at \notin D
  <2>1. k \in 0..Len(stack)
    BY <1>1, <1>4
  <2>2. \A a, j, c : Points(heap, a, j, c) /\ c \in D => a \in D \/ <<a, j>> \in X
    BY <1>3, <1>4 DEF Points
  <2>3. \A i \in 1..k : Held(stack[i]) \cap D = {}
    BY <1>1, <1>3, <1>4
  <2>4. \A i \in 1..(k - 1) : stack[i + 1].do = "elements" =>
          Points(heap, Slot(i)[1], Slot(i)[2], stack[i + 1].at) /\ Slot(i) \notin X
    <3>1. SUFFICES ASSUME NEW i \in 1..(k - 1), stack[i + 1].do = "elements"
                   PROVE  Points(heap, Slot(i)[1], Slot(i)[2], stack[i + 1].at)
      BY <1>4
    <3>2. i + 1 \in 2..Len(stack) /\ i + 1 - 1 = i
      BY <1>1, <1>4
    <3>3. Points(heap, Slot(i + 1 - 1)[1], Slot(i + 1 - 1)[2], stack[i + 1].at)
      BY <3>1, <3>2, ElementsHome
    <3>4. QED
      BY <3>2, <3>3
  <2>5. QED
    BY <1>1, <2>1, <2>2, <2>3, <2>4, Chain
<1>6. ASSUME NEW i \in 1..Len(stack), stack[i].do = "elements" PROVE stack[i].at \in T
  <2>1. i \in 2..Len(stack)
    BY <1>1, <1>6, StackFacts DEF Wants
  <2>2. stack[i].at \in DOMAIN heap
    BY <1>6, <2>1, ElementsHome
  <2>3. QED
    BY <1>4, <1>5, <1>6, <2>2
<1>7. ASSUME NEW i \in 1..Len(stack), Wants(stack[i]) PROVE Slot(i)[1] \in T
  <2>1. \/ \E j \in 1..Len(stack) : j =< i /\ Slot(i)[1] \in Held(stack[j])
        \/ stack[i].do = "elements" /\ Slot(i)[1] = stack[i].at
    BY <1>1, <1>7, SlotBlock
  <2>2. QED
    BY <1>1, <1>3, <1>6, <2>1
<1>8. ASSUME NEW i \in 1..Len(stack), "dest" \in DOMAIN stack[i] PROVE stack[i].dest[1] \in T
  <2>1. stack[i].do \in {"eval", "convert"} \/ (stack[i].do = "call" /\ stack[i].as # "statement")
    BY <1>1, <1>8, EntryIs
  <2>2. Gives(stack[i]) /\ stack[i].do # "elements" /\ stack[i].do \notin {"run", "host"}
    BY <2>1 DEF Gives
  <2>3. i # 1
    <3>1. stack # <<>>
      BY <1>1, <1>8
    <3>2. QED
      BY <1>1, <2>2, <3>1, StackFacts
  <2>4. i - 1 \in 1..Len(stack) /\ i - 1 + 1 = i
    BY <1>1, <2>3
  <2>5. PICK p \in 1..Len(stack) : p = i - 1 /\ p + 1 = i
    BY <2>4
  <2>6. Wants(stack[p]) /\ stack[p + 1].dest = Slot(p)
    BY <2>2, <2>5, GivesIs
  <2>7. QED
    BY <1>7, <2>5, <2>6
<1>9. ASSUME NEW i \in 1..Len(stack), "at" \in DOMAIN stack[i] PROVE stack[i].at \in T
  <2>1. stack[i].do = "elements"
    BY <1>1, <1>9, EntryIs
  <2>2. QED
    BY <1>6, <2>1
<1>10. T \subseteq DOMAIN heap
  BY <1>3
<1>11. QED
  BY <1>1, <1>2, <1>8, <1>9, <1>10 DEF PendingAlive

(* Where a function that waits will put its data is still owned when it    *)
(* has the data.                                                           *)
THEOREM DataPendingAlive ==
    ASSUME NoneComputed
    PROVE  Spec => []PendingAlive
BY DataInvariantHolds, PendingAliveIs, PTL

-----------------------------------------------------------------------------
(* The invariant gives BorrowsAlive. *)
LEMMA BorrowsAliveIs ==
    ASSUME IInv
    PROVE  BorrowsAlive
<1>1. /\ StackOK /\ DOMAIN stack = 1..Len(stack) /\ Len(stack) \in Nat
      /\ \A i \in 1..Len(stack) : stack[i] \in Entry
      /\ \A i \in 1..Len(stack) : Held(stack[i]) \subseteq Holders
      /\ \A n \in DOMAIN names : names[n].at \in Holders
      /\ Holders \subseteq DOMAIN heap
      /\ \A a, i, b : Points(heap, a, i, b) => b \in DOMAIN heap
  BY HeldFacts, StackFacts
<1>2. PICK T : T = Tree(heap, Holders)
  OBVIOUS
<1>3. SUFFICES ASSUME NEW a \in DOMAIN heap, NEW k \in DOMAIN heap[a].cells, a \in T,
                      NEW v, v = heap[a].cells[k]
               PROVE  /\ v.type = "field" => v.of \in DOMAIN heap
                      /\ v.type = "reference" => v.to.cell \in Cells
  <2>1. SUFFICES ASSUME NEW c \in Cells, c[1] \in T, NEW v, v = At(heap, c)
                 PROVE  /\ v.type = "field" => v.of \in DOMAIN heap
                        /\ v.type = "reference" => v.to.cell \in Cells
    BY <1>2 DEF BorrowsAlive
  <2>2. c[1] \in DOMAIN heap /\ c[2] \in DOMAIN heap[c[1]].cells
    BY DEF Cells
  <2>3. v = heap[c[1]].cells[c[2]]
    BY <2>1 DEF At
  <2>4. QED
    BY <1>3, <2>1, <2>2, <2>3
<1>4. ASSUME v.type = "field" PROVE v.of \in DOMAIN heap
  <2>1. /\ a \notin UNION {OwnedBy(heap, b) : b \in DOMAIN heap}
        /\ \A i \in DOMAIN stack : a \notin Held(stack[i])
        /\ \A n \in DOMAIN names : names[n].at = a =>
             \E m \in DOMAIN names :
               At(heap, <<names[m].at, 1>>) = Owner("buffer", v.of) /\ Outlives(m, n)
    BY <1>3, <1>4 DEF IInv, BorrowedBytes
  <2>2. ~\E b, i : Points(heap, b, i, a)
    BY <2>1 DEF Points, OwnedBy
  <2>3. a \in Holders
    BY <1>2, <1>3, <2>2, AliveIs
  <2>4. \E n \in DOMAIN names : names[n].at = a
    BY <1>1, <2>1, <2>3, HoldersAre DEF StackOK
  <2>5. PICK m \in DOMAIN names : At(heap, <<names[m].at, 1>>) = Owner("buffer", v.of)
    BY <2>1, <2>4
  <2>6. names[m].at \in DOMAIN heap /\ 1 \in DOMAIN heap[names[m].at].cells
    <3>1. DOMAIN heap[names[m].at].cells = {1}
      BY DEF IInv, Sizes
    <3>2. QED
      BY <1>1, <3>1
  <2>7. Points(heap, names[m].at, 1, v.of)
    BY <2>5, <2>6, OwnsIs DEF Points, At
  <2>8. QED
    BY <1>1, <2>7
<1>5. ASSUME v.type = "reference" PROVE v.to.cell \in Cells
  <2>1. PICK i \in DOMAIN stack : Reaches(v.to, i)
    BY <1>3, <1>5 DEF IInv, BorrowedCells
  <2>2. CASE \E n \in DOMAIN names : v.to = InCell("data", <<names[n].at, 1>>)
    <3>1. PICK n \in DOMAIN names : v.to.cell = <<names[n].at, 1>>
      BY <2>2 DEF InCell
    <3>2. DOMAIN heap[names[n].at].cells = {1} /\ names[n].at \in DOMAIN heap
      BY <1>1 DEF IInv, Sizes
    <3>3. QED
      BY <3>1, <3>2 DEF Cells
  <2>3. CASE \E f \in {stack[j].frame : j \in {r \in 1..(i - 1) : stack[r].do = "run"}} :
               v.to \in {InCell("local", <<f, LOCAL0>>), InCell("arg", <<f, ARG>>)}
    <3>1. PICK j \in 1..(i - 1) :
            /\ stack[j].do = "run"
            /\ v.to.cell \in {<<stack[j].frame, LOCAL0>>, <<stack[j].frame, ARG>>}
      BY <2>3 DEF InCell
    <3>2. j \in 1..Len(stack) /\ stack[j] \in Entry
      BY <1>1, <2>1, <3>1
    <3>3. Held(stack[j]) = {stack[j].frame}
      BY <3>1, <3>2, HeldIs
    <3>4. stack[j].frame \in DOMAIN heap /\ DOMAIN heap[stack[j].frame].cells = 1..3
      BY <1>1, <3>1, <3>2, <3>3 DEF IInv, Sizes, Sized
    <3>5. LOCAL0 \in 1..3 /\ ARG \in 1..3
      BY DEF LOCAL0, ARG
    <3>6. QED
      BY <3>1, <3>4, <3>5 DEF Cells
  <2>4. QED
    BY <2>1, <2>2, <2>3 DEF Reaches
<1>6. QED
  BY <1>4, <1>5

(* What a field or a reference leads to, without owning it, is there: the  *)
(* buffer of a name lives as long as its fields, and what an argument      *)
(* refers to as long as the call.                                          *)
THEOREM DataBorrowsAlive ==
    ASSUME NoneComputed
    PROVE  Spec => []BorrowsAlive
BY DataInvariantHolds, BorrowsAliveIs, PTL

=============================================================================
