--------------------------- MODULE DataInvariant ---------------------------
(***************************************************************************)
(* The inductive invariant of DataOwnership: what blocks own, which        *)
(* functions may wait for which, and where each of them will put its data. *)
(***************************************************************************)
EXTENDS DataOwnership

-----------------------------------------------------------------------------
(* Blocks. *)
Value ==
    [type : {"null", "junk"}]
    \cup [type : {"integer"}, val : Number]
    \cup [type : {"string", "buffer", "package"}, at : Nat]
    \cup [type : {"field"}, of : Nat]
    \cup [type : {"reference"},
          to : [flag : {"data", "local", "arg"}, cell : Nat \X Nat]]

IsBlock(x) ==
    /\ x = [cells |-> x.cells, val |-> x.val]
    /\ x.cells \in [DOMAIN x.cells -> Value]
    /\ x.val \in Number

(* The cell i of block a owns the block b. *)
Points(h, a, i, b) ==
    a \in DOMAIN h /\ i \in DOMAIN h[a].cells /\ b \in Owns(h[a].cells[i])

(* A heap whose blocks H are held, by names and by functions: each other   *)
(* block has one cell that owns it at most.                                *)
HeapOK(h, H) ==
    /\ IsFiniteSet(DOMAIN h) /\ DOMAIN h \subseteq Nat
    /\ \A a \in DOMAIN h : IsBlock(h[a])
    /\ H \subseteq DOMAIN h
    /\ \A a \in DOMAIN h : \A i \in DOMAIN h[a].cells :
         Owns(h[a].cells[i]) \subseteq DOMAIN h \ H
    /\ \A a, b \in DOMAIN h : \A i \in DOMAIN h[a].cells, j \in DOMAIN h[b].cells :
         Owns(h[a].cells[i]) \cap Owns(h[b].cells[j]) # {} => a = b /\ i = j

-----------------------------------------------------------------------------
(* Functions that wait. *)
Entry ==
    [do : {"run", "args"}, frame : Nat]
    \cup [do : {"host", "store"}, own : Nat]
    \cup [do : {"name"}, name : Names, own : Nat]
    \cup [do : {"return"}]
    \cup [do : {"eval"}, dest : Nat \X Nat]
    \cup [do : {"elements"}, at : Nat, next : Nat, given : Nat]
    \cup [do : {"convert"}, own : Nat, type : {"string", "buffer"}, dest : Nat \X Nat]
    \cup [do : {"call"}, as : {"statement"}]
    \cup [do : {"call"}, as : {"data", "integer"}, dest : Nat \X Nat]

(* What a function holds. *)
Held(e) ==
    CASE e.do \in {"run", "args"} -> {e.frame}
      [] e.do \in {"host", "store", "name", "convert"} -> {e.own}
      [] OTHER -> {}

(* What has data evaluated, and what evaluates it. *)
Wants(e) == e.do \in {"store", "name", "return", "elements", "convert", "args"}
Gives(e) ==
    \/ e.do \in {"eval", "elements", "convert"}
    \/ e.do = "call" /\ e.as # "statement"

(* The function d may stand on top of e. *)
Above(e, d) ==
    CASE e.do = "host" -> d.do = "run"
      [] e.do = "run" -> d.do \in {"store", "name", "return", "call"} /\ ~Gives(d)
      [] e.do = "call" -> d.do \in {"run", "args"}
      [] e.do = "eval" -> FALSE
      [] OTHER -> Gives(d)

(* Where the data goes that the function above place i of s evaluates. *)
SlotOf(s, i) ==
    LET e == s[i]
    IN  CASE e.do \in {"store", "name", "convert"} -> <<e.own, 1>>
          [] e.do = "elements" -> <<e.at, e.next - 1>>
          [] e.do = "return" -> <<s[i - 1].frame, RETV>>
          [] e.do = "args" -> <<e.frame, ARG>>
Slot(i) == SlotOf(stack, i)

StackOK ==
    /\ stack \in Seq(Entry)
    /\ stack # <<>> => stack[1].do \in {"run", "host"}
    /\ \A i \in 1..(Len(stack) - 1) : Above(stack[i], stack[i + 1])

(* Blocks are held by one name or one function, and have as many elements  *)
(* as they need.                                                           *)
HeldOnce ==
    /\ \A i, j \in DOMAIN stack : Held(stack[i]) \cap Held(stack[j]) # {} => i = j
    /\ \A m, n \in DOMAIN names : names[m].at = names[n].at => m = n
    /\ \A n \in DOMAIN names : \A i \in DOMAIN stack : names[n].at \notin Held(stack[i])

Sized(h, e) ==
    \A b \in Held(e) :
      DOMAIN h[b].cells = IF e.do \in {"run", "args"} THEN 1..3 ELSE {1}

Sizes ==
    /\ \A n \in DOMAIN names : DOMAIN heap[names[n].at].cells = {1}
    /\ \A i \in DOMAIN stack : Sized(heap, stack[i])

(* What evaluates data knows where it goes, and until it is there the      *)
(* place is empty; the elements of a package are owned from the beginning, *)
(* and an integer has its type.                                            *)
Dest(h, s, i) ==
    LET d == s[i + 1]
        v == At(h, SlotOf(s, i))
    IN  /\ s[i].do = "elements" => s[i].next > 1
        /\ IF d.do = "elements"
           THEN /\ v = Owner("package", d.at) /\ d.next \in 1..(d.given + 1)
                /\ 1..d.given \subseteq DOMAIN h[d.at].cells
           ELSE /\ d.dest = SlotOf(s, i)
                /\ IF d.do = "call" /\ d.as = "integer" THEN v.type = "integer"
                   ELSE Owns(v) = {} \/ (d.do = "call" /\ s[i].do = "return")

Destined ==
    \A i \in 1..(Len(stack) - 1) : Wants(stack[i]) => Dest(heap, stack, i)

(* Elements that are not evaluated yet have nothing to lose. *)
Blank(h, e) ==
    e.do = "elements" =>
      /\ DOMAIN h[e.at].cells \subseteq Nat
      /\ \A k \in DOMAIN h[e.at].cells : k >= e.next => Owns(h[e.at].cells[k]) = {}

Unwritten == \A i \in DOMAIN stack : Blank(heap, stack[i])

(* While a package or a string is built that is returned, nothing is       *)
(* called; and what is returned is no integer that a call computes.        *)
Returning ==
    \A i \in 1..(Len(stack) - 1) : stack[i].do = "return" =>
      /\ stack[i + 1].do = "call" => stack[i + 1].as = "data"
      /\ stack[i + 1].do \in {"elements", "convert"} =>
           \A j \in (i + 1)..Len(stack) : stack[j].do \in {"eval", "elements", "convert"}

-----------------------------------------------------------------------------
(* Names, and what points without owning. *)

(* The frame f runs, at place i of the stack or below. *)
RunsBelow(f, i) == \E j \in 2..i : stack[j].do = "run" /\ stack[j].frame = f

NamesOK ==
    /\ DOMAIN names \subseteq Names
    /\ \A n \in DOMAIN names :
         /\ names[n] = [at |-> names[n].at, frame |-> names[n].frame]
         /\ names[n].frame # 0 => RunsBelow(names[n].frame, Len(stack))
    /\ 0 \notin DOMAIN heap

(* What an argument may refer to from place i: a variable of a frame that  *)
(* runs below, or a name that lives as long.                               *)
Reaches(op, i) ==
    \/ \E n \in DOMAIN names :
         /\ op = InCell("data", <<names[n].at, 1>>)
         /\ names[n].frame # 0 => RunsBelow(names[n].frame, i - 1)
    \/ \E f \in {stack[j].frame : j \in {k \in 1..(i - 1) : stack[k].do = "run"}} :
         op \in {InCell("local", <<f, LOCAL0>>), InCell("arg", <<f, ARG>>)}

BorrowedCells ==
    \A a \in DOMAIN heap : \A k \in DOMAIN heap[a].cells :
      LET v == heap[a].cells[k]
      IN  v.type = "reference" =>
            /\ k = ARG
            /\ \E i \in DOMAIN stack : /\ stack[i].do \in {"run", "args"}
                                       /\ stack[i].frame = a /\ Reaches(v.to, i)

(* The name m lives as long as n. *)
Outlives(m, n) ==
    names[m].frame # 0 =>
      /\ names[n].frame # 0
      /\ \A i \in DOMAIN stack :
           stack[i].do = "run" /\ stack[i].frame = names[n].frame
             => RunsBelow(names[m].frame, i)

BorrowedBytes ==
    \A a \in DOMAIN heap : \A k \in DOMAIN heap[a].cells :
      LET v == heap[a].cells[k]
      IN  v.type = "field" =>
            /\ a \notin UNION {OwnedBy(heap, b) : b \in DOMAIN heap}
            /\ \A i \in DOMAIN stack : a \notin Held(stack[i])
            /\ \A n \in DOMAIN names : names[n].at = a =>
                 \E m \in DOMAIN names :
                   At(heap, <<names[m].at, 1>>) = Owner("buffer", v.of) /\ Outlives(m, n)

IInv ==
    /\ lang \in Languages
    /\ HeapOK(heap, Holders) /\ StackOK /\ HeldOnce /\ Sizes
    /\ Destined /\ Unwritten /\ Returning
    /\ NamesOK /\ BorrowedCells /\ BorrowedBytes

=============================================================================
