--------------------------- MODULE DataOwnership ---------------------------
(***************************************************************************)
(* Who owns the data of the interpreter: sabi_clone_data, sabi_clean_data  *)
(* and sabi_eval_node of source/api.c, sabi_data_object of types.c, the    *)
(* operands of operand.c, the calls of parser.c, and the definitions of    *)
(* defs.c that make data and store it.                                     *)
(*                                                                         *)
(* Memory is a set of blocks: arrays of sabi_data_t, and bytes.  The frame *)
(* of a call, the data of a name, the elements of a package and the local  *)
(* variables of C functions that data is evaluated into are arrays.  Names *)
(* are found by whoever asks for them; where nodes are is in module        *)
(* Namespace.  Of the contents of a string or a buffer there is a number   *)
(* that stands for them and that conversions are taken to keep: it matters *)
(* here whose copy is whose, and what conversions do is in Conversions.    *)
(*                                                                         *)
(* The program is any sequence of statements of a language, with operands  *)
(* nested in operands.  AML is assumed not to                              *)
(*  - hand on a reference but as an argument: RefOf(x) is only used there, *)
(*  - make a buffer field of anything but the buffer of a name,            *)
(*  - use what has no value, or an argument or a local outside a method,   *)
(*  - convert what is no integer, string or buffer, or index by a call,    *)
(*  - give a package more elements than its count (the code would write    *)
(*    past the array),                                                     *)
(*  - increment what is no integer: the code would move a pointer, and     *)
(*    store what it then finds in a block that it has freed,               *)
(*  - and, in all languages without "computed", build what it returns from *)
(*    calls.                                                               *)
(* The value of an integer that a call computes is read from a variable    *)
(* that nobody has set.  Any number may come of it, or the end of the      *)
(* program, after which there are no steps.                                *)
(***************************************************************************)
EXTENDS Integers, Sequences, SequencesExt, FiniteSets

Form == {"integer", "string", "buffer",     \* literals
         "package", "convert", "reference", \* other data
         "call", "sum",                     \* of methods, for data or integers
         "store", "compute", "name", "field",
         "passed",                          \* arguments of the host
         "redefine",                        \* of names that there are already
         "computed"}                        \* calls in what is returned

CONSTANTS
    Names,      \* the names of the program
    Languages   \* the forms of the programs, and bounds: frames of methods,
                \* elements of a package, C functions that wait for each
                \* other, and blocks

ASSUME LanguagesAssumption ==
    Languages \subseteq [forms : SUBSET Form, frames : Nat, elements : Nat,
                         pending : Nat, blocks : Nat]

VARIABLES
    lang,   \* the language
    heap,   \* the blocks that are allocated
    names,  \* the data and the frame of every name there is
    stack   \* the C functions that wait for each other, the innermost last

vars == <<lang, heap, names, stack>>

Has(form) == form \in lang.forms

-----------------------------------------------------------------------------
(* sabi_data_t.  Of a package, a string or a buffer there is its block; a  *)
(* field points into a block, a reference to an element of one.            *)
Number == 0..1
Null == [type |-> "null"]
Junk == [type |-> "junk"]  \* what nobody has written to
Integer(x) == [type |-> "integer", val |-> x]
Owner(type, b) == [type |-> type, at |-> b]
Field(b) == [type |-> "field", of |-> b]
Reference(op) == [type |-> "reference", to |-> op]

Array(cells) == [cells |-> cells, val |-> 0]
Bytes(x) == [cells |-> <<>>, val |-> x]

Owns(v) == IF v.type \in {"string", "buffer", "package"} THEN {v.at} ELSE {}
OwnedBy(h, b) == UNION {Owns(h[b].cells[i]) : i \in DOMAIN h[b].cells}

(* The blocks S and those of the packages among them. *)
Tree(h, S) ==
    LET grow[T \in SUBSET Nat] ==
          LET U == T \cup UNION {OwnedBy(h, b) : b \in T \cap DOMAIN h}
          IN  IF U = T THEN T ELSE grow[U]
    IN  grow[S]

(* Cells. *)
At(h, c) == h[c[1]].cells[c[2]]
Put(h, c, v) == [h EXCEPT ![c[1]].cells[c[2]] = v]
Fill(h, b, x) == [h EXCEPT ![b].val = x]
With(h, b, block) == [c \in DOMAIN h \cup {b} |-> IF c = b THEN block ELSE h[c]]
Without(h, S) == [b \in DOMAIN h \ S |-> h[b]]

(* sabi_host_alloc: blocks that are free, and were at the beginning of the *)
(* step, so that a pointer to a block that is freed stays without one.     *)
Used(h) == DOMAIN heap \cup DOMAIN h
Free(h, n) == 1..(n + Cardinality(Used(h))) \ Used(h)
New(h) == CHOOSE b \in Free(h, 1) : TRUE
(* One for each element of S. *)
Fresh(h, S) == CHOOSE new \in [S -> Free(h, Cardinality(S))] : IsInjective(new)

(* sabi_clean_data *)
Clean(h, c) == Put(Without(h, Tree(h, Owns(At(h, c)))), c, Null)

(* A mutant of Clone: the pointer is copied. *)
CloneShallow(h, c, v) == Put(h, c, v)

(* sabi_clone_data: a copy of v, with blocks of its own. *)
Clone(h, c, v) ==
    LET old == Tree(h, Owns(v))
        new == Fresh(h, old)
        moved(w) == IF Owns(w) = {} THEN w ELSE Owner(w.type, new[w.at])
        copy(b) == [b EXCEPT !.cells = [i \in DOMAIN b.cells |-> moved(b.cells[i])]]
        added == [b \in DOMAIN h \cup Range(new) |->
                    IF b \in DOMAIN h THEN h[b]
                    ELSE copy(h[CHOOSE a \in old : new[a] = b])]
    IN  Put(added, c, moved(v))

-----------------------------------------------------------------------------
(* The frames of state.c. *)
RETV == 1
ARG == 2
LOCAL0 == 3
NewFrame(h, f) == With(h, f, Array(<<Null, Null, Null>>))

(* A mutant of OfFrame: the nodes stay. *)
OfFrameNone(f) == {n \in DOMAIN names : FALSE}

(* sabi_free_state, and the end of a table, which keeps its names. *)
OfFrame(f) == {n \in DOMAIN names : names[n].frame = f}

(* A mutant of FreeFrame: the data of names is not freed. *)
FreeFrameOnly(h, f) == Without(h, Tree(h, {f}))

FreeFrame(h, f) ==
    Without(h, Tree(h, {f} \cup {names[n].at : n \in OfFrame(f)}))

Top == Last(stack)
Pop == Front(stack)
Run(f) == [do |-> "run", frame |-> f]
Eval(c) == [do |-> "eval", dest |-> c]

(* The frame whose AML is being parsed, and where its functions begin. *)
RunOf(s) == CHOOSE i \in DOMAIN s :
              s[i].do = "run" /\ \A j \in DOMAIN s : s[j].do = "run" => j =< i
Base == RunOf(stack)
Frame == stack[Base].frame
Retv == <<Frame, RETV>>
Running == stack # <<>> /\ Top.do = "run"

-----------------------------------------------------------------------------
(* operand_t: a cell and the flag of what it is, or a field of bytes.      *)
InCell(flag, c) == [flag |-> flag, cell |-> c]
InBytes(b) == [flag |-> "field", of |-> b]

Variables ==
    {InCell("data", <<names[n].at, 1>>) : n \in DOMAIN names}
    \cup (IF Base = 1 THEN {} ELSE {InCell("local", <<Frame, LOCAL0>>)})
    \cup (IF At(heap, <<Frame, ARG>>) = Null THEN {} ELSE {InCell("arg", <<Frame, ARG>>)})

(* index_to_operand: the element or the byte that Index leads to. *)
Elements(op) ==
    LET v == At(heap, op.cell)
    IN  CASE v.type = "package" -> {InCell("data", <<v.at, i>>) : i \in DOMAIN heap[v.at].cells}
          [] v.type \in {"string", "buffer"} -> {InBytes(v.at)}
          [] OTHER -> {}

(* sabi_def_derefof *)
Referred(op) ==
    LET v == At(heap, op.cell) IN IF v.type = "reference" THEN {v.to} ELSE {}

Operands ==
    LET direct == Variables \cup UNION {Referred(op) : op \in Variables}
    IN  direct \cup UNION {Elements(op) : op \in direct}

(* sabi_conv_tointeger *)
ToInteger(h, v) ==
    CASE v.type = "integer" -> v.val
      [] v.type \in {"string", "buffer"} -> h[v.at].val
      [] OTHER -> 0

(* sabi_read_operand *)
Read(h, op) ==
    IF op.flag = "field" THEN Integer(h[op.of].val)
    ELSE LET v == At(h, op.cell) IN IF v.type = "field" THEN Integer(h[v.of].val) ELSE v

(* A string or a buffer of its own in a cell, as the conversions make it   *)
(* that are told of no old one.                                            *)
Make(h, c, type, x) ==
    LET b == New(h) IN Put(With(h, b, Bytes(x)), c, Owner(type, b))

(* A mutant of Write: whatever there is, is cleaned and replaced. *)
WriteAnew(h, op, v) ==
    IF op.flag = "field" THEN Fill(h, op.of, ToInteger(h, v))
    ELSE Clone(Clean(h, op.cell), op.cell, v)

(* sabi_write_operand.  What is stored in a buffer is copied to its bytes. *)
(* A string gets new bytes, and the pointer to the old ones is lost.       *)
Write(h, op, v) ==
    IF op.flag = "field" THEN Fill(h, op.of, ToInteger(h, v))
    ELSE LET old == At(h, op.cell)
             anew == \/ op.flag \in {"local", "arg"} \/ old.type = "null"
                     \/ old.type = "package" /\ v.type = "package"
         IN  IF anew THEN Clone(Clean(h, op.cell), op.cell, v)
             ELSE CASE old.type = "integer" -> Put(h, op.cell, Integer(ToInteger(h, v)))
                    [] old.type = "buffer" -> Fill(h, old.at, ToInteger(h, v))
                    [] old.type = "field" -> Fill(h, old.of, ToInteger(h, v))
                    [] old.type = "string" /\ v.type \in {"integer", "string", "buffer"} ->
                         Make(h, op.cell, "string", ToInteger(h, v))
                    [] OTHER -> h

-----------------------------------------------------------------------------
(* What the host asks for. *)
Init ==
    /\ lang \in Languages
    /\ heap = <<>>
    /\ names = <<>>
    /\ stack = <<>>

LoadTable ==
    /\ stack = <<>>
    /\ heap' = NewFrame(heap, New(heap))
    /\ stack' = <<Run(New(heap))>>
    /\ UNCHANGED <<lang, names>>

(* The host passes no argument, an integer, a string or a buffer. *)
Passed(h, c) ==
    {h} \cup (IF Has("passed")
              THEN {Put(h, c, Integer(1)), Make(h, c, "string", 1), Make(h, c, "buffer", 1)}
              ELSE {})

(* sabi_eval_method: the argument is cloned from the host's, the result to *)
(* the host's own.                                                         *)
EvalMethod ==
    /\ stack = <<>>
    /\ LET b == New(heap)
           h == With(heap, b, Array(<<Null>>))
           f == New(h)
       IN  /\ heap' \in Passed(NewFrame(h, f), <<f, ARG>>)
           /\ stack' = <<[do |-> "host", own |-> b], Run(f)>>
    /\ UNCHANGED <<lang, names>>

(* sabi_eval_node of a name *)
EvalNode(n) ==
    /\ stack = <<>>
    /\ n \in DOMAIN names
    /\ LET b == New(heap)
           v == Read(heap, InCell("data", <<names[n].at, 1>>))
       IN  /\ heap' = Clone(With(heap, b, Array(<<Null>>)), <<b, 1>>, v)
           /\ stack' = <<[do |-> "host", own |-> b]>>
    /\ UNCHANGED <<lang, names>>

(* The host cleans the result, as check_pnp_id does. *)
HostDone ==
    /\ stack # <<>> /\ Top.do = "host"
    /\ heap' = Without(heap, Tree(heap, {Top.own}))
    /\ stack' = <<>>
    /\ UNCHANGED <<lang, names>>

-----------------------------------------------------------------------------
(* Statements.  Each evaluates a data object into a cell of its own.       *)

(* A mutant of BeginStore: retv is taken for the local variable. *)
BeginStoreRetv ==
    /\ Running /\ Has("store")
    /\ LET b == New(heap)
       IN  /\ heap' = With(Clean(heap, Retv), b, Array(<<Junk>>))
           /\ stack' = stack \o <<[do |-> "store", own |-> b], Eval(Retv)>>
    /\ UNCHANGED <<lang, names>>

(* sabi_def_store: first to a local variable, then to the target. *)
BeginStore ==
    /\ Running /\ Has("store")
    /\ LET b == New(heap)
       IN  /\ heap' = With(heap, b, Array(<<Junk>>))
           /\ stack' = stack \o <<[do |-> "store", own |-> b], Eval(<<b, 1>>)>>
    /\ UNCHANGED <<lang, names>>

EndStore ==
    /\ stack # <<>> /\ Top.do = "store"
    /\ \E op \in Operands :
          heap' = Without(Write(heap, op, At(heap, <<Top.own, 1>>)), Tree(heap, {Top.own}))
    /\ stack' = Pop
    /\ UNCHANGED <<lang, names>>

(* sabi_parse_math, of Add and the like: an integer is written to a        *)
(* target.                                                                 *)
Compute ==
    /\ Running /\ Has("compute")
    /\ \E op \in Operands : heap' = Write(heap, op, Integer(0))
    /\ UNCHANGED <<lang, names, stack>>

(* sabi_def_increment of an integer: the next number is written back.      *)
Increment ==
    /\ Running /\ Has("compute")
    /\ \E op \in Operands :
         LET v == Read(heap, op)
         IN  /\ v.type = "integer"
             /\ heap' = Write(heap, op, Integer(1 - v.val))
    /\ UNCHANGED <<lang, names, stack>>

(* sabi_def_return: right to the result of the frame. *)
BeginReturn ==
    /\ Running
    /\ heap' = Clean(heap, Retv)
    /\ stack' = stack \o <<[do |-> "return"], Eval(Retv)>>
    /\ UNCHANGED <<lang, names>>

(* sabi_def_name *)
BeginName(n) ==
    /\ Running /\ Has("name")
    /\ LET b == New(heap)
       IN  /\ heap' = With(heap, b, Array(<<Junk>>))
           /\ stack' = stack \o <<[do |-> "name", name |-> n, own |-> b], Eval(<<b, 1>>)>>
    /\ UNCHANGED <<lang, names>>

(* A mutant of NodeFrame: so are those of a method. *)
NodeFrameNone == 0

(* The nodes that a table defines are kept, with no frame. *)
NodeFrame == IF Base = 1 THEN 0 ELSE Frame

Define(n, b) ==
    names' = [m \in DOMAIN names \cup {n} |->
                IF m \in DOMAIN names THEN names[m] ELSE [at |-> b, frame |-> NodeFrame]]

(* A name that there is already keeps its data, and the new data is lost.  *)
EndName ==
    /\ stack # <<>> /\ Top.do = "name"
    /\ Top.name \in DOMAIN names => Has("redefine")
    /\ Define(Top.name, Top.own)
    /\ stack' = Pop
    /\ UNCHANGED <<lang, heap>>

(* sabi_def_create_field of the buffer of a name *)
CreateField(m, n) ==
    /\ Running /\ Has("field")
    /\ m \in DOMAIN names
    /\ n \in DOMAIN names => Has("redefine")
    /\ LET v == At(heap, <<names[m].at, 1>>)
           b == New(heap)
       IN  /\ v.type = "buffer"
           /\ heap' = With(heap, b, Array(<<Field(v.at)>>))
           /\ Define(n, b)
    /\ UNCHANGED <<lang, stack>>

-----------------------------------------------------------------------------
(* sabi_data_object: the data of the innermost function goes to Top.dest.  *)
Evaluating == stack # <<>> /\ Top.do = "eval"

(* What is written over without being cleaned is new, or the retv that a   *)
(* Return has cleaned.                                                     *)
Literal ==
    /\ Evaluating
    /\ \/ Has("integer") /\ heap' = Put(heap, Top.dest, Integer(1))
       \/ \E type \in {"string", "buffer"} :
             Has(type) /\ heap' = Make(heap, Top.dest, type, 1)
    /\ stack' = Pop
    /\ UNCHANGED <<lang, names>>

(* References go from argument to argument only. *)
ToArgument == Len(stack) > 1 /\ stack[Len(stack) - 1].do = "args"

(* The clone of an operand. *)
Operand ==
    /\ Evaluating
    /\ \E op \in Operands :
          LET v == Read(heap, op)
          IN  /\ v.type # "null" /\ (v.type = "reference" => ToArgument)
              /\ heap' = Clone(heap, Top.dest, v)
    /\ stack' = Pop
    /\ UNCHANGED <<lang, names>>

(* sabi_def_refof *)
RefOf ==
    /\ Evaluating /\ ToArgument /\ Has("reference")
    /\ \E op \in Variables : heap' = Put(heap, Top.dest, Reference(op))
    /\ stack' = Pop
    /\ UNCHANGED <<lang, names>>

(* sabi_def_package: an array of count elements, which are evaluated one   *)
(* by one; those beyond the last one that is given are set to null.        *)
BeginPackage ==
    /\ Evaluating /\ Has("package")
    /\ LET b == New(heap)
       IN  \E count \in 1..lang.elements, given \in 0..lang.elements :
             /\ given =< count
             /\ heap' = Put(With(heap, b, Array([i \in 1..count |-> Junk])),
                            Top.dest, Owner("package", b))
             /\ stack' = Append(Pop, [do |-> "elements", at |-> b, next |-> 1,
                                      given |-> given])
    /\ UNCHANGED <<lang, names>>

NextElement ==
    /\ stack # <<>> /\ Top.do = "elements" /\ Top.next =< Top.given
    /\ stack' = Append([stack EXCEPT ![Len(stack)].next = Top.next + 1],
                       Eval(<<Top.at, Top.next>>))
    /\ UNCHANGED <<lang, heap, names>>

EndPackage ==
    /\ stack # <<>> /\ Top.do = "elements" /\ Top.next > Top.given
    /\ heap' = [heap EXCEPT ![Top.at].cells =
                    [i \in DOMAIN @ |-> IF i > Top.given THEN Null ELSE @[i]]]
    /\ stack' = Pop
    /\ UNCHANGED <<lang, names>>

(* sabi_def_tobuffer, sabi_def_tostring, sabi_def_tobasestring: data is    *)
(* evaluated to a local variable and converted; it may have a target too.  *)
BeginConvert(type) ==
    /\ Evaluating /\ Has("convert")
    /\ LET b == New(heap)
       IN  /\ heap' = With(heap, b, Array(<<Junk>>))
           /\ stack' = Pop \o <<[do |-> "convert", own |-> b, type |-> type,
                                 dest |-> Top.dest], Eval(<<b, 1>>)>>
    /\ UNCHANGED <<lang, names>>

EndConvert ==
    /\ stack # <<>> /\ Top.do = "convert"
    /\ LET v == At(heap, <<Top.own, 1>>)
           made == Make(heap, Top.dest, Top.type, ToInteger(heap, v))
       IN  /\ v.type \in {"integer", "string", "buffer"}
           /\ \E h \in {made} \cup {Write(made, op, At(made, Top.dest)) : op \in Operands} :
                heap' = Without(h, Tree(heap, {Top.own}))
    /\ stack' = Pop
    /\ UNCHANGED <<lang, names>>

-----------------------------------------------------------------------------
(* sabi_parse_method, for a statement, for data, or for an integer that is *)
(* computed from the result.  For an integer the type comes first.         *)
Frames == Cardinality({i \in DOMAIN stack : stack[i].do \in {"run", "args"}})

(* A part of what is returned is being evaluated. *)
Computed ==
    /\ Base < Len(stack) /\ stack[Base + 1].do = "return"
    /\ stack[Base + 2].do \in {"elements", "convert"}

MayCall(as) ==
    CASE as = "statement" -> Running /\ Has("call")
      [] as = "data" -> Evaluating /\ Has("call") /\ (Computed => Has("computed"))
      [] as = "integer" ->
           Evaluating /\ Has("sum") /\ (Computed \/ Top.dest = Retv => Has("computed"))

(* The arguments, of which there may be one, are evaluated to the frame.   *)
BeginCall(as) ==
    /\ MayCall(as) /\ Frames < lang.frames
    /\ LET f == New(heap)
           typed == IF as = "integer" THEN Put(heap, Top.dest, Integer(0)) ELSE heap
           below == IF as = "statement" THEN Append(stack, [do |-> "call", as |-> as])
                    ELSE Append(Pop, [do |-> "call", as |-> as, dest |-> Top.dest])
       IN  /\ heap' = NewFrame(typed, f)
           /\ stack' \in {Append(below, Run(f)),
                          below \o <<[do |-> "args", frame |-> f], Eval(<<f, ARG>>)>>}
    /\ UNCHANGED <<lang, names>>

EndArgs ==
    /\ stack # <<>> /\ Top.do = "args"
    /\ stack' = Append(Pop, Run(Top.frame))
    /\ UNCHANGED <<lang, heap, names>>

(* The end of the terms, or that of a Return. *)
Ended == stack # <<>> /\ Top.do \in {"run", "return"}
Below == SubSeq(stack, 1, Base - 1)

(* Only the value of the integer is set: of what type retv is, a call has  *)
(* a say in if the integer is computed right there.                        *)
SetValue(v, x) ==
    CASE v.type = "integer" -> Integer(x)
      [] Owns(v) # {} -> Owner(v.type, 0)
      [] OTHER -> v

(* The caller's retv is cleaned and cloned from the callee's, which is     *)
(* freed; then the one who wants the result gets a clone of retv.  For an  *)
(* integer a variable is converted that nobody has set, and not the result.*)
EndCall ==
    /\ Ended /\ Base > 1
    /\ LET call == Last(Below)
           caller == <<Below[RunOf(Below)].frame, RETV>>
           cloned == Clone(Clean(heap, caller), caller, At(heap, Retv))
           freed == FreeFrame(cloned, Frame)
       IN  /\ call.do = "call"
           /\ CASE call.as = "statement" -> heap' = freed
                [] call.as = "data" ->
                     heap' = IF call.dest = caller THEN freed
                             ELSE Clone(freed, call.dest, At(freed, caller))
                [] call.as = "integer" ->
                     \E x \in Number :
                       heap' = Put(freed, call.dest, SetValue(At(freed, call.dest), x))
    /\ names' = [n \in DOMAIN names \ OfFrame(Frame) |-> names[n]]
    /\ stack' = Front(Below)
    /\ UNCHANGED lang

EndMethod ==
    /\ Ended /\ Base > 1
    /\ LET host == Last(Below)
       IN  /\ host.do = "host"
           /\ heap' = FreeFrame(Clone(heap, <<host.own, 1>>, At(heap, Retv)), Frame)
    /\ names' = [n \in DOMAIN names \ OfFrame(Frame) |-> names[n]]
    /\ stack' = Below
    /\ UNCHANGED lang

EndTable ==
    /\ Ended /\ Base = 1
    /\ heap' = FreeFrame(heap, Frame)
    /\ stack' = <<>>
    /\ UNCHANGED <<lang, names>>

-----------------------------------------------------------------------------
Step ==
    \/ LoadTable \/ EvalMethod \/ HostDone \/ \E n \in Names : EvalNode(n)
    \/ BeginStore \/ EndStore \/ Compute \/ Increment \/ BeginReturn
    \/ \E n \in Names : BeginName(n) \/ \E m \in Names : CreateField(m, n)
    \/ EndName
    \/ Literal \/ Operand \/ RefOf
    \/ BeginPackage \/ NextElement \/ EndPackage
    \/ \E type \in {"string", "buffer"} : BeginConvert(type)
    \/ EndConvert
    \/ \E as \in {"statement", "data", "integer"} : BeginCall(as)
    \/ EndArgs \/ EndCall \/ EndMethod \/ EndTable

(* The bounds. *)
Small ==
    /\ Len(stack') =< lang.pending
    /\ Cardinality(DOMAIN heap') =< lang.blocks

Next == Step /\ Small

Spec == Init /\ [][Next]_vars

-----------------------------------------------------------------------------
(* Correctness. *)

(* The cells that there are, and what owns a block that no cell does. *)
Cells == UNION {{b} \X DOMAIN heap[b].cells : b \in DOMAIN heap}
Holders ==
    {names[n].at : n \in DOMAIN names}
    \cup {stack[i].own : i \in {j \in DOMAIN stack : "own" \in DOMAIN stack[j]}}
    \cup {stack[i].frame : i \in {j \in DOMAIN stack : "frame" \in DOMAIN stack[j]}}

(* Names, blocks and the functions that wait are of their kinds. *)
TypeOK ==
    /\ lang \in Languages
    /\ DOMAIN heap \subseteq Nat \ {0} /\ DOMAIN names \subseteq Names
    /\ \A b \in DOMAIN heap : heap[b].val \in Number
    /\ \A n \in DOMAIN names :
         names[n].frame \in {0} \cup {stack[i].frame :
                              i \in {j \in DOMAIN stack : stack[j].do = "run"}}
    /\ \A i \in DOMAIN stack :
         stack[i].do \in {"run", "host", "store", "return", "name", "eval",
                          "elements", "convert", "call", "args"}

(* Each block has one owner at most, a cell or a function that waits, and  *)
(* what is owned is allocated: what sabi_clean_data and sabi_free_state    *)
(* free has not been freed before, and no variable, name or element owns   *)
(* what has been, whatever is cloned, converted, stored and returned.      *)
OwnedOnce ==
    LET owners == {c \in Cells : Owns(At(heap, c)) # {}}
        owned == {At(heap, c).at : c \in owners}
    IN  /\ Holders \subseteq DOMAIN heap
        /\ owned \subseteq DOMAIN heap \ Holders
        /\ Cardinality(owned) = Cardinality(owners)

(* Where a function that waits for a call will put its data is still owned *)
(* by someone when the call returns.                                       *)
PendingAlive ==
    LET alive == Tree(heap, Holders) \cap DOMAIN heap
    IN  \A i \in DOMAIN stack :
          /\ "dest" \in DOMAIN stack[i] => stack[i].dest[1] \in alive
          /\ "at" \in DOMAIN stack[i] => stack[i].at \in alive

(* What a field or a reference leads to, without owning it, is there: the  *)
(* buffer of a name keeps its bytes, and what an argument refers to lives  *)
(* as long as the call.                                                    *)
BorrowsAlive ==
    LET used == Tree(heap, Holders)
    IN  \A c \in Cells :
          LET v == At(heap, c)
          IN  c[1] \in used =>
                /\ v.type = "field" => v.of \in DOMAIN heap
                /\ v.type = "reference" => v.to.cell \in Cells

(* Blocks that nobody will free. *)
Lost == DOMAIN heap \ Tree(heap, Holders)
LostHeads == Lost \ UNION {OwnedBy(heap, b) : b \in Lost}

(* Nothing leaks but the old bytes of a string that is stored to, and the  *)
(* data of a name that there is already.                                   *)
LeaksKnown ==
    [][\A b \in LostHeads' \ Lost :
         \/ \E c \in Cells : At(heap, c) = Owner("string", b)
                             /\ c \in Cells' /\ At(heap', c).type = "string"
         \/ Top.do = "name" /\ Top.name \in DOMAIN names /\ b = Top.own
         \/ Running /\ b \notin DOMAIN heap /\ heap'[b].cells[1].type = "field"]_vars

(* The frames whose methods run, and the variable that a cell is. *)
Runs ==
    LET runs == SelectSeq(stack, LAMBDA c : c.do = "run")
    IN  [k \in DOMAIN runs |-> runs[k].frame]
DepthOf(f) == IF \E k \in DOMAIN Runs : Runs[k] = f THEN CHOOSE k \in DOMAIN Runs : Runs[k] = f ELSE 0
VariableAt(c) ==
    IF DepthOf(c[1]) > 0 THEN [depth |-> DepthOf(c[1]), name |-> c[2]]
    ELSE [depth |-> 0, name |-> CHOOSE n \in DOMAIN names : names[n].at = c[1]]

(* The values of cells, of the frames whose methods run, and of names. *)
ValueOf ==
    LET value[c \in Cells] ==
          LET v == At(heap, c)
          IN  CASE Owns(v) \ DOMAIN heap # {} -> [type |-> "dead"]
                [] v.type = "package" ->
                     [type |-> v.type, elements |->
                        [i \in DOMAIN heap[v.at].cells |-> value[<<v.at, i>>]]]
                [] v.type \in {"string", "buffer"} -> [type |-> v.type, val |-> heap[v.at].val]
                [] v.type = "field" -> [type |-> v.type]
                [] v.type = "reference" -> [type |-> v.type, to |-> VariableAt(v.to.cell)]
                [] OTHER -> v
    IN  value

FrameValues == [k \in DOMAIN Runs |-> [i \in {RETV, ARG, LOCAL0} |-> ValueOf[<<Runs[k], i>>]]]
NameValues ==
    [n \in DOMAIN names |->
       [value |-> ValueOf[<<names[n].at, 1>>], depth |-> DepthOf(names[n].frame)]]
HostValue ==
    IF stack = <<>> \/ stack[1].do # "host" THEN [type |-> "none"]
    ELSE ValueOf[<<stack[1].own, 1>>]

(* Blocks and pointers implement variables that have values: no step of    *)
(* the interpreter shows in a variable that it is not about.               *)
Values == INSTANCE ValueSemantics WITH
    Slots <- {RETV, ARG, LOCAL0}, Retv <- RETV,
    frames <- FrameValues, named <- NameValues, result <- HostValue
ValuesSpec == Values!Spec

=============================================================================
