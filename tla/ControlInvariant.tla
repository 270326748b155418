-------------------------- MODULE ControlInvariant --------------------------
(***************************************************************************)
(* The inductive invariant of Control, for tables in which no If ends a    *)
(* block that an Else follows.  It says which record stands on which other *)
(* one on the C stack, and where a state_t is for the record on top of its *)
(* part of the stack: the locals of the C functions and the fields of the  *)
(* state_t they share agree on the lexical structure of the code.          *)
(***************************************************************************)
EXTENDS Control, FiniteSets

Intr == {"none", "return", "break", "continue"}
StateT == [aml : Nat, intr : Intr, scope : Nat, methods : SUBSET Nat,
           at : Nat, way : {"operand", "body", "past"}]

Record ==
    [fn : {"termlist", "operand"}, cell : Nat, first : BOOLEAN]
      \cup [fn : {"if_else"}, cell : Nat, cond : BOOLEAN]
      \cup [fn : {"scope"}, cell : Nat, scope : Nat]
      \cup [fn : {"else", "while", "table", "method"}, cell : Nat]

(* The first record of a state_t. *)
IsBase(r) == r.fn \in {"table", "method"}

(* The state_t of the k-th record. *)
Level(s, k) == Cardinality({j \in 1..k : IsBase(s[j])})

(* The scope of the term at cell i, and of the terms of block b. *)
ScopeOf(p, i) ==
    Innermost({0} \cup {b \in Around(p, i) : Op(p, b) \in {"scope", "method"}})
ScopeIn(p, b) == IF Op(p, b) \in {"table", "scope", "method"} THEN b ELSE ScopeOf(p, b)

(* The cell of a record is of the kind that its function handles; a block  *)
(* with a scope keeps the one around it.                                   *)
Proper(p, r) ==
    /\ r.fn = "termlist" => Op(p, r.cell) \in BlockOp \cup {"table"}
    /\ r.fn = "operand" => Op(p, r.cell) \in {"stmt", "return", "if", "while"}
    /\ r.fn = "if_else" => Op(p, r.cell) = "if"
    /\ r.fn \in {"else", "while", "scope", "table", "method"} => Op(p, r.cell) = r.fn
    /\ r.fn = "scope" => r.scope = ScopeOf(p, r.cell)
    /\ r.cell \in 0..Len(p)

(* Record q stands on record r: a list runs a term of its own, a handler   *)
(* evaluates its operand or runs its block, an operand calls a method.     *)
Fits(p, r, q) ==
    /\ r.fn \in {"table", "method", "scope", "else"} => q.fn = "termlist" /\ q.cell = r.cell
    /\ r.fn = "if_else" =>
         /\ q.fn = IF r.cond THEN "termlist" ELSE "operand"
         /\ q.cell = r.cell
    /\ r.fn = "while" => q.fn \in {"termlist", "operand"} /\ q.cell = r.cell
    /\ r.fn = "operand" => ~r.first /\ q.fn = "method"
    /\ r.fn = "termlist" =>
         /\ ~r.first
         /\ q.fn \in {"operand", "if_else", "else", "while", "scope"}
         /\ q.fn = "operand" => Op(p, q.cell) \in {"stmt", "return"}
         /\ q.cell # 0 /\ Parent(p, q.cell) = r.cell

(* A state_t whose operand of the term at cell i is being evaluated. *)
AtOperand(p, f, i) ==
    /\ f.aml = i + 1
    /\ f.intr = IF Op(p, i) = "return" THEN "return" ELSE "none"
    /\ f.scope = ScopeOf(p, i)
    /\ f.at = i /\ f.way = "operand"

(* A list of terms goes on at one of them, which is no Else, or is at its end. *)
AtTerm(p, a, b) ==
    \/ a = End(p, b)
    \/ a \in Body(p, b) /\ Parent(p, a) = b /\ Op(p, a) # "else"

(* The state_t of the record on top of the stack. *)
Rests(p, f, r) ==
    /\ r.fn = "termlist" =>
         /\ f.scope = ScopeIn(p, r.cell)
         /\ r.first => f.aml = r.cell + 1 /\ f.intr = "none"
         /\ f.intr = "none" => AtTerm(p, f.aml, r.cell)
    /\ r.fn = "operand" => AtOperand(p, f, r.cell)
    /\ r.fn = "if_else" =>
         /\ f.scope = ScopeOf(p, r.cell)
         /\ f.aml = End(p, r.cell)
         /\ ~r.cond => f.intr = "none"
    /\ r.fn \in {"else", "while"} => f.scope = ScopeOf(p, r.cell)
    /\ r.fn = "scope" => f.aml = End(p, r.cell)

(* A C stack s with the states fr. *)
Sound(p, s, fr) ==
    /\ IsBase(s[1])
    /\ Level(s, Len(s)) = Len(fr)
    /\ \A k \in 1..(Len(s) - 1) :
         /\ Fits(p, s[k], s[k + 1])
         /\ s[k].fn = "operand" => AtOperand(p, fr[Level(s, k)], s[k].cell)

MethodsInv ==
    /\ \A m \in known : IsAt(prog, m, "method")
    /\ \A d \in DOMAIN frames : \A m \in frames[d].methods : IsAt(prog, m, "method")

TypeInv ==
    /\ prog \in Programs
    /\ frames \in Seq(StateT)
    /\ stack \in Seq(Record)
    /\ known \in SUBSET Nat

StackInv ==
    /\ stack = <<>> <=> frames = <<>>
    /\ \A k \in DOMAIN stack : Proper(prog, stack[k])
    /\ stack # <<>> => Sound(prog, stack, frames) /\ Rests(prog, State, Act)

Inv == TypeInv /\ MethodsInv /\ StackInv

-----------------------------------------------------------------------------
(* What Inv leaves open: where the structure of the code leads from the    *)
(* cell that a state_t is at.                                              *)

Done == Structured!Done
Goal(p, f) == Structured!Successor(p, [at |-> f.at, way |-> f.way])

(* Behind the term at cell i and its Else; behind the last term of block b. *)
Behind(p, i) == IF Structured!HasElse(p, i) THEN End(p, End(p, i)) ELSE End(p, i)
Leaves(p, b) ==
    IF Op(p, b) \in {"table", "method"} THEN Done
    ELSE IF Op(p, b) = "while" THEN b
    ELSE Structured!After(p)[b]

(* The loop that the terms of b are in. *)
LoopIn(p, b) ==
    IF Op(p, b) \in {"table", "method"} THEN Done
    ELSE IF Op(p, b) = "while" THEN b
    ELSE Structured!Loop(p, b)

(* Where an interrupt leads from the terms in a loop. *)
Exit(p, kind, loop) ==
    CASE kind = "return" -> Done
      [] kind = "break" -> IF loop = Done THEN Done ELSE Structured!After(p)[loop]
      [] kind = "continue" -> loop

(* A state_t is led to a cell, or out of its loop. *)
Led(p, f, cell, loop) ==
    Goal(p, f) = IF f.intr = "none" THEN cell ELSE Exit(p, f.intr, loop)

(* Where the state_t of the record on top of the stack is led to. *)
Leads(p, f, r) ==
    /\ r.fn # "operand" => f.way # "operand"
    /\ r.fn = "termlist" =>
         Led(p, f, IF f.aml < End(p, r.cell) THEN f.aml ELSE Leaves(p, r.cell),
             LoopIn(p, r.cell))
    /\ r.fn = "if_else" =>
         IF r.cond THEN Led(p, f, Structured!After(p)[r.cell], Structured!Loop(p, r.cell))
         ELSE Goal(p, f) = Structured!Past(p, r.cell)
    /\ r.fn \in {"else", "scope"} =>
         Led(p, f, Structured!After(p)[r.cell], Structured!Loop(p, r.cell))
    /\ r.fn = "while" => Led(p, f, r.cell, r.cell)
    /\ r.fn \in {"table", "method"} => Goal(p, f) = Done

LeadsInv == stack # <<>> => Leads(prog, State, Act)

=============================================================================
