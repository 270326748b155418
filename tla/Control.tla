------------------------------ MODULE Control ------------------------------
(***************************************************************************)
(* How the interpreter moves through AML code: sabi_parse_termlist and     *)
(* sabi_parse_next of source/parser.c, and the handlers of source/defs.c   *)
(* that move state->aml, set state->intr or run a list of terms.           *)
(*                                                                         *)
(* The C stack is explicit: one record for every function that is waiting  *)
(* for another one, with the locals it still needs.  A frame is the        *)
(* state_t of a table load or of a method call.                            *)
(*                                                                         *)
(* Kept out: the objects that statements define (module Namespace), the    *)
(* values they compute (so a condition may be either way) and time.        *)
(* Operands that call make one call.                                       *)
(* The byte behind a table's last cell is taken not to be an ElseOp.       *)
(***************************************************************************)
EXTENDS Lexical

CONSTANTS
    Programs,  \* the tables
    MaxDepth   \* bound: frames on the C stack

ASSUME ProgramsAssumption == \A p \in Programs : WellFormed(p)
ASSUME DepthAssumption == MaxDepth \in Nat \ {0}

VARIABLES
    prog,     \* the table
    frames,   \* the state_t of the table load and of the calls
    stack,    \* the C stack
    known     \* the methods of a table that has been loaded

vars == <<prog, frames, stack, known>>

(* Frames: a state_t has aml, intr, scope (the cell that opened it), and   *)
(* the methods that it will free.  at and way record where control is, for *)
(* the mapping to Flow; no action reads them.                              *)
NewState(m) == [aml |-> m + 1, intr |-> "none", scope |-> m, methods |-> {},
                at |-> m, way |-> "body"]
Depth == Len(frames)
State == frames[Depth]
aml == State.aml
intr == State.intr

(* The C functions, each with the cell of its block or statement. *)
TermList(b) == [fn |-> "termlist", cell |-> b, first |-> TRUE]
Operand(i) == [fn |-> "operand", cell |-> i, first |-> TRUE]
IfElse(i, cond) == [fn |-> "if_else", cell |-> i, cond |-> cond]
Else(i) == [fn |-> "else", cell |-> i]
While(i) == [fn |-> "while", cell |-> i]
Scope(i, s) == [fn |-> "scope", cell |-> i, scope |-> s]
Load == [fn |-> "table", cell |-> 0]
Method(m) == [fn |-> "method", cell |-> m]

Act == stack[Len(stack)]
Running(fn) == stack # <<>> /\ Act.fn = fn
Under == SubSeq(stack, 1, Len(stack) - 1)    \* what is left when Act returns

(* The methods a name can be found for. *)
Callable == known \cup UNION {frames[d].methods : d \in DOMAIN frames}

-----------------------------------------------------------------------------
Init ==
    /\ prog \in Programs
    /\ frames = <<>>
    /\ stack = <<>>
    /\ known = {}

(* Changes to the running state_t. *)
Set(state) == frames' = [frames EXCEPT ![Depth] = state]

(* parse_table *)
RegisterTable ==
    /\ frames = <<>> /\ known = {}
    /\ frames' = <<NewState(0)>>
    /\ stack' = <<Load, TermList(0)>>
    /\ UNCHANGED <<prog, known>>

(* The end of parse_table: the methods stay. *)
EndTable ==
    /\ Running("table")
    /\ known' = State.methods
    /\ frames' = <<>> /\ stack' = <<>>
    /\ UNCHANGED prog

(* sabi_eval_method from the outside *)
EvalMethod(m) ==
    /\ frames = <<>> /\ m \in known
    /\ frames' = <<NewState(m)>>
    /\ stack' = <<Method(m), TermList(m)>>
    /\ UNCHANGED <<prog, known>>

(* A mutant of CallMethod: the new state inherits the caller's intr. *)
CallMethodIntr(m) ==
    /\ Running("operand") /\ Act.first /\ prog[Act.cell].calls
    /\ m \in Callable /\ Depth < MaxDepth
    /\ frames' = Append(frames, [NewState(m) EXCEPT !.intr = intr])
    /\ stack' = Under \o << [Act EXCEPT !.first = FALSE], Method(m), TermList(m) >>
    /\ UNCHANGED <<prog, known>>

(* sabi_parse_method as (part of) an operand *)
CallMethod(m) ==
    /\ Running("operand") /\ Act.first /\ prog[Act.cell].calls
    /\ m \in Callable /\ Depth < MaxDepth
    /\ frames' = Append(frames, NewState(m))
    /\ stack' = Under \o << [Act EXCEPT !.first = FALSE], Method(m), TermList(m) >>
    /\ UNCHANGED <<prog, known>>

(* The end of sabi_parse_method or sabi_eval_method. *)
EndMethod ==
    /\ Running("method")
    /\ frames' = SubSeq(frames, 1, Depth - 1)
    /\ stack' = Under
    /\ UNCHANGED <<prog, known>>

-----------------------------------------------------------------------------
(* sabi_parse_termlist: the next term, if the list has one and the last    *)
(* one has not raised an interrupt.                                        *)
Continues ==
    /\ Running("termlist")
    /\ aml < End(prog, Act.cell)
    /\ Act.first \/ intr = "none"

(* sabi_parse_next has fetched this opcode, and calls its handler. *)
Fetches(op) == Continues /\ prog[aml].op = op

(* The handler has the locals of these calls on top of the term list. *)
Enter(calls) == stack' = Under \o << [Act EXCEPT !.first = FALSE] >> \o calls

(* state->aml behind the opcode and package length of the cell *)
Fetched(way) == [State EXCEPT !.aml = @ + 1, !.at = aml, !.way = way]

(* Store, Increment, Name, OpRegion, a call, ...: any term that neither    *)
(* opens a block nor touches intr.                                         *)
Statement ==
    /\ Fetches("stmt")
    /\ Set(Fetched("operand"))
    /\ Enter(<<Operand(aml)>>)
    /\ UNCHANGED <<prog, known>>

(* sabi_def_return: intr first, then the operand. *)
DefReturn ==
    /\ Fetches("return")
    /\ Set([Fetched("operand") EXCEPT !.intr = "return"])
    /\ Enter(<<Operand(aml)>>)
    /\ UNCHANGED <<prog, known>>

DefBreak ==
    /\ \E op \in {"break", "continue"} : /\ Fetches(op)
                                         /\ Set([Fetched("past") EXCEPT !.intr = op])
    /\ Enter(<<>>)
    /\ UNCHANGED <<prog, known>>

(* sabi_def_method: skipped, and known from now on.  A name that is taken  *)
(* keeps its object.                                                       *)
DefMethod ==
    /\ Fetches("method")
    /\ Set([Fetched("past") EXCEPT !.aml = End(prog, aml),
                                   !.methods = @ \cup ({aml} \ Callable)])
    /\ Enter(<<>>)
    /\ UNCHANGED <<prog, known>>

(* sabi_def_scope, sabi_def_device and the other blocks with a name *)
DefScope ==
    /\ Fetches("scope")
    /\ Set([Fetched("body") EXCEPT !.scope = aml])
    /\ Enter(<<Scope(aml, State.scope), TermList(aml)>>)
    /\ UNCHANGED <<prog, known>>

(* sabi_def_if_else and sabi_def_while, up to the call of sabi_integer *)
DefIfElse ==
    /\ Fetches("if")
    /\ Set(Fetched("operand"))
    /\ Enter(<<IfElse(aml, FALSE), Operand(aml)>>)
    /\ UNCHANGED <<prog, known>>

DefWhile ==
    /\ Fetches("while")
    /\ Set(Fetched("operand"))
    /\ Enter(<<While(aml), Operand(aml)>>)
    /\ UNCHANGED <<prog, known>>

(* The end of sabi_parse_termlist: state->aml = end. *)
EndTermlist ==
    /\ Running("termlist") /\ ~Continues
    /\ Set([State EXCEPT !.aml = End(prog, Act.cell)])
    /\ stack' = Under
    /\ UNCHANGED <<prog, known>>

-----------------------------------------------------------------------------
(* The operand of a statement has been read. *)
Evaluated ==
    /\ Running("operand") /\ prog[Act.cell].op \in {"stmt", "return"}
    /\ Set([State EXCEPT !.way = "past"])
    /\ stack' = Under
    /\ UNCHANGED <<prog, known>>

(* A mutant of IfFalse: the jump goes one too far. *)
IfFalseFar ==
    /\ Running("operand") /\ prog[Act.cell].op = "if"
    /\ Set([State EXCEPT !.aml = End(prog, Act.cell) + 1, !.way = "past"])
    /\ stack' = Under
    /\ UNCHANGED <<prog, known>>

(* The condition of an If. *)
IfTrue ==
    /\ Running("operand") /\ prog[Act.cell].op = "if"
    /\ Set([State EXCEPT !.way = "body"])
    /\ stack' = SubSeq(stack, 1, Len(stack) - 2)
                  \o <<IfElse(Act.cell, TRUE), TermList(Act.cell)>>
    /\ UNCHANGED <<prog, known>>

IfFalse ==
    /\ Running("operand") /\ prog[Act.cell].op = "if"
    /\ Set([State EXCEPT !.aml = End(prog, Act.cell), !.way = "past"])
    /\ stack' = Under
    /\ UNCHANGED <<prog, known>>

(* A mutant of SkipElse: its terms are left to the list around it. *)
SkipElseHead ==
    /\ Running("if_else") /\ IsAt(prog, aml, "else") /\ Act.cond
    /\ Set([State EXCEPT !.aml = @ + 1])
    /\ stack' = Under
    /\ UNCHANGED <<prog, known>>

(* The byte behind the If, as far as its terms have led or as the If is    *)
(* long, is an ElseOp or is not.                                           *)
SkipElse ==
    /\ Running("if_else") /\ IsAt(prog, aml, "else") /\ Act.cond
    /\ Set([State EXCEPT !.aml = End(prog, aml)])
    /\ stack' = Under
    /\ UNCHANGED <<prog, known>>

TakeElse ==
    /\ Running("if_else") /\ IsAt(prog, aml, "else") /\ ~Act.cond
    /\ Set([State EXCEPT !.aml = @ + 1])
    /\ stack' = Under \o <<Else(aml), TermList(aml)>>
    /\ UNCHANGED <<prog, known>>

EndIf ==
    /\ Running("if_else") /\ ~IsAt(prog, aml, "else")
    /\ stack' = Under
    /\ UNCHANGED <<prog, frames, known>>

EndElse ==
    /\ Running("else")
    /\ Set([State EXCEPT !.aml = End(prog, Act.cell)])
    /\ stack' = Under
    /\ UNCHANGED <<prog, known>>

(* The condition of a While, at first and after each turn. *)
WhileTrue ==
    /\ Running("operand") /\ prog[Act.cell].op = "while"
    /\ Set([State EXCEPT !.way = "body"])
    /\ stack' = Under \o <<TermList(Act.cell)>>
    /\ UNCHANGED <<prog, known>>

WhileFalse ==
    /\ Running("operand") /\ prog[Act.cell].op = "while"
    /\ Set([State EXCEPT !.aml = End(prog, Act.cell), !.way = "past"])
    /\ stack' = SubSeq(stack, 1, Len(stack) - 2)
    /\ UNCHANGED <<prog, known>>

(* A mutant of WhileAgain: a Return is taken for a Continue. *)
WhileAgainReturn ==
    /\ Running("while") /\ intr # "break"
    /\ Set([State EXCEPT !.intr = IF @ = "continue" THEN "none" ELSE @,
                         !.aml = Act.cell + 1, !.at = Act.cell, !.way = "operand"])
    /\ stack' = Append(stack, Operand(Act.cell))
    /\ UNCHANGED <<prog, known>>

(* A turn is over: on to the next one, or out of the loop. *)
WhileAgain ==
    /\ Running("while") /\ intr \in {"none", "continue"}
    /\ Set([State EXCEPT !.intr = "none", !.aml = Act.cell + 1,
                         !.at = Act.cell, !.way = "operand"])
    /\ stack' = Append(stack, Operand(Act.cell))
    /\ UNCHANGED <<prog, known>>

(* A mutant of EndWhile: Break is passed on to the loop around this one. *)
EndWhileBroken ==
    /\ Running("while") /\ intr \in {"break", "return"}
    /\ Set([State EXCEPT !.aml = End(prog, Act.cell)])
    /\ stack' = Under
    /\ UNCHANGED <<prog, known>>

EndWhile ==
    /\ Running("while") /\ intr \in {"break", "return"}
    /\ Set([State EXCEPT !.intr = IF @ = "break" THEN "none" ELSE @,
                         !.aml = End(prog, Act.cell)])
    /\ stack' = Under
    /\ UNCHANGED <<prog, known>>

(* A mutant of EndScope: the scope is restored only if the block ended by  *)
(* itself.                                                                 *)
EndScopeEarly ==
    /\ Running("scope")
    /\ Set([State EXCEPT !.scope = IF intr = "none" THEN Act.scope ELSE @])
    /\ stack' = Under
    /\ UNCHANGED <<prog, known>>

(* state->scope = scope *)
EndScope ==
    /\ Running("scope")
    /\ Set([State EXCEPT !.scope = Act.scope])
    /\ stack' = Under
    /\ UNCHANGED <<prog, known>>

-----------------------------------------------------------------------------
Terms == Statement \/ DefReturn \/ DefBreak \/ DefMethod \/ DefScope
           \/ DefIfElse \/ DefWhile \/ EndTermlist
Operands == Evaluated \/ IfTrue \/ IfFalse \/ WhileTrue \/ WhileFalse
Ends == SkipElse \/ TakeElse \/ EndIf \/ EndElse \/ WhileAgain \/ EndWhile
          \/ EndScope \/ EndMethod \/ EndTable

Next ==
    \/ RegisterTable
    \/ \E m \in DOMAIN prog : EvalMethod(m) \/ CallMethod(m)
    \/ Terms
    \/ Operands
    \/ Ends

Spec == Init /\ [][Next]_vars

(* One thread, which waits for nothing. *)
FairSpec == Spec /\ WF_vars(Terms \/ Operands \/ Ends)

-----------------------------------------------------------------------------
(* Correctness. *)

(* A term list only ever fetches terms of its own block, one it has not    *)
(* been told to leave, and never an Else (which parse_next does not know:  *)
(* it would stop with "unknown opcode").                                   *)
FetchesOwnTerms ==
    Continues => /\ intr = "none"
                 /\ Parent(prog, aml) = Act.cell
                 /\ prog[aml].op # "else"

(* A term list that no interrupt has cut short ends exactly where its      *)
(* block does, so that the assignment at the end of sabi_parse_termlist    *)
(* changes nothing.                                                        *)
ListsEndAtEnd ==
    Running("termlist") /\ ~Continues /\ intr = "none" => aml = End(prog, Act.cell)

(* Terms run in the scope of the innermost Scope, Device or Method around  *)
(* them, however control has left the blocks before: names would otherwise *)
(* be defined and looked up in the wrong place.                            *)
ScopeIsLexical ==
    Continues => State.scope = Innermost({0} \cup {b \in Around(prog, aml) :
                                               Op(prog, b) \in {"scope", "method"}})

(* Once Return has its value, its method or table ends, through all the    *)
(* blocks and loops around it.                                             *)
ReturnsEnd ==
    \A d \in 1..MaxDepth :
      Depth = d /\ intr = "return" /\ ~Running("operand") ~> Depth < d

(* The interpreter implements structured control flow: the records of the  *)
(* C stack, the jumps and the interrupts lead from cell to cell just as    *)
(* the lexical structure of the code says.                                 *)
Calls == [d \in DOMAIN frames |-> [at |-> frames[d].at, way |-> frames[d].way]]
Structured == INSTANCE Flow WITH calls <- Calls
FlowSpec == Structured!Spec

=============================================================================
