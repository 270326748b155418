------------------------------- MODULE Flow --------------------------------
(***************************************************************************)
(* What running AML promises: control follows the lexical structure of the *)
(* code.  A call is at a cell, and goes from there to the cell that        *)
(* structured control flow names next, or returns.  There is no C stack,   *)
(* no interrupt and no address arithmetic here: compare module Control.    *)
(***************************************************************************)
EXTENDS Lexical

VARIABLES
    prog,    \* the table
    calls    \* the table load and the method calls that are running

vars == <<prog, calls>>

(* A call at cell i is evaluating i's operands, goes into its terms, or    *)
(* goes past it.                                                           *)
Way == {"operand", "body", "past"}

Done == -1

(* The innermost loop around cell i in the same method, Done if none. *)
Loop(p, i) ==
    LET outer == {b \in Around(p, i) : Op(p, b) \in {"while", "method"}}
    IN  IF outer # {} /\ Op(p, Innermost(outer)) = "while" THEN Innermost(outer) ELSE Done

(* The Else of the If at i. *)
HasElse(p, i) == /\ Op(p, i) = "if"
                 /\ IsAt(p, End(p, i), "else")
                 /\ Parent(p, End(p, i)) = Parent(p, i)

(* Where control goes when the statement at i is over: to the next one of  *)
(* its list; else back to the loop, out of the method, or to where it goes *)
(* after the enclosing block.                                              *)
After(p) ==
    LET after[i \in DOMAIN p] ==
          LET b == Parent(p, i)
              n == IF HasElse(p, i) THEN End(p, End(p, i)) ELSE End(p, i)
          IN  IF n \in Body(p, b) THEN n
              ELSE IF Op(p, b) \in {"table", "method"} THEN Done
              ELSE IF Op(p, b) = "while" THEN b
              ELSE after[b]
    IN  after

(* Where control goes on entry to block b. *)
First(p, b) == IF Body(p, b) # {} THEN b + 1
               ELSE IF Op(p, b) \in {"table", "method"} THEN Done
               ELSE IF Op(p, b) = "while" THEN b
               ELSE After(p)[b]

(* Where control goes past cell i, whose terms are not entered. *)
Past(p, i) ==
    CASE Op(p, i) = "return" -> Done
      [] Op(p, i) = "break" -> IF Loop(p, i) = Done THEN Done ELSE After(p)[Loop(p, i)]
      [] Op(p, i) = "continue" -> Loop(p, i)
      [] OTHER -> IF HasElse(p, i) THEN First(p, End(p, i)) ELSE After(p)[i]

Successor(p, call) == IF call.way = "body" THEN First(p, call.at) ELSE Past(p, call.at)

(* The ways on from a cell once its operands are known. *)
Ways(p, i) == CASE Op(p, i) \in {"if", "while"} -> {"body", "past"}
                [] Op(p, i) = "scope" -> {"body"}
                [] OTHER -> {"past"}

Top == calls[Len(calls)]
Goes(call) == calls' = [calls EXCEPT ![Len(calls)] = call] /\ UNCHANGED prog

Init == calls = <<>>

(* A table load, or a call of the method at cell m: from the outside, or   *)
(* by an operand.                                                          *)
Call(m) ==
    /\ calls # <<>> => m # 0 /\ Top.way = "operand"
    /\ m # 0 => IsAt(prog, m, "method")
    /\ calls' = Append(calls, [at |-> m, way |-> "body"])
    /\ UNCHANGED prog

(* On to the next cell. *)
Step ==
    /\ calls # <<>>
    /\ Top.way # "operand" /\ Successor(prog, Top) # Done
    /\ \E way \in {"operand"} \cup Ways(prog, Successor(prog, Top)) :
           Goes([at |-> Successor(prog, Top), way |-> way])

(* The operands are known. *)
Decide ==
    /\ calls # <<>>
    /\ Top.way = "operand"
    /\ \E way \in Ways(prog, Top.at) : Goes([Top EXCEPT !.way = way])

Return ==
    /\ calls # <<>>
    /\ Top.way # "operand" /\ Successor(prog, Top) = Done
    /\ calls' = SubSeq(calls, 1, Len(calls) - 1)
    /\ UNCHANGED prog

Next == \/ \E m \in 0..Len(prog) : Call(m)
        \/ Step
        \/ Decide
        \/ Return

Spec == Init /\ [][Next]_vars

=============================================================================
