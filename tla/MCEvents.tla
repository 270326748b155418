------------------------------ MODULE MCEvents ------------------------------
(* A small instance of Events for TLC: the buttons have their bits in      *)
(* different blocks.                                                       *)
EXTENDS Events

TwoBlocks == <<"pm1a", "pm1b">>
AllEvents == {"power", "sleep"}
Wiring == [e \in AllEvents |-> IF e = "sleep" THEN "pm1b" ELSE "pm1a"]

=============================================================================
