------------------------------ MODULE EventBox ------------------------------
(***************************************************************************)
(* What events promise the operating system: an event that has been raised *)
(* is pending until a report takes it; it is reported once; and only a     *)
(* call that switches ACPI mode on may discard what is pending.  No        *)
(* registers, no bits to write back.                                       *)
(***************************************************************************)
CONSTANTS
    Source      \* what can raise an event

VARIABLES
    pending,    \* raised, and not taken yet
    taken,      \* taken by the report that is being made
    report,     \* the last report
    switching   \* a call is switching ACPI mode on

vars == <<pending, taken, report, switching>>

Init == pending \subseteq Source /\ taken = {} /\ report = {} /\ switching = FALSE

Raise(s) ==
    /\ pending' = pending \cup {s}
    /\ UNCHANGED <<taken, report, switching>>

Take(S) ==
    /\ S \subseteq pending
    /\ pending' = pending \ S /\ taken' = taken \cup S
    /\ UNCHANGED <<report, switching>>

Report ==
    /\ report' = taken /\ taken' = {}
    /\ UNCHANGED <<pending, switching>>

Switch(on) ==
    /\ switching' = on
    /\ UNCHANGED <<pending, taken, report>>

Discard(S) ==
    /\ switching
    /\ pending' = pending \ S
    /\ UNCHANGED <<taken, report, switching>>

Next ==
    \/ \E s \in Source : Raise(s)
    \/ Take(pending \ pending')
    \/ Report
    \/ \E on \in BOOLEAN : Switch(on)
    \/ Discard(pending \ pending')

Spec == Init /\ [][Next]_vars

=============================================================================
