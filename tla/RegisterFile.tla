---------------------------- MODULE RegisterFile ----------------------------
(***************************************************************************)
(* What sabi_ec_read and sabi_ec_write promise to the accesses of fields   *)
(* in an embedded controller's space: registers, each call being one       *)
(* atomic access at some time between its start and its end.  No ports,    *)
(* no flags, no burst mode.                                                *)
(***************************************************************************)
CONSTANTS
    Offset,   \* the registers
    Value,    \* what they hold
    Sensors,  \* the registers that the controller itself changes
    Idle,     \* no call
    None,     \* no answer yet
    Written   \* the answer of a write

VARIABLES
    mem,      \* the registers
    call,     \* the call that is running
    answer    \* what it will return

vars == <<mem, call, answer>>

Call == [op : {"read"}, offset : Offset]
          \cup [op : {"write"}, offset : Offset, value : Value]

Init == /\ mem \in [Offset -> Value]
        /\ call = Idle
        /\ answer = None

Begin(c) ==
    /\ call = Idle
    /\ call' = c
    /\ UNCHANGED <<mem, answer>>

Read ==
    /\ call # Idle /\ answer = None /\ call.op = "read"
    /\ answer' = mem[call.offset]
    /\ UNCHANGED <<mem, call>>

Write ==
    /\ call # Idle /\ answer = None /\ call.op = "write"
    /\ mem' = [mem EXCEPT ![call.offset] = call.value]
    /\ answer' = Written
    /\ UNCHANGED call

Finish ==
    /\ call # Idle /\ answer # None
    /\ call' = Idle /\ answer' = None
    /\ UNCHANGED mem

Sense ==
    /\ \E o \in Sensors, v \in Value : mem' = [mem EXCEPT ![o] = v]
    /\ UNCHANGED <<call, answer>>

Next == (\E c \in Call : Begin(c)) \/ Read \/ Write \/ Finish \/ Sense

Spec == Init /\ [][Next]_vars

=============================================================================
