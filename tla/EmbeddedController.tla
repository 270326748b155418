------------------------- MODULE EmbeddedController -------------------------
(***************************************************************************)
(* The driver of the embedded controller, source/ec.c, and the controller, *)
(* which runs at its own pace behind two ports of one byte each way:       *)
(*   - the driver writes commands and data into the input buffer, which    *)
(*     holds one byte; the flag IBF is set until the controller has taken  *)
(*     it out;                                                             *)
(*   - the controller puts bytes into the output buffer; the flag OBF is   *)
(*     set until the driver has read it;                                   *)
(*   - the flag BURST says that the controller is in burst mode.           *)
(* The driver looks at a flag in one port access and relies on it in the   *)
(* next.  The controller is not code of the library: it is modelled after  *)
(* what the driver expects of it (the register interface of ACPI), and     *)
(* starts with both buffers empty.                                         *)
(*                                                                         *)
(* Kept out: the results of the checks in enable_burst, which are computed *)
(* and not used, and a controller in memory space, which sabi_ec_resolve   *)
(* never makes.                                                            *)
(***************************************************************************)
EXTENDS Integers, Sequences

CONSTANTS
    Offset, Value, Sensors,  \* see RegisterFile
    Idle, None, Written,
    Ack                      \* the answer to the command that enables burst mode

ASSUME SensorsAssumption == Sensors \subseteq Offset
ASSUME NoneAssumption == None \notin Value \cup {Ack, Written}

VARIABLES
    call,    \* the arguments of the call, or Idle
    todo,    \* the port accesses that the call has still to make
    polled,  \* the flag for the next access has been seen as it must be
    value,   \* the last byte that read_data returned
    in,      \* the input buffer, None when IBF is clear
    out,     \* the output buffer, None when OBF is clear
    burst,   \* the flag BURST
    busy,    \* the byte that the controller has taken and works on
    ec       \* its registers, what it expects next, and whether it may leave
             \* burst mode by itself

driver == <<call, todo, polled, value>>
vars == <<call, todo, polled, value, in, out, burst, busy, ec>>

Call == [op : {"read"}, offset : Offset]
          \cup [op : {"write"}, offset : Offset, value : Value]

(* The accesses: write_command, write_data, read_data, and the loop of     *)
(* disable_burst.                                                          *)
Command(c) == [do |-> "command", byte |-> c]
Data(b) == [do |-> "data", byte |-> b]
ReadData == [do |-> "read"]
WaitBurst == [do |-> "wait"]

(* What the input buffer can hold. *)
PortByte ==
    {Command(c) : c \in {"burst enable", "burst disable", "read", "write"}}
      \cup {Data(b) : b \in Offset \cup Value}

ASSUME PortAssumption == Idle \notin Call /\ None \notin PortByte

(* Mutants of DisableBurst: the command is not sent; its effect is not     *)
(* waited for.                                                             *)
DisableBurstSilent == <<WaitBurst>>
DisableBurstHasty == <<Command("burst disable")>>

(* enable_burst, disable_burst *)
EnableBurst == <<Command("burst enable"), ReadData>>
DisableBurst == <<Command("burst disable"), WaitBurst>>

(* sabi_ec_read, sabi_ec_write *)
Accesses(c) ==
    EnableBurst
      \o (IF c.op = "read"
          THEN <<Command("read"), Data(c.offset), ReadData>>
          ELSE <<Command("write"), Data(c.offset), Data(c.value)>>)
      \o DisableBurst

-----------------------------------------------------------------------------
(* The controller.  What becomes of its registers and of its state when it *)
(* handles a byte; a command starts afresh.                                *)
Handles(s, b) ==
    CASE b = None -> s
      [] b # None /\ b.do = "command" -> [s EXCEPT !.expects = b.byte]
      [] b # None /\ b.do = "data" ->
           CASE s.expects = "read" -> [s EXCEPT !.expects = "nothing"]
             [] s.expects = "write" -> [s EXCEPT !.expects = "value", !.offset = b.byte]
             [] s.expects = "value" -> [s EXCEPT !.expects = "nothing",
                                                 !.regs[s.offset] = b.byte]
             [] OTHER -> s

(* What it then puts into the output buffer. *)
Answers(s, b) ==
    CASE b.do = "command" /\ b.byte = "burst enable" -> Ack
      [] b.do = "data" /\ s.expects = "read" -> s.regs[b.byte]
      [] OTHER -> None

(* It takes a byte out of the input buffer. *)
Take ==
    /\ busy = None /\ in # None
    /\ busy' = in /\ in' = None
    /\ UNCHANGED <<driver, out, burst, ec>>

(* It is done with the byte; an answer waits for the output buffer. *)
Handle ==
    /\ busy # None
    /\ Answers(ec, busy) # None => out = None
    /\ out' = IF Answers(ec, busy) # None THEN Answers(ec, busy) ELSE out
    /\ ec' = Handles(ec, busy)
    /\ burst' = IF busy = Command("burst enable") THEN TRUE
                ELSE IF busy = Command("burst disable") THEN FALSE
                ELSE burst
    /\ busy' = None
    /\ UNCHANGED <<driver, in>>

(* It leaves burst mode, after too long a pause, or for an event. *)
DropBurst ==
    /\ ec.drops /\ burst
    /\ burst' = FALSE
    /\ UNCHANGED <<driver, in, out, busy, ec>>

(* A temperature, a fan speed: registers that change by themselves. *)
Sense ==
    /\ \E o \in Sensors, v \in Value : ec' = [ec EXCEPT !.regs[o] = v]
    /\ UNCHANGED <<driver, in, out, burst, busy>>

-----------------------------------------------------------------------------
(* The driver. *)

Init ==
    /\ call = Idle /\ todo = <<>> /\ polled = FALSE /\ value = None
    /\ in = None /\ out = None /\ burst = FALSE /\ busy = None
    /\ \E regs \in [Offset -> Value], drops \in BOOLEAN :
         ec = [regs |-> regs, expects |-> "nothing", offset |-> None, drops |-> drops]

Begin(c) ==
    /\ call = Idle
    /\ call' = c
    /\ todo' = Accesses(c)
    /\ UNCHANGED <<polled, value, in, out, burst, busy, ec>>

(* What read_status must show before the access. *)
Ready(access) == CASE access.do \in {"command", "data"} -> in = None
                   [] access.do = "read" -> out # None
                   [] access.do = "wait" -> ~burst

(* A mutant of Poll: the flag is not waited for. *)
PollOnce ==
    /\ todo # <<>> /\ ~polled
    /\ polled' = TRUE
    /\ UNCHANGED <<call, todo, value, in, out, burst, busy, ec>>

(* The loop on read_status ends; until then it changes nothing. *)
Poll ==
    /\ todo # <<>> /\ ~polled
    /\ Ready(Head(todo))
    /\ polled' = TRUE
    /\ UNCHANGED <<call, todo, value, in, out, burst, busy, ec>>

Advance == todo' = Tail(todo) /\ polled' = FALSE /\ UNCHANGED call

(* write_command, write_data: the access itself. *)
WritePort ==
    /\ polled /\ Head(todo).do \in {"command", "data"}
    /\ in' = Head(todo)
    /\ Advance
    /\ UNCHANGED <<value, out, burst, busy, ec>>

(* A mutant of ReadPort: the byte stays in the output buffer. *)
ReadPortPeek ==
    /\ polled /\ Head(todo).do = "read"
    /\ value' = out
    /\ Advance
    /\ UNCHANGED <<in, out, burst, busy, ec>>

(* read_data *)
ReadPort ==
    /\ polled /\ Head(todo).do = "read"
    /\ value' = out
    /\ out' = None
    /\ Advance
    /\ UNCHANGED <<in, burst, busy, ec>>

Waited ==
    /\ polled /\ Head(todo).do = "wait"
    /\ Advance
    /\ UNCHANGED <<value, in, out, burst, busy, ec>>

(* The call returns, a read with the last byte it read. *)
Return ==
    /\ call # Idle /\ todo = <<>>
    /\ call' = Idle /\ value' = None
    /\ UNCHANGED <<todo, polled, in, out, burst, busy, ec>>

-----------------------------------------------------------------------------
Driver == Poll \/ WritePort \/ ReadPort \/ Waited \/ Return
Controller == Take \/ Handle

Next ==
    \/ \E c \in Call : Begin(c)
    \/ Driver
    \/ Controller
    \/ DropBurst
    \/ Sense

Spec == Init /\ [][Next]_vars

(* The driver runs on; the controller deals with every byte in the end. *)
FairSpec == Spec /\ WF_vars(Driver) /\ WF_vars(Controller)

-----------------------------------------------------------------------------
(* Correctness. *)

(* The flag that the driver has polled is still as it was when it makes    *)
(* the access, whatever the controller has done in between: no byte is     *)
(* written over another, none is read that is not there.                   *)
PollHolds ==
    polled => todo # <<>> /\ Ready(Head(todo))

(* No byte is left in the output buffer when a call returns: the next call *)
(* would take it for the answer to its own command.  Unless the controller *)
(* leaves burst mode by itself, the loop of disable_burst has also waited  *)
(* for all that was sent: the controller has nothing left to do, and a     *)
(* written value is in its register.                                       *)
QuietAtReturn ==
    call = Idle => out = None /\ (~ec.drops => in = None /\ busy = None)

(* Every access to the controller ends. *)
CallsReturn == call # Idle ~> call = Idle

(* The registers as they will be when the controller has handled the bytes *)
(* it has been sent.                                                       *)
Sent == Handles(Handles(ec, busy), in)

(* A read is done when its value is on its way to the driver, a write when *)
(* its value is on its way to the controller.                              *)
Answer ==
    IF call = Idle THEN None
    ELSE IF call.op = "write" THEN IF Len(todo) =< Len(DisableBurst) THEN Written ELSE None
    ELSE IF Len(todo) =< Len(DisableBurst) THEN value
    ELSE IF Len(todo) = Len(DisableBurst) + 1 THEN out
    ELSE None

(* The handshake through the ports implements atomic accesses, even where  *)
(* the controller leaves burst mode in the middle of one.                  *)
Registers == INSTANCE RegisterFile WITH mem <- Sent.regs, answer <- Answer
RegistersSpec == Registers!Spec

=============================================================================
