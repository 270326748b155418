------------------------------- MODULE Events -------------------------------
(***************************************************************************)
(* The switch to ACPI mode and the fixed events, source/events.c, against  *)
(* the hardware and the firmware, which run at their own pace:             *)
(*   - a status bit is set when its event is raised, and cleared by        *)
(*     writing 1 to it; the status and enable registers are in one or two  *)
(*     blocks, and an event has its bits in one of them;                   *)
(*   - in ACPI mode an event that is raised and enabled asserts the        *)
(*     interrupt (SCI), whose handler calls sabi_read_event;               *)
(*   - a write to the SMI command port makes the firmware set SCI_EN, some *)
(*     time later.                                                         *)
(* The handler interrupts calls of the library between any two accesses to *)
(* registers, and may run beside them.                                     *)
(*                                                                         *)
(* Kept out: the AML that sabi_enable_acpi runs before it touches the      *)
(* registers (module NodeWalk), and the order of bits in a register.     *)
(***************************************************************************)
EXTENDS Integers, Sequences

CONSTANTS
    Event,     \* the events of the hardware
    Block,     \* the register blocks, in the order in which they are used
    Wire,      \* Wire[e]: the block of event e
    Buttons,   \* the events that sabi_enable_acpi enables
    MaxPolls   \* how often SCI_EN is polled (100)

Blocks == {Block[i] : i \in DOMAIN Block}

(* The blocks are different ports. *)
ASSUME BlockAssumption ==
    Block \in Seq(Blocks) /\ \A i, j \in DOMAIN Block : Block[i] = Block[j] => i = j
ASSUME WireAssumption == Wire \in [Event -> Blocks]
ASSUME ButtonsAssumption == Buttons \subseteq Event
ASSUME PollsAssumption == MaxPolls \in Nat

VARIABLES
    sts,     \* the status registers
    en,      \* the enable registers
    sciEn,   \* the bit SCI_EN: ACPI mode is on
    smi,     \* the firmware has been told to switch it on
    slow,    \* whether it may take longer than all the polls
    call,    \* the call of the library that runs, or "none"
    polls,   \* its count of polls
    todo,    \* what the call and the interrupt handler have still to access
    words,   \* the words they have read
    report,  \* what the handler's last sabi_read_event returned
    fadt,    \* whether there is a FADT
    ready,   \* a call has switched ACPI mode on, and no write has come since
    old      \* events raised before that and never again

hardware == <<sts, en, sciEn, smi, slow>>
process == <<call, polls, todo, words>>
ghosts == <<ready, old>>
vars == <<hardware, process, report, fadt, ghosts>>

Process == {"call", "sci"}
Nothing == [b \in Blocks |-> {}]

(* The accesses of sabi_enable_acpi to the control register and to the SMI *)
(* command port, and those of the others to the registers of a block.      *)
Check == [do |-> "check"]
Switch == [do |-> "switch"]
Poll == [do |-> "poll"]
Enable(b, value) == [do |-> "enable", block |-> b, value |-> value]
Read(b) == [do |-> "read", block |-> b]
Clear(b) == [do |-> "clear", block |-> b]
Report == [do |-> "report"]     \* the interrupt handler has its result

(* Mutants of WriteEvent and ReadEvent: the second block is forgotten.     *)
WriteEventFirst(value) == << Enable(Block[1], value) >>
ReadEventFirst == << Read(Block[1]), Clear(Block[1]) >>

(* sabi_write_event, sabi_read_event *)
WriteEvent(value) == [i \in DOMAIN Block |-> Enable(Block[i], value)]
ReadEvent == [i \in 1..(2 * Len(Block)) |->
                IF i % 2 = 1 THEN Read(Block[(i + 1) \div 2]) ELSE Clear(Block[i \div 2])]

-----------------------------------------------------------------------------
(* The machine may be in either mode and have any event pending. *)
Init ==
    /\ sts \in [Blocks -> SUBSET Event] /\ \A b \in Blocks : \A e \in sts[b] : Wire[e] = b
    /\ en = Nothing
    /\ sciEn \in BOOLEAN /\ smi = FALSE /\ slow \in BOOLEAN
    /\ call = "none" /\ polls = 0
    /\ todo = [p \in Process |-> <<>>]
    /\ words = [p \in Process |-> Nothing]
    /\ report = {}
    /\ fadt \in BOOLEAN
    /\ ready = FALSE /\ old = {}

(* Hardware and firmware. *)
Raise(e) ==
    /\ sts' = [sts EXCEPT ![Wire[e]] = @ \cup {e}]
    /\ old' = old \ {e}
    /\ UNCHANGED <<en, sciEn, smi, slow, process, report, fadt, ready>>

SwitchedOn ==
    /\ smi
    /\ smi' = FALSE /\ sciEn' = TRUE
    /\ UNCHANGED <<sts, en, slow, process, report, fadt, ghosts>>

Asserted == sciEn /\ \E b \in Blocks : sts[b] \cap en[b] # {}

-----------------------------------------------------------------------------
(* Calls of the library: the operating system makes one at a time, beside  *)
(* the interrupt handler. *)
EnableAcpi ==
    /\ call = "none"
    /\ call' = "enable" /\ polls' = 0
    /\ todo' = [todo EXCEPT !["call"] = IF fadt THEN <<Check, Switch, Poll>> ELSE <<>>]
    /\ UNCHANGED <<hardware, words, report, fadt, ghosts>>

SetEvents(value) ==
    /\ call = "none"
    /\ call' = "write"
    /\ todo' = [todo EXCEPT !["call"] = IF fadt THEN WriteEvent(value) ELSE <<>>]
    /\ ready' = FALSE
    /\ UNCHANGED <<hardware, polls, words, report, fadt, old>>

Return ==
    /\ call # "none" /\ todo["call"] = <<>>
    /\ call' = "none" /\ polls' = 0
    /\ words' = [words EXCEPT !["call"] = Nothing]
    /\ UNCHANGED <<hardware, todo, report, fadt, ghosts>>

Doing(p, what) == todo[p] # <<>> /\ Head(todo[p]).do = what
Goes(p, accesses) == todo' = [todo EXCEPT ![p] = accesses]

(* sabi_enable_acpi returns at once when ACPI mode is on. *)
CheckMode ==
    /\ Doing("call", "check")
    /\ Goes("call", IF sciEn THEN <<>> ELSE Tail(todo["call"]))
    /\ UNCHANGED <<hardware, call, polls, words, report, fadt, ghosts>>

SwitchMode ==
    /\ Doing("call", "switch")
    /\ smi' = TRUE
    /\ old' = UNION {sts[b] : b \in Blocks}
    /\ Goes("call", Tail(todo["call"]))
    /\ UNCHANGED <<sts, en, sciEn, slow, call, polls, words, report, fadt, ready>>

(* A mutant of PollAgain: the polls are not counted. *)
PollForever ==
    /\ Doing("call", "poll") /\ ~sciEn
    /\ UNCHANGED vars

PollAgain ==
    /\ Doing("call", "poll") /\ ~sciEn
    /\ polls < MaxPolls
    /\ polls' = polls + 1
    /\ UNCHANGED <<hardware, call, todo, words, report, fadt, ghosts>>

(* Too late: the call returns -1. *)
GiveUp ==
    /\ Doing("call", "poll") /\ ~sciEn
    /\ polls = MaxPolls /\ slow
    /\ Goes("call", <<>>)
    /\ UNCHANGED <<hardware, call, polls, words, report, fadt, ghosts>>

(* ACPI mode is on: the buttons are enabled, and old events cleared. *)
ModeIsOn ==
    /\ Doing("call", "poll") /\ sciEn
    /\ Goes("call", WriteEvent(Buttons) \o ReadEvent)
    /\ UNCHANGED <<hardware, call, polls, words, report, fadt, ghosts>>

WriteEnable ==
    /\ Doing("call", "enable")
    /\ LET access == Head(todo["call"])
       IN  en' = [en EXCEPT ![access.block] = {e \in access.value : Wire[e] = access.block}]
    /\ Goes("call", Tail(todo["call"]))
    /\ UNCHANGED <<sts, sciEn, smi, slow, call, polls, words, report, fadt, ghosts>>

ReadStatus(p) ==
    /\ Doing(p, "read")
    /\ LET b == Head(todo[p]).block IN words' = [words EXCEPT ![p][b] = sts[b]]
    /\ Goes(p, Tail(todo[p]))
    /\ UNCHANGED <<hardware, call, polls, report, fadt, ghosts>>

(* A mutant of ClearStatus: all bits are cleared. *)
ClearStatusAll(p) ==
    /\ Doing(p, "clear")
    /\ LET b == Head(todo[p]).block IN sts' = [sts EXCEPT ![b] = {}] /\ old' = old \ sts[b]
    /\ Goes(p, Tail(todo[p]))
    /\ ready' = (ready \/ (p = "call" /\ Len(todo[p]) = 1))
    /\ UNCHANGED <<en, sciEn, smi, slow, call, polls, words, report, fadt>>

ClearStatus(p) ==
    /\ Doing(p, "clear")
    /\ LET b == Head(todo[p]).block
       IN  /\ sts' = [sts EXCEPT ![b] = @ \ words[p][b]]
           /\ old' = old \ words[p][b]
    /\ Goes(p, Tail(todo[p]))
    /\ ready' = (ready \/ (p = "call" /\ Len(todo[p]) = 1))
    /\ UNCHANGED <<en, sciEn, smi, slow, call, polls, words, report, fadt>>

(* The interrupt handler of the operating system. *)
Interrupt ==
    /\ Asserted /\ todo["sci"] = <<>>
    /\ Goes("sci", IF fadt THEN ReadEvent \o <<Report>> ELSE <<Report>>)
    /\ UNCHANGED <<hardware, call, polls, words, report, fadt, ghosts>>

Handled ==
    /\ Doing("sci", "report")
    /\ report' = UNION {words["sci"][b] : b \in Blocks}
    /\ words' = [words EXCEPT !["sci"] = Nothing]
    /\ Goes("sci", <<>>)
    /\ UNCHANGED <<hardware, call, polls, fadt, ghosts>>

-----------------------------------------------------------------------------
Calls == \/ CheckMode \/ SwitchMode \/ PollAgain \/ GiveUp \/ ModeIsOn \/ WriteEnable
         \/ ReadStatus("call") \/ ClearStatus("call") \/ Return
Handler == Interrupt \/ ReadStatus("sci") \/ ClearStatus("sci") \/ Handled

Next ==
    \/ \E e \in Event : Raise(e)
    \/ SwitchedOn
    \/ EnableAcpi
    \/ \E value \in {{}, Event} : SetEvents(value)
    \/ Calls
    \/ Handler

Spec == Init /\ [][Next]_vars

(* The processor runs the call and the handler.  Slow firmware may never   *)
(* answer.                                                                 *)
FairSpec == Spec /\ WF_vars(Calls) /\ WF_vars(Handler) /\ WF_vars(SwitchedOn /\ ~slow)

-----------------------------------------------------------------------------
(* Correctness. *)

(* When sabi_enable_acpi has switched ACPI mode on, nothing that was       *)
(* raised before the switch is left to be reported later: a button pressed *)
(* while the firmware was in charge must not shut the system down.         *)
StaleGone == ready => old = {}

(* Every call returns, whatever the firmware does. *)
CallsReturn == call # "none" ~> call = "none"

(* The handler has read the event's bit and has not cleared it yet. *)
Held(e) == Doing("sci", "clear") /\ e \in words["sci"][Head(todo["sci"]).block]
Pending == {e \in Event : e \in sts[Wire[e]] /\ ~Held(e)}

(* After the switch a button that is raised is taken by a report in the    *)
(* end.  This needs firmware that is in time: where it is late, the call   *)
(* returns -1 before the buttons are enabled, and a later call, which      *)
(* finds ACPI mode on, returns 0 and does not enable them either.          *)
ButtonsReported ==
    \A e \in Buttons :
      (~slow /\ ready /\ e \in Pending) ~> (e \notin Pending \/ ~ready)

(* Reading a status register, writing back what was read, and reading the  *)
(* next one implements a box of events: none is lost between the read and  *)
(* the write, and none is reported twice.                                  *)
Box == INSTANCE EventBox
         WITH Source <- Event, pending <- Pending,
              taken <- UNION {words["sci"][b] : b \in Blocks},
              switching <- call = "enable"
BoxSpec == Box!Spec

=============================================================================
