----------------------------- MODULE MCDevices -----------------------------
(***************************************************************************)
(* Devices as the library and the operating system deal with them: they    *)
(* read resources and how interrupts are routed (Routing), regions get     *)
(* their addresses (Addresses), and a controller is accessed through its   *)
(* ports (EmbeddedController); and the conversions of data (Conversions).  *)
(* They share no state: in a behaviour one of them is at work while the    *)
(* others rest.  Conversions and definitions come to the bound and stop    *)
(* there.                                                                  *)
(***************************************************************************)
EXTENDS EmbeddedController, Routing, Addresses, Conversions

(* Offsets and values of the controller are different model values, so     *)
(* that taking one for the other is noticed.                               *)
CONSTANTS o1, o2, v1, v2

VARIABLE atWork

(* Templates of up to three descriptors, of all sizes and types. *)
Descriptors ==
    {Irq(5, FALSE, {}), Irq(3, TRUE, {"edge"}), Irq(10, TRUE, {"low", "shared"}),
     Extended(19, {"low"}), Extended(300, {"edge", "wake"}),
     Io(98), Io(102), Bus(64)}
SomeTemplates == UNION {[1..n -> Descriptors] : n \in 0..3}
SomeEntries ==
    {[source |-> "gsi", index |-> 17, adr |-> 3 * 65536 + 65535, pin |-> 1],
     [source |-> "missing", index |-> 0, adr |-> 65535, pin |-> 0]}
    \cup {[source |-> "link", index |-> i, adr |-> 2 * 65536 + 65535, pin |-> 2] : i \in 0..2}
SomeAddresses == {0, 1, 65536, 65538, 131072, 131071}

(* A host bridge, a controller and another device. *)
SomeNames ==
    {[hid |-> "bridge", ADR |-> 1, BBN |-> 1], [hid |-> "controller", ADR |-> 0, BBN |-> 0],
     [hid |-> "", ADR |-> 2, BBN |-> 0]}

(* Integers at the ends of 64 bits and of 16 decimal digits, strings with  *)
(* and without digits and IDs, and buffers of fewer and of more than eight *)
(* bytes.  A character's code is 47 more than its place in this string.    *)
Printable ==
    "0123456789.......ABCDEFGHIJKLMNOPQRSTUVWXYZ......abcdefghijklmnopqrstuvwxyz"
Text(s) ==
    String([i \in 1..Len(s) |->
              47 + CHOOSE k \in 1..Len(Printable) :
                     SubSeq(Printable, k, k) = SubSeq(s, i, i)])
SomeInputs ==
    {Integer(Small(n)) : n \in {0, 1, 9, 10, 128, 255}}
    \cup {Integer(<<0, 0, 192, 111, 242, 134, 35, 0>>),
          Integer(<<255, 255, 192, 111, 242, 134, 35, 0>>),
          Integer(<<0, 0, 232, 137, 4, 35, 199, 138>>),
          Integer([i \in 1..8 |-> IF i = 8 THEN 128 ELSE 0]),
          Integer([i \in 1..8 |-> 255]), Integer([i \in 1..8 |-> 17 * i])}
    \cup {Text(s) : s \in {"", "0", "0x", "0X1f", "12AB", "9x", "PNP0A03",
                           "PNP0C09", "ACPI0003", "184467440737095516"}}
    \cup {Buffer(b) : b \in {<<>>, <<0>>, <<5, 200>>, <<49, 0, 50>>,
                             [i \in 1..9 |-> 100 + i]}}

-----------------------------------------------------------------------------
NoController ==
    /\ call = Idle /\ todo = <<>> /\ polled = FALSE /\ value = None
    /\ in = None /\ out = None /\ burst = FALSE /\ busy = None
    /\ ec = [regs |-> [o \in Offset |-> v1], expects |-> "nothing", offset |-> None,
             drops |-> FALSE]
NoRouting ==
    /\ present = FALSE /\ template = <<>> /\ children = <<>> /\ held = FALSE
    /\ res = Start /\ desc = NoDesc /\ given = 0 /\ answer = [is |-> "none"]
NoAddresses == nodes = <<>> /\ calls = <<>> /\ heap = <<>> /\ ecs = <<>>
NoConversion ==
    datum = Buffer(<<>>) /\ room = [given |-> 0, taken |-> 0] /\ steps = 0

DevicesInit ==
    \/ atWork = "controller" /\ Init /\ NoRouting /\ NoAddresses /\ NoConversion
    \/ atWork = "routing" /\ RoutingInit /\ NoController /\ NoAddresses /\ NoConversion
    \/ atWork = "addresses" /\ AddressInit /\ NoController /\ NoRouting /\ NoConversion
    \/ atWork = "conversion" /\ ConversionInit /\ NoController /\ NoRouting /\ NoAddresses

DevicesNext ==
    /\ UNCHANGED atWork
    /\ \/ atWork = "controller" /\ Next /\ UNCHANGED <<routing, addressing, conversion>>
       \/ atWork = "routing" /\ RoutingNext /\ UNCHANGED <<vars, addressing, conversion>>
       \/ atWork = "addresses" /\ AddressNext /\ UNCHANGED <<vars, routing, conversion>>
       \/ atWork = "conversion" /\ ConversionNext /\ UNCHANGED <<vars, routing, addressing>>

DevicesSpec ==
    /\ DevicesInit /\ [][DevicesNext]_<<atWork, vars, routing, addressing, conversion>>
    /\ WF_vars(Driver) /\ WF_vars(Controller)

=============================================================================
