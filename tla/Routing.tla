------------------------------ MODULE Routing ------------------------------
(***************************************************************************)
(* What the operating system and the library read from the resources of a  *)
(* device: iteration over a resource template (source/resources.c), the    *)
(* translation of an entry of _PRT, the bus number of a bridge and the     *)
(* search for a device by its address (source/pci.c), and the ports of an  *)
(* embedded controller (source/ec.c).                                      *)
(*                                                                         *)
(* A template is a list of descriptors; the code has its bytes, with an    *)
(* end tag.  Firmware is assumed to write well-formed templates, and       *)
(* entries of _PRT that use descriptors that there are.                    *)
(***************************************************************************)
EXTENDS Integers, Sequences

CONSTANTS
    Templates,  \* the lists of descriptors that _CRS may return
    Entries,    \* entries of _PRT
    Addresses   \* the values that _ADR may have

VARIABLES
    present,   \* whether the device has _CRS
    template,  \* what it returns
    children,  \* the values of _ADR of the devices under the bridge, the
               \* first child first; -1 for one that has none
    held,      \* the operating system holds the resources of the device
    res,       \* its sabi_resource_t: where it is, -1 for a null pointer, and
               \* how far the next descriptor is from there
    desc,      \* the sabi_descriptor_t of the last one
    given,     \* how many it has got since the beginning or the last end
    answer     \* what another call has returned

routing == <<present, template, children, held, res, desc, given, answer>>

-----------------------------------------------------------------------------
(* Descriptors, and their bytes as include/sabi/resources.h lays them out. *)
Irq(line, info, traits) == [is |-> "irq", line |-> line, info |-> info, traits |-> traits]
Extended(gsi, traits) == [is |-> "extended", gsi |-> gsi, traits |-> traits]
Io(port) == [is |-> "io", min |-> port]
Bus(first) == [is |-> "bus", min |-> first]

(* The traits of an interrupt, edge-triggered, active low, shared, able to *)
(* wake, and the numbers of their bits.                                    *)
Packed(traits, edge, low, shared, wake) ==
    LET bit(t, n) == IF t \in traits THEN 2^n ELSE 0
    IN  bit("edge", edge) + bit("low", low) + bit("shared", shared) + bit("wake", wake)

Two(n) == <<n % 256, n \div 256>>
Four(n) == Two(n) \o <<0, 0>>

Encoded(d) ==
    CASE d.is = "irq" ->
           IF d.info THEN <<35>> \o Two(2^d.line) \o <<Packed(d.traits, 0, 3, 4, 5)>>
           ELSE <<34>> \o Two(2^d.line)
      [] d.is = "extended" ->
           <<137>> \o Two(6) \o <<1 + Packed(d.traits, 1, 2, 3, 4), 1>> \o Four(d.gsi)
      [] d.is = "io" -> <<71, 1>> \o Two(d.min) \o Two(d.min) \o <<1, 1>>
      [] d.is = "bus" -> <<136>> \o Two(13) \o <<2, 12, 0>> \o Two(0)
                           \o Two(d.min) \o Two(255) \o Two(0) \o Two(256 - d.min)
EndTag == <<121, 0>>

Encode(list) ==
    LET bytes[i \in 0..Len(list)] ==
          IF i = 0 THEN <<>> ELSE bytes[i - 1] \o Encoded(list[i])
    IN  bytes[Len(list)] \o EndTag

-----------------------------------------------------------------------------
(* Bytes of a buffer are numbered from 0. *)
ByteAt(buf, i) == buf[i + 1]
WordAt(buf, i) == ByteAt(buf, i) + 256 * ByteAt(buf, i + 1)

Nowhere == -1
Start == [pos |-> Nowhere, skip |-> 0]
NoDesc == [type |-> 0, data |-> Nowhere, length |-> 0]

(* A mutant of Length: the header of a large descriptor is not counted. *)
LengthBare(buf, p) ==
    IF ByteAt(buf, p) >= 128 THEN WordAt(buf, p + 1) ELSE 1 + (ByteAt(buf, p) % 8)

(* The type and the length of a descriptor, with its header. *)
Length(buf, p) ==
    IF ByteAt(buf, p) >= 128 THEN WordAt(buf, p + 1) + 3 ELSE 1 + (ByteAt(buf, p) % 8)
Type(buf, p) ==
    IF ByteAt(buf, p) >= 128 THEN ByteAt(buf, p) ELSE ByteAt(buf, p) \div 8

(* sabi_next_resource: after the end tag it begins again. *)
NextResource(buf, r) ==
    LET p == IF r.pos = Nowhere THEN 0 ELSE r.pos + r.skip
    IN  IF Type(buf, p) = 15 THEN NoDesc
        ELSE [type |-> Type(buf, p), data |-> p, length |-> Length(buf, p)]
Moved(d) == [pos |-> d.data, skip |-> d.length]

(* The descriptor after n calls, from the beginning. *)
Descriptor(buf, n) ==
    LET after[i \in 0..n] ==
          IF i = 0 THEN [res |-> Start, desc |-> NoDesc]
          ELSE LET d == NextResource(buf, after[i - 1].res)
               IN  [res |-> Moved(d), desc |-> d]
    IN  after[n].desc

-----------------------------------------------------------------------------
(* The number of the highest bit. *)
Highest(mask) == IF mask = 0 THEN -1 ELSE CHOOSE n \in 0..15 : 2^n =< mask /\ mask < 2^(n + 1)

DefaultFlags == 6
Unrouted(e) ==
    [slot |-> e.adr \div 65536, pin |-> e.pin, gsi |-> -1, flags |-> DefaultFlags]

(* A mutant of PciPackage: the index is taken for a number of calls. *)
PciPackageIndex(e) ==
    IF e.source = "gsi" THEN [Unrouted(e) EXCEPT !.gsi = e.index]
    ELSE IF e.source = "missing" \/ ~present THEN Unrouted(e)
    ELSE LET buf == Encode(template)
             d == Descriptor(buf, e.index)
         IN  CASE d.type = 4 -> [Unrouted(e) EXCEPT !.gsi = Highest(WordAt(buf, d.data + 1))]
               [] d.type = 137 -> [Unrouted(e) EXCEPT !.gsi = WordAt(buf, d.data + 5)]
               [] OTHER -> Unrouted(e)

(* sabi_pci_package: an interrupt by its number, or by a descriptor of a   *)
(* link device, which may be missing.  The flags of an IRQ descriptor are  *)
(* taken from the byte behind its mask if the descriptor is three bytes    *)
(* long.                                                                   *)
PciPackage(e) ==
    IF e.source = "gsi" THEN [Unrouted(e) EXCEPT !.gsi = e.index]
    ELSE IF e.source = "missing" \/ ~present THEN Unrouted(e)
    ELSE LET buf == Encode(template)
             d == Descriptor(buf, e.index + 1)
             info == ByteAt(buf, d.data + 3)
         IN  CASE d.type = 4 ->
                    [Unrouted(e) EXCEPT
                       !.gsi = Highest(WordAt(buf, d.data + 1)),
                       !.flags = IF d.length = 3
                                 THEN 2 * ((info \div 8) % 8) + (info % 2) ELSE @]
               [] d.type = 137 ->
                    [Unrouted(e) EXCEPT !.gsi = WordAt(buf, d.data + 5),
                                        !.flags = ByteAt(buf, d.data + 3) \div 2]
               [] OTHER -> Unrouted(e)

(* sabi_pci_eval_bbn of a bridge without _BBN *)
Bbn ==
    IF ~present THEN 0
    ELSE LET buf == Encode(template)
             d == Descriptor(buf, 1)
         IN  IF d.type = 136 THEN WordAt(buf, d.data + 8) ELSE 0

(* sabi_ec_resolve: data port first, then command port; sabi_fatal for     *)
(* anything else.                                                          *)
EcPorts ==
    LET buf == Encode(template)
        first == Descriptor(buf, 1)
        second == Descriptor(buf, 2)
    IN  IF first.type = 8 /\ second.type = 8
        THEN [data |-> WordAt(buf, first.data + 2), base |-> WordAt(buf, second.data + 2)]
        ELSE [data |-> -1, base |-> -1]

(* sabi_pci_find_device: the first child that has the address, or none. *)
Adr(slot, fn) == slot * 65536 + fn
FindDevice(slot, fn) ==
    LET found == {i \in DOMAIN children : children[i] = Adr(slot, fn)}
    IN  IF found = {} THEN 0 ELSE CHOOSE i \in found : \A j \in found : i =< j

(* sabi_pci_resolve_address: what a region of a device accesses. *)
Address(dev) == [slot |-> (dev \div 65536) % 256, func |-> dev % 256]

-----------------------------------------------------------------------------
(* What firmware writes.  A line is one of 16, a port and the number of an *)
(* interrupt that is used here fit in 16 bits and a bus number in 8; an    *)
(* entry of _PRT stands for all functions of its device; _ADR is a device  *)
(* of 32 and one of its 8 functions, or all of them.                       *)
Trait == {"edge", "low", "shared", "wake"}
Short == 0..(256 * 256 - 1)
Resource ==
    [is : {"irq"}, line : 0..15, info : BOOLEAN, traits : SUBSET Trait]
      \cup [is : {"extended"}, gsi : Short, traits : SUBSET Trait]
      \cup [is : {"io"}, min : Short] \cup [is : {"bus"}, min : 0..255]

ASSUME RoutingAssumption ==
    /\ Templates \subseteq Seq(Resource)
    /\ \A e \in Entries : /\ e.source \in {"gsi", "link", "missing"} /\ e.index \in Nat
                           /\ e.adr \in Nat /\ e.adr % 65536 = 65535
    /\ Addresses \subseteq {Adr(slot, fn) : slot \in 0..31, fn \in 0..7 \cup {65535}}

RoutingInit ==
    /\ \/ /\ present = TRUE
          /\ template \in Templates /\ children = <<>>
       \/ /\ present = FALSE /\ template = <<>>
          /\ children \in UNION {[1..n -> Addresses \cup {-1}] : n \in 0..2}
    /\ held = FALSE /\ res = Start /\ desc = NoDesc /\ given = 0
    /\ answer = [is |-> "none"]

(* sabi_eval_resource *)
EvalResource ==
    /\ ~held /\ present
    /\ held' = TRUE /\ res' = Start /\ desc' = NoDesc /\ given' = 0
    /\ UNCHANGED <<present, template, children, answer>>

(* sabi_next_resource *)
TakeResource ==
    /\ held
    /\ desc' = NextResource(Encode(template), res)
    /\ res' = Moved(desc')
    /\ given' = IF given = Len(template) THEN 0 ELSE given + 1
    /\ UNCHANGED <<present, template, children, held, answer>>

(* sabi_free_resource *)
FreeResource ==
    /\ held
    /\ held' = FALSE /\ res' = Start /\ desc' = NoDesc /\ given' = 0
    /\ UNCHANGED <<present, template, children, answer>>

(* The calls that read the template on their own. *)
Returns(a) == ~held /\ answer' = a /\ UNCHANGED <<present, template, children, held, res, desc, given>>

Translatable(e) ==
    e.source = "link" /\ present => e.index < Len(template)

EvalPrt(e) ==
    /\ Translatable(e)
    /\ Returns([is |-> "route", entry |-> e, route |-> PciPackage(e)])

EvalBbn == Returns([is |-> "bus", bus |-> Bbn])

ResolveEc == present /\ Returns([is |-> "ports", ports |-> EcPorts])

SearchDevice(slot, fn) ==
    Returns([is |-> "device", slot |-> slot, fn |-> fn, device |-> FindDevice(slot, fn)])

RoutingNext ==
    \/ EvalResource \/ TakeResource \/ FreeResource
    \/ \E e \in Entries : EvalPrt(e)
    \/ EvalBbn \/ ResolveEc
    \/ \E slot \in 0..2, fn \in 0..2 : SearchDevice(slot, fn)

RoutingSpec == RoutingInit /\ [][RoutingNext]_routing

-----------------------------------------------------------------------------
(* Correctness. *)

(* Where descriptor n begins. *)
Begins(n) ==
    LET offset[i \in 1..n] ==
          IF i = 1 THEN 0 ELSE offset[i - 1] + Len(Encoded(template[i - 1]))
    IN  offset[n]
TypeOf(d) ==
    CASE d.is = "irq" -> 4 [] d.is = "extended" -> 137 [] d.is = "io" -> 8
      [] d.is = "bus" -> 136

(* An iteration gets every descriptor once, in order and whole, with its   *)
(* type, whatever the sizes of those before it, and then the end.          *)
DescriptorsInOrder ==
    held => desc = IF given = 0 THEN NoDesc
                   ELSE [type |-> TypeOf(template[given]), data |-> Begins(given),
                         length |-> Len(Encoded(template[given]))]

RouteDescribed(e, r) ==
    LET d == template[e.index + 1]
        linked == e.source = "link" /\ present
    IN  /\ r.slot * 65536 + 65535 = e.adr /\ r.pin = e.pin
        /\ e.source = "gsi" => r.gsi = e.index
        /\ e.source # "gsi" /\ ~linked => r.gsi = -1
        /\ linked /\ d.is = "irq" => r.gsi = d.line
        /\ linked /\ d.is = "extended" =>
             r.gsi = d.gsi /\ r.flags = Packed(d.traits, 0, 1, 2, 3)
        /\ linked /\ d.is \in {"io", "bus"} => r.gsi = -1

BusDescribed(bus) ==
    bus = IF template = <<>> THEN 0
          ELSE IF template[1].is = "bus" THEN template[1].min ELSE 0

PortsDescribed(ports) ==
    ports = IF Len(template) >= 2 /\ template[1].is = "io" /\ template[2].is = "io"
            THEN [data |-> template[1].min, base |-> template[2].min]
            ELSE [data |-> -1, base |-> -1]

DeviceDescribed(slot, fn, device) ==
    LET here == {i \in DOMAIN children :
                   children[i] # -1 /\ Address(children[i]) = [slot |-> slot, func |-> fn]}
    IN  IF device = 0 THEN here = {} ELSE device \in here /\ \A i \in here : device =< i

(* The interrupt that an entry of _PRT is translated to is the one that    *)
(* the descriptor names that its index selects, and an extended descriptor *)
(* is taken with its traits; the ports of a controller are those of the    *)
(* first two descriptors, and a bus number is that of the first; and the   *)
(* device that is found at an address is the first one whose regions are   *)
(* accessed there.                                                         *)
RoutedAsDescribed ==
    /\ answer.is = "route" => RouteDescribed(answer.entry, answer.route)
    /\ answer.is = "bus" => BusDescribed(answer.bus)
    /\ answer.is = "ports" => PortsDescribed(answer.ports)
    /\ answer.is = "device" => DeviceDescribed(answer.slot, answer.fn, answer.device)

(* include/sabi/pci.h says what the flags of a route stand for: so an IRQ  *)
(* descriptor that has its traits is taken with them.                      *)
IrqFlagsDescribed ==
    answer.is = "route" =>
        LET e == answer.entry
        IN  e.source = "link" /\ present =>
              LET d == template[e.index + 1]
              IN  d.is = "irq" /\ d.info =>
                    answer.route.flags = Packed(d.traits, 0, 1, 2, 3)

=============================================================================
