----------------------------- MODULE Addresses -----------------------------
(***************************************************************************)
(* Where operation regions in PCI configuration space and in the space of  *)
(* an embedded controller are: sabi_def_op_region of source/defs.c, which  *)
(* asks sabi_pci_resolve_address (source/pci.c) or sabi_ec_resolve         *)
(* (source/ec.c).  Both keep what they allocate in the device, in the same *)
(* pointer, and sabi_free_state frees it with the device.                  *)
(*                                                                         *)
(* Methods define devices and regions of their own, which are gone when    *)
(* they return, and regions under the devices of others.  Firmware is      *)
(* assumed to                                                              *)
(*  - define _HID, _ADR and _BBN with a device, before its regions,        *)
(*  - define controllers in tables, and without _ADR,                      *)
(*  - have regions of the controller's space only under a controller,      *)
(*  - have _BBN only under the root.                                       *)
(***************************************************************************)
EXTENDS Integers, Sequences, SequencesExt, FiniteSetsExt

CONSTANTS
    NameSets,    \* the names that devices have: _HID, "bridge", "controller" or
                 \* "" for none, and _ADR and _BBN, numbers or 0 for none
    MaxDefined,  \* bound: nodes
    MaxCalls     \* bound: nested calls

ASSUME AddressBounds ==
    /\ NameSets \subseteq [hid : {"", "bridge", "controller"}, ADR : Nat, BBN : Nat]
    /\ \A names \in NameSets : names.hid = "controller" => names.ADR = 0
    /\ MaxDefined \in Nat /\ MaxCalls \in Nat

VARIABLES
    nodes,   \* devices and regions, the oldest first; a node's parent is 0 or
             \* the number of another; adr is the pointer of both
    calls,   \* for each method that runs, how many nodes there were before it
    heap,    \* what is allocated: addresses and controllers, by their pointers
    ecs      \* the list of controllers, the youngest first

addressing == <<nodes, calls, heap, ecs>>

Space == {"pci", "ec"}
Device(p, names) == [is |-> "device", parent |-> p, names |-> names, adr |-> 0]
Region(p, space, pointer) == [is |-> "region", parent |-> p, space |-> space, adr |-> pointer]

Devices == {n \in DOMAIN nodes : nodes[n].is = "device"}

(* sabi_ns_search: the nearest device above that has a name, or 0. *)
Search(p, Has(_)) ==
    LET up[n \in 0..Len(nodes)] ==
          IF n = 0 THEN 0 ELSE IF Has(nodes[n].names) THEN n ELSE up[nodes[n].parent]
    IN  up[p]

OfAdr(p) == Search(p, LAMBDA names : names.ADR # 0)
OfHid(p) == Search(p, LAMBDA names : names.hid # "")
BusOf(p) == LET d == Search(p, LAMBDA names : names.BBN # 0)
            IN  IF d = 0 THEN 0 ELSE nodes[d].names.BBN

(* A pointer that is free. *)
FreshPointer == Min((1..(Cardinality(DOMAIN heap) + 1)) \ DOMAIN heap)

PciAddress(p, d) == [is |-> "pci", dev |-> nodes[d].names.ADR, bus |-> BusOf(p)]
ControllerOf(d) == [is |-> "ec", of |-> d]

(* A resolver says which device keeps the pointer, 0 for none, and what is *)
(* allocated if it has none yet.                                           *)
NotResolved == [keeper |-> 0, new |-> [is |-> "none"]]

(* A mutant of PciResolveAddress: the device that the region is in keeps   *)
(* the address.                                                            *)
PciResolveAddressNear(p) ==
    LET d == OfAdr(p)
    IN  IF d = 0 THEN NotResolved ELSE [keeper |-> p, new |-> PciAddress(p, d)]

(* sabi_pci_resolve_address *)
PciResolveAddress(p) ==
    LET d == OfAdr(p)
    IN  IF d = 0 THEN NotResolved ELSE [keeper |-> d, new |-> PciAddress(p, d)]

(* sabi_ec_resolve takes any pointer that the device with _HID has, before *)
(* it asks whether it is a controller.                                     *)
EcResolve(p) ==
    LET d == OfHid(p)
    IN  IF d = 0 THEN NotResolved
        ELSE IF nodes[d].adr = 0 /\ nodes[d].names.hid # "controller" THEN NotResolved
        ELSE [keeper |-> d, new |-> ControllerOf(d)]

Resolve(p, space) == IF space = "pci" THEN PciResolveAddress(p) ELSE EcResolve(p)

-----------------------------------------------------------------------------
AddressInit == nodes = <<>> /\ calls = <<>> /\ heap = <<>> /\ ecs = <<>>

(* sabi_def_device, with the names in its block *)
DefDevice(p, names) ==
    /\ Len(nodes) < MaxDefined /\ p \in Devices \cup {0}
    /\ names.hid = "controller" => calls = <<>>
    /\ names.BBN # 0 => p = 0
    /\ nodes' = Append(nodes, Device(p, names))
    /\ UNCHANGED <<calls, heap, ecs>>

(* A mutant of Listed: a controller is entered whenever it is looked up. *)
ListedAlways(r, pointer) ==
    IF r.new.is = "ec" THEN <<[parent |-> r.keeper, ec |-> pointer]>> \o ecs ELSE ecs

(* What is allocated for a controller is in the list. *)
Listed(r, pointer) ==
    IF r.new.is = "ec" /\ nodes[r.keeper].adr = 0
    THEN <<[parent |-> r.keeper, ec |-> pointer]>> \o ecs ELSE ecs

(* sabi_def_op_region *)
DefOpRegion(p, space) ==
    /\ Len(nodes) < MaxDefined /\ p \in Devices
    /\ space = "ec" => OfHid(p) # 0 /\ nodes[OfHid(p)].names.hid = "controller"
    /\ LET r == Resolve(p, space)
           kept == IF r.keeper = 0 THEN 0 ELSE nodes[r.keeper].adr
           pointer == IF r.keeper = 0 THEN 0 ELSE IF kept # 0 THEN kept ELSE FreshPointer
       IN  /\ nodes' = Append(IF r.keeper = 0 THEN nodes
                              ELSE [nodes EXCEPT ![r.keeper].adr = pointer],
                              Region(p, space, pointer))
           /\ heap' = IF pointer = kept THEN heap
                      ELSE [q \in DOMAIN heap \cup {pointer} |->
                              IF q = pointer THEN r.new ELSE heap[q]]
           /\ ecs' = Listed(r, pointer)
    /\ UNCHANGED calls

CallMethod ==
    /\ Len(calls) < MaxCalls
    /\ calls' = Append(calls, Len(nodes))
    /\ UNCHANGED <<nodes, heap, ecs>>

(* What sabi_free_state frees with the nodes of a frame. *)
Freed(base) ==
    {nodes[n].adr : n \in {m \in Devices : m > base}}

ReturnMethod ==
    /\ calls # <<>>
    /\ LET base == Last(calls)
       IN  /\ heap' = [q \in DOMAIN heap \ Freed(base) |-> heap[q]]
           /\ nodes' = SubSeq(nodes, 1, base)
    /\ calls' = Front(calls)
    /\ UNCHANGED ecs

AddressNext ==
    \/ \E p \in 0..Len(nodes), names \in NameSets : DefDevice(p, names)
    \/ \E p \in 1..Len(nodes), space \in Space : DefOpRegion(p, space)
    \/ CallMethod
    \/ ReturnMethod

AddressSpec == AddressInit /\ [][AddressNext]_addressing

-----------------------------------------------------------------------------
(* Correctness. *)

Regions == {n \in DOMAIN nodes : nodes[n].is = "region"}

(* Every region is accessed where the device is that it belongs to, if     *)
(* there is one: at its address on the bus of its bridge, or through its   *)
(* controller.  So what it has a pointer to is not freed, is not what the  *)
(* other space keeps in the same place, and is not another device's, in    *)
(* whichever frame the region, the device and its first region were made.  *)
RegionsResolved ==
    \A n \in Regions :
        LET r == nodes[n]
            d == IF r.space = "pci" THEN OfAdr(r.parent) ELSE OfHid(r.parent)
        IN  IF d = 0 THEN r.adr = 0
            ELSE /\ r.adr \in DOMAIN heap
                 /\ heap[r.adr] = IF r.space = "pci" THEN PciAddress(r.parent, d)
                                  ELSE ControllerOf(d)

(* An address or a controller is kept by one device for as long as there   *)
(* is the device, and none is left behind when a method returns; and       *)
(* sabi_ec_call_reg finds every controller that a region was defined for,  *)
(* once, and none that is gone, whoever defined the region.                *)
KeptOnce ==
    /\ \A q \in DOMAIN heap : Cardinality({n \in Devices : nodes[n].adr = q}) = 1
    /\ \A i, j \in DOMAIN ecs : ecs[i].parent = ecs[j].parent => i = j
    /\ {[parent |-> n, ec |-> nodes[n].adr] :
          n \in {m \in Devices : nodes[m].names.hid = "controller" /\ nodes[m].adr # 0}}
         = {ecs[i] : i \in DOMAIN ecs}

=============================================================================
