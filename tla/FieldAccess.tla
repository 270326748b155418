---------------------------- MODULE FieldAccess ----------------------------
(***************************************************************************)
(* Fields: how sabi_def_field and its like lay out a list of elements      *)
(* (source/defs.c, sabi_field_element of source/types.c), and how          *)
(* source/fields.c reads and writes a field in units of its access width:  *)
(* fields of an operation region, fields behind an index and a data        *)
(* register, and fields of a buffer.                                       *)
(*                                                                         *)
(* A 64-bit word is the set of the numbers of its bits that are 1, and so  *)
(* are the contents of a region, a bank of registers, or a buffer.         *)
(* Regions are in memory or I/O space: the embedded controller, which      *)
(* ignores the width, has module EmbeddedController.                       *)
(***************************************************************************)
EXTENDS Integers, Sequences

CONSTANTS
    Lists,     \* element lists, each with the kind of its fields: "field" of
               \* a region, "index", or "buffer"
    Values,    \* the words that are written
    Contents   \* what the storage holds at first

VARIABLES
    kind,      \* what the fields are fields of
    fields,    \* the fields of the list
    mem,       \* the region or the buffer
    bank,      \* the registers behind the index and the data register
    answer,    \* what the last read returned
    phase      \* "run", or "panic" after sabi_fatal

vars == <<kind, fields, mem, bank, answer, phase>>

-----------------------------------------------------------------------------
(* Words. *)
Word == 0..63
Shl(v, n) == {b + n : b \in v} \cap Word
Shr(v, n) == {b - n : b \in v} \cap Word
Ones(n) == 0..(n - 1)        \* (1UL << n) - 1
Bits(n) == {b \in 0..7 : (n \div 2^b) % 2 = 1}
FromBits == [v \in SUBSET (0..7) |-> CHOOSE n \in 0..255 : Bits(n) = v]

(* The width of an access type; 0 is what stops the access. *)
Width(access) == CASE access = 0 -> 8 [] access = 1 -> 8 [] access = 2 -> 16
                   [] access = 3 -> 32 [] access = 4 -> 64 [] OTHER -> 0

Update == <<"preserve", "ones", "zeros">>   \* bits 5 and 6 of the flags: 0, 1, 2

(* Elements of a list: [is |-> "named" or "reserved", length], and         *)
(* [is |-> "access", access, update], which replaces the flags.            *)
Flags(access, update) == [access |-> access, update |-> update]
DefaultFlags == Flags(1, "preserve")

(* A mutant of Element: an element starts where the last named one ended. *)
ElementNamed(s, e) ==
    LET offset == IF e.is = "named" THEN s.offset + s.length ELSE s.offset
    IN  CASE e.is = "access" ->
               [s EXCEPT !.offset = offset, !.length = 0, !.flags = Flags(e.access, e.update)]
          [] e.is = "reserved" -> [s EXCEPT !.offset = offset, !.length = e.length]
          [] e.is = "named" ->
               [s EXCEPT !.offset = offset, !.length = e.length,
                         !.fields = @ \cup {[offset |-> offset, length |-> e.length,
                                             access |-> s.flags.access,
                                             update |-> s.flags.update]}]

(* sabi_field_element, and the part of the loop around it that makes the   *)
(* object: s holds field_t, and the fields so far.                         *)
Element(s, e) ==
    LET offset == s.offset + s.length
    IN  CASE e.is = "access" ->
               [s EXCEPT !.offset = offset, !.length = 0, !.flags = Flags(e.access, e.update)]
          [] e.is = "reserved" -> [s EXCEPT !.offset = offset, !.length = e.length]
          [] e.is = "named" ->
               [s EXCEPT !.offset = offset, !.length = e.length,
                         !.fields = @ \cup {[offset |-> offset, length |-> e.length,
                                             access |-> s.flags.access,
                                             update |-> s.flags.update]}]

(* sabi_def_field, sabi_def_index_field *)
Declared(list) ==
    LET loop[i \in 0..Len(list)] ==
          IF i = 0 THEN [offset |-> 0, length |-> 0, flags |-> DefaultFlags, fields |-> {}]
          ELSE Element(loop[i - 1], list[i])
    IN  loop[Len(list)].fields

-----------------------------------------------------------------------------
(* Aligning. *)

(* A mutant of Align: the bits before the field are not counted. *)
AlignLength(offset, size, width, update, rw) ==
    LET at == offset % width
        count == (size + width - 1) \div width
        partial == at # 0 \/ size % width # 0
    IN  [address |-> (offset \div 8) - ((offset \div 8) % (width \div 8)),
         offset |-> at, size |-> size, width |-> width, count |-> count,
         partial |-> partial, update |-> update,
         read |-> rw = "read" \/ (update = "preserve" /\ partial)]

(* access_align: the units that an access touches, and whether it has to   *)
(* read them.                                                              *)
Align(offset, size, width, update, rw) ==
    LET at == offset % width
        count == (at + size + width - 1) \div width
        partial == at # 0 \/ size % width # 0
    IN  [address |-> (offset \div 8) - ((offset \div 8) % (width \div 8)),
         offset |-> at, size |-> size, width |-> width, count |-> count,
         partial |-> partial, update |-> update,
         read |-> rw = "read" \/ (update = "preserve" /\ partial)]

TooWide(rs) == rs.count * rs.width > 64

(* access_mask *)
Masked(rs, value) == IF rs.partial THEN Shr(value, rs.offset) \cap Ones(rs.size) ELSE value

(* access_preserve *)
Preserved(rs, old, new) ==
    LET rest == CASE rs.update = "preserve" -> old
                  [] rs.update = "ones" -> Word
                  [] rs.update = "zeros" -> {}
    IN  IF ~rs.partial THEN new
        ELSE (rest \ Shl(Ones(rs.size), rs.offset)) \cup Shl(new \cap Ones(rs.size), rs.offset)

-----------------------------------------------------------------------------
(* Storage d = [mem, bank].  With kind "index" the byte at IndexReg        *)
(* selects the byte of the bank that shows at DataReg.                     *)
IndexReg == 0
DataReg == 1

Unit(bits, address, width) == {b \in 0..(width - 1) : address * 8 + b \in bits}
Put(bits, address, width, value) ==
    (bits \ (address * 8)..(address * 8 + width - 1))
      \cup {address * 8 + b : b \in value \cap Ones(width)}

Index(d) == FromBits[Unit(d.mem, IndexReg, 8)]
Window(address) == kind = "index" /\ address = DataReg

(* system_read, system_write *)
Load(d, address, width) ==
    IF Window(address) THEN Unit(d.bank, Index(d), 8) ELSE Unit(d.mem, address, width)
Store(d, address, width, value) ==
    IF Window(address) THEN [d EXCEPT !.bank = Put(@, Index(d), 8, value)]
    ELSE [d EXCEPT !.mem = Put(@, address, width, value)]

(* The loops of the accesses.  Read(d, a) returns the storage and the unit *)
(* at a, Write(d, a, v) the storage.                                       *)
ReadUnits(d, rs, Read(_, _)) ==
    LET bw == rs.width \div 8
        loop[n \in 0..rs.count] ==
          IF n = 0 THEN [dev |-> d, value |-> {}]
          ELSE LET prev == loop[n - 1]
                   got == Read(prev.dev, rs.address + (rs.count - n) * bw)
               IN  [dev |-> got.dev, value |-> Shl(prev.value, rs.width) \cup got.value]
    IN  IF rs.read THEN loop[rs.count] ELSE loop[0]

WriteUnits(d, rs, value, Write(_, _, _)) ==
    LET bw == rs.width \div 8
        loop[n \in 0..rs.count] ==
          IF n = 0 THEN d
          ELSE Write(loop[n - 1], rs.address + (n - 1) * bw, Shr(value, (n - 1) * rs.width))
    IN  loop[rs.count]

(* What the accesses have in common: rw tells a read from a write of       *)
(* input, which may have to read first.                                    *)
Accessed(d, rs, input, rw, Read(_, _), Write(_, _, _)) ==
    LET got == ReadUnits(d, rs, Read)
    IN  IF rw = "read" THEN [dev |-> got.dev, value |-> Masked(rs, got.value)]
        ELSE [dev |-> WriteUnits(got.dev, rs, Preserved(rs, got.value, input), Write),
              value |-> {}]

(* sabi_access_field *)
AccessField(d, f, input, rw) ==
    LET rs == Align(f.offset, f.length, Width(f.access), f.update, rw)
        read(e, a) == [dev |-> e, value |-> Load(e, a, rs.width)]
        write(e, a, v) == Store(e, a, rs.width, v)
    IN  Accessed(d, rs, input, rw, read, write)

IndexField == [offset |-> 8 * IndexReg, length |-> 8, access |-> 1, update |-> "preserve"]
DataField == [offset |-> 8 * DataReg, length |-> 8, access |-> 1, update |-> "preserve"]

(* A mutant of AccessIndexField: one index for all units. *)
AccessIndexOnce(d, f, input, rw) ==
    LET rs == Align(f.offset, f.length, Width(f.access), f.update, rw)
        select(e, a) == AccessField(e, IndexField, Bits(rs.address), "write").dev
        read(e, a) == AccessField(select(e, a), DataField, {}, "read")
        write(e, a, v) == AccessField(select(e, a), DataField, v, "write").dev
    IN  Accessed(d, rs, input, rw, read, write)

(* sabi_access_index_field: every unit is selected by a write to the index *)
(* field, then read or written through the data field.                     *)
AccessIndexField(d, f, input, rw) ==
    LET rs == Align(f.offset, f.length, Width(f.access), f.update, rw)
        select(e, a) == AccessField(e, IndexField, Bits(a), "write").dev
        read(e, a) == AccessField(select(e, a), DataField, {}, "read")
        write(e, a, v) == AccessField(select(e, a), DataField, v, "write").dev
    IN  Accessed(d, rs, input, rw, read, write)

(* sabi_access_buffer_field: bytes, and nothing but Preserve.  The field   *)
(* points at the byte it starts in.                                        *)
AccessBufferField(d, f, input, rw) ==
    LET ptr == f.offset \div 8
        rs == Align(f.offset % 8, f.length, 8, "preserve", rw)
        read(e, a) == [dev |-> e, value |-> Unit(e.mem, ptr + a, 8)]
        write(e, a, v) == [e EXCEPT !.mem = Put(@, ptr + a, 8, v)]
    IN  Accessed(d, rs, input, rw, read, write)

Access(d, f, input, rw) ==
    CASE kind = "field" -> AccessField(d, f, input, rw)
      [] kind = "index" -> AccessIndexField(d, f, input, rw)
      [] kind = "buffer" -> AccessBufferField(d, f, input, rw)

UnitWidth(f) == IF kind = "buffer" THEN 8 ELSE Width(f.access)

(* The access types that have no width, and the fields that take too many  *)
(* units, stop the access.                                                 *)
Fatal(f, rw) ==
    UnitWidth(f) # 0 => TooWide(Align(f.offset, f.length, UnitWidth(f), f.update, rw))

-----------------------------------------------------------------------------
(* A field has bits.  Bits 5 and 6 of the flags are one of the rules.  An  *)
(* index register of one byte reaches 256 bytes, and its fields are        *)
(* accessed in bytes (or not at all).                                      *)
Elements == [is : {"reserved"}, length : Nat] \cup [is : {"named"}, length : Nat \ {0}]
              \cup [is : {"access"}, access : Nat, update : {"preserve", "ones", "zeros"}]

ASSUME FieldsAssumption ==
    /\ \A l \in Lists :
         /\ l.kind \in {"field", "index", "buffer"} /\ l.list \in Seq(Elements)
         /\ l.kind = "index" => \A f \in Declared(l.list) :
              f.offset + f.length =< 8 * 256 /\ Width(f.access) \in {0, 8}
    /\ Values \subseteq SUBSET Word
    /\ Contents \subseteq SUBSET Nat

Init ==
    /\ \E l \in Lists : kind = l.kind /\ fields = Declared(l.list)
    /\ \E c \in Contents : /\ mem = IF kind = "index" THEN {} ELSE c
                           /\ bank = IF kind = "index" THEN c ELSE {}
    /\ answer = {}
    /\ phase = "run"

Dev == [mem |-> mem, bank |-> bank]
Becomes(d) == mem' = d.mem /\ bank' = d.bank

(* sabi_read_operand of a field *)
ReadField(f) ==
    /\ phase = "run" /\ ~Fatal(f, "read")
    /\ LET got == Access(Dev, f, {}, "read")
       IN  answer' = got.value /\ Becomes(got.dev)
    /\ UNCHANGED <<kind, fields, phase>>

(* sabi_write_operand of a field, with an integer *)
WriteField(f, value) ==
    /\ phase = "run" /\ ~Fatal(f, "write")
    /\ Becomes(Access(Dev, f, value, "write").dev)
    /\ UNCHANGED <<kind, fields, answer, phase>>

Panic(f) ==
    /\ phase = "run" /\ Fatal(f, "read")
    /\ phase' = "panic"
    /\ UNCHANGED <<kind, fields, mem, bank, answer>>

Next ==
    \E f \in fields : \/ ReadField(f)
                      \/ \E value \in Values : WriteField(f, value)
                      \/ Panic(f)

Spec == Init /\ [][Next]_vars

-----------------------------------------------------------------------------
(* Correctness. *)

(* Fields of one list do not overlap, whatever reserved bits and changes   *)
(* of the access type are in between.                                      *)
FieldsDisjoint ==
    \A f, g \in fields : f # g => \/ f.offset + f.length =< g.offset
                                  \/ g.offset + g.length =< f.offset

Storage == IF kind = "index" THEN bank ELSE mem

(* Shifts, masks and loops over units implement rows of bits, in regions,  *)
(* behind index registers and in buffers.                                  *)
BitField(f) == [offset |-> f.offset, length |-> f.length, width |-> UnitWidth(f),
                update |-> IF kind = "buffer" THEN "preserve" ELSE f.update]
Rows == INSTANCE BitFields WITH bits <- Storage, fields <- {BitField(f) : f \in fields}
RowsSpec == Rows!Spec

=============================================================================
