# A verification of sabi

sabi is a small ACPI library for operating system kernels: it loads ACPI
tables, builds the namespace that the AML in them defines, interprets AML
methods, and talks to the hardware they describe.  This directory holds TLA+
models of it, the configurations that check them with TLC, and proofs that TLAPS
checks.  Line numbers refer to `src/source/` unless another directory is named.

`PROJECT.json` lists for every definition the lines of C it stands for, and for
every property a mutant: a plausible mistake in the code that makes TLC report
that property.

## 1. The system

| Component | Source | State | Operations | What is hard about it |
|---|---|---|---|---|
| Namespace | `namespace.c` | a tree of nodes: parent, head of the list of children, next sibling, object | look up a name (in a node, along the scopes, by a path with carets and aliases); define a name of one or several segments; unlink a node | a method's nodes are freed again, wherever they hang, while others hold pointers into the tree |
| Frames | `state.c`, `api.c` (`sabi_eval_method`), `parser.c` (`sabi_parse_method`) | one `state_t` per table load or method that runs: position, scope, interrupt flag, arguments, locals, the stack of nodes it defined | create, define, free | ownership of nodes; nested calls |
| Tables | `tables.c` | pointers to the tables | register, find, load a definition block | the nodes of a table must outlive its frame |
| Control flow | `parser.c`, `defs.c` | the C stack, `aml`, `intr`, `scope` | lists of terms, If/Else, While, Break, Continue, Return, Scope, method calls | interrupts cross several C functions; scopes are restored by hand |
| Expressions and stores | `parser.c`, `defs.c`, `operand.c`, `types.c` | arguments, locals, named data, one return value per frame | arithmetic, references, index, store, conversion | shallow and deep copies of data, values freed while used |
| Conversions | `conv.c` | none | integer, string, buffer | numeric edges |
| Fields | `fields.c`, `defs.c`, `types.c` | none of their own; regions of memory, I/O, a controller | lay out a field list; read and write fields of any offset and width | alignment, masks, rules for the bits around a field, registers behind an index register |
| Embedded controller | `ec.c` | list of controllers | find a controller, read and write its registers | polling a device that runs concurrently |
| Events and ACPI mode | `events.c` | none; PM1 registers | switch to ACPI mode, initialise devices, enable, read and clear events | hardware and firmware run concurrently; events may arrive at any moment |
| Soft off | `pm.c` | none | write the sleep registers | - |
| PCI | `pci.c` | one cached address per device node | resolve an address, find a device, translate `_PRT` | the cache is shared with the controllers |
| Resources | `resources.c` | position in a template | next descriptor | - |
| API | `api.c` | none | resolve a path, iterate over nodes, evaluate nodes, clone and free data | the tree changes while AML runs between two steps of an iteration |
| `_OSI`, host functions, tools | `osi.c`, `host.c`, `tools/` | none | - | - |

The library is single threaded: the operating system calls it and waits.  What
runs concurrently is the hardware (the embedded controller, the power management
registers) and the firmware.  Within one call the interpreter recurses: a method
call runs a new frame on top of its caller's, and every handler of an AML opcode
is a C function with locals of its own.

What makes the components correct:

- **Namespace and frames**: no pointer leads to a freed node; a name is unique
  among its siblings; the lists are exactly the live children; what a method
  defines is gone when it returns and nothing else is; what a table defines
  stays; a name that was defined is found.
- **Control flow**: the statements that run are those that a structured reading
  of the program allows; scopes follow the nesting of blocks; interrupts end what
  they have to end and nothing else.
- **Fields**: a read gives the field's bits; a write changes the field's bits and,
  outside of them, no more than the update rule says.
- **Controller**: each read and write is atomic in spite of the protocol of single
  bytes; every call returns; no byte is left over.
- **Events**: no event is lost or reported twice; devices are initialised once,
  parents first.
- **Data**: every block of memory that is owned is allocated and has one owner; what
  functions that wait, references and fields point to is there; two variables never
  share a value; what leaks is known.
- **Conversions**: what is converted comes back, and fits the room it was given.
- **Resources and addresses**: descriptors are read as they were written; an
  interrupt is the one that the firmware named; a region is accessed where its
  device is.

## 2. The modules

| Module | Models | Kind |
|---|---|---|
| `Namespace` | `namespace.c`, `state.c`, `tables.c`, the handlers of `defs.c` and `parser.c` that define names, open blocks and call | detailed |
| `ScopedNamespace` | what the namespace promises: a tree with marks for running frames | abstract |
| `NamespaceInvariant`, `NamespaceProofs` | the inductive invariant and the theorems that follow from it; unique names, exact lists, the refinement, resolved aliases, and that what is defined is found | proofs |
| `Lexical` | the nesting of blocks in a table, read off their lengths | operators |
| `Control` | `parser.c` and `defs.c`: term lists, flow, calls, scopes | detailed |
| `Flow` | the structured meaning of AML: which cell may run after which | abstract |
| `ControlInvariant`, `ControlProofs` | the inductive invariant of `Control`, the theorems about lists of terms and scopes, and the refinement of `Flow` | proofs |
| `EmbeddedController` | `ec.c` and the controller behind its ports | detailed |
| `RegisterFile` | a set of registers with atomic reads and writes | abstract |
| `FieldAccess` | `fields.c`, the layout in `defs.c` and `types.c` | detailed |
| `BitFields` | rows of bits, read and overwritten | abstract |
| `FieldAccessProofs` | what the loops over units compute, the theorems and the refinement | proofs |
| `Events` | `events.c`, the event hardware, the firmware and the interrupt handler | detailed |
| `EventsProofs` | the inductive invariants, what is stale, and the refinement | proofs |
| `EventBox` | events as a box that is emptied by reports | abstract |
| `DataOwnership` | `operand.c`, the data of `state.c`, `types.c`, `parser.c`, `defs.c`, and `api.c`: cloning, cleaning, stores, calls, references | detailed |
| `DataInvariant` | the inductive invariant of `DataOwnership` | invariant |
| `DataProofs` | what cloning, cleaning, stores and conversions do to a heap in which every block has one owner, and what a step has to keep | proofs |
| `DataStepProofs` | that each action keeps the inductive invariant, and the theorems | proofs |
| `ValueSemantics` | variables that hold values of their own | abstract |
| `Conversions` | `conv.c`, and the conversions of `defs.c` and `api.c` | operators, with actions that chain them |
| `Routing` | `resources.c`, `_PRT`, bus numbers and the search for devices of `pci.c`, the ports of a controller of `ec.c` | detailed |
| `Addresses` | the addresses of regions that `pci.c` and `ec.c` keep in device nodes, the list of controllers | detailed |
| `NodeWalk` | `sabi_next_node` of `api.c`, `sabi_call_init` of `events.c`, `sabi_pci_next_node` of `pci.c` | detailed |
| `DevicesProofs` | the inductive invariants of `EmbeddedController`, of `Addresses` and of `Routing`, the theorems, and the refinement of `RegisterFile` | proofs |
| `TreeWalk` | visiting the nodes of a growing tree | abstract |
| `NodeWalkProofs` | the inductive invariant of `NodeWalk` and the refinement | proofs |
| `MC...` | instances for TLC | - |

How they compose: `Control` and `Flow` extend `Lexical`; `Control` implements
`Flow`, `Namespace` implements `ScopedNamespace`, `EmbeddedController` implements
`RegisterFile`, `FieldAccess` implements `BitFields`, `Events` implements
`EventBox`, `DataOwnership` implements `ValueSemantics`, and `NodeWalk` implements
`TreeWalk`, each by an instance with a refinement mapping whose specification is checked as a property.  The
components meet at two interfaces.  `Namespace` allows any order of definitions,
blocks and calls, so it covers whatever order `Control` produces.  `FieldAccess`
takes the storage behind a field to be a set of units that are read and written
atomically, which for the controller is what `RegisterFile` promises.  `NodeWalk`
takes lists to be exact, and the tree to be as it was when AML returns, which is what
`ListsExact` and `FrameRestores` say of `Namespace`.  `DataOwnership` has the frames
and names of `Namespace` without the tree, and takes from `Conversions` only that a
conversion makes a new block.  `Addresses` has the stack of nodes of `Namespace` with
what hangs on devices and regions.

### 2.1 Namespace

A node is a number; `node[n]` is its name, parent, type and target (the node an
alias stands for, the region of a field), `child`, `next` and `stk` are the
pointers `node_t.child`, `.next` and `.stack`.  `frames` is the C stack of
`state_t`s, `saved` the locals `scope` of the open Scope and Device handlers,
`job` the locals of `sabi_ns_add_scope`.  A frame also remembers the tree it found
(`entry`) and the youngest node of that time (`base`): no action's guard or effect
on the other variables depends on them, they are there for the properties and the
refinement.

Allocation takes the number after the youngest live node.  A number freed by a
returning method is therefore used again by the next definition, as an allocator
may reuse an address, so a dangling pointer is not merely dead but may lead to
somebody else's node.

| Action | Code |
|---|---|
| `RegisterTable`, `EndTable` | `parse_table` (tables.c 11): new state, parse, cut the stack, free |
| `EvalMethod`, `CallMethod`, `EndMethod` | `sabi_eval_method` (api.c 113), `sabi_parse_method` (parser.c 41) |
| `DefObject`, `DefAlias`, `DefField`, `DefDevice`, `DefFaults` | the handlers `sabi_def_*` up to the call of `sabi_ns_add_object`; a lookup that reads a null pointer stops the model with phase "fault" |
| `AddExisting`, `AddNew`, `AddReturn` | one turn of the loop of `sabi_ns_add_scope` (namespace.c 195) each, and what its caller does with the result |
| `FreeNode`, `FreeState` | the loop of `sabi_free_state` (state.c 46) with `sabi_ns_unlink` |
| `DefScope`, `LeaveBlock` | `sabi_def_scope`, and the end of it and of `sabi_def_device` |

`sabi_fatal` and `sabi_host_panic` do not return: phase "panic" is final.

`NsExists` walks a list of children along `next` as `sabi_ns_exists` does, and `Unlink`
walks it to the predecessor of the node that goes, so that a list which skips a node
or leads back to its head would show in what definitions and lookups do.

### 2.2 Control flow

A table is a sequence of cells (`Lexical`): one per statement, and one per block
for its opcode, length and operands, followed by its terms.  `Control` runs it as
the C code does: `stack` has a record for every C function that waits for another
(`termlist`, `operand`, `if_else`, `else`, `while`, `scope`, `method`, `table`),
`frames` the `state_t` of every load and call with `aml`, `intr` and `scope`.  The
conditions of If and While are nondeterministic.  `Flow` has neither stack nor
flag: it says where structured control flow goes from each cell, in the manner of
a language definition.  `Control` implements it, mapped by `at` and `way`, which
record the cell fetched last and no action reads.

### 2.3 Embedded controller

`Poll` is a status read that sees the flag it waits for, `WritePort` and `ReadPort`
the access after it; between them the controller (`Take`, `Handle`), which is not
part of the library, may run, may change a register (`Sense`), and may leave burst
mode by itself (`DropBurst`).  `RegisterFile` has one step per access.  The mapping
takes a write to be done when its value is under way to the controller (`Sent` is
the controller's state after all bytes it has been sent), a read when its value is
in the output buffer.

### 2.4 Fields

A 64-bit word is the set of its bits that are 1, so shifts are sums and masks are
intersections; `Declared` folds an element list into fields as `sabi_def_field`
does, `Align`, `Masked`, `Preserved` are `sabi_align_access` and its like, and
`AccessField`, `AccessIndexField`, `AccessBufferField` the three loops.  One access
is one action: nothing runs concurrently with memory and I/O accesses in the model.

### 2.5 Events

`todo[p]` is what a process (a call of the library, the interrupt handler) has still
to access; each access to a register is one action.  `Raise` and `SwitchedOn` are the
hardware and the firmware, which may act between any two accesses.  The handler may
run between the accesses of a call and beside them: the library has no locks, and
none is needed for what is promised.  In the mapping to `EventBox` an event is taken
when the handler reads its bit, and stays taken although the bit is still set until
the handler has written it back.

### 2.6 Iteration

`at` and `child` are the arguments of the next call of `sabi_next_node`.  `Step` and
`End` are its two outcomes, `InitDevice`, `ReturnBridge` and `PassNode` the bodies of
the two loops in the library, `Continue` a call from outside.  `LoadTable` puts a new
node at the head of a list of children.

### 2.7 Data

Memory is a set of numbered blocks (`heap`): arrays of `sabi_data_t` and bytes.  A
number that was freed is used again in a later step, as an allocator would, so a
stale pointer leads to other data.  `stack` holds the C functions that wait for each
other with their local data: a method that runs, a store, a Return, a definition of
a name, a package in the middle of its elements, a conversion, a call in the middle
of its arguments.  Operands nest: whatever asks for data (`Operand`) may get a
literal, a variable, the beginning of a package, a conversion or a call, and the
function that waits goes on when its data is there.

| Action | Code |
|---|---|
| `BeginStore`, `EndStore` and their like | a handler of `defs.c` up to its operand, and behind it |
| `Clone`, `Clean`, `Read`, `Write` | `sabi_clone_data`, `sabi_clean_data` (api.c), `sabi_read_operand`, `sabi_write_operand` (operand.c) |
| `BeginPackage`, `NextElement`, `EndPackage` | `sabi_def_package` (defs.c 705) |
| `BeginCall`, `EndArgs`, `EndCall`, `SetValue` | `sabi_parse_method` (parser.c 41) and what `sabi_data_object` (types.c 324) makes of the result |
| `FreeFrame` | `sabi_free_state` (state.c 34) on the data of the frame and of its names |

A program is any sequence of statements of a *language*: a set of forms of
statements and operands with bounds.  Each language has one concern (copies, results
of calls, names and fields, references), so that the copies that a concern makes fit
in few blocks.  The header of the module lists what AML is assumed not to do, among it
what the code itself does not check: that a package has at most as many elements as its
count, and that only integers are incremented.  That nothing which is returned is built
from the results of calls is not assumed in the run `data_computed`.

`EvalMethod` clones an argument of the host's to the frame in the languages with
`"passed"`: none, an integer, a string or a buffer.  `Compute` is `sabi_parse_math` (an
integer is written to a target), `Increment` is `sabi_def_increment`, which reads without a
copy.  Where an integer is computed from a call, `sabi_integer` converts a variable that
nobody has set (types.c 236); `EndCall` takes any number for what comes of it.  The
code may also read through a stale pointer there, and stop or get a number that way.  It
only reads, so no block changes that the model would have to follow.

### 2.8 Conversions

A 64-bit integer is the sequence of its eight bytes, so nothing is cut off by the
integers of the checker, and overflow is what C does.  `ConvToBuffer`, `IntoBuffer`,
`ConvToInteger`, `ConvToString` and `ConvToBaseString` are the functions of `conv.c`
on characters and bytes; the actions apply one after the other to a datum, so each
gets what the others make.  `room` is what the conversion allocated and what it
wrote.

### 2.9 Resources and routing

A template is a list of descriptors, which `Encode` writes down as bytes in the
layout of `include/sabi/resources.h`.  `NextResource` reads the bytes, as the code
does.  `EvalResource`, `TakeResource` and `FreeResource` are an iteration of the
operating system; `EvalPrt`, `EvalBbn`, `ResolveEc` and `SearchDevice` are the calls
that read a template or the children of a bridge on their own.

### 2.10 Addresses

`nodes` are the devices and regions that there are, with their names and the pointer
`adr`; `calls` says for each method that runs how many nodes there were before it.
`DefOpRegion` is `sabi_def_op_region` with the resolver for its space: the nearest
device above with `_ADR` or `_HID` keeps what was allocated for its first region.
`ReturnMethod` frees the nodes of the frame, and what its devices keep.

## 3. What is checked

| Run | Instance | Shows |
|---|---|---|
| `ns_paths` | names `A`, `A.B`, `^B`, a field list of two, up to 10 nodes (7 predefined), 2 frames, 1 open block | `IInv` (with the types), `NoDangling`, `AliasResolved`, `SiblingNamesUnique`, `ListsExact`, `DefinedIsFound` |
| `ns_frames` | names `A`, `\B`, up to 10 nodes, 3 frames, 1 open block | `ScopeRestored`, `FrameRestores`, refinement of `ScopedNamespace` |
| `control_flow` | all 4-cell tables of statements, If/Else, While and interrupts, also inside a loop | `FetchesOwnTerms`, `ListsEndAtEnd`, `ReturnsEnd`, refinement of `Flow` |
| `control_calls` | all 4-cell tables with scopes, methods, and calls in operands, up to 3 frames | `ScopeIsLexical`, refinement of `Flow` |
| `control_dangling` | tables in which an If may end a block that has an Else | a violation of `ListsEndAtEnd`, see section 5 |
| `fields` | two neighbouring fields at various offsets, widths, access types and update rules, in regions, behind an index register and in buffers | `FieldsDisjoint`, refinement of `BitFields` |
| `events` | two buttons in two blocks of registers, 2 polls, firmware of any speed, or in time | `StaleGone`, `CallsReturn`, `ButtonsReported`, refinement of `EventBox` |
| `node_walk` | all trees of up to 4 nodes of 4 kinds, grown during the walk | refinement of `TreeWalk`, `WalksEnd` |
| `data_ownership` | 13 languages with up to 3 frames, 2 elements, 8 blocks | `IInv` (with the types), `OwnedOnce`, `PendingAlive`, `BorrowsAlive`, `LeaksKnown`, refinement of `ValueSemantics` |
| `data_computed` | a language in which what is returned may contain calls | a violation of `PendingAlive`, see section 5 |
| `devices` | controller: 2 offsets, 2 values, one register that changes by itself, and it may leave burst mode at any time, or does not | `PollHolds`, `QuietAtReturn`, `CallsReturn`, refinement of `RegisterFile` |
| | routing: all templates of up to 3 of 8 descriptors, 5 entries of `_PRT`, bridges with up to 2 children | `DescriptorsInOrder`, `RoutedAsDescribed` |
| | addresses: up to 4 devices and regions of 3 kinds of devices, 2 nested calls | `RegionsResolved`, `KeptOnce` |
| | conversions: 27 integers, strings and buffers, 4 conversions in a row, up to 24 bytes | `ValuesSurvive`, `RoomSuffices` |
| `irq_flags` | as in `devices` | a violation of `IrqFlagsDescribed`, see section 5 |

The four parts of `devices` share no state; the variable `atWork` of `MCDevices` says
which one a behaviour is about.

Why the bounds are enough.  *Namespace*: three nodes beyond the predefined ones
make a parent, a child and a sibling with every owner; two frames let a method
define under a node of its caller's and free it; three let a frame in the middle
own nodes.  One open block at a time is enough for a block to be left open across
a call; the theorems hold for any number.  *Control*: four cells hold an If and an
Else with a term each, a loop in a loop with an interrupt, a method with a call in
it; jumps depend only on a cell and the block around it.  *Controller*: it has no
size but offsets and values, which are model values of different sorts.  *Fields*:
offsets and lengths are chosen below, at and above unit borders for units of 8, 16
and 32 bits, with lengths up to 64, where a shift by the word's width would bite.
*Events*: two blocks show the order of accesses, two events what happens to another
one meanwhile; the number of polls only matters for whether it is used
up.  *Iteration*: four nodes hold a last child of a last child with a sibling above.
*Data*: the blocks suffice for a package in a package or a string and a copy of it
in every variable of a frame; three frames hand a result through a frame in the
middle; six functions that wait hold a package in a store in a call.  What a step
would need more blocks for it does not do.  *Resources*: small descriptors with and
without flags, large ones, and any two or three behind each other.  *Addresses*:
four nodes hold a device, a device below it, and a region of each, in three frames.
*Conversions*: integers from 0 to 2^64 - 1 with the borders of decimal, of BCD and of
the sign, buffers of more than eight bytes, strings that stop being numbers.

Runs whose system may stop (a panic, a bound reached) have `CHECK_DEADLOCK FALSE`.
In `devices` that is for the conversions; that the controller's driver never waits
for ever is `CallsReturn`.

Fairness.  `Control`: weak fairness of the interpreter's own steps (it is one thread
and waits for nothing; the host's calls are not fair).
`EmbeddedController`: weak fairness of the driver and of the controller's handling
of bytes, without which the driver's loops would wait for ever, as they do in the
code; a controller that drops burst mode or changes registers need not do so.
`Events`: weak fairness of the call and of the interrupt handler, which the processor
runs; it has it for the firmware only where that is in time, and there the polls do
not run out before it answers.  `NodeWalk`: weak fairness of the library's loops and of
the caller that goes on with its iteration.

## 4. What is proved

In `NamespaceProofs`, for any names, field lists and bounds:

- `Shape`: `IInv` (module `NamespaceInvariant`) is an invariant.  `NoDangling` alone
  is not inductive: to know that freeing a frame's nodes hurts nobody one has to
  know which nodes they are.  `IInv` says that live nodes are numbered without
  gaps, that frame `d` owns those between its base and the base of the frame above,
  that its stack strings together exactly those, and that everything that frame `d`
  or an older node points to is older than frame `d + 1`.
- `TypeCorrect`, `NothingDangles`: by `Shape`, since `IInv` implies `TypeOK` and
  `NoDangling`.
- `ScopeIsRestored`: a frame with no open block defines names where it began.
- `MethodsRestore` (an action property): when a method's frame is popped, the
  namespace is the one it was called in.  It follows from `IInv`: when `FreeState`
  is enabled the frame owns nothing any more, and `IInv` says that all nodes up to
  its base are as they were.

Also in `NamespaceProofs`, from the same invariant.  Only two steps change the tree
(`TreeSteps`): one makes the youngest node (`NewNode`), one frees it (`GoneNode`).

- `NamesUnique`: `SiblingNamesUnique` is inductive beside `IInv`; what it needs is that
  `NsExists` returns NULL only where no child has the name (`NoSuchChild`).  It is a walk
  along `next`, so this depends on what the lists are: `ListsInv` says beside
  `ListsOrdered` (below) that every list goes on to older nodes (`ListsGrounded`), so
  that the walk is a recursive function which exists (`WalkIs`), and that it passes every
  child that is not older than where it is (`WalkFinds`).  `ListsHold` has `ListsInv` as
  an invariant: the walks end.
- `ListsAreExact`: `ListsExact`, first put as a statement about single nodes
  (`ListsOrdered`).  The new node is younger than all its siblings, so the head is its
  place; the freed one is the youngest, so it is the head of its parent's list and no
  node's successor.
- `TreeKeepsPromise`: `Spec` implements `ScopedNamespace`.  A frame's mark remembers
  the tree that `IInv` says its owner found; what is freed is beyond the base of the
  returning frame and nothing points to it (`DropMaps`), what is left when its stack is
  empty is that tree (`ReturnMaps`).
- `AliasesAreResolved`: `AliasResolved`, by `AliasInv`, which adds that the root is no
  alias and that the target of an alias which is being defined is none.  What
  `sabi_ns_find` returns has been dereferenced (`SearchIs`, `PathIs`), so an alias gets
  a proper target.  The theorem assumes that the names in a table have segments: a
  source of carets alone, as in `Alias (^, X)`, is a scope's parent, which nothing has
  dereferenced, and if a definition went through an alias that parent may be an alias
  node.  TLC finds `AliasResolved` violated when such a name is added to the instance,
  so the assumption is needed; the code does not check it.
- `DefinitionsAreFound`: `DefinedIsFound`, without a further assumption.  `TrailInv` says
  how far `sabi_ns_add_scope` has come: the node it stands at is reached from the scope
  by the carets climbed (`Climbs`) and the segments taken (`Trails`).  Since names of
  siblings differ, a lookup takes the same child at each segment (`FoundAgain`), and
  since no alias is on the way it stays there.

In `DevicesProofs`, for any set of registers, of values and of registers
that change by themselves:

- `Handshake`: `IInv` of that module is an invariant.  What a poll has seen holds
  until the access only because of what can be under way at that moment, and that
  depends on how far the call is: `Stage` says it for every number of accesses left.
  Entering burst mode and reading wait for a byte from the controller and so for all
  that was sent before.  Between a call and the next one, a controller that has dropped
  burst mode may still have the last value and the command that ends burst mode
  before it (`Leaving`).
- `PolledFlagsHold`, `ReturnsQuiet`: by `Handshake`.
- `AccessesAreAtomic`: `Spec` implements `RegisterFile`.  The value that a write puts
  into the input buffer is the abstract write (`WriteMaps`), the answer that the
  controller puts into the output buffer is the abstract read (`HandleMaps`); a
  register that changes by itself while a write to it is under way does not show
  (`SensedLater`).  All other steps leave the mapped registers as they are.

In `EventsProofs`, for any events, any number of register blocks in different ports
and any number of polls:

- `Accessing`: `IInv` of that module is an invariant.  The handler is always at some
  place of one list of accesses (`Left`), it has read nothing of the blocks ahead of
  it, and the only call that reads and clears beside it is one that switches the
  mode on.
- `EventsKept`: `Spec` implements `EventBox`.  Reading a register is the abstract
  taking (`HandlerReadsMaps`): nothing has been read of that block before, since
  blocks differ.  Writing back shows nothing, since it clears what was taken and
  nothing else (`HandlerClearsMaps`).  An event raised between the two counts as the
  one that is held (`RaiseMaps`).
- `NothingStale`: `StaleGone`.  `StaleInv` adds to `IInv` that an event from before
  the switch still has its bit, and how far the call has come: the old events of a
  block that it has read are in its word, and those of a block that it has cleared
  are gone (`Gone`).  It also says that a call which is about to switch the mode on
  has found it off, so no call has switched it on before.

In `ControlProofs`, for any set of programs of any length, any bound on frames, and
any conditions, under one assumption: every program is `Separated` (`Lexical`), that is,
no If ends a block that an Else follows.  The runs `control_flow` and `control_calls`
have such programs too, and the run `control_dangling` shows that nothing of this holds
without it.

- `Invariance`: `Inv` of `ControlInvariant`.  `ListsEndAtEnd` speaks of the list on top
  of the stack only.  To know where it stands when the function above it returns one
  has to know for each C function what it left in the `state_t` below it: an operand's
  list is at the operand's end, an If's state is behind its block, and a list is at a
  term of its own that is no Else, or at its own end (`Rests`).  `Fits` says which
  function may wait for which, `Sound` joins them along the stack, and a frame belongs
  to the part of the stack between its base and the next one (`Level`).
- `OwnTermsFetched`, `ListsEnd`, `LexicalScope`: by `Invariance`.  The scope in the
  `state_t` is the innermost block with a scope around the cell, which is what the
  locals of the open Scope handlers put back.

Also in `ControlProofs`, under the same assumption:

- `Implements`: `Spec` implements `Flow`.  `LeadsInv` says for the function on top of
  the stack where the structured reading leads from the cell fetched last: to the next
  term of the list, behind its block when it is over, or with the interrupt flag set to
  where that interrupt leads in the innermost loop (`Exit`).  Each return of a C
  function keeps that place, although the flag and `aml` change; each fetch is the step
  of `Flow` there.

In `NodeWalkProofs`, for trees of any size and shape:

- `WalkIsComplete`: `Spec` implements `TreeWalk`.  The walk keeps one pointer, so the
  invariant has to say what that pointer stands for.  With the `Path` from the node up
  to the root, what is ahead are the older siblings of the nodes on the path and the
  children of the node itself; nothing ahead has been visited, and every old node that
  may be visited and has not been is ahead.  Climbing takes the end of the path off
  and leaves what is ahead as it is; a node loaded in between is the youngest of its
  siblings and so behind.

Also in `DevicesProofs`, for any names, trees and nested calls, of firmware as the header of
`Addresses` describes it:

- `Addressing`: `Inv`.  It has the shape of the tree and of the calls, that what a device
  keeps is what it would allocate now (`KeepInv`), that a region has the pointer of the
  device that its search finds (`RegionInv`), and that the list has the controllers, each
  once, all older than any call that runs (`ListInv`).  A search gives the same in a tree
  that grows, and in one that is cut back as long as its node remains
  (`SeekSame`, `SeekBeyond`): so a region keeps its device, and a device that goes takes
  its regions along.  `_BBN` stands only under the root, so the bus that a region
  finds is the bus that its device finds.
- `RegionsAtTheirDevices`, `AddressesKeptOnce`: by `Addressing`.

And for all templates of any length, entries of `_PRT` and children, under
`RoutingAssumption`, which says what firmware writes: descriptors whose numbers fit in
their fields, entries that stand for all functions of a device, and values of `_ADR` that
are a device and one or all of its functions.

- `RoutingInvariant`: `RoutingInv`.  `EncodeHas` says of the bytes where each descriptor
  begins and that they are its own (`Template`), which `EncodedIs` reads field by field.
  Since the code moves by the length that it reads, an iteration that stands at a
  descriptor gets the next one (`NextIs`), and `n` calls get the `n`th (`DescriptorIs`),
  whatever the sizes before it.  What an answer takes from there is what the descriptor
  says (`DescriptorAt`, `RouteIs`, `BusIs`, `PortsIs`); for the highest bit of a mask that
  has one, `HighestIs` needs that powers of two rise.
- `InOrder`, `Described`: by `RoutingInvariant`.

In `FieldAccessProofs`, for lists of any elements and any written values and contents:

- `FieldsApart`: `FieldsDisjoint`, by `FieldsInvariantHolds`.  While the list is read,
  every field so far ends where the next element starts or before (`Laid`,
  `ElementLaid`), so the next field cannot reach into one of them.
- `RowsKept`: `Spec` implements `BitFields`.  `AlignIs` says in numbers what
  `access_align` computes: the units cover the field, and without their first or without
  their last one they would not; where no unit is touched in part, they are the field.
  From that, a loop that shifts in units from the last to the first gathers a row of
  bits (`UnitsRead`), one that writes units from the first to the last replaces a row
  (`UnitsWritten`), and what `access_mask` and `access_preserve` do to a word is what the
  abstract read and write do to the row (`RowMasked`, `RowPreserved`).  The loops are
  then those of the code (`FieldDone`, `BufferDone`); behind an index register each unit
  is a write to one register and an access to another, which itself is such an access,
  to eight bits (`RegisterRead`, `RegisterWrite`, `Selected`, `IndexDone`).

  `FieldsAssumption` has what the code does not check: a field has bits, its flags have
  one of the three update rules, and behind an index register of one byte a field ends
  below byte 256 and is accessed in bytes.  That a word has 64 bits is in the guards, as
  it is in the code: an access that would take more units is stopped, and the theorem
  needs that.

In `DataProofs` and `DataStepProofs`, for any set of names and any languages with any
bounds, under one assumption.  `NoneComputed`: no language has the form `"computed"`, that
is, nothing that is returned is built from the results of calls.  The run `data_computed`
has a language with this form, and shows that `PendingAlive` does not hold then.
`OwnedOnce` is about what is owned: it says that what `sabi_clean_data` and
`sabi_free_state` free has not been freed before.  It does not say that the code reads no
memory which it has freed.  The two places where it may are outside these theorems, and
section 5 has them: an increment of what is no integer, which the model has none of, and
the variable of `sabi_integer` that is not set, of which the model says only that some
number comes of it.

- `DataInvariantHolds`: `IInv` of `DataInvariant`.  `OwnedOnce` says of the blocks that
  they have one owner; that a step keeps it depends on where the functions that wait
  on the C stack stand, and on where they are going to put their data.  So `IInv` says, of
  the heap, that each block which a cell owns is owned by that cell only, and by no name and
  no function (`HeapOK`); that the blocks held by names and functions are held once and
  have the cells they need (`HeldOnce`, `Sizes`); which function may wait for which
  (`StackOK`); that each function that evaluates data has the place to put it which the
  function below waits on, and that this place is empty until then, a package that
  is being filled being owned from the beginning (`Destined`, `Unwritten`); and that a
  package or a string which is built to be returned has nothing above it but its own
  elements (`Returning`), which is what the assumption is for.  What points
  without owning needs the order of frames: a reference is only in an argument and leads to
  a variable of a frame further down, or to a name that lives as long (`BorrowedCells`);
  a buffer field is a name's own and the buffer it is in belongs to a name that outlives it
  (`BorrowedBytes`).
- The argument has two halves.  `DataProofs` says of `Clone`, `Clean`, `Write`, `Make` and
  freeing which cells they change, which blocks they free and which they may lose
  (`Alters`), and that the heap stays sound.  `StepOK` then has what is common to all steps:
  a step that leaves the `k` lowest functions alone, changes cells on which none of them
  waits (`Spared`) and frees nothing they hold keeps `IInv`, if what it puts on top of them
  fits (`Tops`, `Joined`) and the names that stay keep what they need (`Named`, `Lasting`).
  `DataStepProofs` shows of each action that it is such a step.  What a block owns is a least
  closed set (`TreeIsClosure`): the recursive function that collects it ends because the
  heap is finite.
- `DataTypes`, `DataOwnedOnce`, `DataPendingAlive`, `DataBorrowsAlive`: by
  `DataInvariantHolds`.  `OwnedOnce` compares numbers: there are as many blocks that cells
  own as cells that own one, which is a bijection between the two sets (`OwnersCount`).

These inductive invariants were checked with TLC on the instances of the runs before
they were proved.  A search along parents or along a path is a recursive function: that it exists
is proved first (`SeekExists`, `Recursion` and their like), by induction over the set of numbers up to
which it does, and then it is unfolded one node at a time.

The other assumptions are those on the constants in `Namespace`, `EmbeddedController`,
`Events`, `FieldAccess`, `Addresses` and `Routing`; TLC evaluates them in the runs.  Only
model-checked: the refinement of `ValueSemantics` and `LeaksKnown`; `Conversions`, whose
operators compute over digits; and liveness, which TLAPS has no rules for here.

## 5. Findings

`control_dangling`: `sabi_def_if_else` (defs.c 418) looks for an Else at the byte
behind its If.  Where an If ends the body of an outer If that has an Else of its
own, that byte is the outer Else: the inner If consumes it, `aml` ends up beyond the
end of the inner list, and the outer If goes back to a list that is over.
parser.c 457 says that the interpreter is not supposed to get there.

`data_computed`: `Return(Package(){M})` has its package evaluated straight into
`state->retv` (defs.c 816).  The call of M, an element, ends by cleaning `state->retv`
(parser.c 95), which frees the array that `sabi_def_package` is filling.

`irq_flags`: `sabi_pci_package` (pci.c 57) takes the flags of an IRQ descriptor if it
is three bytes long.  The length counts the tag (resources.c 27), so that is one
without flags, and one with flags, of four bytes, is routed with the default.  An
edge-triggered interrupt comes out as level-triggered.

`RoomSuffices` names one more case: the string of an integer of 20 decimal digits is
written into a block of 20 bytes (conv.c 251), one too few.  `LeaksKnown` names what is
never freed: the old bytes of a string that is stored to (operand.c 423), and the
data of a name that is defined again.

Two more were met in reading the code for the model, and no run shows them, since they are
outside what it describes:

- `sabi_def_increment` (defs.c 437) reads its operand without a copy.  If it is no integer
  the handler logs that (defs.c 442) and goes on: it increments the value, which is where
  the union has the pointer of a string, a buffer, a package or a reference, and writes
  the result back.  In an argument or a local, `sabi_write_operand` (operand.c 379 to 392)
  frees the block and then clones from one byte beside its beginning, which is a read of
  freed memory.  The package of a name is cleaned and cloned in the same way, its string
  or buffer is converted from there.  A reference refers to nothing afterwards.
- For an operand that is a call, `sabi_integer` converts its local variable `data`
  (types.c 236), which nothing has set, and not the result in `state->retv`, which
  `sabi_data_object` takes (types.c 332): the sum of two calls is not the sum of their
  results.  If the type that is in the memory by chance is that of a string or a buffer,
  `sabi_conv_tointeger` reads through the pointer that is beside it, which may be of a
  block that has been freed.

## 6. What is not modelled

- Arithmetic and logic: they compute what C does with 64-bit integers.
- References that are stored or returned, buffer fields of other buffers than those
  of names, paths of several new segments as names of data: the header of
  `DataOwnership` lists them.  Such AML leaves pointers to freed data or frees it twice.
- Packages with more elements than their count: `sabi_def_package` writes them past the
  array (defs.c 731), and then sets elements to null with a count that is negative.
- Increments of anything but integers, and what is read through the variable
  that `sabi_integer` has not set, see section 5.
- `_ADR`, `_HID` and `_BBN` that are methods or are defined after the regions of
  their device, and the pointer of a device that has a controller and an address.
- Running out of memory and of C stack: the code has no behaviour for either.
- Parsing of names, package lengths and integers from bytes (`types.c`): the models
  start from parsed terms.
- `_PIC` and `_REG`, which are evaluations of a method, and soft off, a sequence of
  register writes.
- Output, the tools, and the string comparison of `_OSI`.

## 7. Plan

1. Done: the modules above.
2. Proofs: `LeaksKnown` from the lemmas on `Alters`, which already say what a step may
   lose; the refinement of `ValueSemantics`.
3. `DataOwnership` with references that are stored.
