---------------------------- MODULE EventsProofs ----------------------------
(***************************************************************************)
(* Proofs about Events, for all events, any number of register blocks and  *)
(* any number of polls.                                                    *)
(***************************************************************************)
EXTENDS Events, SequenceTheorems, TLAPS

(* The number of blocks, and what may be accessed. *)
N == Len(Block)
Access ==
    {Check, Switch, Poll, Report}
      \cup {Enable(b, v) : b \in Blocks, v \in SUBSET Event}
      \cup {Read(b) : b \in Blocks} \cup {Clear(b) : b \in Blocks}

(* What the interrupt handler accesses, and the call when it finds that    *)
(* the mode is on.  Left(list, s, k): s is what is left of the list when k *)
(* accesses have been made.                                                *)
Handling == ReadEvent \o <<Report>>
Switching == WriteEvent(Buttons) \o ReadEvent
Left(list, s, k) ==
    /\ s \in Seq(Access) /\ Len(s) = Len(list) - k
    /\ \A i \in 1..Len(s) : s[i] = list[k + i]

(* Status bits are in the register of their event's block, and so are the  *)
(* bits of the words that have been read.                                  *)
Wired(w) == w \in [Blocks -> SUBSET Event] /\ \A b \in Blocks : \A e \in w[b] : Wire[e] = b

TypeInv ==
    /\ Wired(sts)
    /\ todo \in [Process -> Seq(Access)]
    /\ words \in [Process -> [Blocks -> SUBSET Event]]
    /\ \A p \in Process : Wired(words[p])

(* The handler has still to make the last accesses of its list, and has    *)
(* read no word of a block that it has not come to.                        *)
Unread(w, k) == \A j \in 1..N : k < 2 * j - 1 => w[Block[j]] = {}
HandlerAt(s, w) ==
    \/ s = <<>> /\ w = Nothing
    \/ \E k \in 0..(2 * N) : Left(Handling, s, k) /\ Unread(w, k)
HandlerInv == HandlerAt(todo["sci"], words["sci"])

(* Only a call that switches ACPI mode on reads and clears. *)
Enables(s) == \A i \in 1..Len(s) : s[i].do = "enable"
CallInv ==
    /\ call = "none" => todo["call"] = <<>>
    /\ call # "enable" => Enables(todo["call"])

IInv == TypeInv /\ HandlerInv /\ CallInv

-----------------------------------------------------------------------------
(* Processes are told apart. *)
LEMMA Processes == Process = {"call", "sci"} /\ "call" # "sci"
BY DEF Process

(* Blocks are the elements of the sequence. *)
LEMMA BlockFacts ==
    /\ N \in Nat /\ DOMAIN Block = 1..N
    /\ \A j \in 1..N : Block[j] \in Blocks
    /\ \A b \in Blocks : \E j \in 1..N : b = Block[j]
<1>1. N \in Nat /\ DOMAIN Block = 1..N
  BY BlockAssumption, LenProperties DEF N
<1>2. QED
  BY <1>1 DEF Blocks

(* sabi_read_event reads a block and clears it, then the next one. *)
LEMMA ReadEventIs ==
    /\ ReadEvent \in Seq(Access) /\ Len(ReadEvent) = 2 * N
    /\ \A j \in 1..N : /\ ReadEvent[2 * j - 1] = Read(Block[j])
                       /\ ReadEvent[2 * j] = Clear(Block[j])
<1> USE BlockFacts
<1> DEFINE f == [i \in 1..(2 * N) |->
                   IF i % 2 = 1 THEN Read(Block[(i + 1) \div 2]) ELSE Clear(Block[i \div 2])]
<1>1. ReadEvent = f
  BY DEF ReadEvent, N
<1>2. \A i \in 1..(2 * N) :
        \/ i % 2 = 1 /\ (i + 1) \div 2 \in 1..N
        \/ i % 2 = 0 /\ i \div 2 \in 1..N
  OBVIOUS
<1>3. \A i \in 1..(2 * N) : f[i] \in Access
  BY <1>2 DEF Access
<1>4. f \in Seq(Access) /\ Len(f) = 2 * N
  <2>1. 2 * N \in Nat
    OBVIOUS
  <2>2. f \in [1..(2 * N) -> Access]
    BY <1>3
  <2>3. QED
    BY <2>1, <2>2, LenProperties
<1>5. ASSUME NEW j \in 1..N
      PROVE  f[2 * j - 1] = Read(Block[j]) /\ f[2 * j] = Clear(Block[j])
  <2>1. /\ 2 * j - 1 \in 1..(2 * N) /\ 2 * j \in 1..(2 * N)
        /\ (2 * j - 1) % 2 = 1 /\ ((2 * j - 1) + 1) \div 2 = j
        /\ (2 * j) % 2 = 0 /\ (2 * j) \div 2 = j
    OBVIOUS
  <2>2. QED
    BY <2>1
<1>6. QED
  BY <1>1, <1>4, <1>5

(* The list of the handler: Read, Clear, Read, Clear, ..., Report. *)
LEMMA HandlingIs ==
    /\ Handling \in Seq(Access) /\ Len(Handling) = 2 * N + 1
    /\ \A j \in 1..N : /\ Handling[2 * j - 1] = Read(Block[j])
                       /\ Handling[2 * j] = Clear(Block[j])
    /\ Handling[2 * N + 1] = Report
<1>1. <<Report>> \in Seq(Access) /\ Len(<<Report>>) = 1 /\ <<Report>>[1] = Report
  BY DEF Access
<1>2. /\ Handling \in Seq(Access) /\ Len(Handling) = Len(ReadEvent) + Len(<<Report>>)
      /\ \A i \in 1..(Len(ReadEvent) + Len(<<Report>>)) :
           Handling[i] = IF i =< Len(ReadEvent) THEN ReadEvent[i]
                         ELSE <<Report>>[i - Len(ReadEvent)]
  BY <1>1, ReadEventIs, ConcatProperties DEF Handling
<1>3. N \in Nat
  BY BlockFacts
<1>4. /\ Len(Handling) = 2 * N + 1
      /\ \A i \in 1..(2 * N) : Handling[i] = ReadEvent[i]
  BY <1>1, <1>2, <1>3, ReadEventIs
<1>5. Handling[2 * N + 1] = Report
  BY <1>1, <1>2, <1>3, ReadEventIs
<1>6. ASSUME NEW j \in 1..N
      PROVE  Handling[2 * j - 1] = Read(Block[j]) /\ Handling[2 * j] = Clear(Block[j])
  <2>1. 2 * j - 1 \in 1..(2 * N) /\ 2 * j \in 1..(2 * N)
    BY <1>3
  <2>2. QED
    BY <2>1, <1>4, ReadEventIs
<1>7. QED
  BY <1>2, <1>4, <1>5, <1>6

(* Where the handler may be in its list. *)
LEMMA Places ==
    ASSUME NEW k \in 0..(2 * N)
    PROVE  \/ k = 2 * N
           \/ \E j \in 1..N : k = 2 * j - 2
           \/ \E j \in 1..N : k = 2 * j - 1
<1>1. N \in Nat
  BY BlockFacts
<1>2. CASE k < 2 * N /\ k % 2 = 0
  <2>1. k \div 2 + 1 \in 1..N /\ k = 2 * (k \div 2 + 1) - 2
    BY <1>1, <1>2
  <2>2. QED
    BY <2>1
<1>3. CASE k < 2 * N /\ k % 2 = 1
  <2>1. k \div 2 + 1 \in 1..N /\ k = 2 * (k \div 2 + 1) - 1
    BY <1>1, <1>3
  <2>2. QED
    BY <2>1
<1>4. QED
  BY <1>1, <1>2, <1>3

(* A sequence that is left without its first element. *)
LEMMA TailIs ==
    ASSUME NEW S, NEW s \in Seq(S), s # <<>>
    PROVE  /\ Tail(s) \in Seq(S) /\ Len(Tail(s)) = Len(s) - 1
           /\ Head(s) \in S /\ Head(s) = s[1]
           /\ \A i \in 1..Len(Tail(s)) : Tail(s)[i] = s[i + 1] /\ i + 1 \in 1..Len(s)
<1>1. Len(s) \in Nat /\ Len(s) # 0
  BY LenProperties, EmptySeq
<1>2. QED
  BY <1>1, HeadTailProperties

(* What is left after one access more, which is the next of the list. *)
LEMMA LeftTail ==
    ASSUME NEW list \in Seq(Access), NEW k \in Nat, k < Len(list), NEW s, Left(list, s, k)
    PROVE  /\ s # <<>> /\ Head(s) = list[k + 1]
           /\ Left(list, Tail(s), k + 1)
<1>1. Len(list) \in Nat
  BY LenProperties
<1>2. s \in Seq(Access) /\ Len(s) = Len(list) - k /\ s # <<>>
  BY <1>1 DEF Left
<1>3. /\ Tail(s) \in Seq(Access) /\ Len(Tail(s)) = Len(list) - (k + 1)
      /\ Head(s) = s[1]
      /\ \A i \in 1..Len(Tail(s)) : Tail(s)[i] = s[i + 1] /\ i + 1 \in 1..Len(s)
  BY <1>1, <1>2, TailIs
<1>4. ASSUME NEW i \in 1..Len(Tail(s))
      PROVE  Tail(s)[i] = list[(k + 1) + i]
  <2>1. Tail(s)[i] = list[k + (i + 1)]
    BY <1>3 DEF Left
  <2>2. k + (i + 1) = (k + 1) + i
    OBVIOUS
  <2>3. QED
    BY <2>1, <2>2
<1>5. Head(s) = list[k + 1]
  <2>1. 1 \in 1..Len(s)
    BY <1>1, <1>2
  <2>2. QED
    BY <1>3, <2>1 DEF Left
<1>6. QED
  BY <1>2, <1>3, <1>4, <1>5 DEF Left

(* The next access of the handler, and what is left after it. *)
LEMMA HandlingTail ==
    ASSUME NEW s, NEW k \in 0..(2 * N), Left(Handling, s, k)
    PROVE  /\ s # <<>> /\ Head(s) = Handling[k + 1]
           /\ k < 2 * N => Left(Handling, Tail(s), k + 1) /\ k + 1 \in 0..(2 * N)
<1>1. N \in Nat
  BY BlockFacts
<1>2. k \in Nat /\ k < Len(Handling) /\ Handling \in Seq(Access)
  BY <1>1, HandlingIs
<1>3. s # <<>> /\ Head(s) = Handling[k + 1] /\ Left(Handling, Tail(s), k + 1)
  BY <1>2, LeftTail
<1>4. QED
  BY <1>1, <1>3

(* What the handler accesses next tells where it is. *)
LEMMA NextAccess ==
    ASSUME NEW s, NEW k \in 0..(2 * N), Left(Handling, s, k)
    PROVE  /\ s # <<>>
           /\ Head(s).do = "report" => k = 2 * N
           /\ Head(s).do = "read" => \E j \in 1..N : k = 2 * j - 2 /\ Head(s) = Read(Block[j])
           /\ Head(s).do = "clear" => \E j \in 1..N : k = 2 * j - 1 /\ Head(s) = Clear(Block[j])
           /\ Head(s).do \in {"read", "clear", "report"}
<1>1. N \in Nat
  BY BlockFacts
<1>3. s # <<>> /\ Head(s) = Handling[k + 1]
  BY HandlingTail
<1>6. CASE k = 2 * N
  <2>1. Head(s) = Report
    BY <1>3, <1>6, HandlingIs
  <2>2. QED
    BY <2>1, <1>3, <1>6 DEF Report
<1>7. ASSUME NEW j \in 1..N, k = 2 * j - 2
      PROVE  Head(s) = Read(Block[j]) /\ Head(s).do = "read"
  <2>1. k + 1 = 2 * j - 1
    BY <1>7
  <2>2. Head(s) = Read(Block[j])
    BY <2>1, <1>3, HandlingIs
  <2>3. QED
    BY <2>2 DEF Read
<1>8. ASSUME NEW j \in 1..N, k = 2 * j - 1
      PROVE  Head(s) = Clear(Block[j]) /\ Head(s).do = "clear"
  <2>1. k + 1 = 2 * j
    BY <1>8
  <2>2. Head(s) = Clear(Block[j])
    BY <2>1, <1>3, HandlingIs
  <2>3. QED
    BY <2>2 DEF Clear
<1>9. QED
  BY <1>3, <1>6, <1>7, <1>8, Places

(* A list of writes to enable registers stays one when it is cut. *)
LEMMA EnablesTail ==
    ASSUME NEW s \in Seq(Access), s # <<>>, Enables(s)
    PROVE  Enables(Tail(s)) /\ Head(s).do = "enable"
<1>1. Len(s) \in Nat /\ Len(s) > 0
  BY LenProperties, EmptySeq
<1>2. QED
  BY <1>1, TailIs DEF Enables

(* The lists of the calls. *)
LEMMA WriteEventIs ==
    ASSUME NEW value \in SUBSET Event
    PROVE  WriteEvent(value) \in Seq(Access) /\ Enables(WriteEvent(value))
<1> DEFINE f == [i \in 1..N |-> Enable(Block[i], value)]
<1>1. WriteEvent(value) = f /\ N \in Nat
  BY BlockFacts DEF WriteEvent
<1>2. ASSUME NEW i \in 1..N
      PROVE  f[i] \in Access /\ f[i].do = "enable"
  <2>1. f[i] = Enable(Block[i], value) /\ Block[i] \in Blocks
    BY BlockFacts
  <2>2. Enable(Block[i], value) \in Access
    BY <2>1 DEF Access
  <2>3. Enable(Block[i], value).do = "enable"
    BY DEF Enable
  <2>4. QED
    BY <2>1, <2>2, <2>3
<1>3. f \in Seq(Access) /\ Len(f) = N
  <2>1. f \in [1..N -> Access]
    BY <1>2
  <2>2. QED
    BY <1>1, <2>1, LenProperties
<1>4. QED
  BY <1>1, <1>2, <1>3 DEF Enables

(* The lists of sabi_enable_acpi, before and after it has found that the   *)
(* mode is on, and that of a handler without a FADT, are lists of          *)
(* accesses.                                                               *)
LEMMA CallLists ==
    /\ <<>> \in Seq(Access) /\ <<Check, Switch, Poll>> \in Seq(Access)
    /\ <<Report>> \in Seq(Access)
    /\ WriteEvent(Buttons) \o ReadEvent \in Seq(Access)
<1>1. {Check, Switch, Poll, Report} \subseteq Access
  BY DEF Access
<1>2. WriteEvent(Buttons) \in Seq(Access)
  BY ButtonsAssumption, WriteEventIs
<1>3. QED
  BY <1>1, <1>2, ReadEventIs, ConcatProperties

-----------------------------------------------------------------------------
(* The invariant.  An access and what it is to: *)
LEMMA Accesses ==
    ASSUME NEW a \in Access
    PROVE  /\ a.do \in {"read", "clear"} => a.block \in Blocks
           /\ a.do = "enable" => a.block \in Blocks /\ a.value \in SUBSET Event
<1>1. CASE a \in {Check, Switch, Poll, Report}
  BY <1>1 DEF Check, Switch, Poll, Report
<1>2. ASSUME NEW b \in Blocks, NEW v \in SUBSET Event, a = Enable(b, v)
      PROVE  a.do = "enable" /\ a.block = b /\ a.value = v
  BY <1>2 DEF Enable
<1>3. ASSUME NEW b \in Blocks, a = Read(b)
      PROVE  a.do = "read" /\ a.block = b
  BY <1>3 DEF Read
<1>4. ASSUME NEW b \in Blocks, a = Clear(b)
      PROVE  a.do = "clear" /\ a.block = b
  BY <1>4 DEF Clear
<1>5. QED
  BY <1>1, <1>2, <1>3, <1>4 DEF Access

(* A process that has read nothing holds no bit of the wrong block. *)
LEMMA NothingWired == Wired(Nothing)
BY DEF Wired, Nothing

(* A step of the call leaves the handler where it was. *)
LEMMA CallMoves ==
    ASSUME IInv, Wired(sts'),
           NEW w, Wired(w), words' = [words EXCEPT !["call"] = w],
           NEW s \in Seq(Access), Goes("call", s),
           call' = "none" => s = <<>>,
           call' # "enable" => Enables(s)
    PROVE  IInv' /\ todo'["sci"] = todo["sci"] /\ words'["sci"] = words["sci"]
<1> USE Processes
<1>1. /\ todo' \in [Process -> Seq(Access)]
      /\ todo'["call"] = s /\ todo'["sci"] = todo["sci"]
  BY DEF IInv, TypeInv, Goes
<1>2. /\ words' \in [Process -> [Blocks -> SUBSET Event]]
      /\ words'["call"] = w /\ words'["sci"] = words["sci"]
  BY DEF IInv, TypeInv, Wired
<1>3. \A p \in Process : Wired(words'[p])
  BY <1>2 DEF IInv, TypeInv
<1>4. TypeInv'
  BY <1>1, <1>2, <1>3 DEF TypeInv, Wired
<1>5. HandlerInv'
  BY <1>1, <1>2 DEF IInv, HandlerInv
<1>6. CallInv'
  BY <1>1 DEF CallInv
<1>7. QED
  BY <1>1, <1>2, <1>4, <1>5, <1>6 DEF IInv

(* A step of the handler leaves the call where it was. *)
LEMMA HandlerMoves ==
    ASSUME IInv, Wired(sts'), call' = call,
           NEW w, Wired(w), words' = [words EXCEPT !["sci"] = w],
           NEW s \in Seq(Access), Goes("sci", s), HandlerAt(s, w)
    PROVE  IInv' /\ todo'["sci"] = s /\ words'["sci"] = w
<1> USE Processes
<1>1. /\ todo' \in [Process -> Seq(Access)]
      /\ todo'["sci"] = s /\ todo'["call"] = todo["call"]
  BY DEF IInv, TypeInv, Goes
<1>2. /\ words' \in [Process -> [Blocks -> SUBSET Event]]
      /\ words'["sci"] = w /\ words'["call"] = words["call"]
  BY DEF IInv, TypeInv, Wired
<1>3. \A p \in Process : Wired(words'[p])
  BY <1>2 DEF IInv, TypeInv
<1>4. TypeInv'
  BY <1>1, <1>2, <1>3 DEF TypeInv, Wired
<1>5. HandlerInv'
  BY <1>1, <1>2 DEF HandlerInv
<1>6. CallInv'
  BY <1>1 DEF IInv, CallInv
<1>7. QED
  BY <1>1, <1>2, <1>4, <1>5, <1>6 DEF IInv

(* A process that is doing something has a list, whose rest is a list. *)
LEMMA DoingIs ==
    ASSUME IInv, NEW p \in Process, NEW what, Doing(p, what)
    PROVE  /\ todo[p] \in Seq(Access) /\ todo[p] # <<>>
           /\ Head(todo[p]) \in Access /\ Head(todo[p]).do = what
           /\ Tail(todo[p]) \in Seq(Access)
<1>1. todo[p] \in Seq(Access) /\ todo[p] # <<>> /\ Head(todo[p]).do = what
  BY DEF IInv, TypeInv, Doing
<1>2. QED
  BY <1>1, TailIs

(* The call that runs, and the rest of its list.  *)
LEMMA CallIs ==
    ASSUME IInv, NEW what, Doing("call", what)
    PROVE  /\ call # "none"
           /\ what # "enable" => call = "enable"
           /\ call # "enable" => Enables(Tail(todo["call"]))
<1>1. todo["call"] \in Seq(Access) /\ todo["call"] # <<>> /\ Head(todo["call"]).do = what
  BY Processes, DoingIs
<1>2. QED
  BY <1>1, EnablesTail DEF IInv, CallInv

(* Words and registers stay wired. *)
LEMMA WiredSteps ==
    ASSUME NEW v, Wired(v), NEW w, Wired(w), NEW b \in Blocks
    PROVE  Wired([w EXCEPT ![b] = v[b]]) /\ Wired([w EXCEPT ![b] = @ \ v[b]])
BY DEF Wired

(* An event that is raised sets its bit in the register of its block. *)
LEMMA RaiseWired ==
    ASSUME Wired(sts), NEW e \in Event
    PROVE  Wired([sts EXCEPT ![Wire[e]] = @ \cup {e}])
<1>1. Wire[e] \in Blocks
  BY WireAssumption
<1>2. QED
  BY <1>1 DEF Wired

(* The invariant holds at the start, whatever is pending. *)
LEMMA InitInv == Init => IInv
<1> SUFFICES ASSUME Init PROVE IInv
  OBVIOUS
<1>1. Wired(sts)
  BY DEF Init, Wired
<1>2. /\ todo \in [Process -> Seq(Access)]
      /\ todo["call"] = <<>> /\ todo["sci"] = <<>>
  BY CallLists, Processes DEF Init
<1>3. /\ words["sci"] = Nothing /\ words \in [Process -> [Blocks -> SUBSET Event]]
      /\ \A p \in Process : Wired(words[p])
  BY NothingWired, Processes DEF Init, Wired
<1>4. Enables(<<>>)
  BY DEF Enables
<1>5. QED
  BY <1>1, <1>2, <1>3, <1>4 DEF Init, IInv, TypeInv, HandlerInv, HandlerAt, CallInv

-----------------------------------------------------------------------------
(* Where the handler is in its list. *)
LEMMA HandlerDoes ==
    ASSUME IInv, todo["sci"] # <<>>
    PROVE  \E k \in 0..(2 * N) : Left(Handling, todo["sci"], k) /\ Unread(words["sci"], k)
BY DEF IInv, HandlerInv, HandlerAt

(* It reads a register of which it has no bits yet, and clears that one    *)
(* next. *)
LEMMA HandlerReads ==
    ASSUME IInv, NEW s, s = todo["sci"], NEW w, w = words["sci"], Doing("sci", "read"),
           NEW b, b = Head(s).block
    PROVE  /\ b \in Blocks /\ w[b] = {}
           /\ HandlerAt(Tail(s), [w EXCEPT ![b] = sts[b]])
           /\ Tail(s) # <<>> /\ Head(Tail(s)) = Clear(b)
<1> USE BlockFacts
<1>1. PICK k \in 0..(2 * N) : Left(Handling, s, k) /\ Unread(w, k)
  BY HandlerDoes DEF Doing
<1>2. Head(s).do = "read"
  BY DEF Doing
<1>3. PICK j \in 1..N : k = 2 * j - 2 /\ Head(s) = Read(Block[j])
  BY <1>1, <1>2, NextAccess
<1>4. b = Block[j] /\ b \in Blocks
  BY <1>3 DEF Read
<1>5. w[b] = {}
  BY <1>1, <1>3, <1>4 DEF Unread
<1>6. Left(Handling, Tail(s), k + 1) /\ k + 1 \in 0..(2 * N)
  BY <1>1, <1>3, HandlingTail
<1>7. w \in [Blocks -> SUBSET Event]
  BY Processes DEF IInv, TypeInv
<1>8. Unread([w EXCEPT ![b] = sts[b]], k + 1)
  <2>1. SUFFICES ASSUME NEW i \in 1..N, k + 1 < 2 * i - 1
                 PROVE  [w EXCEPT ![b] = sts[b]][Block[i]] = {}
    BY DEF Unread
  <2>2. i # j /\ k < 2 * i - 1
    BY <1>3, <2>1
  <2>3. Block[i] # b /\ Block[i] \in Blocks
    BY <1>4, <2>2, BlockAssumption
  <2>4. w[Block[i]] = {}
    BY <1>1, <2>2 DEF Unread
  <2>5. QED
    BY <1>7, <2>3, <2>4
<1>9. HandlerAt(Tail(s), [w EXCEPT ![b] = sts[b]])
  BY <1>6, <1>8 DEF HandlerAt
<1>10. Tail(s) # <<>> /\ Head(Tail(s)) = Clear(b)
  <2>1. Tail(s) # <<>>
    BY <1>6, NextAccess
  <2>2. Head(Tail(s)) = Handling[(k + 1) + 1]
    BY <1>6, HandlingTail
  <2>5. (k + 1) + 1 = 2 * j
    BY <1>3
  <2>6. QED
    BY <1>4, <2>1, <2>2, <2>5, HandlingIs
<1>11. QED
  BY <1>4, <1>5, <1>9, <1>10

(* It clears what it has read, and does not clear next. *)
LEMMA HandlerClears ==
    ASSUME IInv, NEW s, s = todo["sci"], NEW w, w = words["sci"], Doing("sci", "clear"),
           NEW b, b = Head(s).block
    PROVE  /\ b \in Blocks
           /\ HandlerAt(Tail(s), w)
           /\ Tail(s) # <<>> /\ Head(Tail(s)).do # "clear"
<1> USE BlockFacts
<1>1. PICK k \in 0..(2 * N) : Left(Handling, s, k) /\ Unread(w, k)
  BY HandlerDoes DEF Doing
<1>2. Head(s).do = "clear"
  BY DEF Doing
<1>3. PICK j \in 1..N : k = 2 * j - 1 /\ Head(s) = Clear(Block[j])
  BY <1>1, <1>2, NextAccess
<1>4. b = Block[j] /\ b \in Blocks
  BY <1>3 DEF Clear
<1>5. k < 2 * N
  BY <1>3
<1>6. Left(Handling, Tail(s), k + 1) /\ k + 1 \in 0..(2 * N)
  BY <1>1, <1>5, HandlingTail
<1>7. Unread(w, k + 1)
  BY <1>1 DEF Unread
<1>8. Tail(s) # <<>> /\ Head(Tail(s)).do # "clear"
  <2>1. ASSUME NEW i \in 1..N
        PROVE  k + 1 # 2 * i - 1
    BY <1>3
  <2>2. QED
    BY <1>6, <2>1, NextAccess
<1>9. QED
  BY <1>4, <1>6, <1>7, <1>8 DEF HandlerAt

(* Its lists. *)
LEMMA HandlerLists ==
    /\ HandlerAt(Handling, Nothing) /\ HandlerAt(<<Report>>, Nothing)
    /\ HandlerAt(<<>>, Nothing)
    /\ Handling # <<>> /\ Head(Handling).do # "clear"
    /\ <<Report>> # <<>> /\ Head(<<Report>>).do # "clear"
<1> USE BlockFacts
<1>1. \A k \in 0..(2 * N) : Unread(Nothing, k)
  BY DEF Unread, Nothing
<1>2. Left(Handling, Handling, 0)
  BY HandlingIs DEF Left
<1>3. Left(Handling, <<Report>>, 2 * N)
  <2>1. Len(<<Report>>) = 1 /\ <<Report>>[1] = Report
    OBVIOUS
  <2>2. QED
    BY <2>1, CallLists, HandlingIs DEF Left
<1>4. 0 \in 0..(2 * N) /\ 2 * N \in 0..(2 * N)
  OBVIOUS
<1>5. HandlerAt(Handling, Nothing) /\ HandlerAt(<<Report>>, Nothing)
  BY <1>1, <1>2, <1>3, <1>4 DEF HandlerAt
<1>6. Handling # <<>> /\ Head(Handling).do # "clear"
  <2>1. \A j \in 1..N : 0 # 2 * j - 1
    OBVIOUS
  <2>2. QED
    BY <1>2, <1>4, <2>1, NextAccess
<1>7. Head(<<Report>>).do # "clear" /\ <<Report>> # <<>>
  BY DEF Report
<1>8. HandlerAt(<<>>, Nothing)
  BY DEF HandlerAt
<1>9. QED
  BY <1>5, <1>6, <1>7, <1>8

-----------------------------------------------------------------------------
(* Every step preserves the invariant; a step of the call leaves what the  *)
(* handler has read and has still to access. *)
Apart == todo'["sci"] = todo["sci"] /\ words'["sci"] = words["sci"]

(* A step of the call that only shortens or replaces its list. *)
LEMMA CallGoes ==
    ASSUME IInv, sts' = sts, words' = words,
           NEW s \in Seq(Access), Goes("call", s),
           call' = "none" => s = <<>>,
           call' # "enable" => Enables(s)
    PROVE  IInv' /\ Apart
<1>1. Wired(sts) /\ Wired(words["call"]) /\ words \in [Process -> [Blocks -> SUBSET Event]]
  BY Processes DEF IInv, TypeInv
<1>2. words' = [words EXCEPT !["call"] = words["call"]]
  BY <1>1, Processes
<1>3. Wired(sts')
  BY <1>1
<1>4. QED
  BY <1>1, <1>2, <1>3, CallMoves DEF Apart

(* A call that is over has nothing to write. *)
LEMMA EnablesNone == Enables(<<>>)
BY DEF Enables

(* sabi_enable_acpi begins, with or without a FADT. *)
LEMMA EnableAcpiInv ==
    ASSUME IInv, EnableAcpi
    PROVE  IInv' /\ Apart
<1>1. PICK s \in Seq(Access) : Goes("call", s)
  BY CallLists DEF EnableAcpi, Goes
<1>2. QED
  BY <1>1, CallGoes DEF EnableAcpi, hardware

(* sabi_write_event begins: it only writes enable registers. *)
LEMMA SetEventsInv ==
    ASSUME IInv, NEW value \in {{}, Event}, SetEvents(value)
    PROVE  IInv' /\ Apart
<1>1. WriteEvent(value) \in Seq(Access) /\ Enables(WriteEvent(value))
  BY WriteEventIs
<1>2. PICK s \in Seq(Access) : Goes("call", s) /\ Enables(s)
  BY <1>1, CallLists, EnablesNone DEF SetEvents, Goes
<1>3. QED
  BY <1>2, CallGoes DEF SetEvents, hardware

(* A call returns and forgets what it has read. *)
LEMMA ReturnInv ==
    ASSUME IInv, Return
    PROVE  IInv' /\ Apart
<1>1. Goes("call", <<>>)
  BY Processes DEF Return, IInv, TypeInv, Goes
<1>2. Wired(sts')
  BY DEF Return, hardware, IInv, TypeInv
<1>3. QED
  BY <1>1, <1>2, NothingWired, CallLists, EnablesNone, CallMoves DEF Return, Apart

(* A step whose list is cut short, or loses its first access. *)
LEMMA CallAdvances ==
    ASSUME IInv, NEW what, Doing("call", what), sts' = sts, words' = words, call' = call,
           Goes("call", <<>>) \/ Goes("call", Tail(todo["call"]))
    PROVE  IInv' /\ Apart
<1>1. Tail(todo["call"]) \in Seq(Access)
  BY Processes, DoingIs
<1>2. call # "none" /\ (call # "enable" => Enables(Tail(todo["call"])))
  BY CallIs
<1>3. CASE Goes("call", <<>>)
  BY <1>2, <1>3, EnablesNone, CallLists, CallGoes
<1>4. CASE Goes("call", Tail(todo["call"]))
  BY <1>1, <1>2, <1>4, CallGoes
<1>5. QED
  BY <1>3, <1>4

(* The poll has seen SCI_EN: only a call that switches the mode on polls. *)
LEMMA ModeIsOnInv ==
    ASSUME IInv, ModeIsOn
    PROVE  IInv' /\ Apart
<1>1. call = "enable"
  BY CallIs DEF ModeIsOn
<1>2. WriteEvent(Buttons) \o ReadEvent \in Seq(Access)
  BY CallLists
<1>3. QED
  BY <1>1, <1>2, CallGoes DEF ModeIsOn, hardware

(* The call reads a status register into its own word, and leaves the      *)
(* handler's alone.                                                        *)
LEMMA CallReadsInv ==
    ASSUME IInv, ReadStatus("call")
    PROVE  IInv' /\ Apart
<1> USE Processes
<1> DEFINE b == Head(todo["call"]).block
<1>1. b \in Blocks /\ Tail(todo["call"]) \in Seq(Access)
  BY DoingIs, Accesses DEF ReadStatus
<1>2. call # "none" /\ (call # "enable" => Enables(Tail(todo["call"])))
  BY CallIs DEF ReadStatus
<1>3. Wired(sts) /\ Wired(words["call"])
  BY DEF IInv, TypeInv
<1> DEFINE w == [words["call"] EXCEPT ![b] = sts[b]]
<1>4. Wired(w)
  BY <1>1, <1>3, WiredSteps
<1>5. words' = [words EXCEPT !["call"] = w]
  BY DEF ReadStatus, IInv, TypeInv
<1>6. Goes("call", Tail(todo["call"])) /\ call' = call /\ sts' = sts
  BY DEF ReadStatus, hardware
<1>7. QED
  BY <1>1, <1>2, <1>3, <1>4, <1>5, <1>6, CallMoves DEF Apart

(* The call clears what it has read: it is one that switches the mode on. *)
LEMMA CallClearsInv ==
    ASSUME IInv, ClearStatus("call")
    PROVE  IInv' /\ Apart /\ call = "enable"
<1> USE Processes
<1> DEFINE b == Head(todo["call"]).block
<1>1. b \in Blocks /\ Tail(todo["call"]) \in Seq(Access)
  BY DoingIs, Accesses DEF ClearStatus
<1>2. call = "enable"
  BY CallIs DEF ClearStatus
<1>3. Wired(sts) /\ Wired(words["call"]) /\ words \in [Process -> [Blocks -> SUBSET Event]]
  BY DEF IInv, TypeInv
<1>4. Wired(sts')
  BY <1>1, <1>3, WiredSteps DEF ClearStatus
<1>5. words' = [words EXCEPT !["call"] = words["call"]]
  BY <1>3 DEF ClearStatus
<1>6. Goes("call", Tail(todo["call"])) /\ call' = call
  BY DEF ClearStatus
<1>7. QED
  BY <1>1, <1>2, <1>3, <1>4, <1>5, <1>6, CallMoves DEF Apart

(* The steps of the interrupt handler. *)
LEMMA InterruptInv ==
    ASSUME IInv, Interrupt
    PROVE  /\ IInv' /\ words'["sci"] = words["sci"]
           /\ todo'["sci"] # <<>> /\ Head(todo'["sci"]).do # "clear"
<1> USE Processes
<1>1. todo["sci"] = <<>>
  BY DEF Interrupt
<1>2. words["sci"] = Nothing
  BY <1>1, NextAccess DEF IInv, HandlerInv, HandlerAt
<1>3. PICK s \in Seq(Access) :
        /\ Goes("sci", s) /\ HandlerAt(s, Nothing)
        /\ s # <<>> /\ Head(s).do # "clear"
  BY HandlerLists, HandlingIs, CallLists DEF Interrupt, Goes, Handling
<1>4. /\ Wired(sts') /\ call' = call
      /\ words' = [words EXCEPT !["sci"] = Nothing]
  BY <1>2 DEF Interrupt, hardware, IInv, TypeInv
<1>5. QED
  BY <1>2, <1>3, <1>4, NothingWired, HandlerMoves

(* The handler reads a status register of which it has no bits, and clears *)
(* that one next.                                                          *)
LEMMA HandlerReadsInv ==
    ASSUME IInv, ReadStatus("sci"), NEW b, b = Head(todo["sci"]).block
    PROVE  /\ IInv' /\ b \in Blocks /\ words["sci"][b] = {}
           /\ words'["sci"] = [words["sci"] EXCEPT ![b] = sts[b]]
           /\ todo'["sci"] # <<>> /\ Head(todo'["sci"]) = Clear(b)
<1> USE Processes
<1>1. /\ b \in Blocks /\ words["sci"][b] = {}
      /\ HandlerAt(Tail(todo["sci"]), [words["sci"] EXCEPT ![b] = sts[b]])
      /\ Tail(todo["sci"]) # <<>> /\ Head(Tail(todo["sci"])) = Clear(b)
  BY HandlerReads DEF ReadStatus
<1>2. Tail(todo["sci"]) \in Seq(Access)
  BY DoingIs DEF ReadStatus
<1>3. Wired(sts) /\ Wired(words["sci"])
  BY DEF IInv, TypeInv
<1> DEFINE w == [words["sci"] EXCEPT ![b] = sts[b]]
<1>4. Wired(w)
  BY <1>1, <1>3, WiredSteps
<1>5. words' = [words EXCEPT !["sci"] = w]
  BY DEF ReadStatus, IInv, TypeInv
<1>6. Goes("sci", Tail(todo["sci"])) /\ call' = call /\ Wired(sts')
  BY <1>3 DEF ReadStatus, hardware
<1>7. IInv' /\ todo'["sci"] = Tail(todo["sci"]) /\ words'["sci"] = w
  BY <1>1, <1>2, <1>4, <1>5, <1>6, HandlerMoves
<1>8. QED
  BY <1>1, <1>7

(* The handler clears, and does not clear again before it reads. *)
LEMMA HandlerClearsInv ==
    ASSUME IInv, ClearStatus("sci"), NEW b, b = Head(todo["sci"]).block
    PROVE  /\ IInv' /\ b \in Blocks /\ words'["sci"] = words["sci"]
           /\ todo'["sci"] # <<>> /\ Head(todo'["sci"]).do # "clear"
<1> USE Processes
<1>1. /\ b \in Blocks
      /\ HandlerAt(Tail(todo["sci"]), words["sci"])
      /\ Tail(todo["sci"]) # <<>> /\ Head(Tail(todo["sci"])).do # "clear"
  BY HandlerClears DEF ClearStatus
<1>2. Tail(todo["sci"]) \in Seq(Access)
  BY DoingIs DEF ClearStatus
<1>3. Wired(sts) /\ Wired(words["sci"]) /\ words \in [Process -> [Blocks -> SUBSET Event]]
  BY DEF IInv, TypeInv
<1>4. Wired(sts')
  BY <1>1, <1>3, WiredSteps DEF ClearStatus
<1>5. words' = [words EXCEPT !["sci"] = words["sci"]]
  BY <1>3 DEF ClearStatus
<1>6. Goes("sci", Tail(todo["sci"])) /\ call' = call
  BY DEF ClearStatus
<1>7. IInv' /\ todo'["sci"] = Tail(todo["sci"]) /\ words'["sci"] = words["sci"]
  BY <1>1, <1>2, <1>3, <1>4, <1>5, <1>6, HandlerMoves
<1>8. QED
  BY <1>1, <1>7

(* The handler makes its report and starts with no words the next time. *)
LEMMA HandledInv ==
    ASSUME IInv, Handled
    PROVE  IInv' /\ todo'["sci"] = <<>> /\ words'["sci"] = Nothing
<1>1. Goes("sci", <<>>) /\ call' = call /\ words' = [words EXCEPT !["sci"] = Nothing]
  BY DEF Handled
<1>2. Wired(sts')
  BY DEF Handled, hardware, IInv, TypeInv
<1>3. QED
  BY <1>1, <1>2, NothingWired, CallLists, HandlerLists, HandlerMoves

(* The steps of the hardware and the firmware. *)
LEMMA RaiseInv ==
    ASSUME IInv, NEW e \in Event, Raise(e)
    PROVE  IInv' /\ Apart
<1>1. Wired(sts')
  BY RaiseWired DEF Raise, IInv, TypeInv
<1>2. todo' = todo /\ words' = words /\ call' = call
  BY DEF Raise, process
<1>3. QED
  BY <1>1, <1>2 DEF IInv, TypeInv, HandlerInv, HandlerAt, CallInv, Apart,
                    Wired, Left, Unread, Enables

(* What is left as it is by steps that touch none of it. *)
LEMMA SameInv ==
    ASSUME IInv, sts' = sts, todo' = todo, words' = words, call' = call
    PROVE  IInv' /\ Apart
BY DEF IInv, TypeInv, HandlerInv, HandlerAt, CallInv, Apart, Wired, Left, Unread, Enables

(* No step of a call, the handler, the hardware or the firmware breaks the *)
(* invariant.                                                              *)
LEMMA NextInv == IInv /\ [Next]_vars => IInv'
<1> SUFFICES ASSUME IInv, [Next]_vars PROVE IInv'
  OBVIOUS
<1>1. CASE UNCHANGED vars
  BY <1>1, SameInv DEF vars, hardware, process
<1>2. ASSUME NEW e \in Event, Raise(e) PROVE IInv'
  BY <1>2, RaiseInv
<1>3. CASE SwitchedOn
  BY <1>3, SameInv DEF SwitchedOn, process
<1>4. CASE EnableAcpi
  BY <1>4, EnableAcpiInv
<1>5. ASSUME NEW value \in {{}, Event}, SetEvents(value) PROVE IInv'
  BY <1>5, SetEventsInv
<1>6. CASE CheckMode \/ SwitchMode \/ GiveUp \/ WriteEnable
  BY <1>6, CallAdvances DEF CheckMode, SwitchMode, GiveUp, WriteEnable, hardware, Goes
<1>7. CASE PollAgain
  BY <1>7, SameInv DEF PollAgain, hardware
<1>8. CASE ModeIsOn
  BY <1>8, ModeIsOnInv
<1>9. CASE ReadStatus("call")
  BY <1>9, CallReadsInv
<1>10. CASE ClearStatus("call")
  BY <1>10, CallClearsInv
<1>11. CASE Return
  BY <1>11, ReturnInv
<1>12. CASE Interrupt
  BY <1>12, InterruptInv
<1>13. CASE ReadStatus("sci")
  BY <1>13, HandlerReadsInv
<1>14. CASE ClearStatus("sci")
  BY <1>14, HandlerClearsInv
<1>15. CASE Handled
  BY <1>15, HandledInv
<1>16. QED
  BY <1>1, <1>2, <1>3, <1>4, <1>5, <1>6, <1>7, <1>8, <1>9, <1>10, <1>11, <1>12, <1>13,
     <1>14, <1>15 DEF Next, Calls, Handler

(* The handler keeps to its list, and only the call that switches the mode *)
(* on reads and clears beside it. *)
THEOREM Accessing == Spec => []IInv
<1>1. Init => IInv
  BY InitInv
<1>2. IInv /\ [Next]_vars => IInv'
  BY NextInv
<1>3. QED
  BY <1>1, <1>2, PTL DEF Spec

-----------------------------------------------------------------------------
(* The box of events.  Taken is what the handler has read for its report.  *)
Taken == UNION {words["sci"][b] : b \in Blocks}

(* Nothing of the box changes. *)
LEMMA BoxStays ==
    ASSUME Pending' = Pending, Taken' = Taken, report' = report, call' = call
    PROVE  UNCHANGED Box!vars
BY DEF Box!vars, Taken

(* Pending: the handler holds what it has read of the block that it is     *)
(* about to clear.                                                         *)
Holding == todo["sci"] # <<>> /\ Head(todo["sci"]).do = "clear"
Kept == {e \in Event : Holding => e \notin words["sci"][Head(todo["sci"]).block]}
(* Pending events, before and after a step, said with the events that the  *)
(* handler does not hold.                                                  *)
LEMMA PendingIs ==
    /\ Pending = {e \in Kept : e \in sts[Wire[e]]}
    /\ Pending' = {e \in Kept' : e \in sts'[Wire[e]]}
BY DEF Pending, Held, Doing, Kept, Holding

(* What the handler holds changes only with its own steps. *)
LEMMA KeptSame ==
    ASSUME Apart
    PROVE  Kept' = Kept
BY DEF Apart, Kept, Holding

(* Registers and the handler's place and words are what the box is of. *)
LEMMA BoxSame ==
    ASSUME Apart, sts' = sts
    PROVE  Pending' = Pending /\ Taken' = Taken
BY KeptSame, PendingIs DEF Apart, Taken

(* Events pending at the start are in the box. *)
LEMMA InitMaps == Init => Box!Init
<1> SUFFICES ASSUME Init PROVE Box!Init
  OBVIOUS
<1>1. Pending \subseteq Event
  BY PendingIs DEF Kept
<1>2. Taken = {}
  BY Processes DEF Init, Taken, Nothing
<1>3. report = {} /\ call = "none"
  BY DEF Init
<1>4. QED
  BY <1>1, <1>2, <1>3 DEF Box!Init, Taken

(* An event that is raised goes into the box; one that the handler holds   *)
(* is raised again before it is cleared, and counts once.                  *)
LEMMA RaiseMaps ==
    ASSUME IInv, NEW e \in Event, Raise(e)
    PROVE  [Box!Next]_(Box!vars)
<1>1. Apart /\ Taken' = Taken /\ report' = report /\ call' = call
  BY RaiseInv DEF Raise, process, Taken, Apart
<1>2. Wire[e] \in Blocks /\ sts \in [Blocks -> SUBSET Event]
  BY WireAssumption DEF IInv, TypeInv, Wired
<1>3. \A x \in Event : /\ x # e => (x \in sts'[Wire[x]] <=> x \in sts[Wire[x]])
                       /\ e \in sts'[Wire[e]]
  BY <1>2, WireAssumption DEF Raise
<1>4. Kept' = Kept /\ Kept \subseteq Event
  BY <1>1, KeptSame DEF Kept
<1>5. CASE e \notin Kept
  <2>1. Pending' = Pending
    BY <1>3, <1>4, <1>5, PendingIs
  <2>2. QED
    BY <1>1, <2>1, BoxStays
<1>6. CASE e \in Kept
  <2>1. Pending' = Pending \cup {e}
    BY <1>3, <1>4, <1>6, PendingIs
  <2>2. Box!Raise(e)
    BY <1>1, <2>1 DEF Box!Raise, Taken
  <2>3. QED
    BY <2>2 DEF Box!Next
<1>7. QED
  BY <1>5, <1>6

(* A call begins or ends. *)
LEMMA SwitchMaps ==
    ASSUME Apart, sts' = sts, report' = report
    PROVE  Box!Next
<1>1. Pending' = Pending /\ Taken' = Taken
  BY BoxSame
<1>2. PICK on \in BOOLEAN : on = (call' = "enable")
  OBVIOUS
<1>3. Box!Switch(on)
  BY <1>1, <1>2 DEF Box!Switch, Taken
<1>4. QED
  BY <1>3 DEF Box!Next

(* A call that switches the mode on clears. *)
LEMMA CallClearsMaps ==
    ASSUME IInv, ClearStatus("call")
    PROVE  Box!Next
<1>1. Apart /\ call = "enable" /\ report' = report /\ call' = call
  BY CallClearsInv DEF ClearStatus
<1>2. Taken' = Taken
  BY <1>1 DEF Taken, Apart
<1>3. Kept' = Kept /\ Kept \subseteq Event
  BY <1>1, KeptSame DEF Kept
<1>4. Head(todo["call"]).block \in Blocks
  BY DoingIs, Accesses, Processes DEF ClearStatus
<1>5. \A x \in Event : x \in sts'[Wire[x]] => x \in sts[Wire[x]]
  BY <1>4, WireAssumption DEF ClearStatus, IInv, TypeInv, Wired
<1>6. Pending' \subseteq Pending
  BY <1>3, <1>5, PendingIs
<1>7. Pending' = Pending \ (Pending \ Pending')
  BY <1>6
<1>8. Box!Discard(Pending \ Pending')
  BY <1>1, <1>2, <1>7 DEF Box!Discard, Taken
<1>9. QED
  BY <1>8 DEF Box!Next

(* The handler reads: what it reads is taken. *)
LEMMA HandlerReadsMaps ==
    ASSUME IInv, ReadStatus("sci")
    PROVE  Box!Next
<1> DEFINE b == Head(todo["sci"]).block
           S == Pending \ Pending'
<1>1. /\ b \in Blocks /\ words["sci"][b] = {}
      /\ words'["sci"] = [words["sci"] EXCEPT ![b] = sts[b]]
      /\ todo'["sci"] # <<>> /\ Head(todo'["sci"]) = Clear(b)
  BY HandlerReadsInv
<1>2. sts' = sts /\ report' = report /\ call' = call
  BY DEF ReadStatus, hardware
<1>3. /\ words["sci"] \in [Blocks -> SUBSET Event]
      /\ sts[b] \subseteq Event /\ \A e \in sts[b] : Wire[e] = b
  BY <1>1, Processes DEF IInv, TypeInv, Wired
<1>4. Pending = {e \in Event : e \in sts[Wire[e]]}
  BY PendingIs DEF ReadStatus, Doing, Kept, Holding
<1>5. words'["sci"][b] = sts[b]
  BY <1>1, <1>3
<1>6. Holding' /\ Head(todo'["sci"]).block = b
  BY <1>1 DEF Holding, Clear
<1>7. Pending' = {e \in Event : e \in sts[Wire[e]] /\ e \notin sts[b]}
  BY <1>2, <1>5, <1>6, PendingIs DEF Kept
<1>8. S = sts[b] /\ S \subseteq Pending /\ Pending' = Pending \ S
  BY <1>3, <1>4, <1>7
<1>9. Taken' = Taken \cup S
  <2>1. \A x \in Blocks : x # b => words'["sci"][x] = words["sci"][x]
    BY <1>1, <1>3
  <2>2. QED
    BY <1>1, <1>5, <1>8, <2>1 DEF Taken
<1>10. Box!Take(S)
  BY <1>2, <1>8, <1>9 DEF Box!Take, Taken
<1>11. QED
  BY <1>10 DEF Box!Next

(* The handler clears: what it has taken, and nothing else, is gone from   *)
(* the registers. *)
LEMMA HandlerClearsMaps ==
    ASSUME IInv, ClearStatus("sci")
    PROVE  UNCHANGED Box!vars
<1> DEFINE b == Head(todo["sci"]).block
<1>1. /\ b \in Blocks /\ words'["sci"] = words["sci"]
      /\ todo'["sci"] # <<>> /\ Head(todo'["sci"]).do # "clear"
  BY HandlerClearsInv
<1>2. /\ sts' = [sts EXCEPT ![b] = @ \ words["sci"][b]]
      /\ report' = report /\ call' = call
  BY DEF ClearStatus
<1>3. /\ sts \in [Blocks -> SUBSET Event]
      /\ \A e \in words["sci"][b] : Wire[e] = b
  BY <1>1, Processes DEF IInv, TypeInv, Wired
<1>4. Pending = {e \in Event : e \in sts[Wire[e]] /\ e \notin words["sci"][b]}
  BY PendingIs DEF ClearStatus, Doing, Kept, Holding
<1>5. Pending' = {e \in Event : e \in sts'[Wire[e]]}
  BY <1>1, PendingIs DEF Kept, Holding
<1>6. \A e \in Event :
        e \in sts'[Wire[e]] <=> e \in sts[Wire[e]] /\ e \notin words["sci"][b]
  BY <1>1, <1>2, <1>3, WireAssumption
<1>7. Pending' = Pending
  BY <1>4, <1>5, <1>6
<1>8. Taken' = Taken
  BY <1>1 DEF Taken
<1>9. QED
  BY <1>2, <1>7, <1>8, BoxStays

(* A handler that begins takes nothing yet. *)
LEMMA InterruptMaps ==
    ASSUME IInv, Interrupt
    PROVE  UNCHANGED Box!vars
<1>1. /\ words'["sci"] = words["sci"]
      /\ todo'["sci"] # <<>> /\ Head(todo'["sci"]).do # "clear"
  BY InterruptInv
<1>2. sts' = sts /\ report' = report /\ call' = call
  BY DEF Interrupt, hardware
<1>3. Pending = {e \in Event : e \in sts[Wire[e]]}
  BY PendingIs DEF Interrupt, Kept, Holding
<1>4. Pending' = {e \in Event : e \in sts[Wire[e]]}
  BY <1>1, <1>2, PendingIs DEF Kept, Holding
<1>5. Taken' = Taken
  BY <1>1 DEF Taken
<1>6. QED
  BY <1>2, <1>3, <1>4, <1>5, BoxStays

(* What sabi_read_event returns is what was taken since the last report. *)
LEMMA HandledMaps ==
    ASSUME IInv, Handled
    PROVE  Box!Next
<1>1. todo'["sci"] = <<>> /\ words'["sci"] = Nothing
  BY HandledInv
<1>2. sts' = sts /\ report' = Taken /\ call' = call
  BY DEF Handled, hardware, Taken
<1>3. Pending = {e \in Event : e \in sts[Wire[e]]}
  BY PendingIs DEF Handled, Doing, Kept, Holding
<1>4. Pending' = {e \in Event : e \in sts[Wire[e]]}
  BY <1>1, <1>2, PendingIs DEF Kept, Holding
<1>5. Taken' = {}
  BY <1>1 DEF Taken, Nothing
<1>6. Box!Report
  BY <1>2, <1>3, <1>4, <1>5 DEF Box!Report, Taken
<1>7. QED
  BY <1>6 DEF Box!Next

(* A step of which the box shows nothing. *)
LEMMA QuietMaps ==
    ASSUME Apart, sts' = sts, report' = report, call' = call
    PROVE  UNCHANGED Box!vars
BY BoxSame, BoxStays

(* Every step is a step of the box, or shows nothing of it. *)
LEMMA NextMaps == IInv /\ [Next]_vars => [Box!Next]_(Box!vars)
<1> SUFFICES ASSUME IInv, [Next]_vars PROVE [Box!Next]_(Box!vars)
  OBVIOUS
<1>1. CASE UNCHANGED vars
  BY <1>1, SameInv, QuietMaps DEF vars, hardware, process
<1>2. ASSUME NEW e \in Event, Raise(e) PROVE [Box!Next]_(Box!vars)
  BY <1>2, RaiseMaps
<1>3. CASE SwitchedOn
  BY <1>3, SameInv, QuietMaps DEF SwitchedOn, process
<1>4. CASE EnableAcpi
  BY <1>4, EnableAcpiInv, SwitchMaps DEF EnableAcpi, hardware
<1>5. ASSUME NEW value \in {{}, Event}, SetEvents(value) PROVE Box!Next
  BY <1>5, SetEventsInv, SwitchMaps DEF SetEvents, hardware
<1>6. CASE CheckMode \/ SwitchMode \/ GiveUp \/ WriteEnable
  <2>1. Apart
    BY <1>6, CallAdvances DEF CheckMode, SwitchMode, GiveUp, WriteEnable, hardware, Goes
  <2>2. sts' = sts /\ report' = report /\ call' = call
    BY <1>6 DEF CheckMode, SwitchMode, GiveUp, WriteEnable, hardware
  <2>3. QED
    BY <2>1, <2>2, QuietMaps
<1>7. CASE PollAgain
  BY <1>7, SameInv, QuietMaps DEF PollAgain, hardware
<1>8. CASE ModeIsOn
  BY <1>8, ModeIsOnInv, QuietMaps DEF ModeIsOn, hardware
<1>9. CASE ReadStatus("call")
  BY <1>9, CallReadsInv, QuietMaps DEF ReadStatus, hardware
<1>10. CASE ClearStatus("call")
  BY <1>10, CallClearsMaps
<1>11. CASE Return
  BY <1>11, ReturnInv, SwitchMaps DEF Return, hardware
<1>12. CASE Interrupt
  BY <1>12, InterruptMaps
<1>13. CASE ReadStatus("sci")
  BY <1>13, HandlerReadsMaps
<1>14. CASE ClearStatus("sci")
  BY <1>14, HandlerClearsMaps
<1>15. CASE Handled
  BY <1>15, HandledMaps
<1>16. QED
  BY <1>1, <1>2, <1>3, <1>4, <1>5, <1>6, <1>7, <1>8, <1>9, <1>10, <1>11, <1>12, <1>13,
     <1>14, <1>15 DEF Next, Calls, Handler

(* Reading a status register, writing back what was read, and reading the  *)
(* next one implements the box of events: an event that is raised stays    *)
(* pending until a report takes it or the switch to ACPI mode discards it, *)
(* and is in one report.                                                   *)
THEOREM EventsKept == Spec => BoxSpec
<1>1. Init => Box!Init
  BY InitMaps
<1>2. IInv /\ [Next]_vars => [Box!Next]_(Box!vars)
  BY NextMaps
<1>3. QED
  BY <1>1, <1>2, Accessing, PTL DEF Spec, BoxSpec, Box!Spec

-----------------------------------------------------------------------------
(* Events from before the switch to ACPI mode are still in the registers,  *)
(* and the call that switches has cleared those of the blocks it has gone  *)
(* through.  It makes k accesses of its list to get there.                 *)
Gone(k) ==
    \A e \in old, j \in 1..N :
      Wire[e] = Block[j] =>
        \/ k < N + 2 * j - 1
        \/ k = N + 2 * j - 1 /\ e \in words["call"][Block[j]]

SwitchInv ==
    call = "enable" =>
      \/ todo["call"] \in {<<>>, <<Check, Switch, Poll>>, <<Poll>>}
      \/ todo["call"] = <<Switch, Poll>> /\ ~ready
      \/ sciEn /\ \E k \in 0..(3 * N) : Left(Switching, todo["call"], k) /\ Gone(k)

StaleInv ==
    /\ old \subseteq Event /\ \A e \in old : e \in sts[Wire[e]]
    /\ ready => sciEn /\ old = {}
    /\ SwitchInv

(* The list of the call: the blocks are enabled, then read and cleared. *)
LEMMA SwitchingIs ==
    /\ Switching \in Seq(Access) /\ Len(Switching) = 3 * N
    /\ \A i \in 1..N : Switching[i] = Enable(Block[i], Buttons)
    /\ \A j \in 1..N : /\ Switching[N + 2 * j - 1] = Read(Block[j])
                       /\ Switching[N + 2 * j] = Clear(Block[j])
<1> DEFINE W == WriteEvent(Buttons)
<1>1. N \in Nat /\ DOMAIN Block = 1..N
  BY BlockFacts
<1>2. W \in Seq(Access)
  BY ButtonsAssumption, WriteEventIs
<1>3. Len(W) = N /\ \A i \in 1..N : W[i] = Enable(Block[i], Buttons)
  <2>1. W = [i \in 1..N |-> Enable(Block[i], Buttons)]
    BY <1>1 DEF WriteEvent
  <2>2. DOMAIN W = 1..N /\ \A i \in 1..N : W[i] = Enable(Block[i], Buttons)
    BY <2>1
  <2>3. QED
    BY <1>1, <1>2, <2>2, LenProperties
<1> HIDE DEF W
<1>4. /\ W \o ReadEvent \in Seq(Access) /\ Len(W \o ReadEvent) = Len(W) + Len(ReadEvent)
      /\ \A i \in 1..(Len(W) + Len(ReadEvent)) :
           (W \o ReadEvent)[i] = IF i =< Len(W) THEN W[i] ELSE ReadEvent[i - Len(W)]
  BY <1>2, ReadEventIs, ConcatProperties
<1>5. Switching = W \o ReadEvent
  BY DEF Switching, W
<1>6. /\ Len(Switching) = 3 * N
      /\ \A i \in 1..N : Switching[i] = W[i]
      /\ \A i \in 1..(2 * N) : Switching[N + i] = ReadEvent[i]
  BY <1>1, <1>3, <1>4, <1>5, ReadEventIs
<1>7. ASSUME NEW j \in 1..N
      PROVE  /\ Switching[N + 2 * j - 1] = Read(Block[j])
             /\ Switching[N + 2 * j] = Clear(Block[j])
  <2>1. /\ 2 * j - 1 \in 1..(2 * N) /\ 2 * j \in 1..(2 * N)
        /\ N + (2 * j - 1) = N + 2 * j - 1
    BY <1>1
  <2>2. QED
    BY <2>1, <1>6, ReadEventIs
<1>8. QED
  BY <1>3, <1>4, <1>5, <1>6, <1>7

(* Where the call may be in it. *)
LEMMA SwitchingPlaces ==
    ASSUME NEW k \in 0..(3 * N), k < 3 * N
    PROVE  \/ k + 1 \in 1..N
           \/ \E j \in 1..N : k = N + 2 * j - 2
           \/ \E j \in 1..N : k = N + 2 * j - 1
<1>1. N \in Nat
  BY BlockFacts
<1>2. CASE k < N
  BY <1>1, <1>2
<1>3. CASE k >= N
  <2>1. k - N \in 0..(2 * N) /\ k - N # 2 * N
    BY <1>1, <1>3
  <2>2. \/ \E j \in 1..N : k - N = 2 * j - 2
        \/ \E j \in 1..N : k - N = 2 * j - 1
    BY <2>1, Places
  <2>3. QED
    BY <1>1, <2>2
<1>4. QED
  BY <1>1, <1>2, <1>3

(* What the call accesses next tells where it is in its list. *)
LEMMA SwitchingAccess ==
    ASSUME NEW s, s # <<>>, NEW k \in 0..(3 * N), Left(Switching, s, k)
    PROVE  /\ k + 1 \in 0..(3 * N) /\ Left(Switching, Tail(s), k + 1)
           /\ Len(s) = 1 => k + 1 = 3 * N
           /\ Head(s).do = "enable" => k < N
           /\ Head(s).do = "read" =>
                 \E j \in 1..N : k = N + 2 * j - 2 /\ Head(s) = Read(Block[j])
           /\ Head(s).do = "clear" =>
                 \E j \in 1..N : k = N + 2 * j - 1 /\ Head(s) = Clear(Block[j])
           /\ Head(s).do \in {"enable", "read", "clear"}
<1>1. N \in Nat
  BY BlockFacts
<1>2. s \in Seq(Access) /\ Len(s) = 3 * N - k
  BY SwitchingIs DEF Left
<1>3. k < 3 * N
  BY <1>1, <1>2, LenProperties, EmptySeq
<1>4. k \in Nat /\ k < Len(Switching) /\ Switching \in Seq(Access)
  BY <1>1, <1>3, SwitchingIs
<1>5. Head(s) = Switching[k + 1] /\ Left(Switching, Tail(s), k + 1)
  BY <1>4, LeftTail
<1>6. ASSUME k + 1 \in 1..N
      PROVE  k < N /\ Head(s).do = "enable"
  <2>1. Head(s) = Enable(Block[k + 1], Buttons)
    BY <1>5, <1>6, SwitchingIs
  <2>2. QED
    BY <1>1, <1>6, <2>1 DEF Enable
<1>7. ASSUME NEW j \in 1..N, k = N + 2 * j - 2
      PROVE  Head(s) = Read(Block[j]) /\ Head(s).do = "read"
  <2>1. k + 1 = N + 2 * j - 1
    BY <1>1, <1>7
  <2>2. Head(s) = Read(Block[j])
    BY <2>1, <1>5, SwitchingIs
  <2>3. QED
    BY <2>2 DEF Read
<1>8. ASSUME NEW j \in 1..N, k = N + 2 * j - 1
      PROVE  Head(s) = Clear(Block[j]) /\ Head(s).do = "clear"
  <2>1. k + 1 = N + 2 * j
    BY <1>1, <1>8
  <2>2. Head(s) = Clear(Block[j])
    BY <2>1, <1>5, SwitchingIs
  <2>3. QED
    BY <2>2 DEF Clear
<1>9. k + 1 \in 0..(3 * N)
  BY <1>1, <1>3
<1>10. \/ k + 1 \in 1..N
       \/ \E j \in 1..N : k = N + 2 * j - 2
       \/ \E j \in 1..N : k = N + 2 * j - 1
  BY <1>3, SwitchingPlaces
<1>11. ASSUME Len(s) = 1 PROVE k + 1 = 3 * N
  <2>1. 3 * N - k = 1 /\ k \in Nat
    BY <1>2, <1>4, <1>11
  <2>2. QED
    BY <1>1, <2>1
<1>12. QED
  BY <1>5, <1>6, <1>7, <1>8, <1>9, <1>10, <1>11

(* What the call that switches the mode on is doing. *)
LEMMA SwitchDoes ==
    ASSUME SwitchInv, call = "enable", NEW what, Doing("call", what)
    PROVE  /\ what = "check" => Tail(todo["call"]) = <<Switch, Poll>>
           /\ what = "switch" => Tail(todo["call"]) = <<Poll>> /\ ~ready
           /\ what \in {"enable", "read", "clear"} =>
                sciEn /\ \E k \in 0..(3 * N) : Left(Switching, todo["call"], k) /\ Gone(k)
<1>1. todo["call"] # <<>> /\ Head(todo["call"]).do = what
  BY DEF Doing
<1>2. CASE todo["call"] = <<Check, Switch, Poll>>
  BY <1>1, <1>2 DEF Check
<1>3. CASE todo["call"] = <<Poll>>
  BY <1>1, <1>3 DEF Poll
<1>4. CASE todo["call"] = <<Switch, Poll>> /\ ~ready
  BY <1>1, <1>4 DEF Switch
<1>5. CASE sciEn /\ \E k \in 0..(3 * N) : Left(Switching, todo["call"], k) /\ Gone(k)
  <2>1. what \in {"enable", "read", "clear"}
    BY <1>1, <1>5, SwitchingAccess
  <2>2. QED
    BY <1>5, <2>1
<1>6. QED
  BY <1>1, <1>2, <1>3, <1>4, <1>5 DEF SwitchInv

(* Steps of everything else leave the call where it is. *)
LEMMA StaleSame ==
    ASSUME StaleInv, call' = call, ready' <=> ready, sciEn => sciEn',
           todo'["call"] = todo["call"], words'["call"] = words["call"],
           old' \subseteq old, \A e \in old' : e \in sts'[Wire[e]]
    PROVE  StaleInv'
<1>1. SwitchInv'
  <2>1. SUFFICES ASSUME call = "enable"
                 PROVE  \/ todo["call"] \in {<<>>, <<Check, Switch, Poll>>, <<Poll>>}
                        \/ todo["call"] = <<Switch, Poll>> /\ ~ready
                        \/ /\ sciEn'
                           /\ \E k \in 0..(3 * N) : Left(Switching, todo["call"], k) /\ Gone(k)'
    BY DEF SwitchInv
  <2>2. CASE \/ todo["call"] \in {<<>>, <<Check, Switch, Poll>>, <<Poll>>}
             \/ todo["call"] = <<Switch, Poll>> /\ ~ready
    BY <2>2
  <2>3. CASE sciEn /\ \E k \in 0..(3 * N) : Left(Switching, todo["call"], k) /\ Gone(k)
    <3>1. PICK k \in 0..(3 * N) : Left(Switching, todo["call"], k) /\ Gone(k)
      BY <2>3
    <3>2. Gone(k)'
      BY <3>1 DEF Gone
    <3>3. QED
      BY <2>3, <3>1, <3>2
  <2>4. QED
    BY <2>1, <2>2, <2>3 DEF StaleInv, SwitchInv
<1>2. old' \subseteq Event
  BY DEF StaleInv
<1>3. ready' => sciEn' /\ old' = {}
  BY DEF StaleInv
<1>4. QED
  BY <1>1, <1>2, <1>3 DEF StaleInv

(* Steps of the call that leave the registers alone. *)
LEMMA StaleCall ==
    ASSUME StaleInv, SwitchInv', old' = old, sts' = sts, sciEn' = sciEn, ready' => ready
    PROVE  StaleInv'
BY DEF StaleInv

(* What the call has to access when it has gone on. *)
LEMMA CallTodo ==
    ASSUME IInv, NEW s, Goes("call", s)
    PROVE  todo'["call"] = s
BY Processes DEF IInv, TypeInv, Goes

(* The switch: everything raised so far is old, and no call has switched   *)
(* the mode on before.                                                     *)
LEMMA SwitchModeStale ==
    ASSUME IInv, StaleInv, SwitchMode
    PROVE  StaleInv'
<1>1. Tail(todo["call"]) = <<Poll>> /\ ~ready
  BY CallIs, SwitchDoes DEF SwitchMode, StaleInv
<1>2. todo'["call"] = <<Poll>> /\ ~ready'
  BY <1>1, CallTodo DEF SwitchMode
<1>3. old' \subseteq Event /\ \A e \in old' : e \in sts'[Wire[e]]
  BY DEF SwitchMode, IInv, TypeInv, Wired
<1>4. QED
  BY <1>2, <1>3 DEF StaleInv, SwitchInv

(* The poll has seen SCI_EN: no block has been gone through. *)
LEMMA ModeIsOnStale ==
    ASSUME IInv, StaleInv, ModeIsOn
    PROVE  StaleInv'
<1>1. N \in Nat
  BY BlockFacts
<1>2. todo'["call"] = Switching
  BY CallTodo DEF ModeIsOn, Switching
<1>3. Left(Switching, Switching, 0) /\ 0 \in 0..(3 * N)
  BY <1>1, SwitchingIs DEF Left
<1>4. Gone(0)'
  BY <1>1 DEF Gone
<1>5. sciEn' /\ sciEn' = sciEn /\ sts' = sts /\ old' = old /\ ready' = ready
  BY DEF ModeIsOn, hardware, ghosts
<1>6. SwitchInv'
  BY <1>2, <1>3, <1>4, <1>5 DEF SwitchInv
<1>7. QED
  BY <1>5, <1>6, StaleCall

(* Buttons are enabled before any block is read. *)
LEMMA WriteEnableStale ==
    ASSUME IInv, StaleInv, WriteEnable
    PROVE  StaleInv'
<1>1. N \in Nat
  BY BlockFacts
<1>2. /\ sciEn' = sciEn /\ sts' = sts /\ old' = old /\ ready' = ready /\ call' = call
      /\ words' = words
  BY DEF WriteEnable, ghosts
<1>3. todo'["call"] = Tail(todo["call"])
  BY CallTodo DEF WriteEnable
<1>4. ASSUME call = "enable"
      PROVE  SwitchInv'
  <2>1. PICK k \in 0..(3 * N) : Left(Switching, todo["call"], k) /\ Gone(k)
    BY <1>4, SwitchDoes DEF WriteEnable, StaleInv
  <2>2. sciEn
    BY <1>4, SwitchDoes DEF WriteEnable, StaleInv
  <2>3. k < N /\ k + 1 \in 0..(3 * N) /\ Left(Switching, Tail(todo["call"]), k + 1)
    BY <2>1, SwitchingAccess DEF WriteEnable, Doing
  <2>4. Gone(k + 1)'
    BY <1>1, <2>3 DEF Gone
  <2>5. QED
    BY <1>2, <1>3, <2>2, <2>3, <2>4 DEF SwitchInv
<1>5. SwitchInv'
  BY <1>2, <1>4 DEF SwitchInv
<1>6. QED
  BY <1>2, <1>5, StaleCall

(* The call has read every old event of the block that it clears next. *)
LEMMA CallReadsStale ==
    ASSUME IInv, StaleInv, ReadStatus("call")
    PROVE  StaleInv'
<1> DEFINE b == Head(todo["call"]).block
<1>1. N \in Nat
  BY BlockFacts
<1>2. sciEn' = sciEn /\ sts' = sts /\ old' = old /\ ready' = ready /\ call' = call
  BY DEF ReadStatus, hardware, ghosts
<1>3. todo'["call"] = Tail(todo["call"])
  BY CallTodo DEF ReadStatus
<1>4. call = "enable"
  BY CallIs DEF ReadStatus
<1>5. PICK k \in 0..(3 * N) : Left(Switching, todo["call"], k) /\ Gone(k)
  BY <1>4, SwitchDoes DEF ReadStatus, StaleInv
<1>6. sciEn
  BY <1>4, SwitchDoes DEF ReadStatus, StaleInv
<1>7. /\ k + 1 \in 0..(3 * N) /\ Left(Switching, Tail(todo["call"]), k + 1)
      /\ \E j \in 1..N : k = N + 2 * j - 2 /\ Head(todo["call"]) = Read(Block[j])
  BY <1>5, SwitchingAccess DEF ReadStatus, Doing
<1>8. PICK j \in 1..N : k = N + 2 * j - 2 /\ Head(todo["call"]) = Read(Block[j])
  BY <1>7
<1>9. b = Block[j] /\ b \in Blocks
  BY <1>8, BlockFacts DEF Read
<1>10. words'["call"][b] = sts[b]
  BY <1>9, Processes DEF ReadStatus, IInv, TypeInv
<1>11. Gone(k + 1)'
  <2>1. SUFFICES ASSUME NEW e \in old, NEW i \in 1..N, Wire[e] = Block[i]
                 PROVE  \/ k + 1 < N + 2 * i - 1
                        \/ k + 1 = N + 2 * i - 1 /\ e \in words'["call"][Block[i]]
    BY <1>2 DEF Gone
  <2>2. k < N + 2 * i - 1 \/ k = N + 2 * i - 1
    BY <1>5, <2>1 DEF Gone
  <2>3. CASE i = j
    <3>1. e \in sts[b]
      BY <1>9, <2>1, <2>3 DEF StaleInv
    <3>2. QED
      BY <1>1, <1>8, <1>9, <1>10, <2>3, <3>1
  <2>4. CASE i # j
    BY <1>1, <1>8, <2>2, <2>4
  <2>5. QED
    BY <2>3, <2>4
<1>12. SwitchInv'
  BY <1>2, <1>3, <1>6, <1>7, <1>11 DEF SwitchInv
<1>13. QED
  BY <1>2, <1>12, StaleCall

(* A write back to a register leaves what was not read. *)
LEMMA OldStays ==
    ASSUME IInv, StaleInv, NEW p \in Process, ClearStatus(p), NEW b, b = Head(todo[p]).block
    PROVE  /\ b \in Blocks /\ old' = old \ words[p][b]
           /\ \A e \in old' : e \in sts'[Wire[e]]
<1>1. b \in Blocks
  BY DoingIs, Accesses DEF ClearStatus
<1>2. /\ old' = old \ words[p][b]
      /\ sts' = [sts EXCEPT ![b] = @ \ words[p][b]]
  BY DEF ClearStatus
<1>3. QED
  BY <1>1, <1>2, WireAssumption DEF StaleInv, IInv, TypeInv, Wired

(* When the call has cleared a block no old event is left there, and after *)
(* the last block none at all.                                             *)
LEMMA CallClearsStale ==
    ASSUME IInv, StaleInv, ClearStatus("call")
    PROVE  StaleInv'
<1> DEFINE b == Head(todo["call"]).block
<1>1. N \in Nat
  BY BlockFacts
<1>2. /\ sciEn' = sciEn /\ call' = call /\ words' = words
      /\ ready' = (ready \/ Len(todo["call"]) = 1)
  BY DEF ClearStatus
<1>3. todo'["call"] = Tail(todo["call"])
  BY CallTodo DEF ClearStatus
<1>4. call = "enable"
  BY CallIs DEF ClearStatus
<1>5. PICK k \in 0..(3 * N) : Left(Switching, todo["call"], k) /\ Gone(k)
  BY <1>4, SwitchDoes DEF ClearStatus, StaleInv
<1>6. sciEn
  BY <1>4, SwitchDoes DEF ClearStatus, StaleInv
<1>7. /\ k + 1 \in 0..(3 * N) /\ Left(Switching, Tail(todo["call"]), k + 1)
      /\ Len(todo["call"]) = 1 => k + 1 = 3 * N
      /\ \E j \in 1..N : k = N + 2 * j - 1 /\ Head(todo["call"]) = Clear(Block[j])
  BY <1>5, SwitchingAccess DEF ClearStatus, Doing
<1>8. PICK j \in 1..N : k = N + 2 * j - 1 /\ Head(todo["call"]) = Clear(Block[j])
  BY <1>7
<1>9. b = Block[j]
  BY <1>8 DEF Clear
<1>10. /\ old' = old \ words["call"][b]
       /\ \A e \in old' : e \in sts'[Wire[e]]
  BY OldStays, Processes
<1>11. Gone(k + 1)'
  <2>1. SUFFICES ASSUME NEW e \in old', NEW i \in 1..N, Wire[e] = Block[i]
                 PROVE  k + 1 < N + 2 * i - 1
    BY DEF Gone
  <2>2. /\ e \in old
        /\ \/ k < N + 2 * i - 1
           \/ k = N + 2 * i - 1 /\ e \in words["call"][Block[i]]
    BY <1>5, <1>10, <2>1 DEF Gone
  <2>3. i # j
    BY <1>1, <1>8, <1>9, <1>10, <2>1, <2>2
  <2>4. QED
    BY <1>1, <1>8, <2>2, <2>3
<1>12. SwitchInv'
  BY <1>2, <1>3, <1>6, <1>7, <1>11 DEF SwitchInv
<1>13. ASSUME Len(todo["call"]) = 1
       PROVE  old' = {}
  <2>1. SUFFICES ASSUME NEW e \in old' PROVE FALSE
    OBVIOUS
  <2>2. e \in Event
    BY <1>10, <2>1 DEF StaleInv
  <2>3. PICK i \in 1..N : Wire[e] = Block[i]
    BY <2>2, WireAssumption, BlockFacts
  <2>4. k + 1 =< N + 2 * i - 1
    BY <1>1, <1>5, <1>11, <2>1, <2>3 DEF Gone
  <2>5. k + 1 = 3 * N
    BY <1>7, <1>13
  <2>6. QED
    BY <1>1, <2>4, <2>5
<1>14. QED
  BY <1>2, <1>6, <1>10, <1>12, <1>13 DEF StaleInv

(* An event that is raised again is not old. *)
LEMMA RaiseStale ==
    ASSUME IInv, StaleInv, NEW e \in Event, Raise(e)
    PROVE  StaleInv'
<1>1. Wire[e] \in Blocks /\ sts \in [Blocks -> SUBSET Event]
  BY WireAssumption DEF IInv, TypeInv, Wired
<1>2. old' = old \ {e} /\ \A x \in Event : x \in sts[Wire[x]] => x \in sts'[Wire[x]]
  BY <1>1, WireAssumption DEF Raise
<1>3. \A x \in old' : x \in sts'[Wire[x]]
  BY <1>2 DEF StaleInv
<1>4. QED
  BY <1>2, <1>3, StaleSame DEF Raise, process

(* The handler may clear old events, too, and leaves the others. *)
LEMMA HandlerClearsStale ==
    ASSUME IInv, StaleInv, ClearStatus("sci")
    PROVE  StaleInv'
<1>1. old' \subseteq old /\ \A e \in old' : e \in sts'[Wire[e]]
  BY OldStays, Processes
<1>2. todo'["call"] = todo["call"]
  BY Processes DEF ClearStatus, Goes, IInv, TypeInv
<1>3. ready' <=> ready
  BY Processes DEF ClearStatus
<1>4. QED
  BY <1>1, <1>2, <1>3, StaleSame DEF ClearStatus

(* Steps of the handler that read, or touch no register. *)
LEMMA HandlerStale ==
    ASSUME IInv, StaleInv, Interrupt \/ ReadStatus("sci") \/ Handled
    PROVE  StaleInv'
<1>1. todo'["call"] = todo["call"] /\ words'["call"] = words["call"]
  BY Processes DEF Interrupt, ReadStatus, Handled, Goes, IInv, TypeInv
<1>2. /\ call' = call /\ ready' = ready /\ sciEn' = sciEn /\ old' = old /\ sts' = sts
  BY DEF Interrupt, ReadStatus, Handled, hardware, ghosts
<1>3. \A e \in old' : e \in sts'[Wire[e]]
  BY <1>2 DEF StaleInv
<1>4. QED
  BY <1>1, <1>2, <1>3, StaleSame

(* No step lets an event from before the switch outlive it. *)
LEMMA NextStale == IInv /\ StaleInv /\ [Next]_vars => StaleInv'
<1> SUFFICES ASSUME IInv, StaleInv, [Next]_vars PROVE StaleInv'
  OBVIOUS
<1>a. \A e \in old : e \in sts[Wire[e]]
  BY DEF StaleInv
<1>1. CASE UNCHANGED vars
  BY <1>1, <1>a, StaleSame DEF vars, hardware, process, ghosts
<1>2. ASSUME NEW e \in Event, Raise(e) PROVE StaleInv'
  BY <1>2, RaiseStale
<1>3. CASE SwitchedOn
  BY <1>3, <1>a, StaleSame DEF SwitchedOn, process, ghosts
<1>4. CASE EnableAcpi
  <2>1. todo'["call"] \in {<<>>, <<Check, Switch, Poll>>}
    BY <1>4, CallTodo DEF EnableAcpi, Goes
  <2>2. SwitchInv'
    BY <2>1 DEF SwitchInv
  <2>3. QED
    BY <1>4, <2>2, StaleCall DEF EnableAcpi, hardware, ghosts
<1>5. ASSUME NEW value \in {{}, Event}, SetEvents(value) PROVE StaleInv'
  <2>1. SwitchInv'
    BY <1>5 DEF SetEvents, SwitchInv
  <2>2. QED
    BY <1>5, <2>1, StaleCall DEF SetEvents, hardware
<1>6. CASE CheckMode
  <2>1. call = "enable" /\ Tail(todo["call"]) = <<Switch, Poll>>
    BY <1>6, CallIs, SwitchDoes DEF CheckMode, StaleInv
  <2>2. todo'["call"] = IF sciEn THEN <<>> ELSE <<Switch, Poll>>
    BY <1>6, <2>1, CallTodo DEF CheckMode
  <2>3. ready' => sciEn
    BY <1>6 DEF CheckMode, ghosts, StaleInv
  <2>4. SwitchInv'
    BY <2>2, <2>3 DEF SwitchInv
  <2>5. QED
    BY <1>6, <2>4, StaleCall DEF CheckMode, hardware, ghosts
<1>7. CASE SwitchMode
  BY <1>7, SwitchModeStale
<1>8. CASE PollAgain
  BY <1>8, <1>a, StaleSame DEF PollAgain, hardware, ghosts
<1>9. CASE GiveUp
  <2>1. todo'["call"] = <<>>
    BY <1>9, CallTodo DEF GiveUp
  <2>2. SwitchInv'
    BY <2>1 DEF SwitchInv
  <2>3. QED
    BY <1>9, <2>2, StaleCall DEF GiveUp, hardware, ghosts
<1>10. CASE ModeIsOn
  BY <1>10, ModeIsOnStale
<1>11. CASE WriteEnable
  BY <1>11, WriteEnableStale
<1>12. CASE ReadStatus("call")
  BY <1>12, CallReadsStale
<1>13. CASE ClearStatus("call")
  BY <1>13, CallClearsStale
<1>14. CASE Return
  <2>1. SwitchInv'
    BY <1>14 DEF Return, SwitchInv
  <2>2. QED
    BY <1>14, <2>1, StaleCall DEF Return, hardware, ghosts
<1>15. CASE Interrupt \/ ReadStatus("sci") \/ Handled
  BY <1>15, HandlerStale
<1>16. CASE ClearStatus("sci")
  BY <1>16, HandlerClearsStale
<1>17. QED
  BY <1>1, <1>2, <1>3, <1>4, <1>5, <1>6, <1>7, <1>8, <1>9, <1>10, <1>11, <1>12, <1>13,
     <1>14, <1>15, <1>16 DEF Next, Calls, Handler

(* When sabi_enable_acpi has switched ACPI mode on, nothing that was       *)
(* raised before is left to be reported later, whatever the firmware, the  *)
(* hardware and the interrupt handler do in the meantime.                  *)
THEOREM NothingStale == Spec => []StaleGone
<1>1. Init => StaleInv
  BY DEF Init, StaleInv, SwitchInv
<1>2. StaleInv => StaleGone
  BY DEF StaleInv, StaleGone
<1>3. IInv /\ StaleInv /\ [Next]_vars => StaleInv'
  BY NextStale
<1>4. QED
  BY <1>1, <1>2, <1>3, Accessing, PTL DEF Spec

=============================================================================
