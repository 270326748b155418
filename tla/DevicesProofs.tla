--------------------------- MODULE DevicesProofs ---------------------------
(***************************************************************************)
(* Proofs about the embedded controller, the addresses of the regions of   *)
(* devices, and what is read from their resources.                         *)
(*                                                                         *)
(* EmbeddedController, for every set of registers and values: the          *)
(* inductive invariant says, for every number of accesses that a call has  *)
(* still to make, what is under way to the controller.                     *)
(*                                                                         *)
(* Addresses, for all names of devices and any number of nodes and calls:  *)
(* what a device keeps is what its regions have, and it goes with the      *)
(* device.                                                                 *)
(*                                                                         *)
(* Routing, for all templates that firmware writes: the bytes of a         *)
(* template are those of its descriptors, one after the other, so that     *)
(* what the code reads from them is what the descriptors say.              *)
(***************************************************************************)
EXTENDS EmbeddedController, Routing, Addresses, FiniteSets, TLAPS, NaturalsInduction,
        WellFoundedInduction, FiniteSetTheorems, SequenceTheorems

-----------------------------------------------------------------------------
(* The embedded controller. *)

Enable == Command("burst enable")
Disable == Command("burst disable")
Access == PortByte \cup {ReadData, WaitBurst}

(* The accesses of a call that are left are its last ones. *)
TodoInv ==
    /\ call \in Call \cup {Idle}
    /\ todo \in Seq(Access)
    /\ polled \in BOOLEAN
    /\ call = Idle => todo = <<>> /\ value = None
    /\ call # Idle =>
         /\ Len(todo) =< 7
         /\ \A i \in 1..Len(todo) : todo[i] = Accesses(call)[7 - Len(todo) + i]

ControllerState ==
    [regs : [Offset -> Value],
     expects : {"nothing", "burst enable", "burst disable", "read", "write", "value"},
     offset : Offset \cup {None}, drops : BOOLEAN]

ControllerType ==
    /\ burst \in BOOLEAN
    /\ in \in PortByte \cup {None}
    /\ busy \in PortByte \cup {None}
    /\ out \in Value \cup {Ack, None}
    /\ ec \in ControllerState

Empty == in = None /\ busy = None /\ out = None
InBurst == ec.drops \/ burst

(* Burst mode is being left.  A controller that has dropped it may still   *)
(* work on the last byte of a write, and a new call may have begun.        *)
Leaving ==
    /\ out = None
    /\ \/ in = None /\ busy \in {None, Disable}
       \/ in = Disable /\ busy = None
       \/ /\ in = Disable /\ ec.expects = "value" /\ ec.offset \in Offset
          /\ \E v \in Value : busy = Data(v)
    /\ in = Disable \/ busy = Disable => InBurst

(* It is being entered: the only byte to come out is the acknowledgement.  *)
Entering ==
    \/ out = None /\ in = Enable /\ busy \in {None, Disable}
    \/ out = None /\ in = None /\ busy = Enable
    \/ out = Ack /\ in = None /\ busy = None /\ InBurst

(* The byte b has been sent, when the controller had still to handle a, or *)
(* had done so and expected e.                                             *)
Sending(a, e, b) ==
    \/ in = b /\ busy = a
    \/ in = b /\ busy = None /\ ec.expects = e
    \/ in = None /\ busy = b /\ ec.expects = e

CommandSent ==
    /\ out = None /\ InBurst
    /\ \/ in = Command(call.op) /\ busy = None
       \/ in = None /\ busy = Command(call.op)
       \/ in = None /\ busy = None /\ ec.expects = call.op

OffsetSent ==
    /\ InBurst
    /\ \/ out = None /\ Sending(Command(call.op), call.op, Data(call.offset))
       \/ call.op = "read" /\ in = None /\ busy = None /\ out \in Value
       \/ /\ call.op = "write" /\ Empty
          /\ ec.expects = "value" /\ ec.offset = call.offset

ValueSent ==
    /\ out = None /\ InBurst
    /\ \/ /\ in = Data(call.value) /\ busy = Data(call.offset) /\ ec.expects = "write"
       \/ /\ in = Data(call.value) /\ busy = None
          /\ ec.expects = "value" /\ ec.offset = call.offset
       \/ /\ in = None /\ busy = Data(call.value)
          /\ ec.expects = "value" /\ ec.offset = call.offset
       \/ in = None /\ busy = None

(* What is under way between two accesses. *)
Stage(left) ==
    /\ call = Idle \/ left \in {0, 7} =>
         Leaving /\ (~ec.drops => in = None /\ busy = None)
    /\ call # Idle =>
         /\ left = 6 => Entering
         /\ left = 5 => Empty /\ InBurst
         /\ left = 4 => CommandSent
         /\ left = 3 => OffsetSent
         /\ left = 2 /\ call.op = "write" => ValueSent
         /\ left = 2 /\ call.op = "read" => Empty /\ InBurst
         /\ left = 1 => Leaving
         /\ left =< 2 /\ call.op = "read" => value \in Value

UnderWay == Stage(Len(todo))

IInv == TodoInv /\ ControllerType /\ UnderWay /\ PollHolds

-----------------------------------------------------------------------------
(* Two accesses make a sequence of two. *)
LEMMA TwoAccesses ==
    ASSUME NEW S, NEW a \in S, NEW b \in S
    PROVE  <<a, b>> \in Seq(S) /\ Len(<<a, b>>) = 2 /\ <<a, b>>[1] = a /\ <<a, b>>[2] = b
OBVIOUS

(* Two, three and two accesses one after the other. *)
LEMMA SevenAccesses ==
    ASSUME NEW S, NEW x \in Seq(S), NEW y \in Seq(S), NEW z \in Seq(S),
           Len(x) = 2, Len(y) = 3, Len(z) = 2
    PROVE  /\ x \o y \o z \in Seq(S)
           /\ Len(x \o y \o z) = 7
           /\ \A i \in 1..7 : (x \o y \o z)[i] =
                IF i =< 2 THEN x[i] ELSE IF i =< 5 THEN y[i - 2] ELSE z[i - 5]
<1>1. x \o y \in Seq(S)
  BY ConcatProperties
<1>2. Len(x \o y) = Len(x) + Len(y)
  BY ConcatProperties
<1>3. Len(x \o y) = 5
  BY <1>2
<1>4. \A i \in 1..5 : (x \o y)[i] = IF i =< 2 THEN x[i] ELSE y[i - 2]
  <2>1. \A i \in 1..(Len(x) + Len(y)) :
          (x \o y)[i] = IF i =< Len(x) THEN x[i] ELSE y[i - Len(x)]
    BY ConcatProperties
  <2>2. Len(x) + Len(y) = 5
    OBVIOUS
  <2>3. QED
    BY <2>1, <2>2
<1>5. x \o y \o z \in Seq(S)
  BY <1>1, ConcatProperties
<1>6. Len(x \o y \o z) = Len(x \o y) + Len(z)
  BY <1>1, ConcatProperties
<1>7. Len(x \o y \o z) = 7
  BY <1>3, <1>6
<1>8. \A i \in 1..7 : (x \o y \o z)[i] = IF i =< 5 THEN (x \o y)[i] ELSE z[i - 5]
  BY <1>1, <1>3, ConcatProperties
<1>9. ASSUME NEW i \in 1..7
      PROVE  (x \o y \o z)[i] =
               IF i =< 2 THEN x[i] ELSE IF i =< 5 THEN y[i - 2] ELSE z[i - 5]
  <2>1. CASE i =< 5
    <3>1. i \in 1..5
      BY <2>1
    <3>2. QED
      BY <2>1, <3>1, <1>4, <1>8
  <2>2. CASE ~(i =< 5)
    <3>1. ~(i =< 2)
      BY <2>2
    <3>2. QED
      BY <2>2, <3>1, <1>8
  <2>3. QED
    BY <2>1, <2>2
<1>10. QED
  BY <1>5, <1>7, <1>9

(* What the accesses of a call are. *)
LEMMA AccessesOf ==
    ASSUME NEW c \in Call
    PROVE  /\ Accesses(c) \in Seq(Access) /\ Len(Accesses(c)) = 7
           /\ Accesses(c)[1] = Enable
           /\ Accesses(c)[2] = ReadData
           /\ Accesses(c)[3] = Command(c.op)
           /\ Accesses(c)[4] = Data(c.offset)
           /\ Accesses(c)[5] = IF c.op = "read" THEN ReadData ELSE Data(c.value)
           /\ Accesses(c)[6] = Disable
           /\ Accesses(c)[7] = WaitBurst
<1> DEFINE middle == IF c.op = "read"
                     THEN <<Command("read"), Data(c.offset), ReadData>>
                     ELSE <<Command("write"), Data(c.offset), Data(c.value)>>
<1>1. /\ Enable \in Access /\ Disable \in Access
      /\ Command("read") \in Access /\ Command("write") \in Access
      /\ ReadData \in Access /\ WaitBurst \in Access
  BY DEF Access, PortByte, Enable, Disable
<1>2. c.offset \in Offset /\ c.op \in {"read", "write"}
  BY DEF Call
<1>3. Data(c.offset) \in Access
  BY <1>2 DEF Access, PortByte
<1>4. c.op = "write" => Data(c.value) \in Access
  BY DEF Call, Access, PortByte
<1>5. EnableBurst \in Seq(Access) /\ Len(EnableBurst) = 2
  BY <1>1, TwoAccesses DEF EnableBurst, Enable
<1>6. DisableBurst \in Seq(Access) /\ Len(DisableBurst) = 2
  BY <1>1, TwoAccesses DEF DisableBurst, Disable
<1>7. middle \in Seq(Access) /\ Len(middle) = 3
  BY <1>1, <1>2, <1>3, <1>4
<1>8. /\ EnableBurst[1] = Enable /\ EnableBurst[2] = ReadData
      /\ DisableBurst[1] = Disable /\ DisableBurst[2] = WaitBurst
  BY DEF EnableBurst, DisableBurst, Enable, Disable
<1>9. /\ middle[1] = Command(c.op) /\ middle[2] = Data(c.offset)
      /\ middle[3] = IF c.op = "read" THEN ReadData ELSE Data(c.value)
  BY <1>2
<1>10. Accesses(c) = EnableBurst \o middle \o DisableBurst
  BY DEF Accesses
<1> HIDE DEF middle
<1>11. /\ Accesses(c) \in Seq(Access) /\ Len(Accesses(c)) = 7
       /\ \A i \in 1..7 : Accesses(c)[i] =
            IF i =< 2 THEN EnableBurst[i]
            ELSE IF i =< 5 THEN middle[i - 2] ELSE DisableBurst[i - 5]
  BY <1>5, <1>6, <1>7, <1>10, SevenAccesses
<1>12. QED
  BY <1>8, <1>9, <1>11

(* The next access, and what is left when it has been made. *)
LEMMA NextAccess ==
    ASSUME TodoInv, todo # <<>>
    PROVE  /\ call \in Call /\ Len(todo) \in 1..7
           /\ Head(todo) = Accesses(call)[8 - Len(todo)]
<1>1. call \in Call /\ Len(todo) \in 0..7
  <2>1. call \in Call /\ Len(todo) =< 7
    BY DEF TodoInv
  <2>2. Len(todo) \in Nat
    BY LenProperties DEF TodoInv
  <2>3. \A n \in Nat : n =< 7 => n \in 0..7
    OBVIOUS
  <2>4. QED
    BY <2>1, <2>2, <2>3
<1>2. Len(todo) # 0
  BY EmptySeq DEF TodoInv
<1>3. Head(todo) = todo[1]
  BY DEF TodoInv
<1>4. todo[1] = Accesses(call)[7 - Len(todo) + 1]
  BY <1>1, <1>2 DEF TodoInv
<1>5. 7 - Len(todo) + 1 = 8 - Len(todo) /\ Len(todo) \in 1..7
  BY <1>1, <1>2
<1>6. QED
  BY <1>1, <1>3, <1>4, <1>5

(* What an access leaves of the call. *)
LEMMA Advances ==
    ASSUME TodoInv, todo # <<>>, Advance
    PROVE  /\ TodoInv'
           /\ call' = call /\ polled' = FALSE
           /\ Len(todo') = Len(todo) - 1
<1>1. call \in Call /\ Len(todo) \in 1..7
  BY NextAccess
<1>2. /\ todo' \in Seq(Access) /\ Len(todo') = Len(todo) - 1
      /\ \A i \in 1..Len(todo') : todo'[i] = todo[i + 1]
  BY HeadTailProperties DEF TodoInv, Advance
<1>3. ASSUME NEW i \in 1..Len(todo')
      PROVE  todo'[i] = Accesses(call)[7 - Len(todo') + i]
  <2>1. i + 1 \in 1..Len(todo) /\ 7 - Len(todo') + i = 7 - Len(todo) + (i + 1)
    BY <1>1, <1>2
  <2>2. QED
    BY <1>1, <1>2, <2>1, PortAssumption DEF TodoInv
<1>4. call' = call /\ polled' = FALSE /\ call # Idle
  BY <1>1, PortAssumption DEF Advance
<1>5. Len(todo') =< 7
  BY <1>1, <1>2
<1>6. QED
  BY <1>1, <1>2, <1>3, <1>4, <1>5 DEF TodoInv

-----------------------------------------------------------------------------
(* Bytes and None are told apart. *)
LEMMA Bytes ==
    /\ \A x \in {"burst enable", "burst disable", "read", "write"} :
         /\ Command(x) \in PortByte /\ Command(x) # None
         /\ Command(x).do = "command" /\ Command(x).byte = x
    /\ \A b \in Offset \cup Value :
         /\ Data(b) \in PortByte /\ Data(b) # None
         /\ Data(b).do = "data" /\ Data(b).byte = b
BY PortAssumption DEF PortByte, Command, Data

(* A byte is a command or data. *)
LEMMA KindsOfBytes ==
    ASSUME NEW a \in PortByte
    PROVE  a.do \in {"command", "data"}
<1>1. \/ \E x \in {"burst enable", "burst disable", "read", "write"} : a = Command(x)
      \/ \E b \in Offset \cup Value : a = Data(b)
  BY DEF PortByte
<1>2. QED
  BY <1>1, Bytes

(* The initial state. *)
LEMMA InitIInv == Init => IInv
<1> SUFFICES ASSUME Init
             PROVE  IInv
  OBVIOUS
<1>1. TodoInv
  <2>1. todo = <<>> /\ call = Idle /\ polled = FALSE /\ value = None
    BY DEF Init
  <2>2. todo \in Seq(Access)
    BY <2>1, EmptySeq
  <2>3. QED
    BY <2>1, <2>2 DEF TodoInv
<1>2. ControllerType
  <2>1. PICK regs \in [Offset -> Value], drops \in BOOLEAN :
          ec = [regs |-> regs, expects |-> "nothing", offset |-> None, drops |-> drops]
    BY DEF Init
  <2>2. in = None /\ out = None /\ burst = FALSE /\ busy = None
    BY DEF Init
  <2>3. QED
    BY <2>1, <2>2 DEF ControllerType, ControllerState
<1>3. UnderWay
  BY Bytes DEF Init, UnderWay, Stage, Leaving, Disable
<1>4. PollHolds
  BY DEF Init, PollHolds
<1>5. QED
  BY <1>1, <1>2, <1>3, <1>4 DEF IInv

(* A new call. *)
LEMMA BeginKeeps ==
    ASSUME IInv, NEW c \in Call, Begin(c)
    PROVE  IInv'
<1>1. call' = c /\ todo' = Accesses(c) /\ Len(todo') = 7 /\ call' # Idle /\ call = Idle
  BY AccessesOf, PortAssumption DEF Begin
<1>2. TodoInv'
  BY <1>1, AccessesOf DEF Begin, IInv, TodoInv
<1>3. ControllerType'
  BY DEF Begin, IInv, ControllerType, ControllerState
<1>4. Leaving /\ (~ec.drops => in = None /\ busy = None)
  BY <1>1 DEF IInv, UnderWay, Stage
<1>5. UnderWay'
  BY <1>1, <1>4 DEF Begin, UnderWay, Stage, Leaving, InBurst
<1>6. todo = <<>> /\ ~polled
  BY <1>1 DEF IInv, TodoInv, PollHolds
<1>7. PollHolds'
  BY <1>6 DEF Begin, PollHolds
<1>8. QED
  BY <1>2, <1>3, <1>5, <1>7 DEF IInv

(* A flag is seen as it must be: nothing else changes. *)
LEMMA PollKeeps ==
    ASSUME IInv, Poll
    PROVE  IInv'
<1>1. TodoInv'
  BY DEF Poll, IInv, TodoInv
<1>2. ControllerType'
  BY DEF Poll, IInv, ControllerType, ControllerState
<1>3. UnderWay'
  BY DEF Poll, IInv, UnderWay, Stage, Leaving, Entering, Empty, InBurst, Sending,
         CommandSent, OffsetSent, ValueSent
<1>4. PollHolds'
  BY DEF Poll, PollHolds, Ready
<1>5. QED
  BY <1>1, <1>2, <1>3, <1>4 DEF IInv

(* What every access of the driver has in common. *)
LEMMA AccessMade ==
    ASSUME IInv, polled, Advance
    PROVE  /\ TodoInv' /\ PollHolds' /\ Ready(Head(todo))
           /\ call \in Call /\ call' = call /\ call # Idle
           /\ Len(todo) \in 1..7 /\ Len(todo') = Len(todo) - 1
           /\ Head(todo) = Accesses(call)[8 - Len(todo)]
<1>1. todo # <<>> /\ Ready(Head(todo))
  BY DEF IInv, PollHolds
<1>2. TodoInv
  BY DEF IInv
<1>3. TodoInv' /\ call' = call /\ polled' = FALSE /\ Len(todo') = Len(todo) - 1
  BY <1>1, <1>2, Advances
<1>4. /\ call \in Call /\ Len(todo) \in 1..7
      /\ Head(todo) = Accesses(call)[8 - Len(todo)]
  BY <1>1, <1>2, NextAccess
<1>5. PollHolds'
  BY <1>3 DEF PollHolds
<1>6. QED
  BY <1>1, <1>3, <1>4, <1>5, PortAssumption

(* What the next access is says how many are left. *)
LEMMA WhichAccess ==
    ASSUME NEW c \in Call, NEW k \in 1..7
    PROVE  LET a == Accesses(c)[8 - k]
           IN  /\ a.do \in {"command", "data"} =>
                    \/ k = 7 /\ a = Enable
                    \/ k = 5 /\ a = Command(c.op)
                    \/ k = 4 /\ a = Data(c.offset)
                    \/ k = 3 /\ c.op = "write" /\ a = Data(c.value)
                    \/ k = 2 /\ a = Disable
               /\ a.do = "read" => k = 6 \/ (k = 3 /\ c.op = "read")
               /\ a.do = "wait" => k = 1
<1>1. k \in {1, 2, 3, 4, 5, 6, 7}
  OBVIOUS
<1>2. c.op \in {"read", "write"} /\ c.offset \in Offset
  BY DEF Call
<1>3. c.op = "write" => c.value \in Value
  BY DEF Call
<1>4. ReadData.do = "read" /\ WaitBurst.do = "wait"
  BY DEF ReadData, WaitBurst
<1>5. /\ Command(c.op).do = "command" /\ Data(c.offset).do = "data"
      /\ Enable.do = "command" /\ Disable.do = "command"
      /\ c.op = "write" => Data(c.value).do = "data"
  BY <1>2, <1>3, Bytes DEF Enable, Disable
<1>6. /\ Accesses(c)[8 - 7] = Enable
      /\ Accesses(c)[8 - 6] = ReadData
      /\ Accesses(c)[8 - 5] = Command(c.op)
      /\ Accesses(c)[8 - 4] = Data(c.offset)
      /\ Accesses(c)[8 - 3] = IF c.op = "read" THEN ReadData ELSE Data(c.value)
      /\ Accesses(c)[8 - 2] = Disable
      /\ Accesses(c)[8 - 1] = WaitBurst
  BY AccessesOf
<1>7. QED
  BY <1>1, <1>2, <1>4, <1>5, <1>6

(* A byte is written: it is under way. *)
LEMMA WriteKeeps ==
    ASSUME IInv, WritePort
    PROVE  IInv'
<1>1. polled /\ Advance /\ Head(todo).do \in {"command", "data"}
  BY DEF WritePort
<1>2. /\ TodoInv' /\ PollHolds' /\ in = None
      /\ call \in Call /\ call' = call /\ call # Idle
      /\ Len(todo) \in 1..7 /\ Len(todo') = Len(todo) - 1
      /\ Head(todo) = Accesses(call)[8 - Len(todo)]
  BY <1>1, AccessMade DEF Ready
<1>3. \/ Len(todo) = 7 /\ Head(todo) = Enable
      \/ Len(todo) = 5 /\ Head(todo) = Command(call.op)
      \/ Len(todo) = 4 /\ Head(todo) = Data(call.offset)
      \/ Len(todo) = 3 /\ call.op = "write" /\ Head(todo) = Data(call.value)
      \/ Len(todo) = 2 /\ Head(todo) = Disable
  BY <1>1, <1>2, WhichAccess
<1>4. call.op \in {"read", "write"} /\ call.offset \in Offset
  BY <1>2 DEF Call
<1>5. call.op = "write" => call.value \in Value
  BY <1>2 DEF Call
<1>6. in' = Head(todo) /\ UNCHANGED <<value, out, burst, busy, ec>>
  BY DEF WritePort
<1>7. Head(todo) \in PortByte
  BY <1>3, <1>4, <1>5, Bytes DEF Enable, Disable
<1>8. ControllerType'
  BY <1>6, <1>7 DEF IInv, ControllerType
<1>9. UnderWay'
  <2>1. CASE Len(todo) = 7 /\ Head(todo) = Enable
    <3>1. Leaving
      BY <2>1 DEF IInv, UnderWay, Stage
    <3>2. Entering'
      BY <1>2, <1>6, <2>1, <3>1, Bytes DEF Leaving, Entering, Disable
    <3>3. Stage(6)'
      BY <1>2, <3>2 DEF Stage
    <3>4. Len(todo') = 6
      BY <1>2, <2>1
    <3>5. QED
      BY <3>3, <3>4 DEF UnderWay
  <2>2. CASE Len(todo) = 5 /\ Head(todo) = Command(call.op)
    <3>1. Empty /\ InBurst
      BY <1>2, <2>2 DEF IInv, UnderWay, Stage
    <3>2. CommandSent'
      BY <1>2, <1>6, <2>2, <3>1 DEF Empty, InBurst, CommandSent
    <3>3. Stage(4)'
      BY <1>2, <3>2 DEF Stage
    <3>4. Len(todo') = 4
      BY <1>2, <2>2
    <3>5. QED
      BY <3>3, <3>4 DEF UnderWay
  <2>3. CASE Len(todo) = 4 /\ Head(todo) = Data(call.offset)
    <3>1. CommandSent
      BY <1>2, <2>3 DEF IInv, UnderWay, Stage
    <3>2. OffsetSent'
      BY <1>2, <1>4, <1>6, <2>3, <3>1, Bytes DEF CommandSent, OffsetSent, Sending, InBurst
    <3>3. Stage(3)'
      BY <1>2, <3>2 DEF Stage
    <3>4. Len(todo') = 3
      BY <1>2, <2>3
    <3>5. QED
      BY <3>3, <3>4 DEF UnderWay
  <2>4. CASE Len(todo) = 3 /\ call.op = "write" /\ Head(todo) = Data(call.value)
    <3>1. OffsetSent
      BY <1>2, <2>4 DEF IInv, UnderWay, Stage
    <3>2. ValueSent'
      BY <1>2, <1>4, <1>6, <2>4, <3>1, Bytes
         DEF OffsetSent, ValueSent, Sending, InBurst, Empty
    <3>3. Stage(2)'
      BY <1>2, <2>4, <3>2 DEF Stage
    <3>4. Len(todo') = 2
      BY <1>2, <2>4
    <3>5. QED
      BY <3>3, <3>4 DEF UnderWay
  <2>5. CASE Len(todo) = 2 /\ Head(todo) = Disable
    <3>1. /\ call.op = "write" => ValueSent
          /\ call.op = "read" => Empty /\ InBurst /\ value \in Value
      BY <1>2, <2>5 DEF IInv, UnderWay, Stage
    <3>2. Leaving'
      BY <1>2, <1>4, <1>5, <1>6, <2>5, <3>1, Bytes
         DEF Leaving, ValueSent, InBurst, Empty, Disable
    <3>3. Stage(1)'
      BY <1>2, <1>6, <3>1, <3>2 DEF Stage
    <3>4. Len(todo') = 1
      BY <1>2, <2>5
    <3>5. QED
      BY <3>3, <3>4 DEF UnderWay
  <2>6. QED
    BY <1>3, <2>1, <2>2, <2>3, <2>4, <2>5
<1>10. QED
  BY <1>2, <1>8, <1>9 DEF IInv

(* A byte is read: nothing is under way, and none is left. *)
LEMMA ReadKeeps ==
    ASSUME IInv, ReadPort
    PROVE  IInv'
<1>1. polled /\ Advance /\ Head(todo).do = "read"
  BY DEF ReadPort
<1>2. /\ TodoInv' /\ PollHolds' /\ out # None
      /\ call \in Call /\ call' = call /\ call # Idle
      /\ Len(todo) \in 1..7 /\ Len(todo') = Len(todo) - 1
      /\ Head(todo) = Accesses(call)[8 - Len(todo)]
  BY <1>1, AccessMade DEF Ready
<1>3. Len(todo) = 6 \/ (Len(todo) = 3 /\ call.op = "read")
  BY <1>1, <1>2, WhichAccess
<1>4. out' = None /\ value' = out /\ UNCHANGED <<in, burst, busy, ec>>
  BY DEF ReadPort
<1>5. ControllerType'
  BY <1>4 DEF IInv, ControllerType
<1>6. UnderWay'
  <2>1. CASE Len(todo) = 6
    <3>1. Entering
      BY <1>2, <2>1 DEF IInv, UnderWay, Stage
    <3>2. (Empty /\ InBurst)'
      BY <1>2, <1>4, <3>1 DEF Entering, Empty, InBurst
    <3>3. Stage(5)'
      BY <1>2, <3>2 DEF Stage
    <3>4. Len(todo') = 5
      BY <1>2, <2>1
    <3>5. QED
      BY <3>3, <3>4 DEF UnderWay
  <2>2. CASE Len(todo) = 3 /\ call.op = "read"
    <3>1. OffsetSent
      BY <1>2, <2>2 DEF IInv, UnderWay, Stage
    <3>2. (Empty /\ InBurst)' /\ value' \in Value
      BY <1>2, <1>4, <2>2, <3>1 DEF OffsetSent, Empty, InBurst
    <3>3. Stage(2)'
      BY <1>2, <2>2, <3>2 DEF Stage
    <3>4. Len(todo') = 2
      BY <1>2, <2>2
    <3>5. QED
      BY <3>3, <3>4 DEF UnderWay
  <2>3. QED
    BY <1>3, <2>1, <2>2
<1>7. QED
  BY <1>2, <1>5, <1>6 DEF IInv

(* The loop of disable_burst ends: the rest has been handled, or burst mode*)
(* was dropped.                                                            *)
LEMMA WaitedKeeps ==
    ASSUME IInv, Waited
    PROVE  IInv'
<1>1. polled /\ Advance /\ Head(todo).do = "wait"
  BY DEF Waited
<1>2. /\ TodoInv' /\ PollHolds' /\ ~burst
      /\ call \in Call /\ call' = call /\ call # Idle
      /\ Len(todo) \in 1..7 /\ Len(todo') = Len(todo) - 1
      /\ Head(todo) = Accesses(call)[8 - Len(todo)]
  BY <1>1, AccessMade DEF Ready
<1>3. Len(todo) = 1 /\ Len(todo') = 0
  BY <1>1, <1>2, WhichAccess
<1>4. UNCHANGED <<value, in, out, burst, busy, ec>>
  BY DEF Waited
<1>5. ControllerType'
  BY <1>4 DEF IInv, ControllerType
<1>6. Leaving /\ (call.op = "read" => value \in Value)
  BY <1>2, <1>3 DEF IInv, UnderWay, Stage
<1>7. Leaving' /\ (~ec'.drops => in' = None /\ busy' = None)
  BY <1>2, <1>4, <1>6 DEF Leaving, InBurst
<1>8. UnderWay'
  BY <1>2, <1>3, <1>4, <1>6, <1>7 DEF UnderWay, Stage
<1>9. QED
  BY <1>2, <1>5, <1>8 DEF IInv

(* The call returns: it leaves what it had still under way. *)
LEMMA ReturnKeeps ==
    ASSUME IInv, Return
    PROVE  IInv'
<1>1. /\ call # Idle /\ todo = <<>> /\ call' = Idle /\ value' = None
      /\ UNCHANGED <<todo, polled, in, out, burst, busy, ec>>
  BY DEF Return
<1>2. Len(todo) = 0
  BY <1>1, EmptySeq
<1>3. Leaving /\ (~ec.drops => in = None /\ busy = None)
  BY <1>1, <1>2 DEF IInv, UnderWay, Stage
<1>4. TodoInv'
  BY <1>1 DEF IInv, TodoInv
<1>5. ControllerType'
  BY <1>1 DEF IInv, ControllerType
<1>6. UnderWay'
  BY <1>1, <1>3 DEF UnderWay, Stage, Leaving, InBurst
<1>7. PollHolds'
  BY <1>1 DEF IInv, PollHolds
<1>8. QED
  BY <1>4, <1>5, <1>6, <1>7 DEF IInv

-----------------------------------------------------------------------------
(* The steps of the controller keep every part of what is said of the      *)
(* bytes under way, and so all of it.                                      *)
LEMMA StageKept ==
    ASSUME IInv, driver' = driver,
           Leaving => Leaving',
           ~ec.drops /\ in = None /\ busy = None => ~ec'.drops /\ in' = None /\ busy' = None,
           ec'.drops = ec.drops,
           call # Idle => /\ Entering => Entering'
                          /\ Empty /\ InBurst => (Empty /\ InBurst)'
                          /\ CommandSent => CommandSent'
                          /\ OffsetSent => OffsetSent'
                          /\ call.op = "write" /\ ValueSent => ValueSent'
    PROVE  TodoInv' /\ UnderWay'
<1>1. call' = call /\ todo' = todo /\ polled' = polled /\ value' = value
  BY DEF driver
<1>2. TodoInv'
  BY <1>1 DEF IInv, TodoInv
<1>3. \A k : Stage(k) => Stage(k)'
  BY <1>1 DEF Stage
<1>4. QED
  BY <1>1, <1>2, <1>3 DEF IInv, UnderWay

(* A flag that has been polled stays as it must be. *)
LEMMA FlagKept ==
    ASSUME IInv, driver' = driver,
           in = None => in' = None, out # None => out' # None,
           Leaving /\ ~burst => ~burst'
    PROVE  PollHolds'
<1>1. call' = call /\ todo' = todo /\ polled' = polled
  BY DEF driver
<1> SUFFICES ASSUME polled
             PROVE  todo # <<>> /\ Ready(Head(todo))'
  BY <1>1 DEF PollHolds
<1>2. todo # <<>> /\ Ready(Head(todo))
  BY DEF IInv, PollHolds
<1>3. /\ call \in Call /\ call # Idle /\ Len(todo) \in 1..7
      /\ Head(todo) = Accesses(call)[8 - Len(todo)]
  BY <1>2, NextAccess, PortAssumption DEF IInv
<1>4. Head(todo).do = "wait" => Len(todo) = 1
  BY <1>3, WhichAccess
<1>5. Len(todo) = 1 => Leaving
  BY <1>3 DEF IInv, UnderWay, Stage
<1>6. Head(todo).do \in {"command", "data", "read", "wait"}
  <2>1. Head(todo) \in Access
    BY <1>2, HeadTailProperties DEF IInv, TodoInv
  <2>2. \A a \in PortByte : a.do \in {"command", "data"}
    BY KindsOfBytes
  <2>3. ReadData.do = "read" /\ WaitBurst.do = "wait"
    BY DEF ReadData, WaitBurst
  <2>4. QED
    BY <2>1, <2>2, <2>3 DEF Access
<1>7. CASE Head(todo).do \in {"command", "data"}
  BY <1>1, <1>2, <1>7 DEF Ready
<1>8. CASE Head(todo).do = "read"
  BY <1>1, <1>2, <1>8 DEF Ready
<1>9. CASE Head(todo).do = "wait"
  BY <1>1, <1>2, <1>4, <1>5, <1>9 DEF Ready
<1>10. QED
  BY <1>6, <1>7, <1>8, <1>9

(* The fields of the call that runs. *)
LEMMA CallFacts ==
    ASSUME IInv
    PROVE  call # Idle => /\ call.op \in {"read", "write"} /\ call.offset \in Offset
                          /\ call.op = "write" => call.value \in Value
BY DEF IInv, TodoInv, Call

(* The controller takes the byte: the input buffer is free. *)
LEMMA TakeKeeps ==
    ASSUME IInv, Take
    PROVE  IInv'
<1>1. /\ busy = None /\ in # None /\ busy' = in /\ in' = None
      /\ driver' = driver /\ out' = out /\ burst' = burst /\ ec' = ec
      /\ call' = call
  BY DEF Take, driver
<1>2. ControllerType'
  BY <1>1 DEF IInv, ControllerType
<1>3. Leaving => Leaving'
  BY <1>1, Bytes DEF Leaving, InBurst, Disable
<1>4. Entering => Entering'
  BY <1>1, Bytes DEF Entering, Enable
<1>5. ~Empty
  BY <1>1 DEF Empty
<1>6. call # Idle => /\ CommandSent => CommandSent'
                     /\ OffsetSent => OffsetSent'
                     /\ call.op = "write" /\ ValueSent => ValueSent'
  BY <1>1, CallFacts, Bytes DEF CommandSent, OffsetSent, ValueSent, Sending, InBurst, Empty
<1>7. TodoInv' /\ UnderWay'
  BY <1>1, <1>3, <1>4, <1>5, <1>6, StageKept
<1>8. PollHolds'
  BY <1>1, FlagKept
<1>9. QED
  BY <1>2, <1>7, <1>8 DEF IInv

(* It leaves burst mode by itself: it is one that does so. *)
LEMMA DropBurstKeeps ==
    ASSUME IInv, DropBurst
    PROVE  IInv'
<1>1. /\ ec.drops /\ burst' = FALSE
      /\ driver' = driver /\ in' = in /\ out' = out /\ busy' = busy /\ ec' = ec
      /\ call' = call
  BY DEF DropBurst, driver
<1>2. ControllerType'
  BY <1>1 DEF IInv, ControllerType
<1>3. /\ Leaving => Leaving'
      /\ Entering => Entering'
      /\ Empty /\ InBurst => (Empty /\ InBurst)'
      /\ CommandSent => CommandSent'
      /\ OffsetSent => OffsetSent'
      /\ ValueSent => ValueSent'
  BY <1>1 DEF Leaving, Entering, Empty, InBurst, CommandSent, OffsetSent, ValueSent, Sending
<1>4. TodoInv' /\ UnderWay'
  BY <1>1, <1>3, StageKept
<1>5. PollHolds'
  BY <1>1, FlagKept
<1>6. QED
  BY <1>2, <1>4, <1>5 DEF IInv

(* A register changes by itself: no byte is touched. *)
LEMMA SenseKeeps ==
    ASSUME IInv, Sense
    PROVE  IInv'
<1>1. PICK o \in Sensors, v \in Value : ec' = [ec EXCEPT !.regs[o] = v]
  BY DEF Sense
<1>2. /\ driver' = driver /\ in' = in /\ out' = out /\ busy' = busy /\ burst' = burst
      /\ call' = call
  BY DEF Sense, driver
<1>3. /\ ec'.expects = ec.expects /\ ec'.offset = ec.offset /\ ec'.drops = ec.drops
  BY <1>1 DEF IInv, ControllerType, ControllerState
<1>4. ControllerType'
  BY <1>1, <1>2, SensorsAssumption DEF IInv, ControllerType, ControllerState
<1>5. /\ Leaving => Leaving'
      /\ Entering => Entering'
      /\ Empty /\ InBurst => (Empty /\ InBurst)'
      /\ CommandSent => CommandSent'
      /\ OffsetSent => OffsetSent'
      /\ ValueSent => ValueSent'
  BY <1>2, <1>3 DEF Leaving, Entering, Empty, InBurst, CommandSent, OffsetSent, ValueSent, Sending
<1>6. TodoInv' /\ UnderWay'
  BY <1>2, <1>3, <1>5, StageKept
<1>7. PollHolds'
  BY <1>2, FlagKept
<1>8. QED
  BY <1>4, <1>6, <1>7 DEF IInv

(* What the controller makes of each byte. *)
LEMMA Handling ==
    ASSUME NEW s \in ControllerState
    PROVE  /\ \A x \in {"burst enable", "burst disable", "read", "write"} :
                /\ Handles(s, Command(x)) = [s EXCEPT !.expects = x]
                /\ Answers(s, Command(x)) = IF x = "burst enable" THEN Ack ELSE None
           /\ \A b \in Offset \cup Value :
                /\ s.expects = "read" =>
                     /\ Handles(s, Data(b)) = [s EXCEPT !.expects = "nothing"]
                     /\ Answers(s, Data(b)) = s.regs[b]
                /\ s.expects = "write" =>
                     /\ Handles(s, Data(b)) = [s EXCEPT !.expects = "value", !.offset = b]
                     /\ Answers(s, Data(b)) = None
                /\ s.expects = "value" =>
                     /\ Handles(s, Data(b)) = [s EXCEPT !.expects = "nothing",
                                                          !.regs[s.offset] = b]
                     /\ Answers(s, Data(b)) = None
<1>1. ASSUME NEW x \in {"burst enable", "burst disable", "read", "write"}
      PROVE  /\ Handles(s, Command(x)) = [s EXCEPT !.expects = x]
             /\ Answers(s, Command(x)) = IF x = "burst enable" THEN Ack ELSE None
  <2>1. Command(x) # None /\ Command(x).do = "command" /\ Command(x).byte = x
    BY Bytes
  <2>2. QED
    BY <2>1 DEF Handles, Answers
<1>2. ASSUME NEW b \in Offset \cup Value
      PROVE  /\ s.expects = "read" =>
                  /\ Handles(s, Data(b)) = [s EXCEPT !.expects = "nothing"]
                  /\ Answers(s, Data(b)) = s.regs[b]
             /\ s.expects = "write" =>
                  /\ Handles(s, Data(b)) = [s EXCEPT !.expects = "value", !.offset = b]
                  /\ Answers(s, Data(b)) = None
             /\ s.expects = "value" =>
                  /\ Handles(s, Data(b)) = [s EXCEPT !.expects = "nothing",
                                                       !.regs[s.offset] = b]
                  /\ Answers(s, Data(b)) = None
  <2>1. Data(b) # None /\ Data(b).do = "data" /\ Data(b).byte = b
    BY Bytes
  <2>2. QED
    BY <2>1 DEF Handles, Answers, ControllerState
<1>3. QED
  BY <1>1, <1>2

(* The kinds of bytes that the controller works on. *)
LEMMA Working ==
    ASSUME IInv, busy # None
    PROVE  \/ busy = Enable
           \/ busy = Disable
           \/ busy = Command("read") \/ busy = Command("write")
           \/ /\ ec.expects \in {"read", "write"}
              /\ \E o \in Offset : busy = Data(o)
           \/ /\ ec.expects = "value" /\ ec.offset \in Offset
              /\ \E v \in Value : busy = Data(v)
<1>1. call = Idle \/ (call \in Call /\ Len(todo) \in 0..7)
  <2>1. call = Idle \/ (call \in Call /\ Len(todo) =< 7)
    BY DEF IInv, TodoInv
  <2>2. Len(todo) \in Nat
    BY LenProperties DEF IInv, TodoInv
  <2>3. \A n \in Nat : n =< 7 => n \in 0..7
    OBVIOUS
  <2>4. QED
    BY <2>1, <2>2, <2>3
<1>2. \A n \in 0..7 : n \in {0, 1, 2, 3, 4, 5, 6, 7}
  OBVIOUS
<1>3. PICK k : k = Len(todo) /\ Stage(k)
  BY DEF IInv, UnderWay
<1>4. \/ Leaving \/ Entering \/ Empty
      \/ call # Idle /\ (CommandSent \/ OffsetSent)
      \/ call # Idle /\ call.op = "write" /\ ValueSent
  BY <1>1, <1>2, <1>3, CallFacts, PortAssumption DEF Stage
<1>5. QED
  BY <1>4, CallFacts
     DEF Leaving, Entering, Empty, CommandSent, OffsetSent, Sending, ValueSent

(* What becomes of the controller when it is done with its byte. *)
LEMMA Handled ==
    ASSUME IInv, busy # None
    PROVE  /\ Handles(ec, busy) \in ControllerState
           /\ Handles(ec, busy).drops = ec.drops
           /\ Answers(ec, busy) \in Value \cup {Ack, None}
<1> DEFINE Typed == /\ Handles(ec, busy) \in ControllerState
                    /\ Handles(ec, busy).drops = ec.drops
                    /\ Answers(ec, busy) \in Value \cup {Ack, None}
<1>1. ec \in ControllerState
  BY DEF IInv, ControllerType
<1>2. ASSUME NEW x \in {"burst enable", "burst disable", "read", "write"},
             busy = Command(x)
      PROVE  Typed
  <2>1. /\ Handles(ec, busy) = [ec EXCEPT !.expects = x]
        /\ Answers(ec, busy) \in {Ack, None}
    BY <1>1, <1>2, Handling
  <2>2. QED
    BY <1>1, <2>1 DEF ControllerState
<1>3. ASSUME ec.expects \in {"read", "write"}, NEW o \in Offset, busy = Data(o)
      PROVE  Typed
  <2>1. CASE ec.expects = "read"
    <3>1. /\ Handles(ec, busy) = [ec EXCEPT !.expects = "nothing"]
          /\ Answers(ec, busy) = ec.regs[o]
      BY <1>1, <1>3, <2>1, Handling
    <3>2. ec.regs[o] \in Value
      BY <1>1 DEF ControllerState
    <3>3. QED
      BY <1>1, <3>1, <3>2 DEF ControllerState
  <2>2. CASE ec.expects = "write"
    <3>1. /\ Handles(ec, busy) = [ec EXCEPT !.expects = "value", !.offset = o]
          /\ Answers(ec, busy) = None
      BY <1>1, <1>3, <2>2, Handling
    <3>2. QED
      BY <1>1, <3>1 DEF ControllerState
  <2>3. QED
    BY <1>3, <2>1, <2>2
<1>4. ASSUME ec.expects = "value", NEW v \in Value, busy = Data(v)
      PROVE  Typed
  <2>1. /\ Handles(ec, busy) = [ec EXCEPT !.expects = "nothing", !.regs[ec.offset] = v]
        /\ Answers(ec, busy) = None
    BY <1>1, <1>4, Handling
  <2>2. [ec EXCEPT !.expects = "nothing", !.regs[ec.offset] = v] \in ControllerState
    BY <1>1 DEF ControllerState
  <2>3. [ec EXCEPT !.expects = "nothing", !.regs[ec.offset] = v].drops = ec.drops
    BY <1>1 DEF ControllerState
  <2>4. QED
    BY <2>1, <2>2, <2>3
<1>5. QED
  BY <1>2, <1>3, <1>4, Working DEF Enable, Disable

(* The controller is done with a byte. *)
LEMMA HandleKeeps ==
    ASSUME IInv, Handle
    PROVE  IInv'
<1>1. /\ busy # None /\ busy' = None
      /\ out' = IF Answers(ec, busy) # None THEN Answers(ec, busy) ELSE out
      /\ Answers(ec, busy) # None => out = None
      /\ ec' = Handles(ec, busy)
      /\ driver' = driver /\ in' = in /\ call' = call
  BY DEF Handle, driver
<1>2. burst' = IF busy = Enable THEN TRUE ELSE IF busy = Disable THEN FALSE ELSE burst
  BY DEF Handle, Enable, Disable
<1>3. ControllerType /\ ec \in ControllerState
  BY DEF IInv, ControllerType
<1>4. /\ busy = Enable => ec' = [ec EXCEPT !.expects = "burst enable"] /\ out' = Ack
      /\ busy = Disable => ec' = [ec EXCEPT !.expects = "burst disable"] /\ out' = out
      /\ \A x \in {"read", "write"} :
           busy = Command(x) => ec' = [ec EXCEPT !.expects = x] /\ out' = out
      /\ \A b \in Offset \cup Value : busy = Data(b) =>
           /\ ec.expects = "read" =>
                /\ ec' = [ec EXCEPT !.expects = "nothing"]
                /\ ec.regs[b] # None => out' = ec.regs[b]
           /\ ec.expects = "write" =>
                ec' = [ec EXCEPT !.expects = "value", !.offset = b] /\ out' = out
           /\ ec.expects = "value" => out' = out
  <2>1. \A x \in {"burst enable", "burst disable", "read", "write"} :
          busy = Command(x) =>
            /\ ec' = [ec EXCEPT !.expects = x]
            /\ out' = IF x = "burst enable" THEN Ack ELSE out
    BY <1>1, <1>3, Handling, NoneAssumption
  <2>2. ASSUME NEW b \in Offset \cup Value, busy = Data(b)
        PROVE  /\ ec.expects = "read" =>
                    /\ ec' = [ec EXCEPT !.expects = "nothing"]
                    /\ ec.regs[b] # None => out' = ec.regs[b]
               /\ ec.expects = "write" =>
                    ec' = [ec EXCEPT !.expects = "value", !.offset = b] /\ out' = out
               /\ ec.expects = "value" => out' = out
    BY <1>1, <1>3, <2>2, Handling
  <2>3. QED
    BY <2>1, <2>2 DEF Enable, Disable
<1>5. \A o \in Offset : ec.regs[o] \in Value /\ ec.regs[o] # None
  <2>1. ec.regs \in [Offset -> Value]
    BY <1>3 DEF ControllerType, ControllerState
  <2>2. QED
    BY <2>1, NoneAssumption
<1>6. /\ burst' \in BOOLEAN /\ in' \in PortByte \cup {None}
      /\ busy' \in PortByte \cup {None}
  BY <1>1, <1>2, <1>3 DEF ControllerType
<1>7. /\ ec' \in ControllerState /\ ec'.drops = ec.drops
      /\ out' \in Value \cup {Ack, None}
  BY <1>1, <1>3, Handled DEF ControllerType
<1>8. ControllerType'
  BY <1>6, <1>7 DEF ControllerType
<1>9. Leaving => Leaving'
  <2>1. \A v \in Value : Data(v) # Enable /\ Data(v) # Disable
    BY DEF Data, Command, Enable, Disable
  <2>2. Enable # Disable
    BY DEF Command, Enable, Disable
  <2>3. CASE busy = Disable
    BY <1>1, <1>4, <2>2, <2>3, Bytes DEF Leaving, Disable
  <2>4. CASE \E v \in Value : busy = Data(v)
    BY <1>1, <1>2, <1>4, <1>7, <2>1, <2>4, Bytes DEF Leaving, InBurst, Disable
  <2>5. QED
    BY <1>1, <2>3, <2>4 DEF Leaving
<1>10. Entering => Entering'
  <2>1. Enable # Disable
    BY DEF Command, Enable, Disable
  <2>2. QED
    BY <1>1, <1>2, <1>4, <2>1 DEF Entering, InBurst
<1>11. ~Empty
  BY <1>1 DEF Empty
<1>12. InBurst /\ busy # Disable => InBurst'
  BY <1>2, <1>7 DEF InBurst
<1>13. \A x \in {"read", "write"} : Command(x) # Disable
  BY DEF Command, Disable
<1>14. \A b \in Offset \cup Value : Data(b) # Disable
  BY DEF Data, Command, Disable
<1>15. ASSUME call # Idle, CommandSent
       PROVE  CommandSent'
  <2>1. call.op \in {"read", "write"}
    BY <1>15, CallFacts
  <2>2. busy = Command(call.op) /\ in = None /\ out = None /\ InBurst
    BY <1>1, <1>15 DEF CommandSent
  <2>3. InBurst'
    BY <1>12, <1>13, <2>1, <2>2
  <2>4. ec'.expects = call.op /\ out' = out
    BY <1>3, <1>4, <2>1, <2>2 DEF ControllerType, ControllerState
  <2>5. QED
    BY <1>1, <2>2, <2>3, <2>4 DEF CommandSent
<1>16. ASSUME call # Idle, OffsetSent
       PROVE  OffsetSent'
  <2>1. call.op \in {"read", "write"} /\ call.offset \in Offset
    BY <1>16, CallFacts
  <2>2. CASE busy = Command(call.op)
    <3>1. busy # Data(call.offset)
      BY <2>2 DEF Command, Data
    <3>2. /\ in = Data(call.offset) /\ out = None /\ InBurst
      BY <1>16, <1>1, <2>2, <3>1 DEF OffsetSent, Sending, Empty
    <3>3. ec'.expects = call.op /\ out' = out
      BY <1>3, <1>4, <2>1, <2>2 DEF ControllerType, ControllerState
    <3>4. QED
      BY <1>1, <1>12, <1>13, <2>1, <2>2, <3>2, <3>3 DEF OffsetSent, Sending
  <2>3. CASE busy # Command(call.op)
    <3>1. in = None /\ busy = Data(call.offset) /\ ec.expects = call.op /\ out = None /\ InBurst
      BY <1>16, <1>1, <2>3 DEF OffsetSent, Sending, Empty
    <3>2. InBurst'
      BY <1>12, <1>14, <2>1, <3>1
    <3>3. CASE call.op = "read"
      BY <1>1, <1>4, <1>5, <2>1, <3>1, <3>2, <3>3 DEF OffsetSent
    <3>4. CASE call.op = "write"
      <4>1. ec' = [ec EXCEPT !.expects = "value", !.offset = call.offset] /\ out' = out
        BY <1>4, <2>1, <3>1, <3>4
      <4>2. ec'.expects = "value" /\ ec'.offset = call.offset
        BY <4>1, <1>3 DEF ControllerType, ControllerState
      <4>3. QED
        BY <1>1, <3>1, <3>2, <3>4, <4>1, <4>2 DEF OffsetSent, Empty
    <3>5. QED
      BY <2>1, <3>3, <3>4
  <2>4. QED
    BY <2>2, <2>3
<1>17. ASSUME call # Idle, call.op = "write", ValueSent
       PROVE  ValueSent'
  <2>1. call.offset \in Offset /\ call.value \in Value
    BY <1>17, CallFacts
  <2>2. busy = Data(call.offset) \/ busy = Data(call.value)
    BY <1>1, <1>17 DEF ValueSent
  <2>3. InBurst'
    BY <1>12, <1>14, <1>17, <2>1, <2>2 DEF ValueSent
  <2>4. CASE in = Data(call.value)
    <3>1. ec.expects = "write" /\ busy = Data(call.offset) /\ out = None
      BY <1>1, <1>17, <2>1, <2>4, Bytes DEF ValueSent
    <3>2. ec' = [ec EXCEPT !.expects = "value", !.offset = call.offset] /\ out' = out
      BY <1>4, <2>1, <3>1
    <3>3. ec'.expects = "value" /\ ec'.offset = call.offset
      BY <3>2, <1>3 DEF ControllerType, ControllerState
    <3>4. QED
      BY <1>1, <2>3, <2>4, <3>1, <3>2, <3>3 DEF ValueSent
  <2>5. CASE in # Data(call.value)
    <3>1. in = None /\ busy = Data(call.value) /\ ec.expects = "value" /\ out = None
      BY <1>1, <1>17, <2>5 DEF ValueSent
    <3>2. QED
      BY <1>1, <1>4, <2>1, <2>3, <3>1 DEF ValueSent
  <2>6. QED
    BY <2>4, <2>5
<1>18. TodoInv' /\ UnderWay'
  BY <1>1, <1>7, <1>9, <1>10, <1>11, <1>15, <1>16, <1>17, StageKept
<1>19. Leaving /\ ~burst => ~burst'
  <2>1. Disable # Enable /\ \A v \in Value : Data(v) # Enable
    BY DEF Enable, Disable, Command, Data
  <2>2. Leaving => busy # Enable
    BY <1>1, <2>1 DEF Leaving
  <2>3. QED
    BY <1>2, <2>2
<1>20. out # None => out' # None
  BY <1>1
<1>21. PollHolds'
  BY <1>1, <1>19, <1>20, FlagKept
<1>22. QED
  BY <1>8, <1>18, <1>21 DEF IInv

-----------------------------------------------------------------------------
(* The invariant is inductive. *)
LEMMA NextIInv == IInv /\ [Next]_vars => IInv'
<1> SUFFICES ASSUME IInv, [Next]_vars
             PROVE  IInv'
  OBVIOUS
<1>1. ASSUME NEW c \in Call, Begin(c)
      PROVE  IInv'
  BY <1>1, BeginKeeps
<1>2. CASE Driver
  BY <1>2, PollKeeps, WriteKeeps, ReadKeeps, WaitedKeeps, ReturnKeeps DEF Driver
<1>3. CASE Controller
  BY <1>3, TakeKeeps, HandleKeeps DEF Controller
<1>4. CASE DropBurst
  BY <1>4, DropBurstKeeps
<1>5. CASE Sense
  BY <1>5, SenseKeeps
<1>6. CASE UNCHANGED vars
  <2>1. driver' = driver /\ in' = in /\ out' = out /\ busy' = busy /\ burst' = burst
        /\ ec' = ec /\ call' = call
    BY <1>6 DEF vars, driver
  <2>2. ControllerType'
    BY <2>1 DEF IInv, ControllerType
  <2>3. /\ Leaving => Leaving'
        /\ Entering => Entering'
        /\ Empty /\ InBurst => (Empty /\ InBurst)'
        /\ CommandSent => CommandSent'
        /\ OffsetSent => OffsetSent'
        /\ ValueSent => ValueSent'
    BY <2>1 DEF Leaving, Entering, Empty, InBurst, CommandSent, OffsetSent, ValueSent, Sending
  <2>4. TodoInv' /\ UnderWay'
    BY <2>1, <2>3, StageKept
  <2>5. PollHolds'
    BY <2>1, FlagKept
  <2>6. QED
    BY <2>2, <2>4, <2>5 DEF IInv
<1>7. QED
  BY <1>1, <1>2, <1>3, <1>4, <1>5, <1>6 DEF Next

(* The inductive invariant holds. *)
THEOREM Handshake == Spec => []IInv
BY InitIInv, NextIInv, PTL DEF Spec

(* A flag that sabi_ec_read or sabi_ec_write has polled stays as it was    *)
(* until the access that relies on it, for every set of registers and      *)
(* values and whatever the controller does in between.                     *)
THEOREM PolledFlagsHold == Spec => []PollHolds
<1>1. IInv => PollHolds
  BY DEF IInv
<1>2. QED
  BY <1>1, Handshake, PTL

(* No byte is left for the next call when sabi_ec_read or sabi_ec_write    *)
(* returns, and nothing is under way unless the controller itself has left *)
(* burst mode.                                                             *)
THEOREM ReturnsQuiet == Spec => []QuietAtReturn
<1>1. IInv => QuietAtReturn
  BY DEF IInv, UnderWay, Stage, Leaving, QuietAtReturn
<1>2. QED
  BY <1>1, Handshake, PTL

-----------------------------------------------------------------------------
(* The refinement.  What the answer is, by the number of accesses left. *)
LEMMA AnswerIs ==
    Answer = IF call = Idle THEN None
             ELSE IF call.op = "write" THEN IF Len(todo) =< 2 THEN Written ELSE None
             ELSE IF Len(todo) =< 2 THEN value
             ELSE IF Len(todo) = 3 THEN out
             ELSE None
<1>1. Len(DisableBurst) = 2
  BY DEF DisableBurst
<1>2. Len(DisableBurst) + 1 = 3
  BY <1>1
<1>3. QED
  BY <1>1, <1>2 DEF Answer

(* When there is no byte, nothing is handled. *)
LEMMA NothingToHandle == \A s : Handles(s, None) = s
BY DEF Handles

(* A step that shows in neither. *)
LEMMA Stutters ==
    ASSUME Sent'.regs = Sent.regs, call' = call, Answer' = Answer
    PROVE  UNCHANGED Registers!vars
BY DEF Registers!vars

(* No call is running, and no byte under way, in the beginning. *)
LEMMA InitMaps == Init => Registers!Init
<1> SUFFICES ASSUME Init
             PROVE  Registers!Init
  OBVIOUS
<1>1. PICK regs \in [Offset -> Value], drops \in BOOLEAN :
        ec = [regs |-> regs, expects |-> "nothing", offset |-> None, drops |-> drops]
  BY DEF Init
<1>2. Sent = ec
  BY NothingToHandle DEF Init, Sent
<1>3. Answer = None
  BY AnswerIs DEF Init
<1>4. QED
  BY <1>1, <1>2, <1>3 DEF Init, Registers!Init

(* A call begins in both. *)
LEMMA BeginMaps ==
    ASSUME IInv, NEW c \in Call, Begin(c)
    PROVE  Registers!Next
<1>1. /\ call = Idle /\ call' = c /\ c # Idle /\ Len(todo') = 7
      /\ UNCHANGED <<in, busy, ec>>
  BY AccessesOf, PortAssumption DEF Begin
<1>2. Sent' = Sent
  BY <1>1 DEF Sent
<1>3. Answer = None
  BY <1>1 DEF Answer
<1>4. Len(DisableBurst) = 2
  BY DEF DisableBurst
<1>5. Answer' = None
  BY <1>1, <1>4 DEF Answer, DisableBurst
<1>6. c \in Registers!Call
  BY DEF Call, Registers!Call
<1>7. Registers!Begin(c)
  BY <1>1, <1>2, <1>3, <1>5 DEF Registers!Begin
<1>8. QED
  BY <1>6, <1>7 DEF Registers!Next

(* Looking at a flag does not show. *)
LEMMA PollMaps ==
    ASSUME Poll
    PROVE  UNCHANGED Registers!vars
<1>1. Sent'.regs = Sent.regs
  BY DEF Poll, Sent
<1>2. Answer' = Answer /\ call' = call
  BY DEF Poll, Answer
<1>3. QED
  BY <1>1, <1>2, Stutters

(* A call ends in both, with the answer it has. *)
LEMMA ReturnMaps ==
    ASSUME IInv, Return
    PROVE  Registers!Next
<1>1. /\ call # Idle /\ call' = Idle /\ Len(todo) = 0 /\ UNCHANGED <<in, busy, ec>>
  BY EmptySeq DEF Return
<1>2. Sent' = Sent
  BY <1>1 DEF Sent
<1>3. Answer' = None
  BY <1>1 DEF Answer
<1>4. call.op = "read" => value \in Value
  BY <1>1 DEF IInv, UnderWay, Stage
<1>5. Answer # None
  BY <1>1, <1>4, AnswerIs, CallFacts, NoneAssumption
<1>6. Registers!Finish
  BY <1>1, <1>2, <1>3, <1>5 DEF Registers!Finish
<1>7. QED
  BY <1>6 DEF Registers!Next

(* The answer after an access. *)
LEMMA AnswerAfter ==
    ASSUME call' = call, call # Idle, NEW k \in Nat, Len(todo') = k
    PROVE  Answer' = IF call.op = "write" THEN IF k =< 2 THEN Written ELSE None
                     ELSE IF k =< 2 THEN value'
                     ELSE IF k = 3 THEN out'
                     ELSE None
<1>1. Len(DisableBurst) = 2
  BY DEF DisableBurst
<1>2. Answer' = IF call'.op = "write" THEN IF k =< Len(DisableBurst) THEN Written ELSE None
                ELSE IF k =< Len(DisableBurst) THEN value'
                ELSE IF k = Len(DisableBurst) + 1 THEN out'
                ELSE None
  BY DEF Answer, DisableBurst
<1>3. QED
  BY <1>1, <1>2

(* The answer has been in the output buffer before it is read. *)
LEMMA ReadMaps ==
    ASSUME IInv, ReadPort
    PROVE  UNCHANGED Registers!vars
<1>1. polled /\ Advance /\ Head(todo).do = "read"
  BY DEF ReadPort
<1>2. /\ call \in Call /\ call' = call /\ call # Idle
      /\ Len(todo) \in 1..7 /\ Len(todo') = Len(todo) - 1
      /\ Head(todo) = Accesses(call)[8 - Len(todo)]
  BY <1>1, AccessMade
<1>3. Len(todo) = 6 \/ (Len(todo) = 3 /\ call.op = "read")
  BY <1>1, <1>2, WhichAccess
<1>4. value' = out /\ UNCHANGED <<in, burst, busy, ec>>
  BY DEF ReadPort
<1>5. Sent' = Sent
  BY <1>4 DEF Sent
<1>6. CASE Len(todo) = 6
  <2>1. Len(todo') = 5
    BY <1>2, <1>6
  <2>2. Answer' = None /\ Answer = None
    BY <1>2, <1>6, <2>1, AnswerIs, AnswerAfter
  <2>3. QED
    BY <1>2, <1>5, <2>2, Stutters
<1>7. CASE Len(todo) = 3 /\ call.op = "read"
  <2>1. Len(todo') = 2
    BY <1>2, <1>7
  <2>2. Answer' = out /\ Answer = out
    BY <1>2, <1>4, <1>7, <2>1, AnswerIs, AnswerAfter
  <2>3. QED
    BY <1>2, <1>5, <2>2, Stutters
<1>8. QED
  BY <1>3, <1>6, <1>7

(* Leaving burst mode does not show. *)
LEMMA WaitedMaps ==
    ASSUME IInv, Waited
    PROVE  UNCHANGED Registers!vars
<1>1. polled /\ Advance /\ Head(todo).do = "wait"
  BY DEF Waited
<1>2. /\ call \in Call /\ call' = call /\ call # Idle
      /\ Len(todo) \in 1..7 /\ Len(todo') = Len(todo) - 1
      /\ Head(todo) = Accesses(call)[8 - Len(todo)]
  BY <1>1, AccessMade
<1>3. Len(todo) = 1 /\ Len(todo') = 0
  <2>1. Len(todo) = 1
    BY <1>1, <1>2, WhichAccess
  <2>2. QED
    BY <1>2, <2>1
<1>4. UNCHANGED <<value, in, out, burst, busy, ec>>
  BY DEF Waited
<1>5. Sent' = Sent
  BY <1>4 DEF Sent
<1>6. Answer' = Answer
  BY <1>2, <1>3, <1>4, AnswerIs, AnswerAfter
<1>7. QED
  BY <1>2, <1>5, <1>6, Stutters

(* A byte is sent: the registers will be what it makes of them. *)
LEMMA WriteMaps ==
    ASSUME IInv, WritePort
    PROVE  [Registers!Next]_(Registers!vars)
<1> DEFINE soon == Handles(ec, busy)
<1>1. polled /\ Advance /\ Head(todo).do \in {"command", "data"}
  BY DEF WritePort
<1>2. /\ in = None
      /\ call \in Call /\ call' = call /\ call # Idle
      /\ Len(todo) \in 1..7 /\ Len(todo') = Len(todo) - 1
      /\ Head(todo) = Accesses(call)[8 - Len(todo)]
  BY <1>1, AccessMade DEF Ready
<1>3. \/ Len(todo) = 7 /\ Head(todo) = Enable
      \/ Len(todo) = 5 /\ Head(todo) = Command(call.op)
      \/ Len(todo) = 4 /\ Head(todo) = Data(call.offset)
      \/ Len(todo) = 3 /\ call.op = "write" /\ Head(todo) = Data(call.value)
      \/ Len(todo) = 2 /\ Head(todo) = Disable
  BY <1>1, <1>2, WhichAccess
<1>4. call.op \in {"read", "write"} /\ call.offset \in Offset
  BY <1>2 DEF Call
<1>5. call.op = "write" => call.value \in Value
  BY <1>2 DEF Call
<1>6. in' = Head(todo) /\ UNCHANGED <<value, out, burst, busy, ec>>
  BY DEF WritePort
<1>7. Sent = soon /\ Sent' = Handles(soon, Head(todo))
  BY <1>2, <1>6, NothingToHandle DEF Sent
<1>8. soon \in ControllerState
  BY Handled, NothingToHandle DEF IInv, ControllerType
<1> HIDE DEF soon
<1>9. ASSUME NEW x \in {"burst enable", "burst disable", "read", "write"},
             Head(todo) = Command(x)
      PROVE  Sent'.regs = Sent.regs
  <2>1. Handles(soon, Command(x)) = [soon EXCEPT !.expects = x]
    BY <1>8, Handling
  <2>2. Sent' = [soon EXCEPT !.expects = x]
    BY <1>7, <1>9, <2>1
  <2>3. QED
    BY <1>7, <1>8, <2>2 DEF ControllerState
<1>10. CASE Len(todo) = 7 /\ Head(todo) = Enable
  <2>1. Len(todo') = 6
    BY <1>2, <1>10
  <2>2. Answer' = None /\ Answer = None
    BY <1>2, <1>10, <2>1, AnswerIs, AnswerAfter
  <2>3. QED
    BY <1>2, <1>9, <1>10, <2>2, Stutters DEF Enable
<1>11. CASE Len(todo) = 5 /\ Head(todo) = Command(call.op)
  <2>1. Len(todo') = 4
    BY <1>2, <1>11
  <2>2. Answer' = None /\ Answer = None
    BY <1>2, <1>11, <2>1, AnswerIs, AnswerAfter
  <2>3. QED
    BY <1>2, <1>4, <1>9, <1>11, <2>2, Stutters
<1>12. CASE Len(todo) = 4 /\ Head(todo) = Data(call.offset)
  <2>1. Len(todo') = 3
    BY <1>2, <1>12
  <2>2. CommandSent
    BY <1>2, <1>12 DEF IInv, UnderWay, Stage
  <2>3. Answer' = None /\ Answer = None
    BY <1>2, <1>6, <1>12, <2>1, <2>2, AnswerIs, AnswerAfter DEF CommandSent
  <2>4. soon.expects = call.op
    <3>1. CASE busy = None
      BY <1>2, <1>4, <2>2, <3>1, NothingToHandle, Bytes DEF soon, CommandSent
    <3>2. CASE busy # None
      <4>1. busy = Command(call.op) /\ ec \in ControllerState
        BY <1>2, <2>2, <3>2 DEF CommandSent, IInv, ControllerType
      <4>2. soon = [ec EXCEPT !.expects = call.op]
        BY <1>4, <4>1, Handling DEF soon
      <4>3. QED
        BY <4>1, <4>2 DEF ControllerState
    <3>3. QED
      BY <3>1, <3>2
  <2>5. Sent' \in {[soon EXCEPT !.expects = "nothing"],
                   [soon EXCEPT !.expects = "value", !.offset = call.offset]}
    <3>1. Handles(soon, Data(call.offset)) \in
            {[soon EXCEPT !.expects = "nothing"],
             [soon EXCEPT !.expects = "value", !.offset = call.offset]}
      <4>1. call.offset \in Offset \cup Value /\ soon.expects \in {"read", "write"}
        BY <1>4, <2>4
      <4>2. soon.expects = "read" =>
              Handles(soon, Data(call.offset)) = [soon EXCEPT !.expects = "nothing"]
        BY <1>8, <4>1, Handling
      <4>3. soon.expects = "write" =>
              Handles(soon, Data(call.offset)) =
                [soon EXCEPT !.expects = "value", !.offset = call.offset]
        BY <1>8, <4>1, Handling
      <4>4. QED
        BY <4>1, <4>2, <4>3
    <3>2. QED
      BY <1>7, <1>12, <3>1
  <2>6. Sent'.regs = Sent.regs
    BY <1>7, <1>8, <2>5 DEF ControllerState
  <2>7. QED
    BY <1>2, <2>3, <2>6, Stutters
<1>13. CASE Len(todo) = 3 /\ call.op = "write" /\ Head(todo) = Data(call.value)
  <2>1. Len(todo') = 2
    BY <1>2, <1>13
  <2>2. OffsetSent
    BY <1>2, <1>13 DEF IInv, UnderWay, Stage
  <2>3. Answer' = Written /\ Answer = None
    BY <1>2, <1>13, <2>1, AnswerIs, AnswerAfter
  <2>4. soon.expects = "value" /\ soon.offset = call.offset
    <3>1. Data(call.offset) # None
      BY <1>4, Bytes
    <3>2. CASE busy = None
      BY <1>2, <1>13, <2>2, <3>1, <3>2, NothingToHandle DEF soon, OffsetSent, Sending
    <3>3. CASE busy # None
      <4>1. busy = Data(call.offset) /\ ec.expects = "write" /\ ec \in ControllerState
        BY <1>2, <1>13, <2>2, <3>1, <3>3
           DEF OffsetSent, Sending, Empty, IInv, ControllerType
      <4>2. soon = [ec EXCEPT !.expects = "value", !.offset = call.offset]
        BY <1>4, <4>1, Handling DEF soon
      <4>3. QED
        BY <4>1, <4>2 DEF ControllerState
    <3>4. QED
      BY <3>2, <3>3
  <2>5. Sent' = [soon EXCEPT !.expects = "nothing", !.regs[soon.offset] = call.value]
    <3>1. Handles(soon, Data(call.value)) =
            [soon EXCEPT !.expects = "nothing", !.regs[soon.offset] = call.value]
      BY <1>5, <1>8, <1>13, <2>4, Handling
    <3>2. QED
      BY <1>7, <1>13, <3>1
  <2>6. Sent'.regs = [Sent.regs EXCEPT ![call.offset] = call.value]
    BY <1>7, <1>8, <2>4, <2>5 DEF ControllerState
  <2>7. Registers!Write
    BY <1>2, <1>13, <2>3, <2>6 DEF Registers!Write
  <2>8. QED
    BY <2>7 DEF Registers!Next
<1>14. CASE Len(todo) = 2 /\ Head(todo) = Disable
  <2>1. Len(todo') = 1
    BY <1>2, <1>14
  <2>2. Answer' = Answer
    BY <1>2, <1>6, <1>14, <2>1, AnswerIs, AnswerAfter
  <2>3. QED
    BY <1>2, <1>9, <1>14, <2>2, Stutters DEF Disable
<1>15. QED
  BY <1>3, <1>10, <1>11, <1>12, <1>13, <1>14

(* Taking a byte does not show. *)
LEMMA TakeMaps ==
    ASSUME Take
    PROVE  UNCHANGED Registers!vars
<1>1. /\ busy = None /\ busy' = in /\ in' = None /\ ec' = ec
      /\ UNCHANGED <<call, todo, value, out>>
  BY DEF Take, driver
<1>2. Sent' = Sent
  BY <1>1, NothingToHandle DEF Sent
<1>3. Answer' = Answer
  BY <1>1 DEF Answer
<1>4. QED
  BY <1>1, <1>2, <1>3, Stutters

(* Leaving burst mode by itself does not show. *)
LEMMA DropBurstMaps ==
    ASSUME DropBurst
    PROVE  UNCHANGED Registers!vars
<1>1. UNCHANGED <<call, todo, value, in, out, busy, ec>>
  BY DEF DropBurst, driver
<1>2. Sent' = Sent /\ Answer' = Answer
  BY <1>1 DEF Sent, Answer
<1>3. QED
  BY <1>1, <1>2, Stutters

(* A byte is handled that had been counted in; the register that was asked *)
(* for is read when the controller answers.                                *)
LEMMA HandleMaps ==
    ASSUME IInv, Handle
    PROVE  [Registers!Next]_(Registers!vars)
<1>1. /\ busy # None /\ busy' = None
      /\ out' = IF Answers(ec, busy) # None THEN Answers(ec, busy) ELSE out
      /\ ec' = Handles(ec, busy)
      /\ UNCHANGED <<call, todo, value, in>>
  BY DEF Handle, driver
<1>2. Sent' = Sent
  BY <1>1, NothingToHandle DEF Sent
<1>3. CASE call # Idle /\ call.op = "read" /\ Len(todo) = 3 /\ busy = Data(call.offset)
  <2>1. OffsetSent /\ ec \in ControllerState
    BY <1>3 DEF IInv, UnderWay, Stage, ControllerType
  <2>2. call.offset \in Offset
    BY <1>3, CallFacts
  <2>3. Data(call.offset) # Command(call.op)
    BY DEF Data, Command
  <2>4. in = None /\ ec.expects = "read" /\ out = None
    BY <1>1, <1>3, <2>1, <2>3 DEF OffsetSent, Sending
  <2>5. /\ Answers(ec, busy) = ec.regs[call.offset]
        /\ Handles(ec, busy) = [ec EXCEPT !.expects = "nothing"]
    BY <1>3, <2>1, <2>2, <2>4, Handling
  <2>6. Sent.regs = ec.regs
    BY <2>1, <2>4, <2>5, NothingToHandle DEF Sent, ControllerState
  <2>7. ec.regs[call.offset] # None
    <3>1. ec.regs[call.offset] \in Value
      BY <2>1, <2>2 DEF ControllerState
    <3>2. QED
      BY <3>1, NoneAssumption
  <2>8. Answer = None /\ Answer' = Sent.regs[call.offset]
    <3>1. Answer = out
      BY <1>3, AnswerIs
    <3>2. Len(todo') = 3 /\ call' = call
      BY <1>1, <1>3
    <3>3. Answer' = out'
      BY <1>3, <3>2, AnswerAfter
    <3>4. QED
      BY <1>1, <2>4, <2>5, <2>6, <2>7, <3>1, <3>3
  <2>9. Registers!Read
    BY <1>1, <1>2, <1>3, <2>8 DEF Registers!Read
  <2>10. QED
    BY <2>9 DEF Registers!Next
<1>4. CASE ~(call # Idle /\ call.op = "read" /\ Len(todo) = 3 /\ busy = Data(call.offset))
  <2>1. CASE call # Idle /\ call.op = "read" /\ Len(todo) = 3
    <3>1. OffsetSent /\ ec \in ControllerState
      BY <2>1 DEF IInv, UnderWay, Stage, ControllerType
    <3>2. busy = Command("read")
      BY <1>1, <1>4, <2>1, <3>1 DEF OffsetSent, Sending, Empty
    <3>3. out' = out
      BY <1>1, <3>1, <3>2, Handling
    <3>4. QED
      BY <1>1, <1>2, <3>3, Stutters DEF Answer
  <2>2. CASE ~(call # Idle /\ call.op = "read" /\ Len(todo) = 3)
    <3>1. CASE call = Idle
      <4>1. Answer' = Answer
        BY <1>1, <3>1 DEF Answer
      <4>2. QED
        BY <1>1, <1>2, <4>1, Stutters
    <3>2. CASE call # Idle
      <4>1. PICK k : k = Len(todo)
        OBVIOUS
      <4>2. k \in Nat
        BY <4>1, LenProperties DEF IInv, TodoInv
      <4>3. Len(todo') = k
        BY <1>1, <4>1
      <4>4. Answer' = Answer
        BY <1>1, <2>2, <3>2, <4>1, <4>2, <4>3, AnswerIs, AnswerAfter, CallFacts
      <4>5. QED
        BY <1>1, <1>2, <4>4, Stutters
    <3>3. QED
      BY <3>1, <3>2
  <2>3. QED
    BY <2>1, <2>2
<1>5. QED
  BY <1>3, <1>4

(* A register that changes by itself: it will still be so when a byte has  *)
(* been handled, unless the byte is written to it.                         *)
LEMMA SensedLater ==
    ASSUME NEW s \in ControllerState, NEW t \in ControllerState,
           NEW o \in Offset, NEW v \in Value,
           t = s \/ t = [s EXCEPT !.regs[o] = v],
           NEW b \in PortByte \cup {None}
    PROVE  LET u == Handles(s, b)
               w == Handles(t, b)
           IN  w = u \/ w = [u EXCEPT !.regs[o] = v]
<1> DEFINE u == Handles(s, b)
           w == Handles(t, b)
<1>1. CASE t = s
  BY <1>1
<1>2. CASE t = [s EXCEPT !.regs[o] = v]
  <2>1. t.expects = s.expects /\ t.offset = s.offset /\ t.regs = [s.regs EXCEPT ![o] = v]
    BY <1>2 DEF ControllerState
  <2>2. CASE b = None
    BY <1>2, <2>2 DEF Handles
  <2>3. CASE b # None /\ b.do = "command"
    <3>1. u = [s EXCEPT !.expects = b.byte] /\ w = [t EXCEPT !.expects = b.byte]
      BY <2>3 DEF Handles
    <3>2. QED
      BY <1>2, <3>1 DEF ControllerState
  <2>4. CASE b # None /\ b.do = "data"
    <3>1. CASE s.expects = "read"
      <4>1. u = [s EXCEPT !.expects = "nothing"] /\ w = [t EXCEPT !.expects = "nothing"]
        BY <2>1, <2>4, <3>1 DEF Handles
      <4>2. QED
        BY <1>2, <4>1 DEF ControllerState
    <3>2. CASE s.expects = "write"
      <4>1. /\ u = [s EXCEPT !.expects = "value", !.offset = b.byte]
            /\ w = [t EXCEPT !.expects = "value", !.offset = b.byte]
        BY <2>1, <2>4, <3>2 DEF Handles
      <4>2. QED
        BY <1>2, <4>1 DEF ControllerState
    <3>3. CASE s.expects = "value"
      <4>1. /\ u = [s EXCEPT !.expects = "nothing", !.regs[s.offset] = b.byte]
            /\ w = [t EXCEPT !.expects = "nothing", !.regs[s.offset] = b.byte]
        BY <2>1, <2>4, <3>3 DEF Handles
      <4>2. s.regs \in [Offset -> Value]
        BY DEF ControllerState
      <4>3. u = [s EXCEPT !.expects = "nothing", !.regs = [s.regs EXCEPT ![s.offset] = b.byte]]
        BY <4>1 DEF ControllerState
      <4>4. w = [s EXCEPT !.expects = "nothing", !.regs = [t.regs EXCEPT ![s.offset] = b.byte]]
        BY <1>2, <4>1 DEF ControllerState
      <4>5. CASE s.offset = o
        <5>1. [t.regs EXCEPT ![o] = b.byte] = [s.regs EXCEPT ![o] = b.byte]
          BY <2>1, <4>2
        <5>2. QED
          BY <4>3, <4>4, <4>5, <5>1
      <4>6. CASE s.offset # o
        <5>1. [t.regs EXCEPT ![s.offset] = b.byte]
                = [[s.regs EXCEPT ![s.offset] = b.byte] EXCEPT ![o] = v]
          BY <2>1, <4>2, <4>6
        <5>2. QED
          BY <4>3, <4>4, <5>1 DEF ControllerState
      <4>7. QED
        BY <4>5, <4>6
    <3>4. CASE s.expects \notin {"read", "write", "value"}
      BY <1>2, <2>1, <2>4, <3>4 DEF Handles
    <3>5. QED
      BY <3>1, <3>2, <3>3, <3>4
  <2>5. QED
    BY <2>2, <2>3, <2>4, KindsOfBytes
<1>3. QED
  BY <1>1, <1>2

(* A register changes by itself: it does in both, or a write to it is under*)
(* way and hides it.                                                       *)
LEMMA SenseMaps ==
    ASSUME IInv, Sense
    PROVE  [Registers!Next]_(Registers!vars)
<1>1. PICK o \in Sensors, v \in Value : ec' = [ec EXCEPT !.regs[o] = v]
  BY DEF Sense
<1>2. UNCHANGED <<call, todo, value, in, out, busy>>
  BY DEF Sense, driver
<1>3. Answer' = Answer
  BY <1>2 DEF Answer
<1>4. o \in Offset /\ ec \in ControllerState
  BY <1>1, SensorsAssumption DEF IInv, ControllerType
<1>5. ec' \in ControllerState
  BY <1>1, <1>4 DEF ControllerState
<1>6. in \in PortByte \cup {None} /\ busy \in PortByte \cup {None}
  BY DEF IInv, ControllerType
<1> DEFINE u == Handles(ec, busy)
           w == Handles(ec', busy)
<1>7. w = u \/ w = [u EXCEPT !.regs[o] = v]
  BY <1>1, <1>4, <1>5, <1>6, SensedLater
<1>8. u \in ControllerState
  BY <1>4, Handled, NothingToHandle
<1>9. Sent = Handles(u, in) /\ Sent' = Handles(w, in)
  BY <1>2 DEF Sent
<1> HIDE DEF u, w
<1>10. w \in ControllerState
  <2>1. [u EXCEPT !.regs[o] = v] \in ControllerState
    BY <1>4, <1>8 DEF ControllerState
  <2>2. QED
    BY <1>7, <1>8, <2>1
<1>11. Sent' = Sent \/ Sent' = [Sent EXCEPT !.regs[o] = v]
  BY <1>1, <1>4, <1>6, <1>7, <1>8, <1>9, <1>10, SensedLater
<1>12. CASE Sent' = Sent
  BY <1>2, <1>3, <1>12, Stutters
<1>13. CASE Sent' = [Sent EXCEPT !.regs[o] = v]
  <2>1. Sent'.regs = [Sent.regs EXCEPT ![o] = v]
    BY <1>13
  <2>2. Registers!Sense
    BY <1>1, <1>2, <1>3, <2>1 DEF Registers!Sense
  <2>3. QED
    BY <2>2 DEF Registers!Next
<1>14. QED
  BY <1>11, <1>12, <1>13

(* Every step of the driver and the controller is one of the registers, or *)
(* does not show.                                                          *)
LEMMA NextMaps == IInv /\ [Next]_vars => [Registers!Next]_(Registers!vars)
<1> SUFFICES ASSUME IInv, [Next]_vars
             PROVE  [Registers!Next]_(Registers!vars)
  OBVIOUS
<1>1. ASSUME NEW c \in Call, Begin(c)
      PROVE  Registers!Next
  BY <1>1, BeginMaps
<1>2. CASE Driver
  BY <1>2, PollMaps, WriteMaps, ReadMaps, WaitedMaps, ReturnMaps DEF Driver
<1>3. CASE Controller
  BY <1>3, TakeMaps, HandleMaps DEF Controller
<1>4. CASE DropBurst
  BY <1>4, DropBurstMaps
<1>5. CASE Sense
  BY <1>5, SenseMaps
<1>6. CASE UNCHANGED vars
  <2>1. Sent' = Sent /\ Answer' = Answer /\ call' = call
    BY <1>6 DEF vars, Sent, Answer
  <2>2. QED
    BY <2>1, Stutters
<1>7. QED
  BY <1>1, <1>2, <1>3, <1>4, <1>5, <1>6 DEF Next

(* The handshake of sabi_ec_read and sabi_ec_write through the ports       *)
(* implements atomic accesses to the registers, for every set of registers *)
(* and values, whatever the controller senses and whenever it leaves burst *)
(* mode.                                                                   *)
THEOREM AccessesAreAtomic == Spec => RegistersSpec
<1>1. Init => Registers!Init
  BY InitMaps
<1>2. IInv /\ [Next]_vars => [Registers!Next]_(Registers!vars)
  BY NextMaps
<1>3. QED
  BY <1>1, <1>2, Handshake, PTL DEF Spec, RegistersSpec, Registers!Spec

-----------------------------------------------------------------------------
(* The addresses of regions. *)

Node == [is : {"device"}, parent : Nat, names : NameSets, adr : Nat]
          \cup [is : {"region"}, parent : Nat, space : Space, adr : Nat]

TypeInv ==
    /\ nodes \in Seq(Node)
    /\ calls \in Seq(Nat)
    /\ IsFiniteSet(DOMAIN heap) /\ DOMAIN heap \subseteq Nat \ {0}
    /\ ecs \in Seq([parent : Nat, ec : Nat])

IsDevice(n) == nodes[n].is = "device"
IsController(n) == IsDevice(n) /\ nodes[n].names.hid = "controller"

(* The tree, and what is assumed of firmware. *)
TreeInv ==
    /\ \A n \in DOMAIN nodes : /\ nodes[n].parent < n
                               /\ nodes[n].parent # 0 => IsDevice(nodes[n].parent)
    /\ \A n \in DOMAIN nodes :
         IF IsDevice(n) THEN nodes[n].names.BBN # 0 => nodes[n].parent = 0
         ELSE nodes[n].parent # 0

(* Calls are nested, and none of them has defined a controller. *)
CallsInv ==
    /\ \A i, j \in DOMAIN calls : i =< j => calls[i] =< calls[j]
    /\ \A i \in DOMAIN calls : calls[i] =< Len(nodes)
    /\ \A n \in DOMAIN nodes : IsController(n) => \A i \in DOMAIN calls : n =< calls[i]

(* What a device keeps, if it keeps anything: its own address on the bus   *)
(* that it is on, or itself as a controller.                               *)
Kept(d) == IF nodes[d].names.ADR # 0 THEN PciAddress(d, d) ELSE ControllerOf(d)
KeepInv ==
    /\ \A d \in DOMAIN nodes : IsDevice(d) /\ nodes[d].adr # 0 =>
         /\ nodes[d].adr \in DOMAIN heap /\ heap[nodes[d].adr] = Kept(d)
         /\ nodes[d].names.ADR = 0 => IsController(d)
    /\ \A q \in DOMAIN heap : \E d \in DOMAIN nodes : IsDevice(d) /\ nodes[d].adr = q
    /\ \A d, e \in DOMAIN nodes :
         IsDevice(d) /\ IsDevice(e) /\ nodes[d].adr = nodes[e].adr /\ nodes[d].adr # 0 => d = e

(* A region has what the device that it belongs to keeps. *)
Owner(n) == IF nodes[n].space = "pci" THEN OfAdr(nodes[n].parent) ELSE OfHid(nodes[n].parent)
RegionInv ==
    \A n \in DOMAIN nodes : ~IsDevice(n) =>
        IF Owner(n) = 0 THEN nodes[n].adr = 0
        ELSE /\ nodes[n].adr = nodes[Owner(n)].adr /\ nodes[n].adr # 0
             /\ nodes[n].space = "ec" => IsController(Owner(n))

(* The list has the controllers that have been found, once each. *)
ListInv ==
    /\ \A i, j \in DOMAIN ecs : ecs[i].parent = ecs[j].parent => i = j
    /\ \A i \in DOMAIN ecs : LET n == ecs[i].parent
                             IN  /\ n \in DOMAIN nodes /\ IsController(n)
                                 /\ nodes[n].adr = ecs[i].ec /\ nodes[n].adr # 0
    /\ \A n \in DOMAIN nodes : IsController(n) /\ nodes[n].adr # 0 =>
         \E i \in DOMAIN ecs : ecs[i] = [parent |-> n, ec |-> nodes[n].adr]

Inv == TypeInv /\ TreeInv /\ CallsInv /\ KeepInv /\ RegionInv /\ ListInv
-----------------------------------------------------------------------------
(* Numbers. *)

(* Every set of naturals has a least element. *)
LEMMA Least ==
    ASSUME NEW S \in SUBSET Nat, S # {}
    PROVE  \E x \in S : \A y \in S : x =< y
<1> DEFINE R == {r \in Nat \X Nat : r[1] < r[2]}
<1>1. OpToRel(<, Nat) = R
  BY Zenon DEF OpToRel
<1>2. IsWellFoundedOn(R, Nat)
  BY <1>1, NatLessThanWellFounded
<1>3. PICK x \in S : \A y \in S : ~(<<y, x>> \in R)
  <2> HIDE DEF R
  <2>1. QED
    BY <1>2, WFMin
<1>4. \A y \in S : y \in Nat /\ ~(y < x)
  <2> TAKE y \in S
  <2>1. y \in Nat /\ x \in Nat
    OBVIOUS
  <2>2. y < x => <<y, x>> \in R
    BY <2>1
  <2>3. QED
    BY <1>3, <2>1, <2>2
<1>5. QED
  BY <1>4

(* Induction: a set that has each number whose predecessors it has. *)
LEMMA Numbers ==
    ASSUME NEW S, \A n \in Nat : (\A m \in 0..(n - 1) : m \in S) => n \in S
    PROVE  Nat \subseteq S
<1>1. SUFFICES ASSUME Nat \ S # {}
               PROVE  FALSE
  OBVIOUS
<1>2. PICK n \in Nat \ S : \A m \in Nat \ S : n =< m
  BY <1>1, Least
<1>3. \A m \in 0..(n - 1) : m \in S
  BY <1>2
<1>4. QED
  BY <1>2, <1>3

-----------------------------------------------------------------------------
(* The search along parents, for any set of nodes that have the name. *)

Seeks(f, par, H, n) == IF n = 0 THEN 0 ELSE IF n \in H THEN n ELSE f[par[n]]
IsSeek(f, par, H, size) == \A n \in 0..size : f[n] = Seeks(f, par, H, n)
Sought(f, par, H, n) == f = [m \in 0..n |-> Seeks(f, par, H, m)]
Older(par, size) == size \in Nat /\ \A n \in 1..size : par[n] \in 0..(n - 1)

(* There is such a function: its values are known from the root down. *)
LEMMA SeekExists ==
    ASSUME NEW par, NEW H, NEW size, Older(par, size)
    PROVE  \A n \in Nat : n =< size => \E f : Sought(f, par, H, n)
<1> DEFINE S == {n \in Nat : n =< size => \E f : Sought(f, par, H, n)}
<1>1. size \in Nat
  BY DEF Older
<1>2. ASSUME NEW n \in Nat, \A m \in 0..(n - 1) : m \in S, n =< size
      PROVE  \E f : Sought(f, par, H, n)
  <2>1. CASE n = 0
    <3> DEFINE f == [m \in 0..0 |-> 0]
    <3>1. \A m \in 0..0 : Seeks(f, par, H, m) = 0
      BY DEF Seeks
    <3>2. f = [m \in 0..0 |-> Seeks(f, par, H, m)]
      <4>1. [m \in 0..0 |-> Seeks(f, par, H, m)] = [m \in 0..0 |-> 0]
        BY <3>1
      <4>2. QED
        BY <4>1
    <3> HIDE DEF f
    <3>3. QED
      BY <2>1, <3>2 DEF Sought
  <2>2. CASE n # 0
    <3>1. n - 1 \in 0..(n - 1) /\ n - 1 =< size /\ n - 1 \in Nat
      BY <1>1, <1>2, <2>2
    <3>2. PICK f : Sought(f, par, H, n - 1)
      BY <1>2, <3>1
    <3> DEFINE g == [m \in 0..n |-> IF m = n THEN Seeks(f, par, H, n) ELSE f[m]]
    <3>3. ASSUME NEW m \in 0..n
          PROVE  g[m] = Seeks(g, par, H, m)
      <4>1. m # 0 => par[m] \in 0..n /\ par[m] # n
        <5>1. m # 0 => m \in 1..size
          BY <1>1, <1>2
        <5>2. m # 0 => par[m] \in 0..(m - 1)
          BY <5>1 DEF Older
        <5>3. QED
          BY <1>1, <1>2, <5>2
      <4>2. m # 0 => g[par[m]] = f[par[m]]
        BY <4>1
      <4>3. Seeks(g, par, H, m) = Seeks(f, par, H, m)
        <5> HIDE DEF g
        <5>1. QED
          BY <4>2 DEF Seeks
      <4>4. CASE m = n
        BY <4>3, <4>4
      <4>5. CASE m # n
        <5>1. m \in 0..(n - 1)
          BY <1>2, <4>5
        <5>2. f[m] = Seeks(f, par, H, m)
          BY <3>2, <5>1 DEF Sought
        <5>3. g[m] = f[m]
          BY <4>5
        <5> HIDE DEF g
        <5>4. QED
          BY <4>3, <5>2, <5>3
      <4>6. QED
        BY <4>4, <4>5
    <3>4. g = [m \in 0..n |-> g[m]]
      OBVIOUS
    <3> HIDE DEF g
    <3>5. [m \in 0..n |-> g[m]] = [m \in 0..n |-> Seeks(g, par, H, m)]
      BY <3>3
    <3>6. QED
      BY <3>4, <3>5 DEF Sought
  <2>3. QED
    BY <2>1, <2>2
<1>3. \A n \in Nat : (\A m \in 0..(n - 1) : m \in S) => n \in S
  BY <1>2
<1>4. Nat \subseteq S
  <2> HIDE DEF S
  <2>1. QED
    BY <1>3, Numbers
<1>5. QED
  BY <1>4

(* It depends only on the nodes from there up. *)
LEMMA SeekSame ==
    ASSUME NEW f, NEW par, NEW H, NEW size, Older(par, size), IsSeek(f, par, H, size),
           NEW g, NEW dad, NEW G, NEW big, IsSeek(g, dad, G, big),
           NEW k \in Nat, k =< size, k =< big, big \in Nat,
           \A n \in 1..k : par[n] = dad[n] /\ (n \in H <=> n \in G)
    PROVE  \A n \in 0..k : f[n] = g[n]
<1> DEFINE S == {n \in Nat : n =< k => f[n] = g[n]}
<1>1. size \in Nat
  BY DEF Older
<1>2. ASSUME NEW n \in Nat, \A m \in 0..(n - 1) : m \in S, n =< k
      PROVE  f[n] = g[n]
  <2>1. n \in 0..size /\ n \in 0..big
    BY <1>1, <1>2
  <2>2. f[n] = Seeks(f, par, H, n) /\ g[n] = Seeks(g, dad, G, n)
    BY <2>1 DEF IsSeek
  <2>3. CASE n = 0
    BY <2>2, <2>3 DEF Seeks
  <2>4. CASE n # 0
    <3>1. n \in 1..k /\ n \in 1..size
      BY <1>1, <1>2, <2>4
    <3>2. par[n] \in 0..(n - 1) /\ par[n] = dad[n] /\ (n \in H <=> n \in G)
      BY <3>1 DEF Older
    <3>3. par[n] =< k
      BY <1>2, <3>2
    <3>4. f[par[n]] = g[par[n]]
      BY <1>2, <3>2, <3>3
    <3>5. QED
      BY <2>2, <3>2, <3>4 DEF Seeks
  <2>5. QED
    BY <2>3, <2>4
<1>3. \A n \in Nat : (\A m \in 0..(n - 1) : m \in S) => n \in S
  BY <1>2
<1>4. Nat \subseteq S
  <2> HIDE DEF S
  <2>1. QED
    BY <1>3, Numbers
<1>5. QED
  BY <1>4

(* It ends at the root or at a node that has the name. *)
LEMMA SeekEnds ==
    ASSUME NEW f, NEW par, NEW H, NEW size, Older(par, size), IsSeek(f, par, H, size)
    PROVE  /\ \A n \in 0..size : f[n] \in 0..n /\ (f[n] # 0 => f[n] \in H)
           /\ \A n \in 0..size : n # 0 /\ n \in H => f[n] = n
<1> DEFINE S == {n \in Nat : n =< size => f[n] \in 0..n /\ (f[n] # 0 => f[n] \in H)}
<1>1. size \in Nat
  BY DEF Older
<1>2. ASSUME NEW n \in Nat, \A m \in 0..(n - 1) : m \in S, n =< size
      PROVE  f[n] \in 0..n /\ (f[n] # 0 => f[n] \in H)
  <2>1. n \in 0..size
    BY <1>1, <1>2
  <2>2. f[n] = Seeks(f, par, H, n)
    BY <2>1 DEF IsSeek
  <2>3. CASE n = 0
    BY <2>2, <2>3 DEF Seeks
  <2>4. CASE n # 0 /\ n \in H
    BY <2>2, <2>4 DEF Seeks
  <2>5. CASE n # 0 /\ n \notin H
    <3>1. n \in 1..size
      BY <1>1, <1>2, <2>5
    <3>2. par[n] \in 0..(n - 1)
      BY <3>1 DEF Older
    <3>3. par[n] =< size
      BY <1>1, <1>2, <3>2
    <3>4. f[par[n]] \in 0..par[n] /\ (f[par[n]] # 0 => f[par[n]] \in H)
      BY <1>2, <3>2, <3>3
    <3>5. f[n] = f[par[n]]
      BY <2>2, <2>5 DEF Seeks
    <3>6. f[n] \in 0..n
      BY <3>2, <3>4, <3>5
    <3>7. QED
      BY <3>4, <3>5, <3>6
  <2>6. QED
    BY <2>3, <2>4, <2>5
<1>3. \A n \in Nat : (\A m \in 0..(n - 1) : m \in S) => n \in S
  BY <1>2
<1>4. Nat \subseteq S
  <2> HIDE DEF S
  <2>1. QED
    BY <1>3, Numbers
<1>5. \A n \in 0..size : f[n] \in 0..n /\ (f[n] # 0 => f[n] \in H)
  BY <1>4
<1>6. \A n \in 0..size : n # 0 /\ n \in H => f[n] = n
  BY DEF IsSeek, Seeks
<1>7. QED
  BY <1>5, <1>6

(* From a node of D, whose parents are of D, a search leads to one of D;   *)
(* and what only nodes below the root have is found from there as well.    *)
LEMMA SeekBeyond ==
    ASSUME NEW f, NEW par, NEW H, NEW size, Older(par, size), IsSeek(f, par, H, size),
           NEW g, NEW G, IsSeek(g, par, G, size), NEW D,
           \A n \in 1..size : n \in D => /\ par[n] # 0 => par[n] \in D
                                         /\ n \in G => par[n] = 0
    PROVE  \A n \in 0..size : n \in D /\ f[n] # 0 => f[n] \in D /\ g[n] = g[f[n]]
<1> DEFINE S == {n \in Nat : n =< size =>
                   (n \in D /\ f[n] # 0 => f[n] \in D /\ g[n] = g[f[n]])}
<1>1. size \in Nat
  BY DEF Older
<1>2. ASSUME NEW n \in Nat, \A m \in 0..(n - 1) : m \in S, n =< size, n \in D, f[n] # 0
      PROVE  f[n] \in D /\ g[n] = g[f[n]]
  <2>1. n \in 0..size
    BY <1>1, <1>2
  <2>2. f[n] = Seeks(f, par, H, n) /\ g[n] = Seeks(g, par, G, n)
    BY <2>1 DEF IsSeek
  <2>3. n # 0
    BY <1>2, <2>2 DEF Seeks
  <2>4. CASE n \in H
    BY <1>2, <2>2, <2>3, <2>4 DEF Seeks
  <2>5. CASE n \notin H
    <3>1. n \in 1..size
      BY <1>1, <1>2, <2>3
    <3>2. par[n] \in 0..(n - 1)
      BY <3>1 DEF Older
    <3>3. par[n] =< size
      BY <1>1, <1>2, <3>2
    <3>4. f[n] = f[par[n]]
      BY <2>2, <2>3, <2>5 DEF Seeks
    <3>5. par[n] # 0
      <4>1. 0 \in 0..size
        BY <1>1
      <4>2. f[0] = 0
        BY <4>1 DEF IsSeek, Seeks
      <4>3. QED
        BY <1>2, <3>4, <4>2
    <3>6. par[n] \in D /\ n \notin G
      BY <1>2, <3>1, <3>5
    <3>7. g[n] = g[par[n]]
      BY <2>2, <2>3, <3>6 DEF Seeks
    <3>8. f[par[n]] \in D /\ g[par[n]] = g[f[par[n]]]
      BY <1>2, <3>2, <3>3, <3>4, <3>6
    <3>9. QED
      BY <3>4, <3>7, <3>8
  <2>6. QED
    BY <2>4, <2>5
<1>3. \A n \in Nat : (\A m \in 0..(n - 1) : m \in S) => n \in S
  BY <1>2
<1>4. Nat \subseteq S
  <2> HIDE DEF S
  <2>1. QED
    BY <1>3, Numbers
<1>5. QED
  BY <1>4

-----------------------------------------------------------------------------
(* The three searches. *)

AdrUp == CHOOSE f : f = [n \in 0..Len(nodes) |->
           IF n = 0 THEN 0 ELSE IF nodes[n].names.ADR # 0 THEN n ELSE f[nodes[n].parent]]
HidUp == CHOOSE f : f = [n \in 0..Len(nodes) |->
           IF n = 0 THEN 0 ELSE IF nodes[n].names.hid # "" THEN n ELSE f[nodes[n].parent]]
BbnUp == CHOOSE f : f = [n \in 0..Len(nodes) |->
           IF n = 0 THEN 0 ELSE IF nodes[n].names.BBN # 0 THEN n ELSE f[nodes[n].parent]]

(* The operators of the model are these functions. *)
LEMMA SearchesAre ==
    \A p : /\ OfAdr(p) = AdrUp[p] /\ OfHid(p) = HidUp[p]
           /\ BusOf(p) = IF BbnUp[p] = 0 THEN 0 ELSE nodes[BbnUp[p]].names.BBN
<1> TAKE p
<1>1. OfAdr(p) = AdrUp[p]
  BY DEF OfAdr, Search, AdrUp
<1>2. OfHid(p) = HidUp[p]
  BY DEF OfHid, Search, HidUp
<1>3. BusOf(p) = IF BbnUp[p] = 0 THEN 0 ELSE nodes[BbnUp[p]].names.BBN
  BY DEF BusOf, Search, BbnUp
<1>4. QED
  BY <1>1, <1>2, <1>3

Parents == [n \in 1..Len(nodes) |-> nodes[n].parent]
WithAdr == {n \in 1..Len(nodes) : nodes[n].names.ADR # 0}
WithHid == {n \in 1..Len(nodes) : nodes[n].names.hid # ""}
WithBbn == {n \in 1..Len(nodes) : nodes[n].names.BBN # 0}

(* The fields of a node. *)
LEMMA Nodes ==
    ASSUME TypeInv
    PROVE  /\ Len(nodes) \in Nat /\ DOMAIN nodes = 1..Len(nodes)
           /\ \A n \in DOMAIN nodes :
                /\ nodes[n] \in Node /\ nodes[n].parent \in Nat /\ nodes[n].adr \in Nat
                /\ IsDevice(n) => nodes[n].names \in NameSets
                /\ ~IsDevice(n) => nodes[n].is = "region" /\ nodes[n].space \in Space
<1>1. Len(nodes) \in Nat /\ DOMAIN nodes = 1..Len(nodes)
  BY DEF TypeInv
<1>2. ASSUME NEW n \in DOMAIN nodes
      PROVE  /\ nodes[n] \in Node /\ nodes[n].parent \in Nat /\ nodes[n].adr \in Nat
             /\ IsDevice(n) => nodes[n].names \in NameSets
             /\ ~IsDevice(n) => nodes[n].is = "region" /\ nodes[n].space \in Space
  <2>1. nodes[n] \in Node
    BY <1>2 DEF TypeInv
  <2>2. QED
    BY <2>1 DEF Node, IsDevice
<1>3. QED
  BY <1>1, <1>2

(* The names of a device. *)
LEMMA NamesOf ==
    ASSUME TypeInv, NEW n \in DOMAIN nodes, IsDevice(n)
    PROVE  /\ nodes[n].names \in [hid : {"", "bridge", "controller"}, ADR : Nat, BBN : Nat]
           /\ nodes[n].names.ADR \in Nat /\ nodes[n].names.BBN \in Nat
           /\ nodes[n].names.hid \in {"", "bridge", "controller"}
           /\ IsController(n) => nodes[n].names.ADR = 0 /\ nodes[n].names.hid # ""
<1>1. nodes[n].names \in NameSets
  BY Nodes
<1>2. nodes[n].names \in [hid : {"", "bridge", "controller"}, ADR : Nat, BBN : Nat]
  BY <1>1, AddressBounds
<1>3. nodes[n].names.hid = "controller" => nodes[n].names.ADR = 0
  BY <1>1, AddressBounds
<1>4. QED
  BY <1>2, <1>3 DEF IsController

(* A parent is older than its child, *)
LEMMA ParentsOlder ==
    ASSUME TypeInv, TreeInv
    PROVE  Older(Parents, Len(nodes))
<1>1. ASSUME NEW n \in 1..Len(nodes)
      PROVE  Parents[n] \in 0..(n - 1)
  <2>1. nodes[n].parent \in Nat /\ nodes[n].parent < n
    BY Nodes DEF TreeInv
  <2>2. n \in Nat
    BY Nodes
  <2>3. QED
    BY <2>1, <2>2 DEF Parents
<1>2. QED
  BY <1>1, Nodes DEF Older

(* and so each search is one along parents. *)
LEMMA Searches ==
    ASSUME TypeInv, TreeInv
    PROVE  /\ IsSeek(AdrUp, Parents, WithAdr, Len(nodes))
           /\ IsSeek(HidUp, Parents, WithHid, Len(nodes))
           /\ IsSeek(BbnUp, Parents, WithBbn, Len(nodes))
<1> DEFINE k == Len(nodes)
<1>1. k \in Nat /\ Older(Parents, k) /\ DOMAIN nodes = 1..k
  BY Nodes, ParentsOlder
<1>2. \A n \in 0..k : n # 0 => Parents[n] = nodes[n].parent
  BY <1>1 DEF Parents
<1> HIDE DEF k
<1>3. \A H : \E f : Sought(f, Parents, H, k)
  <2> TAKE H
  <2>1. \A n \in Nat : n =< k => \E f : Sought(f, Parents, H, n)
    BY <1>1, SeekExists
  <2>2. k =< k
    BY <1>1
  <2>3. QED
    BY <1>1, <2>1, <2>2
<1>4. IsSeek(AdrUp, Parents, WithAdr, k)
  <2> DEFINE One(f, n) == IF n = 0 THEN 0 ELSE IF nodes[n].names.ADR # 0 THEN n
                          ELSE f[nodes[n].parent]
  <2>1. \A f : \A n \in 0..k : One(f, n) = Seeks(f, Parents, WithAdr, n)
    BY <1>1, <1>2 DEF Seeks, WithAdr, k
  <2>2. AdrUp = CHOOSE f : f = [n \in 0..k |-> One(f, n)]
    BY DEF AdrUp, k
  <2> HIDE DEF One
  <2>3. PICK f : f = [n \in 0..k |-> Seeks(f, Parents, WithAdr, n)]
    BY <1>3 DEF Sought
  <2>4. f = [n \in 0..k |-> One(f, n)]
    BY <2>1, <2>3
  <2>5. AdrUp = [n \in 0..k |-> One(AdrUp, n)]
    BY <2>2, <2>4
  <2>6. \A n \in 0..k : AdrUp[n] = One(AdrUp, n)
    BY <2>5
  <2>7. QED
    BY <2>1, <2>6 DEF IsSeek
<1>5. IsSeek(HidUp, Parents, WithHid, k)
  <2> DEFINE One(f, n) == IF n = 0 THEN 0 ELSE IF nodes[n].names.hid # "" THEN n
                          ELSE f[nodes[n].parent]
  <2>1. \A f : \A n \in 0..k : One(f, n) = Seeks(f, Parents, WithHid, n)
    <3>1. \A n \in 0..k : n # 0 => n \in 1..Len(nodes)
      BY <1>1 DEF k
    <3>2. QED
      BY Zenon, <1>2, <3>1 DEF Seeks, WithHid
  <2>2. HidUp = CHOOSE f : f = [n \in 0..k |-> One(f, n)]
    BY DEF HidUp, k
  <2> HIDE DEF One
  <2>3. PICK f : f = [n \in 0..k |-> Seeks(f, Parents, WithHid, n)]
    BY <1>3 DEF Sought
  <2>4. f = [n \in 0..k |-> One(f, n)]
    BY <2>1, <2>3
  <2>5. HidUp = [n \in 0..k |-> One(HidUp, n)]
    BY <2>2, <2>4
  <2>6. \A n \in 0..k : HidUp[n] = One(HidUp, n)
    BY <2>5
  <2>7. QED
    BY <2>1, <2>6 DEF IsSeek
<1>6. IsSeek(BbnUp, Parents, WithBbn, k)
  <2> DEFINE One(f, n) == IF n = 0 THEN 0 ELSE IF nodes[n].names.BBN # 0 THEN n
                          ELSE f[nodes[n].parent]
  <2>1. \A f : \A n \in 0..k : One(f, n) = Seeks(f, Parents, WithBbn, n)
    BY <1>1, <1>2 DEF Seeks, WithBbn, k
  <2>2. BbnUp = CHOOSE f : f = [n \in 0..k |-> One(f, n)]
    BY DEF BbnUp, k
  <2> HIDE DEF One
  <2>3. PICK f : f = [n \in 0..k |-> Seeks(f, Parents, WithBbn, n)]
    BY <1>3 DEF Sought
  <2>4. f = [n \in 0..k |-> One(f, n)]
    BY <2>1, <2>3
  <2>5. BbnUp = [n \in 0..k |-> One(BbnUp, n)]
    BY <2>2, <2>4
  <2>6. \A n \in 0..k : BbnUp[n] = One(BbnUp, n)
    BY <2>5
  <2>7. QED
    BY <2>1, <2>6 DEF IsSeek
<1>7. QED
  BY <1>4, <1>5, <1>6 DEF k

(* What a search from a device finds. *)
LEMMA Found ==
    ASSUME TypeInv, TreeInv, NEW p \in 0..Len(nodes), p # 0 => IsDevice(p)
    PROVE  /\ OfAdr(p) \in 0..p /\ OfHid(p) \in 0..p
           /\ OfAdr(p) # 0 => /\ OfAdr(p) \in DOMAIN nodes /\ IsDevice(OfAdr(p))
                              /\ nodes[OfAdr(p)].names.ADR # 0
                              /\ BusOf(p) = BusOf(OfAdr(p))
           /\ OfHid(p) # 0 => OfHid(p) \in DOMAIN nodes /\ IsDevice(OfHid(p))
<1> DEFINE k == Len(nodes)
           D == {n \in 1..k : IsDevice(n)}
<1>1. k \in Nat /\ DOMAIN nodes = 1..k /\ Older(Parents, k)
  BY Nodes, ParentsOlder
<1>2. /\ IsSeek(AdrUp, Parents, WithAdr, k) /\ IsSeek(HidUp, Parents, WithHid, k)
      /\ IsSeek(BbnUp, Parents, WithBbn, k)
  BY Searches
<1>3. ASSUME NEW n \in 1..k, n \in D
      PROVE  /\ Parents[n] # 0 => Parents[n] \in D
             /\ n \in WithBbn => Parents[n] = 0
  <2>1. Parents[n] = nodes[n].parent /\ Parents[n] \in 0..(n - 1)
    BY <1>1 DEF Parents, Older
  <2>2. Parents[n] # 0 => Parents[n] \in 1..k
    BY <1>1, <2>1
  <2>3. Parents[n] # 0 => IsDevice(Parents[n])
    BY <1>1, <2>1 DEF TreeInv
  <2>4. n \in WithBbn => nodes[n].parent = 0
    BY <1>1, <1>3 DEF TreeInv, WithBbn
  <2>5. QED
    BY <2>1, <2>2, <2>3, <2>4
<1>4. p # 0 => p \in D
  BY <1>1
<1>5. /\ AdrUp[p] \in 0..p /\ (AdrUp[p] # 0 => AdrUp[p] \in WithAdr)
      /\ HidUp[p] \in 0..p /\ p \in 0..k
  <2>1. p \in 0..k
    OBVIOUS
  <2> HIDE DEF k
  <2>2. QED
    BY <1>1, <1>2, <2>1, SeekEnds
<1>6. 0 \in 0..k /\ AdrUp[0] = 0 /\ HidUp[0] = 0
  <2>1. 0 \in 0..k
    BY <1>1
  <2>2. QED
    BY <1>2, <2>1 DEF IsSeek, Seeks
<1> HIDE DEF D, k
<1>7. AdrUp[p] # 0 => AdrUp[p] \in D /\ BbnUp[p] = BbnUp[AdrUp[p]]
  <2>1. p \in D /\ AdrUp[p] # 0 => AdrUp[p] \in D /\ BbnUp[p] = BbnUp[AdrUp[p]]
    BY <1>1, <1>2, <1>3, <1>5, SeekBeyond
  <2>2. QED
    BY <1>4, <1>6, <2>1
<1>8. HidUp[p] # 0 => HidUp[p] \in D
  <2>1. p \in D /\ HidUp[p] # 0 => HidUp[p] \in D
    BY <1>1, <1>2, <1>3, <1>5, SeekBeyond
  <2>2. QED
    BY <1>4, <1>6, <2>1
<1>9. OfAdr(p) = AdrUp[p] /\ OfHid(p) = HidUp[p]
  BY SearchesAre
<1>10. OfAdr(p) # 0 => BusOf(p) = BusOf(OfAdr(p))
  BY <1>7, <1>9, SearchesAre
<1>11. QED
  BY <1>1, <1>5, <1>7, <1>8, <1>9, <1>10 DEF D, WithAdr

(* A device that has an address finds itself. *)
LEMMA FindsItself ==
    ASSUME TypeInv, TreeInv, NEW d \in DOMAIN nodes, nodes[d].names.ADR # 0
    PROVE  OfAdr(d) = d
<1>1. d \in WithAdr /\ d \in 0..Len(nodes) /\ d # 0
  BY Nodes DEF WithAdr
<1>2. AdrUp[d] = d
  BY <1>1, ParentsOlder, Searches, SeekEnds
<1>3. QED
  BY <1>2, SearchesAre

(* A step that leaves the first k nodes where they are. *)
Alike(k) ==
    /\ k \in Nat /\ k =< Len(nodes) /\ k =< Len(nodes')
    /\ \A n \in 1..k : /\ nodes'[n].is = nodes[n].is /\ nodes'[n].parent = nodes[n].parent
                       /\ nodes'[n].names = nodes[n].names
                       /\ ~IsDevice(n) => nodes'[n].space = nodes[n].space

(* From these nodes everything is found where it was. *)
LEMMA FoundAgain ==
    ASSUME TypeInv, TreeInv, TypeInv', TreeInv', NEW k, Alike(k)
    PROVE  \A p \in 0..k : OfAdr(p)' = OfAdr(p) /\ OfHid(p)' = OfHid(p) /\ BusOf(p)' = BusOf(p)
<1> DEFINE a == Len(nodes)
           b == Len(nodes')
<1>1. a \in Nat /\ Older(Parents, a) /\ k \in Nat /\ k =< a /\ k =< b
  BY Nodes, ParentsOlder DEF Alike
<1>2. b \in Nat
  BY DEF TypeInv
<1>3. /\ IsSeek(AdrUp, Parents, WithAdr, a) /\ IsSeek(HidUp, Parents, WithHid, a)
      /\ IsSeek(BbnUp, Parents, WithBbn, a)
  BY Searches
<1>4. /\ IsSeek(AdrUp', Parents', WithAdr', b) /\ IsSeek(HidUp', Parents', WithHid', b)
      /\ IsSeek(BbnUp', Parents', WithBbn', b)
  <2>1. (TypeInv /\ TreeInv => /\ IsSeek(AdrUp, Parents, WithAdr, Len(nodes))
                               /\ IsSeek(HidUp, Parents, WithHid, Len(nodes))
                               /\ IsSeek(BbnUp, Parents, WithBbn, Len(nodes)))'
    BY Searches, PTL
  <2>2. QED
    BY <2>1 DEF IsSeek, Seeks
<1>5. \A n \in 1..k : /\ Parents[n] = Parents'[n] /\ (n \in WithAdr <=> n \in WithAdr')
                      /\ (n \in WithHid <=> n \in WithHid')
                      /\ (n \in WithBbn <=> n \in WithBbn')
  <2> TAKE n \in 1..k
  <2>1. n \in 1..Len(nodes) /\ n \in 1..Len(nodes')
    BY <1>1, <1>2
  <2>2. nodes'[n].parent = nodes[n].parent /\ nodes'[n].names = nodes[n].names
    BY DEF Alike
  <2>3. Parents[n] = Parents'[n]
    BY <2>1, <2>2 DEF Parents
  <2>4. /\ (n \in WithAdr <=> n \in WithAdr') /\ (n \in WithHid <=> n \in WithHid')
        /\ (n \in WithBbn <=> n \in WithBbn')
    BY <2>1, <2>2, Zenon DEF WithAdr, WithHid, WithBbn
  <2>5. QED
    BY <2>3, <2>4
<1> HIDE DEF a, b
<1>6. \A p \in 0..k : AdrUp[p] = AdrUp'[p]
  BY <1>1, <1>2, <1>3, <1>4, <1>5, SeekSame
<1>7. \A p \in 0..k : HidUp[p] = HidUp'[p]
  BY <1>1, <1>2, <1>3, <1>4, <1>5, SeekSame
<1>8. \A p \in 0..k : BbnUp[p] = BbnUp'[p]
  BY <1>1, <1>2, <1>3, <1>4, <1>5, SeekSame
<1>9. ASSUME NEW p \in 0..k
      PROVE  OfAdr(p)' = OfAdr(p) /\ OfHid(p)' = OfHid(p) /\ BusOf(p)' = BusOf(p)
  <2>1. /\ OfAdr(p) = AdrUp[p] /\ OfHid(p) = HidUp[p]
        /\ BusOf(p) = IF BbnUp[p] = 0 THEN 0 ELSE nodes[BbnUp[p]].names.BBN
    BY SearchesAre
  <2>2. /\ OfAdr(p)' = AdrUp'[p] /\ OfHid(p)' = HidUp'[p]
        /\ BusOf(p)' = IF BbnUp'[p] = 0 THEN 0 ELSE nodes'[BbnUp'[p]].names.BBN
    <3>1. OfAdr(p)' = AdrUp'[p]
      BY DEF OfAdr, Search, AdrUp
    <3>2. OfHid(p)' = HidUp'[p]
      BY DEF OfHid, Search, HidUp
    <3>3. BusOf(p)' = IF BbnUp'[p] = 0 THEN 0 ELSE nodes'[BbnUp'[p]].names.BBN
      BY DEF BusOf, Search, BbnUp
    <3>4. QED
      BY <3>1, <3>2, <3>3
  <2>3. BbnUp[p] \in 0..p
    <3>1. p \in 0..a
      BY <1>1
    <3>2. QED
      BY <1>1, <1>3, <3>1, SeekEnds
  <2>4. BbnUp[p] # 0 => BbnUp[p] \in 1..k
    BY <1>1, <2>3
  <2>5. BbnUp[p] # 0 => nodes'[BbnUp[p]].names = nodes[BbnUp[p]].names
    BY <2>4 DEF Alike
  <2>6. QED
    BY <1>6, <1>7, <1>8, <2>1, <2>2, <2>5
<1>10. QED
  BY <1>9

(* What a device would keep, and whose address a region has, stays so. *)
LEMMA StaysKept ==
    ASSUME TypeInv, TreeInv, TypeInv', TreeInv', NEW k, Alike(k), NEW n \in 1..k
    PROVE  /\ n \in DOMAIN nodes /\ n \in DOMAIN nodes'
           /\ IsDevice(n)' <=> IsDevice(n)
           /\ IsController(n)' <=> IsController(n)
           /\ Kept(n)' = Kept(n)
           /\ ~IsDevice(n) => Owner(n)' = Owner(n)
<1>1. /\ k \in Nat /\ k =< Len(nodes) /\ k =< Len(nodes')
      /\ nodes'[n].is = nodes[n].is /\ nodes'[n].parent = nodes[n].parent
      /\ nodes'[n].names = nodes[n].names
      /\ ~IsDevice(n) => nodes'[n].space = nodes[n].space
  BY DEF Alike
<1>2. n \in DOMAIN nodes /\ n \in DOMAIN nodes'
  BY <1>1 DEF TypeInv
<1>3. (IsDevice(n)' <=> IsDevice(n)) /\ (IsController(n)' <=> IsController(n))
  BY <1>1 DEF IsDevice, IsController
<1>4. \A p \in 0..k : OfAdr(p)' = OfAdr(p) /\ OfHid(p)' = OfHid(p) /\ BusOf(p)' = BusOf(p)
  BY FoundAgain
<1>5. Kept(n)' = Kept(n)
  <2>1. BusOf(n)' = BusOf(n)
    BY <1>4
  <2>2. PciAddress(n, n)' = PciAddress(n, n)
    BY <1>1, <2>1 DEF PciAddress
  <2>3. QED
    BY <1>1, <2>2 DEF Kept, ControllerOf
<1>6. ~IsDevice(n) => Owner(n)' = Owner(n)
  <2>1. nodes[n].parent \in 0..k
    BY <1>1, <1>2, Nodes DEF TreeInv
  <2> DEFINE p == nodes[n].parent
  <2>2. OfAdr(p)' = OfAdr(p) /\ OfHid(p)' = OfHid(p) /\ p' = p
    BY <1>1, <1>4, <2>1
  <2>3. QED
    BY <1>1, <2>1, <2>2, <1>4 DEF Owner
<1>7. QED
  BY <1>2, <1>3, <1>5, <1>6

(* sabi_host_alloc returns what is not in use. *)
LEMMA Fresh ==
    ASSUME TypeInv
    PROVE  FreshPointer \in Nat \ {0} /\ FreshPointer \notin DOMAIN heap
<1> DEFINE D == DOMAIN heap
           c == Cardinality(D)
           S == (1..(c + 1)) \ D
<1>1. IsFiniteSet(D) /\ D \subseteq Nat \ {0}
  BY DEF TypeInv
<1> HIDE DEF D
<1>2. c \in Nat
  BY <1>1, FS_CardinalityType
<1> HIDE DEF c
<1>3. S # {}
  <2>1. SUFFICES ASSUME 1..(c + 1) \subseteq D
                 PROVE  FALSE
    OBVIOUS
  <2>2. Cardinality(1..(c + 1)) =< Cardinality(D)
    BY <1>1, <2>1, FS_Subset
  <2>3. Cardinality(1..(c + 1)) = c + 1
    BY <1>2, FS_Interval
  <2>4. QED
    BY <1>2, <2>2, <2>3 DEF c
<1>4. S \in SUBSET Nat
  BY <1>2
<1>5. S \subseteq Nat \ {0} /\ S \cap D = {}
  BY <1>2
<1>6. FreshPointer = Min(S)
  BY DEF FreshPointer, D, c
<1> HIDE DEF S
<1>7. \E x \in S : \A y \in S : x =< y
  BY <1>3, <1>4, Least
<1>8. Min(S) \in S
  BY <1>7 DEF Min
<1>9. QED
  BY <1>5, <1>6, <1>8 DEF D

-----------------------------------------------------------------------------
(* What the parts of the invariant need of a step that adds a node.        *)

(* All nodes stay, but for their pointers, and new is added. *)
Grows(new) ==
    /\ Alike(Len(nodes))
    /\ Len(nodes') = Len(nodes) + 1 /\ nodes'[Len(nodes) + 1] = new
    /\ calls' = calls

(* It is put under a device or the root. *)
LEMMA TreeGrows ==
    ASSUME TypeInv, TreeInv, CallsInv, TypeInv', NEW new, Grows(new),
           new.parent \in 0..Len(nodes), new.parent # 0 => IsDevice(new.parent),
           IF new.is = "device" THEN new.names.BBN # 0 => new.parent = 0
           ELSE new.parent # 0,
           new.is = "device" /\ new.names.hid = "controller" => calls = <<>>
    PROVE  TreeInv' /\ CallsInv'
<1> DEFINE k == Len(nodes)
<1>1. k \in Nat /\ DOMAIN nodes = 1..k /\ DOMAIN nodes' = 1..(k + 1)
  BY Nodes DEF Grows, TypeInv
<1>2. \A n \in 1..k : /\ nodes'[n].is = nodes[n].is /\ nodes'[n].parent = nodes[n].parent
                      /\ nodes'[n].names = nodes[n].names
  BY DEF Grows, Alike
<1>3. nodes'[k + 1] = new /\ calls' = calls
  BY DEF Grows
<1>4. \A n \in 1..k : (IsDevice(n)' <=> IsDevice(n)) /\ (IsController(n)' <=> IsController(n))
  BY <1>2 DEF IsDevice, IsController
<1>5. ASSUME NEW n \in 1..(k + 1)
      PROVE  /\ nodes'[n].parent < n
             /\ nodes'[n].parent # 0 => nodes'[nodes'[n].parent].is = "device"
             /\ IF nodes'[n].is = "device" THEN nodes'[n].names.BBN # 0 => nodes'[n].parent = 0
                ELSE nodes'[n].parent # 0
  <2>1. CASE n \in 1..k
    <3>1. /\ nodes[n].parent \in Nat /\ nodes[n].parent < n
          /\ nodes[n].parent # 0 => IsDevice(nodes[n].parent)
          /\ IF IsDevice(n) THEN nodes[n].names.BBN # 0 => nodes[n].parent = 0
             ELSE nodes[n].parent # 0
      BY <1>1, <2>1, Nodes DEF TreeInv
    <3>2. nodes[n].parent # 0 => nodes[n].parent \in 1..k
      BY <1>1, <2>1, <3>1
    <3>3. /\ nodes'[n].is = nodes[n].is /\ nodes'[n].parent = nodes[n].parent
          /\ nodes'[n].names = nodes[n].names
      BY <1>2, <2>1
    <3>4. nodes[n].parent # 0 => nodes'[nodes[n].parent].is = nodes[nodes[n].parent].is
      BY <1>2, <3>2
    <3>5. QED
      BY <3>1, <3>3, <3>4 DEF IsDevice
  <2>2. CASE n = k + 1
    <3>1. nodes'[n] = new
      BY <1>3, <2>2
    <3>2. new.parent < n /\ (new.parent # 0 => new.parent \in 1..k)
      BY <1>1, <2>2
    <3>3. new.parent # 0 => nodes'[new.parent].is = "device"
      BY <1>2, <3>2 DEF IsDevice
    <3>4. QED
      BY <3>1, <3>2, <3>3, <2>2
  <2>3. QED
    BY <1>1, <2>1, <2>2
<1>6. TreeInv'
  BY <1>1, <1>5 DEF TreeInv, IsDevice
<1>7. CallsInv'
  <2>1. \A i \in DOMAIN calls : calls[i] =< k /\ calls[i] \in Nat
    BY DEF CallsInv, TypeInv
  <2>2. \A i \in DOMAIN calls' : calls'[i] =< Len(nodes')
    BY <1>1, <1>3, <2>1 DEF Grows
  <2>3. ASSUME NEW n \in DOMAIN nodes', IsController(n)'
        PROVE  \A i \in DOMAIN calls' : n =< calls'[i]
    <3>1. CASE n \in 1..k
      BY <1>1, <1>3, <1>4, <2>3, <3>1 DEF CallsInv
    <3>2. CASE n = k + 1
      <4>1. new.is = "device" /\ new.names.hid = "controller"
        BY <1>3, <2>3, <3>2 DEF IsController, IsDevice
      <4>2. calls' = <<>>
        BY <1>3, <4>1
      <4>3. QED
        BY <4>2
    <3>3. QED
      BY <1>1, <3>1, <3>2
  <2>4. \A i, j \in DOMAIN calls' : i =< j => calls'[i] =< calls'[j]
    BY <1>3 DEF CallsInv
  <2>5. QED
    BY <2>2, <2>3, <2>4 DEF CallsInv, IsController, IsDevice
<1>8. QED
  BY <1>6, <1>7

(* The device d gets the pointer q if it is not 0; the others keep theirs. *)
Gives(d, q) ==
    /\ \A n \in 1..Len(nodes) : nodes'[n].adr = IF n = d THEN q ELSE nodes[n].adr
    /\ IF d = 0 THEN heap' = heap /\ ecs' = ecs
       ELSE /\ d \in DOMAIN nodes /\ IsDevice(d) /\ nodes[d].adr = 0
            /\ nodes[d].names.ADR = 0 => IsController(d)
            /\ q \in Nat \ {0} /\ q \notin DOMAIN heap
            /\ DOMAIN heap' = DOMAIN heap \cup {q} /\ heap'[q] = Kept(d)
            /\ \A p \in DOMAIN heap : heap'[p] = heap[p]
            /\ ecs' = IF IsController(d) THEN <<[parent |-> d, ec |-> q]>> \o ecs ELSE ecs

(* What is allocated is kept by that device alone. *)
LEMMA KeepGrows ==
    ASSUME TypeInv, TreeInv, KeepInv, TypeInv', TreeInv', NEW new, Grows(new),
           new.is = "device" => new.adr = 0, NEW d, NEW q, Gives(d, q)
    PROVE  KeepInv'
<1> DEFINE k == Len(nodes)
<1>1. k \in Nat /\ DOMAIN nodes = 1..k /\ DOMAIN nodes' = 1..(k + 1) /\ Alike(k)
  BY Nodes DEF Grows, TypeInv
<1>2. nodes'[k + 1] = new
  BY DEF Grows
<1> HIDE DEF k
<1>3. \A n \in 1..k : /\ IsDevice(n)' <=> IsDevice(n)
                      /\ IsController(n)' <=> IsController(n)
                      /\ Kept(n)' = Kept(n) /\ nodes'[n].names = nodes[n].names
  <2> TAKE n \in 1..k
  <2>1. nodes'[n].names = nodes[n].names
    BY <1>1 DEF Alike
  <2>2. QED
    BY <1>1, <2>1, StaysKept
<1>4. \A n \in 1..(k + 1) : n \in 1..k \/ n = k + 1
  BY <1>1
<1>5. \A n \in 1..k : nodes'[n].adr = IF n = d THEN q ELSE nodes[n].adr
  BY DEF Gives, k
<1>6. \A n \in 1..k : IsDevice(n) /\ nodes[n].adr # 0 => n # d /\ nodes[n].adr \in DOMAIN heap
  BY <1>1 DEF Gives, KeepInv
<1>7. d # 0 => /\ q \notin DOMAIN heap /\ DOMAIN heap' = DOMAIN heap \cup {q}
               /\ heap'[q] = Kept(d) /\ d \in 1..k /\ IsDevice(d)
               /\ nodes[d].names.ADR = 0 => IsController(d)
               /\ \A p \in DOMAIN heap : heap'[p] = heap[p]
  BY <1>1 DEF Gives
<1>8. d = 0 => heap' = heap
  BY DEF Gives
<1>9. \A p \in DOMAIN heap : p \in DOMAIN heap' /\ heap'[p] = heap[p]
  BY <1>7, <1>8
<1>10. ASSUME NEW n \in DOMAIN nodes', IsDevice(n)', nodes'[n].adr # 0
       PROVE  /\ n \in 1..k
              /\ nodes'[n].adr \in DOMAIN heap' /\ heap'[nodes'[n].adr] = Kept(n)'
              /\ nodes'[n].names.ADR = 0 => IsController(n)'
  <2>1. n \in 1..k
    BY <1>1, <1>2, <1>4, <1>10 DEF IsDevice
  <2>2. IsDevice(n)
    BY <1>3, <1>10, <2>1
  <2>3. CASE n = d
    <3>1. nodes'[n].adr = q /\ d # 0
      BY <1>1, <1>5, <2>1, <2>3
    <3>2. q \in DOMAIN heap' /\ heap'[q] = Kept(d) /\ (nodes[d].names.ADR = 0 => IsController(d))
      BY <1>7, <3>1
    <3>3. QED
      BY <1>3, <2>1, <2>3, <3>1, <3>2
  <2>4. CASE n # d
    <3>1. nodes'[n].adr = nodes[n].adr
      BY <1>5, <2>1, <2>4
    <3>2. /\ nodes[n].adr \in DOMAIN heap /\ heap[nodes[n].adr] = Kept(n)
          /\ nodes[n].names.ADR = 0 => IsController(n)
      BY <1>1, <1>10, <2>1, <2>2, <3>1 DEF KeepInv
    <3>3. QED
      BY <1>3, <1>9, <2>1, <3>1, <3>2
  <2>5. QED
    BY <2>3, <2>4
<1>11. ASSUME NEW p \in DOMAIN heap'
       PROVE  \E n \in DOMAIN nodes' : IsDevice(n)' /\ nodes'[n].adr = p
  <2>1. CASE p \in DOMAIN heap
    <3>1. PICK n \in 1..k : IsDevice(n) /\ nodes[n].adr = p
      BY <1>1, <2>1 DEF KeepInv
    <3>2. p # 0
      BY <2>1 DEF TypeInv
    <3>3. nodes'[n].adr = p /\ IsDevice(n)' /\ n \in DOMAIN nodes'
      BY <1>1, <1>3, <1>5, <1>6, <3>1, <3>2
    <3>4. QED
      BY <3>3
  <2>2. CASE p \notin DOMAIN heap
    <3>1. d # 0 /\ p = q
      BY <1>7, <1>8, <2>2
    <3>2. nodes'[d].adr = p /\ IsDevice(d)' /\ d \in DOMAIN nodes'
      BY <1>1, <1>3, <1>5, <1>7, <3>1
    <3>3. QED
      BY <3>2
  <2>3. QED
    BY <2>1, <2>2
<1>12. ASSUME NEW n \in DOMAIN nodes', NEW e \in DOMAIN nodes', IsDevice(n)', IsDevice(e)',
              nodes'[n].adr = nodes'[e].adr, nodes'[n].adr # 0
       PROVE  n = e
  <2>1. n \in 1..k /\ e \in 1..k
    BY <1>10, <1>12
  <2>2. IsDevice(n) /\ IsDevice(e)
    BY <1>3, <1>12, <2>1
  <2>3. CASE n = d \/ e = d
    <3>1. d # 0 /\ nodes'[n].adr = q
      BY <1>1, <1>5, <1>12, <2>1, <2>3
    <3>2. \A m \in 1..k : IsDevice(m) /\ nodes'[m].adr = q => m = d
      BY <1>5, <1>6, <1>7, <3>1, <1>12
    <3>3. QED
      BY <1>12, <2>1, <2>2, <3>1, <3>2
  <2>4. CASE n # d /\ e # d
    <3>1. nodes'[n].adr = nodes[n].adr /\ nodes'[e].adr = nodes[e].adr
      BY <1>5, <2>1, <2>4
    <3>2. QED
      BY <1>1, <1>12, <2>1, <2>2, <3>1 DEF KeepInv
  <2>5. QED
    BY <2>3, <2>4
<1>13. QED
  BY <1>10, <1>11, <1>12 DEF KeepInv

(* A device that has a pointer does not get another one, so the regions    *)
(* that there are stay where they are.                                     *)
LEMMA RegionGrows ==
    ASSUME TypeInv, TreeInv, RegionInv, TypeInv', TreeInv', NEW new, Grows(new),
           NEW d, NEW q, Gives(d, q),
           new.is # "device" =>
             /\ new.parent \in 1..Len(nodes)
             /\ LET o == IF new.space = "pci" THEN OfAdr(new.parent) ELSE OfHid(new.parent)
                IN  IF o = 0 THEN new.adr = 0
                    ELSE /\ o \in 1..Len(nodes) /\ new.adr # 0
                         /\ new.adr = IF o = d THEN q ELSE nodes[o].adr
                         /\ new.space = "ec" => IsController(o)
    PROVE  RegionInv'
<1> DEFINE k == Len(nodes)
<1>1. k \in Nat /\ DOMAIN nodes = 1..k /\ DOMAIN nodes' = 1..(k + 1) /\ Alike(k)
  BY Nodes DEF Grows, TypeInv
<1>2. nodes'[k + 1] = new
  BY DEF Grows
<1> HIDE DEF k
<1>3. \A n \in 1..k : /\ IsDevice(n)' <=> IsDevice(n)
                      /\ IsController(n)' <=> IsController(n)
                      /\ ~IsDevice(n) => Owner(n)' = Owner(n)
  BY <1>1, StaysKept
<1>4. \A n \in 1..k : nodes'[n].adr = IF n = d THEN q ELSE nodes[n].adr
  BY DEF Gives, k
<1>5. \A n \in 1..k : ~IsDevice(n) => nodes'[n].space = nodes[n].space
  BY <1>1 DEF Alike
<1>6. d # 0 => IsDevice(d) /\ nodes[d].adr = 0
  BY DEF Gives
<1>7. ASSUME NEW n \in 1..k, ~IsDevice(n)'
      PROVE  IF Owner(n)' = 0 THEN nodes'[n].adr = 0
             ELSE /\ nodes'[n].adr = nodes'[Owner(n)'].adr /\ nodes'[n].adr # 0
                  /\ nodes'[n].space = "ec" => nodes'[Owner(n)'].is = "device"
                                               /\ nodes'[Owner(n)'].names.hid = "controller"
  <2>1. ~IsDevice(n) /\ Owner(n)' = Owner(n) /\ n # d
    BY <1>1, <1>3, <1>6, <1>7
  <2>2. nodes'[n].adr = nodes[n].adr /\ nodes'[n].space = nodes[n].space
    BY <1>4, <1>5, <2>1
  <2>3. IF Owner(n) = 0 THEN nodes[n].adr = 0
        ELSE /\ nodes[n].adr = nodes[Owner(n)].adr /\ nodes[n].adr # 0
             /\ nodes[n].space = "ec" => IsController(Owner(n))
    BY <1>1, <2>1 DEF RegionInv
  <2>4. Owner(n) # 0 => Owner(n) \in 1..k /\ Owner(n) # d
    <3>1. nodes[n].parent \in 1..k /\ IsDevice(nodes[n].parent)
      <4>1. nodes[n].parent # 0 /\ nodes[n].parent < n /\ nodes[n].parent \in Nat
        BY <1>1, <2>1, Nodes DEF TreeInv
      <4>2. QED
        BY <1>1, <4>1 DEF TreeInv
    <3>2. Owner(n) # 0 => Owner(n) \in 1..k
      BY <1>1, <3>1, Found DEF Owner, k
    <3>3. QED
      BY <1>6, <2>3, <3>2, <1>1
  <2>5. Owner(n) # 0 => /\ nodes'[Owner(n)].adr = nodes[Owner(n)].adr
                        /\ IsController(Owner(n)) =>
                             nodes'[Owner(n)].is = "device"
                             /\ nodes'[Owner(n)].names.hid = "controller"
    <3>1. ASSUME Owner(n) # 0
          PROVE  /\ nodes'[Owner(n)].is = nodes[Owner(n)].is
                 /\ nodes'[Owner(n)].names = nodes[Owner(n)].names
      BY <1>1, <2>4, <3>1 DEF Alike
    <3>2. QED
      BY <1>4, <2>4, <3>1 DEF IsController, IsDevice
  <2>6. QED
    BY <2>1, <2>2, <2>3, <2>5
<1>8. ASSUME NEW n, n = k + 1, ~IsDevice(n)'
      PROVE  IF Owner(n)' = 0 THEN nodes'[n].adr = 0
             ELSE /\ nodes'[n].adr = nodes'[Owner(n)'].adr /\ nodes'[n].adr # 0
                  /\ nodes'[n].space = "ec" => nodes'[Owner(n)'].is = "device"
                                               /\ nodes'[Owner(n)'].names.hid = "controller"
  <2> DEFINE p == new.parent
             o == IF new.space = "pci" THEN OfAdr(p) ELSE OfHid(p)
  <2>1. nodes'[n] = new /\ new.is # "device"
    BY <1>2, <1>8 DEF IsDevice
  <2>2. /\ p \in 1..k
        /\ IF o = 0 THEN new.adr = 0
           ELSE /\ o \in 1..k /\ new.adr # 0
                /\ new.adr = IF o = d THEN q ELSE nodes[o].adr
                /\ new.space = "ec" => IsController(o)
    BY <2>1 DEF k
  <2>3. \A r \in 0..k : OfAdr(r)' = OfAdr(r) /\ OfHid(r)' = OfHid(r)
    BY <1>1, FoundAgain
  <2>4. \A r \in 0..k : nodes'[n].parent = r =>
          Owner(n)' = IF nodes'[n].space = "pci" THEN OfAdr(r)' ELSE OfHid(r)'
    BY <1>8 DEF Owner
  <2>5. p \in 0..k
    BY <1>1, <2>2
  <2>6. Owner(n)' = o
    <3> HIDE DEF p
    <3>1. nodes'[n].parent = p
      BY <2>1 DEF p
    <3>2. Owner(n)' = IF nodes'[n].space = "pci" THEN OfAdr(p) ELSE OfHid(p)
      BY <2>3, <2>4, <2>5, <3>1
    <3>3. QED
      BY <2>1, <3>2
  <2> HIDE DEF o
  <2>7. o # 0 => /\ nodes'[o].adr = IF o = d THEN q ELSE nodes[o].adr
                 /\ nodes'[o].is = nodes[o].is /\ nodes'[o].names = nodes[o].names
    BY <1>1, <1>4, <2>2 DEF Alike
  <2>8. QED
    BY <2>1, <2>2, <2>6, <2>7 DEF IsController, IsDevice
<1>9. \A n \in 1..(k + 1) : n \in 1..k \/ n = k + 1
  BY <1>1
<1>10. QED
  BY <1>1, <1>7, <1>8, <1>9 DEF RegionInv, IsController, IsDevice

(* A sequence with one more element at its head. *)
LEMMA AtHead ==
    ASSUME NEW T, NEW s \in Seq(T), NEW e \in T
    PROVE  /\ <<e>> \o s \in Seq(T) /\ DOMAIN (<<e>> \o s) = 1..(Len(s) + 1)
           /\ (<<e>> \o s)[1] = e
           /\ \A i \in 1..Len(s) : (<<e>> \o s)[i + 1] = s[i]
           /\ \A i \in 2..(Len(s) + 1) : (<<e>> \o s)[i] = s[i - 1]
<1>1. <<e>> \in Seq(T) /\ Len(<<e>>) = 1 /\ <<e>>[1] = e
  OBVIOUS
<1>2. <<e>> \o s \in Seq(T) /\ Len(<<e>> \o s) = 1 + Len(s) /\ Len(s) \in Nat
  OBVIOUS
<1>3. DOMAIN (<<e>> \o s) = 1..(Len(s) + 1)
  BY <1>2
<1>4. (<<e>> \o s)[1] = e
  OBVIOUS
<1>5. \A i \in 2..(Len(s) + 1) : (<<e>> \o s)[i] = s[i - 1]
  BY <1>1, <1>2
<1>6. \A i \in 1..Len(s) : (<<e>> \o s)[i + 1] = s[i]
  BY <1>1, <1>2
<1>7. QED
  BY <1>2, <1>3, <1>4, <1>5, <1>6

(* A controller that gets its pointer is entered in the list, once. *)
LEMMA ListGrows ==
    ASSUME TypeInv, TreeInv, ListInv, TypeInv', TreeInv', NEW new, Grows(new),
           new.is = "device" => new.adr = 0, NEW d, NEW q, Gives(d, q)
    PROVE  ListInv'
<1> DEFINE k == Len(nodes)
           e == [parent |-> d, ec |-> q]
           m == Len(ecs)
           grown == d # 0 /\ IsController(d)
<1>1. k \in Nat /\ DOMAIN nodes = 1..k /\ DOMAIN nodes' = 1..(k + 1) /\ Alike(k)
  BY Nodes DEF Grows, TypeInv
<1>2. nodes'[k + 1] = new
  BY DEF Grows
<1> HIDE DEF k
<1>3. \A n \in 1..k : IsController(n)' <=> IsController(n)
  BY <1>1, StaysKept
<1>4. \A n \in 1..k : nodes'[n].adr = IF n = d THEN q ELSE nodes[n].adr
  BY DEF Gives, k
<1>5. d # 0 => d \in 1..k /\ nodes[d].adr = 0 /\ q \in Nat \ {0}
  BY <1>1 DEF Gives
<1>6. m \in Nat /\ DOMAIN ecs = 1..m /\ ecs \in Seq([parent : Nat, ec : Nat])
  BY DEF TypeInv
<1>7. \A i \in 1..m : /\ ecs[i].parent \in 1..k /\ IsController(ecs[i].parent)
                      /\ nodes[ecs[i].parent].adr = ecs[i].ec /\ ecs[i].ec # 0
                      /\ ecs[i].parent # d
  BY <1>1, <1>5, <1>6 DEF ListInv
<1>8. grown => /\ DOMAIN ecs' = 1..(m + 1) /\ ecs'[1] = e
               /\ \A i \in 1..m : ecs'[i + 1] = ecs[i]
               /\ \A i \in 2..(m + 1) : ecs'[i] = ecs[i - 1]
  <2>1. SUFFICES ASSUME grown
                 PROVE  /\ DOMAIN ecs' = 1..(m + 1) /\ ecs'[1] = e
                        /\ \A i \in 1..m : ecs'[i + 1] = ecs[i]
                        /\ \A i \in 2..(m + 1) : ecs'[i] = ecs[i - 1]
    OBVIOUS
  <2>2. ecs' = <<e>> \o ecs
    BY <2>1 DEF Gives
  <2>3. e \in [parent : Nat, ec : Nat]
    BY <1>1, <1>5, <2>1
  <2> DEFINE T == [parent : Nat, ec : Nat]
  <2>4. ecs \in Seq(T) /\ e \in T
    BY <1>6, <2>3
  <2> HIDE DEF e, T
  <2>5. /\ DOMAIN (<<e>> \o ecs) = 1..(m + 1) /\ (<<e>> \o ecs)[1] = e
        /\ \A i \in 1..m : (<<e>> \o ecs)[i + 1] = ecs[i]
        /\ \A i \in 2..(m + 1) : (<<e>> \o ecs)[i] = ecs[i - 1]
    BY <2>4, AtHead
  <2>6. QED
    BY <2>2, <2>5
<1>9. ~grown => ecs' = ecs
  BY DEF Gives
<1> HIDE DEF e, m
<1>10. \A i \in DOMAIN ecs' : \/ grown /\ i = 1 /\ ecs'[i] = e
                              \/ \E j \in 1..m : /\ ecs'[i] = ecs[j]
                                                 /\ j = IF grown THEN i - 1 ELSE i
  <2>1. CASE grown
    <3> TAKE i \in DOMAIN ecs'
    <3>1. i = 1 \/ (i \in 2..(m + 1) /\ i - 1 \in 1..m)
      BY <1>6, <1>8, <2>1
    <3>2. QED
      BY <1>8, <2>1, <3>1
  <2>2. CASE ~grown
    BY <1>6, <1>9, <2>2
  <2>3. QED
    BY <2>1, <2>2
<1>11. ASSUME NEW i \in DOMAIN ecs'
       PROVE  /\ ecs'[i].parent \in DOMAIN nodes'
              /\ nodes'[ecs'[i].parent].is = "device"
              /\ nodes'[ecs'[i].parent].names.hid = "controller"
              /\ nodes'[ecs'[i].parent].adr = ecs'[i].ec
              /\ nodes'[ecs'[i].parent].adr # 0
  <2>1. CASE grown /\ i = 1 /\ ecs'[i] = e
    <3>1. ecs'[i].parent = d /\ ecs'[i].ec = q
      BY <2>1 DEF e
    <3>2. d \in 1..k /\ IsController(d)' /\ nodes'[d].adr = q /\ q # 0 /\ d \in DOMAIN nodes'
      BY <1>1, <1>3, <1>4, <1>5, <2>1
    <3>3. QED
      BY <3>1, <3>2 DEF IsController, IsDevice
  <2>2. ASSUME NEW j \in 1..m, ecs'[i] = ecs[j]
        PROVE  <1>11!2
    <3>1. /\ ecs[j].parent \in 1..k /\ IsController(ecs[j].parent)
          /\ nodes[ecs[j].parent].adr = ecs[j].ec /\ ecs[j].ec # 0 /\ ecs[j].parent # d
      BY <1>7
    <3> DEFINE n == ecs[j].parent
    <3>2. n \in 1..k /\ nodes'[n].is = nodes[n].is /\ nodes'[n].names = nodes[n].names
          /\ nodes'[n].adr = nodes[n].adr /\ n \in DOMAIN nodes'
      BY <1>1, <1>4, <3>1 DEF Alike
    <3>3. QED
      BY <2>2, <3>1, <3>2 DEF IsController, IsDevice
  <2>3. QED
    BY <1>10, <2>1, <2>2
<1>12. ASSUME NEW i \in DOMAIN ecs', NEW j \in DOMAIN ecs', ecs'[i].parent = ecs'[j].parent
       PROVE  i = j
  <2>1. \A a, b \in 1..m : ecs[a].parent = ecs[b].parent => a = b
    BY <1>6 DEF ListInv
  <2>2. \A a \in 1..m : ecs[a].parent # d
    BY <1>7
  <2>3. e.parent = d
    BY DEF e
  <2>4. i \in Nat /\ j \in Nat
    BY <1>6, <1>8, <1>9
  <2>5. CASE grown /\ i = 1 /\ ecs'[i] = e
    <3>1. ecs'[j].parent = d
      BY <1>12, <2>3, <2>5
    <3>2. grown /\ j = 1 /\ ecs'[j] = e
      BY <1>10, <2>2, <3>1
    <3>3. QED
      BY <2>5, <3>2
  <2>6. ASSUME NEW a \in 1..m, ecs'[i] = ecs[a], a = IF grown THEN i - 1 ELSE i
        PROVE  i = j
    <3>1. ecs'[j].parent # d
      BY <1>12, <2>2, <2>6
    <3>2. PICK b \in 1..m : ecs'[j] = ecs[b] /\ b = IF grown THEN j - 1 ELSE j
      BY <1>10, <2>3, <3>1
    <3>3. a = b
      BY <1>12, <2>1, <2>6, <3>2
    <3>4. QED
      BY <2>4, <2>6, <3>2, <3>3
  <2>7. QED
    BY <1>10, <2>5, <2>6
<1>13. ASSUME NEW n \in DOMAIN nodes', IsController(n)', nodes'[n].adr # 0
       PROVE  \E i \in DOMAIN ecs' : ecs'[i] = [parent |-> n, ec |-> nodes'[n].adr]
  <2>1. n \in 1..k
    BY <1>1, <1>2, <1>13 DEF IsController, IsDevice
  <2>2. IsController(n)
    BY <1>3, <1>13, <2>1
  <2>3. CASE n = d
    <3>1. grown /\ nodes'[n].adr = q
      BY <1>1, <1>4, <2>1, <2>2, <2>3
    <3>2. ecs'[1] = e /\ 1 \in DOMAIN ecs'
      BY <1>6, <1>8, <3>1
    <3>3. QED
      BY <2>3, <3>1, <3>2 DEF e
  <2>4. CASE n # d
    <3>1. nodes'[n].adr = nodes[n].adr
      BY <1>4, <2>1, <2>4
    <3>2. PICK i \in 1..m : ecs[i] = [parent |-> n, ec |-> nodes[n].adr]
      BY <1>1, <1>6, <1>13, <2>1, <2>2, <3>1 DEF ListInv
    <3>3. \E j \in DOMAIN ecs' : ecs'[j] = ecs[i]
      <4>1. CASE grown
        <5>1. i + 1 \in DOMAIN ecs' /\ ecs'[i + 1] = ecs[i]
          BY <1>6, <1>8, <4>1
        <5>2. QED
          BY <5>1
      <4>2. CASE ~grown
        BY <1>6, <1>9, <4>2
      <4>3. QED
        BY <4>1, <4>2
    <3>4. QED
      BY <3>1, <3>2, <3>3
  <2>5. QED
    BY <2>3, <2>4
<1>14. QED
  BY <1>11, <1>12, <1>13 DEF ListInv, IsController, IsDevice

-----------------------------------------------------------------------------
(* The actions. *)

(* Nodes with one more at their end. *)
LEMMA Appended ==
    ASSUME NEW s \in Seq(Node), NEW e \in Node, NEW t, t = Append(s, e)
    PROVE  /\ t \in Seq(Node) /\ Len(t) = Len(s) + 1 /\ t[Len(s) + 1] = e
           /\ \A n \in 1..Len(s) : t[n] = s[n]
OBVIOUS

(* A device or a region. *)
LEMMA NewNodes ==
    /\ \A p \in Nat, names \in NameSets : Device(p, names) \in Node
    /\ \A p \in Nat, space \in Space, q \in Nat : Region(p, space, q) \in Node
BY DEF Device, Region, Node

(* sabi_def_device: nothing is kept yet. *)
LEMMA DeviceDefined ==
    ASSUME Inv, NEW p \in 0..Len(nodes), NEW names \in NameSets, DefDevice(p, names)
    PROVE  Inv'
<1> DEFINE k == Len(nodes)
           new == Device(p, names)
<1>1. k \in Nat /\ DOMAIN nodes = 1..k /\ nodes \in Seq(Node) /\ p \in Nat
  BY Nodes DEF Inv, TypeInv
<1>2. new \in Node
  BY <1>1, NewNodes
<1>3. nodes' = Append(nodes, new) /\ UNCHANGED <<calls, heap, ecs>>
  BY DEF DefDevice
<1>4. /\ new.is = "device" /\ new.parent = p /\ new.names = names /\ new.adr = 0
  BY DEF Device
<1> HIDE DEF new
<1>5. /\ nodes' \in Seq(Node) /\ Len(nodes') = k + 1 /\ nodes'[k + 1] = new
      /\ \A n \in 1..k : nodes'[n] = nodes[n]
  BY <1>1, <1>2, <1>3, Appended
<1>6. TypeInv'
  BY <1>3, <1>5 DEF Inv, TypeInv
<1>7. Grows(new) /\ Gives(0, 0)
  <2>1. k =< Len(nodes')
    BY <1>1, <1>5
  <2>2. Alike(k)
    BY <1>1, <1>5, <2>1 DEF Alike
  <2>3. 0 \notin 1..k
    BY <1>1
  <2>4. QED
    BY <1>3, <1>5, <2>2, <2>3 DEF Grows, Gives
<1>8. p # 0 => IsDevice(p)
  BY DEF DefDevice, Devices, IsDevice
<1>9. /\ names.BBN # 0 => p = 0
      /\ names.hid = "controller" => calls = <<>>
  BY DEF DefDevice
<1>10. TreeInv' /\ CallsInv'
  BY <1>4, <1>6, <1>7, <1>8, <1>9, TreeGrows DEF Inv
<1>11. KeepInv' /\ RegionInv' /\ ListInv'
  BY <1>4, <1>6, <1>7, <1>10, KeepGrows, RegionGrows, ListGrows DEF Inv
<1>12. QED
  BY <1>6, <1>10, <1>11 DEF Inv

(* Nodes with a pointer for one device: *)
Points(d, q, s) == s = [nodes EXCEPT ![d].adr = q]
OnlyPointed(d, q, s) ==
    /\ s \in Seq(Node) /\ Len(s) = Len(nodes)
    /\ \A n \in 1..Len(nodes) :
         /\ s[n].is = nodes[n].is /\ s[n].parent = nodes[n].parent
         /\ s[n].names = nodes[n].names
         /\ ~IsDevice(n) => s[n].space = nodes[n].space
         /\ s[n].adr = IF n = d THEN q ELSE nodes[n].adr

(* nothing else of them changes. *)
LEMMA Pointed ==
    ASSUME TypeInv, NEW d \in DOMAIN nodes, IsDevice(d), NEW q \in Nat,
           NEW s, Points(d, q, s)
    PROVE  OnlyPointed(d, q, s)
<1>1. /\ nodes \in Seq(Node) /\ DOMAIN nodes = 1..Len(nodes) /\ Len(nodes) \in Nat
  BY Nodes DEF TypeInv
<1> DEFINE new == [nodes[d] EXCEPT !.adr = q]
<1>2. nodes[d] \in [is : {"device"}, parent : Nat, names : NameSets, adr : Nat]
  <2>1. nodes[d] \in Node /\ nodes[d].is = "device"
    BY <1>1, Nodes DEF IsDevice
  <2>2. QED
    BY <2>1 DEF Node
<1>3. /\ new \in Node /\ new.is = nodes[d].is /\ new.parent = nodes[d].parent
      /\ new.names = nodes[d].names /\ new.adr = q
  BY <1>2 DEF Node
<1>4. s = [nodes EXCEPT ![d] = new]
  BY DEF Points
<1> HIDE DEF new
<1>5. s \in Seq(Node) /\ Len(s) = Len(nodes) /\ s[d] = new
      /\ \A n \in 1..Len(nodes) : n # d => s[n] = nodes[n]
  BY <1>1, <1>3, <1>4
<1>6. QED
  BY <1>1, <1>3, <1>5 DEF OnlyPointed

(* The resolvers find the device that keeps the pointer, and what they     *)
(* allocate is what it would keep, wherever below it the region is.        *)
Resolved(p, space) == IF space = "pci" THEN OfAdr(p) ELSE OfHid(p)

(* EcResolve finds a controller because firmware has such regions under    *)
(* one only.                                                               *)
LEMMA ResolvesTo ==
    ASSUME Inv, NEW p \in DOMAIN nodes, IsDevice(p), NEW space \in Space,
           space = "ec" => OfHid(p) # 0 /\ nodes[OfHid(p)].names.hid = "controller"
    PROVE  LET d == Resolved(p, space)
           IN  IF d = 0 THEN space = "pci" /\ Resolve(p, space) = NotResolved
               ELSE /\ d \in DOMAIN nodes /\ IsDevice(d)
                    /\ Resolve(p, space) = [keeper |-> d, new |-> Kept(d)]
                    /\ nodes[d].names.ADR = 0 => IsController(d)
                    /\ space = "ec" => IsController(d)
                    /\ Kept(d).is = "ec" <=> IsController(d)
<1>1. TypeInv /\ TreeInv /\ p \in 0..Len(nodes) /\ p # 0
  BY Nodes DEF Inv
<1>2. /\ OfAdr(p) # 0 => /\ OfAdr(p) \in DOMAIN nodes /\ IsDevice(OfAdr(p))
                         /\ nodes[OfAdr(p)].names.ADR # 0 /\ BusOf(p) = BusOf(OfAdr(p))
      /\ OfHid(p) # 0 => OfHid(p) \in DOMAIN nodes /\ IsDevice(OfHid(p))
  BY <1>1, Found
<1>3. CASE space = "pci"
  <2> DEFINE d == OfAdr(p)
  <2>1. Resolve(p, space) = IF d = 0 THEN NotResolved
                            ELSE [keeper |-> d, new |-> PciAddress(p, d)]
    BY <1>3 DEF Resolve, PciResolveAddress
  <2>2. d # 0 => PciAddress(p, d) = Kept(d) /\ Kept(d).is = "pci"
    BY <1>2 DEF PciAddress, Kept
  <2>3. d # 0 => ~IsController(d)
    BY <1>1, <1>2, NamesOf
  <2>4. Resolved(p, space) = d
    BY <1>3 DEF Resolved
  <2> HIDE DEF d
  <2>5. d # 0 => d \in DOMAIN nodes /\ IsDevice(d) /\ nodes[d].names.ADR # 0
    BY <1>2 DEF d
  <2>6. QED
    BY <1>3, <2>1, <2>2, <2>3, <2>4, <2>5
<1>4. CASE space = "ec"
  <2> DEFINE d == OfHid(p)
  <2>1. d # 0 /\ d \in DOMAIN nodes /\ IsController(d)
    BY <1>2, <1>4 DEF IsController
  <2>2. nodes[d].names.hid = "controller" /\ nodes[d].names.ADR = 0
    BY <1>1, <2>1, NamesOf DEF IsController
  <2>3. Resolve(p, space) = [keeper |-> d, new |-> ControllerOf(d)]
    BY <1>4, <2>1, <2>2 DEF Resolve, EcResolve
  <2>4. Kept(d) = ControllerOf(d) /\ Kept(d).is = "ec"
    BY <2>2 DEF Kept, ControllerOf
  <2>5. Resolved(p, space) = d
    BY <1>4 DEF Resolved
  <2> HIDE DEF d
  <2>6. IsDevice(d)
    BY <2>1 DEF IsController
  <2>7. QED
    BY <1>4, <2>1, <2>3, <2>4, <2>5, <2>6
<1>5. QED
  BY <1>3, <1>4 DEF Space

(* sabi_def_op_region: the device keeps what it has, or gets a pointer.    *)
LEMMA RegionDefined ==
    ASSUME Inv, NEW p \in 1..Len(nodes), NEW space \in Space, DefOpRegion(p, space)
    PROVE  Inv'
<1> DEFINE k == Len(nodes)
           d == Resolved(p, space)
           kept == IF d = 0 THEN 0 ELSE nodes[d].adr
           q == IF d = 0 THEN 0 ELSE IF kept # 0 THEN kept ELSE FreshPointer
           new == Region(p, space, q)
           g == IF d # 0 /\ kept = 0 THEN d ELSE 0
<1>1. k \in Nat /\ DOMAIN nodes = 1..k /\ nodes \in Seq(Node) /\ p \in Nat
  BY Nodes DEF Inv, TypeInv
<1>2. IsDevice(p)
  BY DEF DefOpRegion, Devices, IsDevice
<1>3. IF d = 0 THEN space = "pci" /\ Resolve(p, space) = NotResolved
      ELSE /\ d \in DOMAIN nodes /\ IsDevice(d)
           /\ Resolve(p, space) = [keeper |-> d, new |-> Kept(d)]
           /\ nodes[d].names.ADR = 0 => IsController(d)
           /\ space = "ec" => IsController(d)
           /\ Kept(d).is = "ec" <=> IsController(d)
  BY <1>1, <1>2, ResolvesTo DEF DefOpRegion
<1> HIDE DEF d
<1>4. Resolve(p, space).keeper = d /\ (d # 0 => Resolve(p, space).new = Kept(d))
  BY <1>3 DEF NotResolved
<1>5. d = 0 => Resolve(p, space).new.is # "ec"
  BY <1>3 DEF NotResolved
<1>6. /\ nodes' = Append(IF d = 0 THEN nodes ELSE [nodes EXCEPT ![d].adr = q], new)
      /\ heap' = IF q = kept THEN heap
                 ELSE [r \in DOMAIN heap \cup {q} |->
                         IF r = q THEN Resolve(p, space).new ELSE heap[r]]
      /\ ecs' = Listed(Resolve(p, space), q)
      /\ calls' = calls
  BY <1>4 DEF DefOpRegion
<1>7. FreshPointer \in Nat \ {0} /\ FreshPointer \notin DOMAIN heap
  BY Fresh DEF Inv
<1>8. kept \in Nat /\ q \in Nat /\ (d # 0 => q # 0)
  <2>1. d # 0 => nodes[d].adr \in Nat
    BY <1>3, Nodes DEF Inv
  <2>2. QED
    BY <1>7, <2>1
<1>9. g = 0 => q = kept
  BY <1>8
<1>10. g # 0 => /\ g = d /\ d # 0 /\ kept = 0 /\ nodes[d].adr = 0
                /\ q \in Nat \ {0} /\ q \notin DOMAIN heap /\ q # kept
  BY <1>7
<1> DEFINE s == IF d = 0 THEN nodes ELSE [nodes EXCEPT ![d].adr = q]
<1>11. /\ s \in Seq(Node) /\ Len(s) = k
       /\ \A n \in 1..k : /\ s[n].is = nodes[n].is /\ s[n].parent = nodes[n].parent
                          /\ s[n].names = nodes[n].names
                          /\ ~IsDevice(n) => s[n].space = nodes[n].space
                          /\ s[n].adr = IF n = g THEN q ELSE nodes[n].adr
  <2>1. CASE d = 0
    <3>1. s = nodes /\ g = 0 /\ 0 \notin 1..k
      BY <1>1, <2>1
    <3> HIDE DEF s, g, q
    <3>2. QED
      BY <1>1, <3>1
  <2>2. CASE d # 0
    <3>1. Points(d, q, s)
      BY <2>2 DEF Points
    <3>2. d \in DOMAIN nodes /\ IsDevice(d) /\ TypeInv
      BY <1>3, <2>2 DEF Inv
    <3>3. g = 0 => q = nodes[d].adr
      BY <1>9, <2>2
    <3>4. 0 \notin 1..k
      BY <1>1
    <3>5. (g = 0 \/ g = d)
      BY <1>10
    <3> HIDE DEF s, q, g
    <3>6. q \in Nat
      BY <1>8
    <3>7. OnlyPointed(d, q, s)
      BY <3>1, <3>2, <3>6, Pointed
    <3>8. /\ s \in Seq(Node) /\ Len(s) = k
          /\ \A n \in 1..k : s[n].adr = IF n = d THEN q ELSE nodes[n].adr
      BY <3>7 DEF OnlyPointed
    <3>9. \A n \in 1..k :
            /\ s[n].is = nodes[n].is /\ s[n].parent = nodes[n].parent
            /\ s[n].names = nodes[n].names
            /\ ~IsDevice(n) => s[n].space = nodes[n].space
      BY <3>7 DEF OnlyPointed
    <3>10. \A n \in 1..k : s[n].adr = IF n = g THEN q ELSE nodes[n].adr
      BY <3>3, <3>4, <3>5, <3>8
    <3>11. QED
      BY <3>8, <3>9, <3>10
  <2>3. QED
    BY <2>1, <2>2
<1>12. nodes' = Append(s, new)
  BY <1>6
<1>13. /\ new \in Node /\ new.is = "region" /\ new.parent = p /\ new.space = space
       /\ new.adr = q
  <2>1. new \in Node
    BY <1>1, <1>8, NewNodes
  <2>2. QED
    BY <2>1 DEF Region
<1> HIDE DEF s, new, q, g, kept
<1>14. /\ nodes' \in Seq(Node) /\ Len(nodes') = k + 1 /\ nodes'[k + 1] = new
       /\ \A n \in 1..k : nodes'[n] = s[n]
  BY <1>11, <1>12, <1>13, Appended
<1>15. g # 0 => heap' = [r \in DOMAIN heap \cup {q} |-> IF r = q THEN Kept(d) ELSE heap[r]]
  BY <1>4, <1>6, <1>10
<1>16. g = 0 => heap' = heap
  BY <1>6, <1>9
<1>17. ecs' = IF g # 0 /\ IsController(g) THEN <<[parent |-> g, ec |-> q]>> \o ecs ELSE ecs
  <2>1. CASE d = 0
    <3>1. ecs' = ecs
      BY <1>5, <1>6, <2>1 DEF Listed
    <3>2. QED
      BY <1>10, <2>1, <3>1
  <2>2. CASE d # 0
    <3>1. Resolve(p, space).new.is = "ec" <=> IsController(d)
      BY <1>3, <2>2, <1>4
    <3>2. Resolve(p, space).keeper = d /\ (nodes[d].adr = 0 <=> g = d)
      BY <1>4, <2>2 DEF g, kept
    <3>3. g = 0 \/ g = d
      BY DEF g
    <3>4. QED
      BY <1>6, <2>2, <3>1, <3>2, <3>3 DEF Listed
  <2>3. QED
    BY <2>1, <2>2
<1>18. Gives(g, q)
  <2>1. \A n \in 1..k : nodes'[n].adr = IF n = g THEN q ELSE nodes[n].adr
    BY <1>11, <1>14
  <2>2. g = 0 => heap' = heap /\ ecs' = ecs
    BY <1>16, <1>17
  <2>3. g # 0 => /\ g \in DOMAIN nodes /\ IsDevice(g) /\ nodes[g].adr = 0
                 /\ nodes[g].names.ADR = 0 => IsController(g)
                 /\ q \in Nat \ {0} /\ q \notin DOMAIN heap
                 /\ DOMAIN heap' = DOMAIN heap \cup {q} /\ heap'[q] = Kept(g)
                 /\ \A r \in DOMAIN heap : heap'[r] = heap[r]
    BY <1>3, <1>10, <1>15
  <2>4. QED
    BY <1>17, <2>1, <2>2, <2>3 DEF Gives
<1>19. Grows(new)
  <2>1. Alike(k)
    <3>1. k =< Len(nodes')
      BY <1>1, <1>14
    <3>2. QED
      BY <1>1, <1>11, <1>14, <3>1 DEF Alike
  <2>2. QED
    BY <1>6, <1>14, <2>1 DEF Grows
<1>20. TypeInv'
  <2>1. IsFiniteSet(DOMAIN heap') /\ DOMAIN heap' \subseteq Nat \ {0}
    <3>1. CASE g = 0
      BY <1>16, <3>1 DEF Inv, TypeInv
    <3>2. CASE g # 0
      <4>1. DOMAIN heap' = DOMAIN heap \cup {q}
        BY <1>15, <3>2
      <4>2. IsFiniteSet(DOMAIN heap) /\ DOMAIN heap \subseteq Nat \ {0}
        BY DEF Inv, TypeInv
      <4>3. IsFiniteSet(DOMAIN heap \cup {q})
        BY <4>2, FS_AddElement
      <4>4. QED
        BY <1>10, <3>2, <4>1, <4>2, <4>3
    <3>3. QED
      BY <3>1, <3>2
  <2>2. ecs' \in Seq([parent : Nat, ec : Nat])
    <3>1. ecs \in Seq([parent : Nat, ec : Nat])
      BY DEF Inv, TypeInv
    <3>2. g \in Nat
      BY <1>1, <1>3, <1>10
    <3>3. [parent |-> g, ec |-> q] \in [parent : Nat, ec : Nat]
      BY <1>8, <3>2
    <3>4. <<[parent |-> g, ec |-> q]>> \o ecs \in Seq([parent : Nat, ec : Nat])
      BY <3>1, <3>3
    <3>5. QED
      BY <1>17, <3>1, <3>4
  <2>3. calls' \in Seq(Nat)
    BY <1>6 DEF Inv, TypeInv
  <2>4. QED
    BY <1>14, <2>1, <2>2, <2>3 DEF TypeInv
<1>21. TreeInv' /\ CallsInv'
  <2>1. /\ new.parent \in 0..k /\ new.parent # 0 /\ IsDevice(new.parent)
        /\ new.is # "device"
    BY <1>1, <1>2, <1>13
  <2>2. QED
    BY <1>19, <1>20, <2>1, TreeGrows DEF Inv
<1>22. KeepInv' /\ ListInv'
  BY <1>13, <1>18, <1>19, <1>20, <1>21, KeepGrows, ListGrows DEF Inv
<1>23. RegionInv'
  <2>1. d = IF new.space = "pci" THEN OfAdr(new.parent) ELSE OfHid(new.parent)
    BY <1>13 DEF d, Resolved
  <2>2. /\ new.parent \in 1..k
        /\ IF d = 0 THEN new.adr = 0
           ELSE /\ d \in 1..k /\ new.adr # 0
                /\ new.adr = IF d = g THEN q ELSE nodes[d].adr
                /\ new.space = "ec" => IsController(d)
    <3>1. d = 0 => q = 0
      BY DEF q
    <3>2. d # 0 /\ d # g => q = nodes[d].adr
      BY DEF g, q, kept
    <3>3. QED
      BY <1>1, <1>3, <1>8, <1>13, <3>1, <3>2
  <2>3. QED
    BY <1>18, <1>19, <1>20, <1>21, <2>1, <2>2, RegionGrows DEF Inv
<1>24. QED
  BY <1>20, <1>21, <1>22, <1>23 DEF Inv

(* A step that leaves the first k nodes, and no controller is behind them. *)
Cuts(k) ==
    /\ k \in 0..Len(nodes) /\ Len(nodes') = k /\ ecs' = ecs
    /\ \A n \in 1..k : nodes'[n] = nodes[n]
    /\ \A n \in DOMAIN nodes : IsController(n) => n =< k
    /\ DOMAIN heap' = DOMAIN heap \ Freed(k)
    /\ \A q \in DOMAIN heap' : heap'[q] = heap[q]

(* What is freed is what the devices behind them keep, and these only. *)
LEMMA CutTo ==
    ASSUME Inv, TypeInv', NEW k, Cuts(k)
    PROVE  TreeInv' /\ KeepInv' /\ RegionInv' /\ ListInv'
<1>1. /\ k \in Nat /\ DOMAIN nodes = 1..Len(nodes) /\ k =< Len(nodes) /\ Len(nodes) \in Nat
      /\ DOMAIN nodes' = 1..k /\ 1..k \subseteq DOMAIN nodes
  <2>1. Len(nodes) \in Nat /\ DOMAIN nodes = 1..Len(nodes) /\ DOMAIN nodes' = 1..Len(nodes')
    BY Nodes DEF Inv, TypeInv
  <2>2. k \in 0..Len(nodes) /\ Len(nodes') = k
    BY DEF Cuts
  <2>3. QED
    BY <2>1, <2>2
<1>2. \A n \in 1..k : nodes'[n] = nodes[n]
  BY DEF Cuts
<1>3. Alike(k)
  BY <1>1, <1>2 DEF Alike, Cuts
<1>4. TreeInv'
  <2>1. ASSUME NEW n \in 1..k
        PROVE  /\ nodes'[n].parent < n
               /\ nodes'[n].parent # 0 => nodes'[nodes'[n].parent].is = "device"
               /\ IF nodes'[n].is = "device" THEN nodes'[n].names.BBN # 0 => nodes'[n].parent = 0
                  ELSE nodes'[n].parent # 0
    <3>1. /\ nodes[n].parent \in Nat /\ nodes[n].parent < n
          /\ nodes[n].parent # 0 => nodes[nodes[n].parent].is = "device"
          /\ IF nodes[n].is = "device" THEN nodes[n].names.BBN # 0 => nodes[n].parent = 0
             ELSE nodes[n].parent # 0
      BY <1>1, Nodes DEF Inv, TreeInv, IsDevice
    <3>2. nodes[n].parent # 0 => nodes[n].parent \in 1..k
      BY <1>1, <3>1
    <3>3. nodes'[n] = nodes[n]
      BY <1>2
    <3>4. nodes[n].parent # 0 => nodes'[nodes[n].parent] = nodes[nodes[n].parent]
      BY <1>2, <3>2
    <3>5. QED
      BY <3>1, <3>3, <3>4
  <2>2. QED
    BY <1>1, <2>1 DEF TreeInv, IsDevice
<1>5. \A n \in 1..k : /\ IsDevice(n)' <=> IsDevice(n)
                      /\ IsController(n)' <=> IsController(n)
                      /\ Kept(n)' = Kept(n)
                      /\ ~IsDevice(n) => Owner(n)' = Owner(n)
  BY <1>3, <1>4, StaysKept DEF Inv
<1>6. \A q \in Freed(k) : \E m \in DOMAIN nodes : IsDevice(m) /\ m > k /\ q = nodes[m].adr
  BY DEF Freed, Devices, IsDevice
<1>7. ASSUME NEW n \in 1..k, IsDevice(n), nodes[n].adr # 0
      PROVE  nodes[n].adr \in DOMAIN heap' /\ heap'[nodes[n].adr] = heap[nodes[n].adr]
  <2>1. n \in DOMAIN nodes /\ nodes[n].adr \in DOMAIN heap
    BY <1>1, <1>7 DEF Inv, KeepInv
  <2>2. nodes[n].adr \notin Freed(k)
    <3>1. SUFFICES ASSUME nodes[n].adr \in Freed(k)
                   PROVE  FALSE
      OBVIOUS
    <3>2. PICK m \in DOMAIN nodes : IsDevice(m) /\ m > k /\ nodes[n].adr = nodes[m].adr
      BY <1>6, <3>1
    <3>3. n = m
      BY <1>7, <2>1, <3>2 DEF Inv, KeepInv
    <3>4. QED
      BY <1>1, <3>2, <3>3
  <2>3. QED
    BY <2>1, <2>2 DEF Cuts
<1>8. KeepInv'
  <2>1. ASSUME NEW n \in DOMAIN nodes', IsDevice(n)', nodes'[n].adr # 0
        PROVE  /\ nodes'[n].adr \in DOMAIN heap' /\ heap'[nodes'[n].adr] = Kept(n)'
               /\ nodes'[n].names.ADR = 0 => IsController(n)'
    <3>1. n \in 1..k /\ nodes'[n] = nodes[n] /\ n \in DOMAIN nodes /\ IsDevice(n)
      BY <1>1, <1>2, <1>5, <2>1
    <3>2. /\ heap[nodes[n].adr] = Kept(n)
          /\ nodes[n].names.ADR = 0 => IsController(n)
      BY <2>1, <3>1 DEF Inv, KeepInv
    <3>3. nodes[n].adr \in DOMAIN heap' /\ heap'[nodes[n].adr] = heap[nodes[n].adr]
      BY <1>7, <2>1, <3>1
    <3>4. QED
      BY <1>5, <3>1, <3>2, <3>3
  <2>2. ASSUME NEW q \in DOMAIN heap'
        PROVE  \E n \in DOMAIN nodes' : IsDevice(n)' /\ nodes'[n].adr = q
    <3>1. q \in DOMAIN heap /\ q \notin Freed(k)
      BY DEF Cuts
    <3>2. PICK n \in DOMAIN nodes : IsDevice(n) /\ nodes[n].adr = q
      BY <3>1 DEF Inv, KeepInv
    <3>3. ~(n > k)
      BY <3>1, <3>2 DEF Freed, Devices, IsDevice
    <3>4. n \in 1..k
      BY <1>1, <3>2, <3>3
    <3>5. nodes'[n].adr = q /\ IsDevice(n)' /\ n \in DOMAIN nodes'
      BY <1>1, <1>2, <1>5, <3>2, <3>4
    <3>6. QED
      BY <3>5
  <2>3. ASSUME NEW n \in DOMAIN nodes', NEW e \in DOMAIN nodes', IsDevice(n)', IsDevice(e)',
               nodes'[n].adr = nodes'[e].adr, nodes'[n].adr # 0
        PROVE  n = e
    <3>1. n \in 1..k /\ e \in 1..k /\ nodes'[n] = nodes[n] /\ nodes'[e] = nodes[e]
      BY <1>1, <1>2
    <3>2. IsDevice(n) /\ IsDevice(e) /\ n \in DOMAIN nodes /\ e \in DOMAIN nodes
      BY <1>1, <1>5, <2>3, <3>1
    <3>3. QED
      BY <2>3, <3>1, <3>2 DEF Inv, KeepInv
  <2>4. QED
    BY <2>1, <2>2, <2>3 DEF KeepInv
<1>9. RegionInv'
  <2>1. ASSUME NEW n \in 1..k, ~IsDevice(n)'
        PROVE  IF Owner(n)' = 0 THEN nodes'[n].adr = 0
               ELSE /\ nodes'[n].adr = nodes'[Owner(n)'].adr /\ nodes'[n].adr # 0
                    /\ nodes'[n].space = "ec" => nodes'[Owner(n)'].is = "device"
                                                 /\ nodes'[Owner(n)'].names.hid = "controller"
    <3>1. ~IsDevice(n) /\ Owner(n)' = Owner(n) /\ nodes'[n] = nodes[n] /\ n \in DOMAIN nodes
      BY <1>1, <1>2, <1>5, <2>1
    <3>2. IF Owner(n) = 0 THEN nodes[n].adr = 0
          ELSE /\ nodes[n].adr = nodes[Owner(n)].adr /\ nodes[n].adr # 0
               /\ nodes[n].space = "ec" => IsController(Owner(n))
      BY <3>1 DEF Inv, RegionInv
    <3>3. Owner(n) # 0 => Owner(n) \in 1..k
      <4>1. nodes[n].parent # 0 /\ nodes[n].parent < n /\ nodes[n].parent \in Nat
            /\ IsDevice(nodes[n].parent)
        BY <3>1, Nodes DEF Inv, TreeInv
      <4>2. nodes[n].parent \in 0..Len(nodes) /\ nodes[n].parent =< k
        BY <1>1, <4>1
      <4>3. Owner(n) \in 0..nodes[n].parent
        BY <4>1, <4>2, Found DEF Owner, Inv
      <4>4. QED
        BY <1>1, <4>1, <4>2, <4>3
    <3>4. Owner(n) # 0 => nodes'[Owner(n)] = nodes[Owner(n)]
      BY <1>2, <3>3
    <3>5. QED
      BY <3>1, <3>2, <3>4 DEF IsController, IsDevice
  <2>2. QED
    BY <1>1, <2>1 DEF RegionInv, IsController, IsDevice
<1>10. ListInv'
  <2>1. ecs' = ecs
    BY DEF Cuts
  <2>2. ASSUME NEW i \in DOMAIN ecs
        PROVE  LET n == ecs[i].parent
               IN  /\ n \in DOMAIN nodes' /\ nodes'[n].is = "device"
                   /\ nodes'[n].names.hid = "controller"
                   /\ nodes'[n].adr = ecs[i].ec /\ nodes'[n].adr # 0
    <3> DEFINE n == ecs[i].parent
    <3>1. n \in DOMAIN nodes /\ IsController(n) /\ nodes[n].adr = ecs[i].ec /\ nodes[n].adr # 0
      BY DEF Inv, ListInv
    <3>2. n =< k
      BY <3>1 DEF Cuts
    <3>3. n \in 1..k
      BY <1>1, <3>1, <3>2
    <3>4. nodes'[n] = nodes[n]
      BY <1>2, <3>3
    <3>5. QED
      BY <1>1, <3>1, <3>3, <3>4 DEF IsController, IsDevice
  <2>3. ASSUME NEW n \in DOMAIN nodes', IsController(n)', nodes'[n].adr # 0
        PROVE  \E i \in DOMAIN ecs : ecs[i] = [parent |-> n, ec |-> nodes'[n].adr]
    <3>1. n \in DOMAIN nodes /\ nodes'[n] = nodes[n] /\ IsController(n)
      BY <1>1, <1>2, <1>5, <2>3
    <3>2. QED
      BY <2>3, <3>1 DEF Inv, ListInv
  <2>4. \A i, j \in DOMAIN ecs : ecs[i].parent = ecs[j].parent => i = j
    BY DEF Inv, ListInv
  <2>5. QED
    BY <2>1, <2>2, <2>3, <2>4 DEF ListInv, IsController, IsDevice
<1>11. QED
  BY <1>4, <1>8, <1>9, <1>10

(* Where nodes stay, and what is allocated, nothing is cut. *)
LEMMA NothingCut ==
    ASSUME Inv, UNCHANGED <<nodes, heap, ecs>>, calls' \in Seq(Nat)
    PROVE  TypeInv' /\ TreeInv' /\ KeepInv' /\ RegionInv' /\ ListInv'
<1>1. TypeInv'
  BY DEF Inv, TypeInv
<1>2. Len(nodes) \in Nat /\ DOMAIN nodes = 1..Len(nodes)
  BY Nodes DEF Inv
<1>3. Freed(Len(nodes)) = {}
  BY <1>2 DEF Freed, Devices
<1>4. Cuts(Len(nodes))
  BY <1>2, <1>3 DEF Cuts
<1>5. QED
  BY <1>1, <1>4, CutTo

(* A method begins: all controllers are older. *)
LEMMA MethodCalled ==
    ASSUME Inv, CallMethod
    PROVE  Inv'
<1> DEFINE k == Len(nodes)
           c == Len(calls)
<1>1. calls' = Append(calls, k) /\ UNCHANGED <<nodes, heap, ecs>>
  BY DEF CallMethod
<1>2. calls \in Seq(Nat) /\ k \in Nat /\ DOMAIN nodes = 1..k /\ c \in Nat
      /\ DOMAIN calls = 1..c
  BY Nodes DEF Inv, TypeInv
<1> HIDE DEF k
<1>3. /\ calls' \in Seq(Nat) /\ DOMAIN calls' = 1..(c + 1)
      /\ \A i \in 1..c : calls'[i] = calls[i]
      /\ calls'[c + 1] = k
  BY <1>1, <1>2
<1>4. TypeInv' /\ TreeInv' /\ KeepInv' /\ RegionInv' /\ ListInv'
  BY <1>1, <1>3, NothingCut
<1> HIDE DEF c
<1>5. \A i \in 1..c : calls[i] \in Nat /\ calls[i] =< k
  BY <1>2 DEF Inv, CallsInv, k
<1>6. \A i \in 1..(c + 1) : i \in 1..c \/ i = c + 1
  BY <1>2
<1>7. \A i, j \in 1..(c + 1) : i =< j => calls'[i] =< calls'[j]
  <2>1. ASSUME NEW i \in 1..(c + 1), NEW j \in 1..(c + 1), i =< j
        PROVE  calls'[i] =< calls'[j]
    <3>1. CASE j \in 1..c
      <4>1. i \in 1..c
        BY <1>2, <2>1, <3>1
      <4>2. calls[i] =< calls[j]
        BY <1>2, <2>1, <3>1, <4>1 DEF Inv, CallsInv
      <4>3. QED
        BY <1>3, <3>1, <4>1, <4>2
    <3>2. CASE j = c + 1
      BY <1>2, <1>3, <1>5, <1>6, <3>2
    <3>3. QED
      BY <1>6, <3>1, <3>2
  <2>2. QED
    BY <2>1
<1>8. \A i \in 1..(c + 1) : calls'[i] =< Len(nodes')
  BY <1>1, <1>2, <1>3, <1>5, <1>6 DEF k
<1>9. ASSUME NEW n \in DOMAIN nodes', IsController(n)', NEW i \in 1..(c + 1)
      PROVE  n =< calls'[i]
  <2>1. n \in DOMAIN nodes /\ IsController(n) /\ n =< k
    BY <1>1, <1>2, <1>9 DEF IsController, IsDevice
  <2>2. CASE i \in 1..c
    BY <1>2, <1>3, <2>1, <2>2 DEF Inv, CallsInv
  <2>3. CASE i = c + 1
    BY <1>3, <2>1, <2>3
  <2>4. QED
    BY <1>6, <2>2, <2>3
<1>10. CallsInv'
  BY <1>3, <1>7, <1>8, <1>9 DEF CallsInv, IsController, IsDevice
<1>11. QED
  BY <1>4, <1>10 DEF Inv

(* A method returns: its nodes go, and what its devices keep. *)
LEMMA MethodReturned ==
    ASSUME Inv, ReturnMethod
    PROVE  Inv'
<1> DEFINE c == Len(calls)
           k == calls[c]
<1>1. calls \in Seq(Nat) /\ calls # <<>> /\ c \in Nat \ {0} /\ DOMAIN calls = 1..c
  BY EmptySeq DEF Inv, TypeInv, ReturnMethod
<1>2. nodes \in Seq(Node) /\ Len(nodes) \in Nat /\ DOMAIN nodes = 1..Len(nodes)
  BY Nodes DEF Inv, TypeInv
<1>3. c \in DOMAIN calls
  BY <1>1
<1>4. k \in Nat /\ k =< Len(nodes)
  BY <1>1, <1>3 DEF Inv, CallsInv
<1>5. /\ heap' = [q \in DOMAIN heap \ Freed(k) |-> heap[q]]
      /\ nodes' = SubSeq(nodes, 1, k) /\ calls' = SubSeq(calls, 1, c - 1) /\ ecs' = ecs
  BY DEF ReturnMethod, Last, Front
<1>6. ASSUME NEW n \in DOMAIN nodes, IsController(n)
      PROVE  n =< k
  BY <1>3, <1>6 DEF Inv, CallsInv
<1> HIDE DEF k
<1>7. /\ nodes' \in Seq(Node) /\ Len(nodes') = k
      /\ \A n \in 1..k : nodes'[n] = nodes[n]
  BY <1>2, <1>4, <1>5
<1> HIDE DEF c
<1>8. /\ calls' \in Seq(Nat) /\ DOMAIN calls' = 1..(c - 1)
      /\ \A i \in 1..(c - 1) : calls'[i] = calls[i] /\ i \in 1..c /\ i =< c
  <2>1. c - 1 =< Len(calls) /\ c - 1 \in Nat
    BY <1>1 DEF c
  <2>2. QED
    BY <1>1, <1>5, <2>1
<1>9. TypeInv'
  <2>1. DOMAIN heap' = DOMAIN heap \ Freed(k)
    BY <1>5
  <2>2. IsFiniteSet(DOMAIN heap) /\ DOMAIN heap \subseteq Nat \ {0}
    BY DEF Inv, TypeInv
  <2>3. DOMAIN heap' \in SUBSET (DOMAIN heap)
    BY <2>1
  <2>4. IsFiniteSet(DOMAIN heap')
    BY <2>2, <2>3, FS_Subset
  <2>5. QED
    BY <1>5, <1>7, <1>8, <2>2, <2>3, <2>4 DEF Inv, TypeInv
<1>10. Cuts(k)
  <2>1. k \in 0..Len(nodes)
    BY <1>2, <1>4
  <2>2. QED
    BY <1>5, <1>6, <1>7, <2>1 DEF Cuts
<1>11. TreeInv' /\ KeepInv' /\ RegionInv' /\ ListInv'
  BY <1>9, <1>10, CutTo
<1>12. CallsInv'
  <2>1. \A i, j \in 1..(c - 1) : i =< j => calls'[i] =< calls'[j]
    BY <1>1, <1>8 DEF Inv, CallsInv
  <2>2. \A i \in 1..(c - 1) : calls'[i] =< Len(nodes')
    BY <1>1, <1>3, <1>7, <1>8 DEF Inv, CallsInv, k
  <2>3. ASSUME NEW n \in DOMAIN nodes', IsController(n)', NEW i \in 1..(c - 1)
        PROVE  n =< calls'[i]
    <3>1. n \in 1..k /\ nodes'[n] = nodes[n]
      BY <1>7, <2>3
    <3>2. n \in DOMAIN nodes /\ IsController(n)
      BY <1>2, <1>4, <2>3, <3>1 DEF IsController, IsDevice
    <3>3. QED
      BY <1>1, <1>8, <3>2 DEF Inv, CallsInv
  <2>4. QED
    BY <1>8, <2>1, <2>2, <2>3 DEF CallsInv, IsController, IsDevice
<1>13. QED
  BY <1>9, <1>11, <1>12 DEF Inv

-----------------------------------------------------------------------------
(* The invariant: pointers, regions and the list agree in every frame.     *)
THEOREM Addressing == AddressSpec => []Inv
<1>1. AddressInit => Inv
  <2>1. SUFFICES ASSUME AddressInit
                 PROVE  Inv
    OBVIOUS
  <2>2. nodes = <<>> /\ calls = <<>> /\ heap = <<>> /\ ecs = <<>>
    BY <2>1 DEF AddressInit
  <2>3. DOMAIN nodes = {} /\ DOMAIN calls = {} /\ DOMAIN heap = {} /\ DOMAIN ecs = {}
    BY <2>2
  <2>4. TypeInv
    BY <2>2, <2>3, FS_EmptySet DEF TypeInv
  <2>5. TreeInv /\ CallsInv
    BY <2>3 DEF TreeInv, CallsInv
  <2>6. KeepInv /\ RegionInv /\ ListInv
    BY <2>3 DEF KeepInv, RegionInv, ListInv
  <2>7. QED
    BY <2>4, <2>5, <2>6 DEF Inv
<1>2. Inv /\ [AddressNext]_addressing => Inv'
  <2>1. SUFFICES ASSUME Inv, [AddressNext]_addressing
                 PROVE  Inv'
    OBVIOUS
  <2>2. ASSUME NEW p \in 0..Len(nodes), NEW names \in NameSets, DefDevice(p, names)
        PROVE  Inv'
    BY <2>1, <2>2, DeviceDefined
  <2>3. ASSUME NEW p \in 1..Len(nodes), NEW space \in Space, DefOpRegion(p, space)
        PROVE  Inv'
    BY <2>1, <2>3, RegionDefined
  <2>4. CASE CallMethod
    BY <2>1, <2>4, MethodCalled
  <2>5. CASE ReturnMethod
    BY <2>1, <2>5, MethodReturned
  <2>6. CASE UNCHANGED addressing
    <3>1. UNCHANGED <<nodes, heap, ecs>> /\ calls' = calls
      BY <2>6 DEF addressing
    <3>2. calls' \in Seq(Nat)
      BY <2>1, <3>1 DEF Inv, TypeInv
    <3>3. TypeInv' /\ TreeInv' /\ KeepInv' /\ RegionInv' /\ ListInv'
      BY <2>1, <3>1, <3>2, NothingCut
    <3>4. CallsInv'
      BY <2>1, <3>1 DEF Inv, CallsInv, IsController, IsDevice
    <3>5. QED
      BY <3>3, <3>4 DEF Inv
  <2>7. QED
    BY <2>1, <2>2, <2>3, <2>4, <2>5, <2>6 DEF AddressNext
<1>3. QED
  BY <1>1, <1>2, PTL DEF AddressSpec

(* A region has the address of the device that it belongs to, or its       *)
(* controller, whichever method made which of them (sabi_pci_resolve_address,  *)
(* sabi_ec_resolve).                                                       *)
THEOREM RegionsAtTheirDevices == AddressSpec => []RegionsResolved
<1>1. Inv => RegionsResolved
  <2>1. SUFFICES ASSUME Inv, NEW n \in Regions
                 PROVE  LET r == nodes[n]
                            d == IF r.space = "pci" THEN OfAdr(r.parent) ELSE OfHid(r.parent)
                        IN  IF d = 0 THEN r.adr = 0
                            ELSE /\ r.adr \in DOMAIN heap
                                 /\ heap[r.adr] = IF r.space = "pci" THEN PciAddress(r.parent, d)
                                                  ELSE ControllerOf(d)
    BY DEF RegionsResolved
  <2>2. n \in DOMAIN nodes /\ ~IsDevice(n)
    BY DEF Regions, IsDevice
  <2> DEFINE p == nodes[n].parent
             d == Owner(n)
  <2>3. d = IF nodes[n].space = "pci" THEN OfAdr(p) ELSE OfHid(p)
    BY DEF Owner
  <2>4. p \in 0..Len(nodes) /\ p # 0 /\ IsDevice(p)
    <3>1. p \in Nat /\ p < n /\ p # 0 /\ IsDevice(p) /\ n \in 1..Len(nodes) /\ Len(nodes) \in Nat
      BY <2>1, <2>2, Nodes DEF Inv, TreeInv
    <3>2. QED
      BY <3>1
  <2>5. /\ OfAdr(p) # 0 => /\ OfAdr(p) \in DOMAIN nodes /\ IsDevice(OfAdr(p))
                           /\ nodes[OfAdr(p)].names.ADR # 0 /\ BusOf(p) = BusOf(OfAdr(p))
        /\ OfHid(p) # 0 => OfHid(p) \in DOMAIN nodes /\ IsDevice(OfHid(p))
    BY <2>1, <2>4, Found DEF Inv
  <2>6. IF d = 0 THEN nodes[n].adr = 0
        ELSE /\ nodes[n].adr = nodes[d].adr /\ nodes[n].adr # 0
             /\ nodes[n].space = "ec" => IsController(d)
    BY <2>1, <2>2 DEF Inv, RegionInv
  <2>7. nodes[n].space \in Space
    BY <2>1, <2>2, Nodes DEF Inv
  <2>8. d # 0 => d \in DOMAIN nodes /\ IsDevice(d)
    BY <2>3, <2>5
  <2>9. d # 0 => Kept(d) = IF nodes[n].space = "pci" THEN PciAddress(p, d) ELSE ControllerOf(d)
    <3>1. CASE nodes[n].space = "pci" /\ d # 0
      BY <2>3, <2>5, <3>1 DEF Kept, PciAddress
    <3>2. CASE nodes[n].space = "ec" /\ d # 0
      <4>1. IsController(d)
        BY <2>6, <3>2
      <4>2. nodes[d].names.ADR = 0
        BY <2>1, <2>8, <3>2, <4>1, NamesOf DEF Inv
      <4>3. QED
        BY <3>2, <4>2 DEF Kept
    <3>3. QED
      BY <2>7, <3>1, <3>2 DEF Space
  <2> HIDE DEF d
  <2>10. d # 0 => nodes[n].adr \in DOMAIN heap /\ heap[nodes[n].adr] = Kept(d)
    BY <2>1, <2>6, <2>8 DEF Inv, KeepInv
  <2>11. QED
    BY <2>3, <2>6, <2>9, <2>10
<1>2. QED
  BY <1>1, Addressing, PTL

(* What is allocated for a device is kept by it alone and goes with it;    *)
(* the list of sabi_ec_call_reg has each controller that is in use, once.  *)
THEOREM AddressesKeptOnce == AddressSpec => []KeptOnce
<1>1. Inv => KeptOnce
  <2>1. SUFFICES ASSUME Inv
                 PROVE  KeptOnce
    OBVIOUS
  <2>2. ASSUME NEW q \in DOMAIN heap
        PROVE  Cardinality({n \in Devices : nodes[n].adr = q}) = 1
    <3>1. PICK d \in DOMAIN nodes : IsDevice(d) /\ nodes[d].adr = q
      BY <2>1 DEF Inv, KeepInv
    <3>2. q # 0
      BY <2>1 DEF Inv, TypeInv
    <3>3. {n \in Devices : nodes[n].adr = q} = {d}
      BY <2>1, <3>1, <3>2 DEF Inv, KeepInv, Devices, IsDevice
    <3>4. QED
      BY <3>3, FS_Singleton
  <2>3. \A i, j \in DOMAIN ecs : ecs[i].parent = ecs[j].parent => i = j
    BY <2>1 DEF Inv, ListInv
  <2> DEFINE C == {m \in Devices : nodes[m].names.hid = "controller" /\ nodes[m].adr # 0}
  <2>4. C = {m \in DOMAIN nodes : IsController(m) /\ nodes[m].adr # 0}
    BY DEF Devices, IsController, IsDevice
  <2>5. {[parent |-> n, ec |-> nodes[n].adr] : n \in C} = {ecs[i] : i \in DOMAIN ecs}
    <3>1. ASSUME NEW n \in C
          PROVE  [parent |-> n, ec |-> nodes[n].adr] \in {ecs[i] : i \in DOMAIN ecs}
      BY <2>1, <2>4 DEF Inv, ListInv
    <3>2. ASSUME NEW i \in DOMAIN ecs
          PROVE  ecs[i] \in {[parent |-> n, ec |-> nodes[n].adr] : n \in C}
      <4>1. ecs[i] \in [parent : Nat, ec : Nat]
        <5> DEFINE T == [parent : Nat, ec : Nat]
        <5>1. ecs \in Seq(T)
          BY <2>1 DEF Inv, TypeInv
        <5> HIDE DEF T
        <5>2. ecs[i] \in T
          BY <5>1
        <5>3. QED
          BY <5>2 DEF T
      <4>2. ecs[i].parent \in C /\ nodes[ecs[i].parent].adr = ecs[i].ec
        BY <2>1, <2>4 DEF Inv, ListInv
      <4>3. ecs[i] = [parent |-> ecs[i].parent, ec |-> nodes[ecs[i].parent].adr]
        BY <4>1, <4>2
      <4>4. QED
        BY <4>2, <4>3
    <3>3. QED
      BY <3>1, <3>2
  <2>6. QED
    BY <2>2, <2>3, <2>5 DEF KeptOnce
<1>2. QED
  BY <1>1, Addressing, PTL

-----------------------------------------------------------------------------
(* Routing: the bytes of descriptors. *)

LEMMA UpTo ==
    ASSUME NEW k \in Nat, NEW S, 0 \in S, \A n \in 0..(k - 1) : n \in S => n + 1 \in S
    PROVE  0..k \subseteq S
<1>1. SUFFICES ASSUME (0..k) \ S # {} PROVE FALSE
  OBVIOUS
<1>2. PICK m \in (0..k) \ S : \A n \in (0..k) \ S : m =< n
  <2>1. (0..k) \ S \in SUBSET Nat
    OBVIOUS
  <2>2. QED
    BY <1>1, <2>1, Least
<1>3. m # 0 /\ m - 1 \in 0..(k - 1) /\ m - 1 + 1 = m
  BY <1>2
<1>4. m - 1 \in S
  BY <1>2, <1>3
<1>5. QED
  BY <1>2, <1>3, <1>4

(* The powers of two up to the first one that a mask of 16 bits has no bit *)
(* for.                                                                    *)
PowersOf2(p) ==
    /\ \A m \in 0..16 : p[m] \in Nat \ {0} /\ p[m] = 2^m
    /\ \A m \in 0..15 : p[m + 1] = 2 * p[m]
    /\ p[16] = 256 * 256

LEMMA Powers == \E p : PowersOf2(p)
<1>1. /\ 2^0 = 1 /\ 2^1 = 2 * 2^0 /\ 2^2 = 2 * 2^1 /\ 2^3 = 2 * 2^2 /\ 2^4 = 2 * 2^3
      /\ 2^5 = 2 * 2^4 /\ 2^6 = 2 * 2^5 /\ 2^7 = 2 * 2^6 /\ 2^8 = 2 * 2^7
      /\ 2^9 = 2 * 2^8 /\ 2^10 = 2 * 2^9 /\ 2^11 = 2 * 2^10 /\ 2^12 = 2 * 2^11
      /\ 2^13 = 2 * 2^12 /\ 2^14 = 2 * 2^13 /\ 2^15 = 2 * 2^14 /\ 2^16 = 2 * 2^15
  OBVIOUS
<1>2. PICK p : p = [m \in 0..16 |-> 2^m]
  OBVIOUS
<1>3. /\ p[0] = 1 /\ p[1] = 2 * p[0] /\ p[2] = 2 * p[1] /\ p[3] = 2 * p[2]
      /\ p[4] = 2 * p[3] /\ p[5] = 2 * p[4] /\ p[6] = 2 * p[5] /\ p[7] = 2 * p[6]
      /\ p[8] = 2 * p[7] /\ p[9] = 2 * p[8] /\ p[10] = 2 * p[9] /\ p[11] = 2 * p[10]
      /\ p[12] = 2 * p[11] /\ p[13] = 2 * p[12] /\ p[14] = 2 * p[13]
      /\ p[15] = 2 * p[14] /\ p[16] = 2 * p[15]
  BY <1>1, <1>2
<1>4. \A m \in 0..15 : p[m + 1] = 2 * p[m]
  <2> TAKE m \in 0..15
  <2>1. m = 0 \/ m = 1 \/ m = 2 \/ m = 3 \/ m = 4 \/ m = 5 \/ m = 6 \/ m = 7
        \/ m = 8 \/ m = 9 \/ m = 10 \/ m = 11 \/ m = 12 \/ m = 13 \/ m = 14
        \/ m = 15
    OBVIOUS
  <2>2. QED
    BY <1>3, <2>1
<1>5. \A m \in 0..16 : p[m] \in Nat \ {0}
  <2>1. PICK S : S = {m \in 0..16 : p[m] \in Nat \ {0}}
    OBVIOUS
  <2>2. 0 \in S
    BY <1>3, <2>1
  <2>3. ASSUME NEW m \in 0..(16 - 1), m \in S PROVE m + 1 \in S
    <3>1. m + 1 \in 0..16 /\ p[m + 1] = 2 * p[m] /\ p[m] \in Nat \ {0}
      BY <1>4, <2>1, <2>3
    <3>2. QED
      BY <2>1, <3>1
  <2>4. 0..16 \subseteq S
    BY <2>2, <2>3, UpTo
  <2>5. QED
    BY <2>1, <2>4
<1>6. p[16] = 256 * 256
  <2>1. p[8] = 256
    BY <1>3
  <2>2. QED
    BY <1>3, <2>1
<1>7. \A m \in 0..16 : p[m] = 2^m
  BY <1>2
<1>8. QED
  BY <1>4, <1>5, <1>6, <1>7 DEF PowersOf2

LEMMA PowersRise ==
    ASSUME NEW p, PowersOf2(p), NEW k \in 0..16, NEW m \in 0..k
    PROVE  p[m] =< p[k]
<1>1. /\ \A n \in 0..16 : p[n] \in Nat
      /\ \A n \in 0..15 : p[n + 1] = 2 * p[n]
  BY DEF PowersOf2
<1>2. PICK S : S = {j \in 0..k : p[k - j] =< p[k]}
  OBVIOUS
<1>3. 0 \in S
  BY <1>1, <1>2
<1>4. ASSUME NEW j \in 0..(k - 1), j \in S PROVE j + 1 \in S
  <2>1. PICK n \in 0..15 : n = k - (j + 1) /\ n + 1 = k - j /\ j + 1 \in 0..k
    OBVIOUS
  <2>2. p[n] \in Nat /\ p[n + 1] \in Nat /\ p[k] \in Nat /\ p[n + 1] =< p[k]
    <3>1. n \in 0..16 /\ n + 1 \in 0..16 /\ k \in 0..16
      OBVIOUS
    <3>2. p[k - j] =< p[k]
      BY <1>2, <1>4
    <3>3. QED
      BY <1>1, <2>1, <3>1, <3>2
  <2>3. p[n] =< p[k]
    BY <1>1, <2>2
  <2>4. QED
    BY <1>2, <2>1, <2>3
<1>5. 0..k \subseteq S
  BY <1>3, <1>4, UpTo
<1>6. k - m \in S /\ k - (k - m) = m
  BY <1>5
<1>7. QED
  BY <1>2, <1>6

(* The highest bit of a mask with one bit. *)
LEMMA HighestIs ==
    ASSUME NEW line \in 0..15
    PROVE  Highest(2^line) = line /\ 2^line \in Short /\ 2^line # 0
<1>1. PICK p : PowersOf2(p)
  BY Powers
<1>2. /\ \A n \in 0..16 : p[n] \in Nat \ {0} /\ p[n] = 2^n
      /\ \A n \in 0..15 : p[n + 1] = 2 * p[n]
      /\ p[16] = 256 * 256
      /\ \A n \in 0..15 : n \in 0..16 /\ n + 1 \in 0..16
  BY <1>1 DEF PowersOf2
<1>3. \A n \in 0..15 : p[n] =< p[line] /\ p[line] < p[n + 1] => n = line
  <2> TAKE n \in 0..15
  <2>1. CASE n < line
    <3>1. p[n + 1] =< p[line]
      BY <1>1, <2>1, PowersRise
    <3>2. QED
      BY <1>2, <3>1
  <2>2. CASE line < n
    <3>1. p[line + 1] =< p[n]
      BY <1>1, <2>2, PowersRise
    <3>2. QED
      BY <1>2, <3>1
  <2>3. QED
    BY <2>1, <2>2
<1>4. p[line] =< p[line] /\ p[line] < p[line + 1] /\ p[line] # 0
  BY <1>2
<1>5. PICK n \in 0..15 : n = Highest(2^line) /\ 2^n =< 2^line /\ 2^line < 2^(n + 1)
  <2>1. 2^line # 0 /\ 2^line =< 2^line /\ 2^line < 2^(line + 1)
    <3>1. line \in 0..16 /\ line + 1 \in 0..16
      BY <1>2
    <3>2. p[line] = 2^line /\ p[line + 1] = 2^(line + 1)
      BY <1>2, <3>1
    <3>3. QED
      BY <1>4, <3>2
  <2>2. PICK mask : mask = 2^line
    OBVIOUS
  <2>3. Highest(mask) = CHOOSE n \in 0..15 : 2^n =< mask /\ mask < 2^(n + 1)
    BY <2>1, <2>2 DEF Highest
  <2>4. QED
    BY <2>1, <2>2, <2>3
<1>6. n = line
  <2>1. n \in 0..16 /\ n + 1 \in 0..16 /\ line \in 0..16
    BY <1>2
  <2>2. p[n] = 2^n /\ p[n + 1] = 2^(n + 1) /\ p[line] = 2^line
    BY <1>2, <2>1
  <2>3. QED
    BY <1>3, <1>5, <2>2
<1>7. p[line] \in 0..(256 * 256 - 1)
  <2>1. p[line + 1] =< p[16]
    BY <1>1, PowersRise
  <2>2. /\ p[line] \in Nat \ {0} /\ p[line + 1] \in Nat /\ p[line + 1] = 2 * p[line]
        /\ p[16] = 256 * 256
    <3>1. line \in 0..16 /\ line + 1 \in 0..16
      BY <1>2
    <3>2. QED
      BY <1>2, <3>1
  <2>3. PICK x \in Nat \ {0}, y \in Nat, z \in Nat :
          x = p[line] /\ y = p[line + 1] /\ z = p[16] /\ y = 2 * x /\ y =< z /\ z = 256 * 256
    BY <2>1, <2>2
  <2>4. x =< z - 1 /\ x \in Nat /\ z \in Nat
    BY <2>3
  <2>5. x \in 0..(z - 1)
    BY <2>4
  <2>6. QED
    BY <2>3, <2>5
<1>8. p[line] = 2^line /\ p[line] # 0
  BY <1>2
<1>9. QED
  BY <1>5, <1>6, <1>7, <1>8 DEF Short

(* What the bytes of a descriptor say. *)
Byte == 0..255
Reads(d, e) ==
    /\ e \in Seq(Byte) /\ Len(e) >= 3
    /\ IF e[1] >= 128 THEN TypeOf(d) = e[1] /\ Len(e) = e[2] + 256 * e[3] + 3
       ELSE TypeOf(d) = e[1] \div 8 /\ Len(e) = 1 + (e[1] % 8)
    /\ TypeOf(d) # 15
    /\ d.is = "irq" => e[2] + 256 * e[3] = 2^d.line
    /\ d.is = "extended" => /\ Len(e) = 9 /\ e[6] + 256 * e[7] = d.gsi
                            /\ e[4] \div 2 = Packed(d.traits, 0, 1, 2, 3)
    /\ d.is = "io" => Len(e) = 8 /\ e[3] + 256 * e[4] = d.min
    /\ d.is = "bus" => Len(e) = 16 /\ e[9] + 256 * e[10] = d.min

LEMMA Shorts ==
    ASSUME NEW n \in 0..255
    PROVE  n \in Short /\ 256 - n \in Short
<1>1. n \in Short
  BY DEF Short
<1>2. 256 - n \in Short
  <2>1. PICK m \in 0..256 : m = 256 - n
    OBVIOUS
  <2>2. m \in Short
    BY DEF Short
  <2>3. QED
    BY <2>1, <2>2
<1>3. QED
  BY <1>1, <1>2

LEMMA TwoIs ==
    ASSUME NEW n \in Short
    PROVE  \E a \in Byte, b \in Byte : Two(n) = <<a, b>> /\ a + 256 * b = n
<1>1. PICK a, b : a = n % 256 /\ b = n \div 256
  OBVIOUS
<1>2. a \in Byte /\ b \in Byte /\ a + 256 * b = n
  BY <1>1 DEF Byte, Short
<1>3. QED
  BY <1>1, <1>2 DEF Two

LEMMA PackedIs ==
    ASSUME NEW traits
    PROVE  /\ Packed(traits, 0, 3, 4, 5) \in Byte
           /\ Packed(traits, 0, 1, 2, 3) \in 0..15
           /\ Packed(traits, 1, 2, 3, 4) = 2 * Packed(traits, 0, 1, 2, 3)
<1>1. 2^0 = 1 /\ 2^1 = 2 /\ 2^2 = 4 /\ 2^3 = 8 /\ 2^4 = 16 /\ 2^5 = 32
  OBVIOUS
<1>2. QED
  BY <1>1 DEF Packed, Byte

LEMMA EncodedIs ==
    ASSUME NEW d \in Resource
    PROVE  Reads(d, Encoded(d))
<1>1. PICK e : e = Encoded(d)
  OBVIOUS
<1>2. CASE d \in [is : {"irq"}, line : 0..15, info : BOOLEAN, traits : SUBSET Trait]
  <2>1. PICK a \in Byte, b \in Byte : Two(2^d.line) = <<a, b>> /\ a + 256 * b = 2^d.line
    <3>1. 2^d.line \in Short
      BY <1>2, HighestIs
    <3>2. QED
      BY <3>1, TwoIs
  <2>2. PICK c \in Byte : c = Packed(d.traits, 0, 3, 4, 5)
    BY PackedIs
  <2>3. d.is = "irq" /\ TypeOf(d) = 4
    BY <1>2 DEF TypeOf
  <2>4. e = IF d.info THEN <<35>> \o <<a, b>> \o <<c>> ELSE <<34>> \o <<a, b>>
    BY Zenon, <1>1, <2>1, <2>2, <2>3 DEF Encoded
  <2>5. CASE e = <<35>> \o <<a, b>> \o <<c>>
    <3>1. e \in Seq(Byte) /\ Len(e) = 4 /\ e[1] = 35 /\ e[2] = a /\ e[3] = b
      BY <2>5 DEF Byte
    <3>2. QED
      BY <1>1, <2>1, <2>3, <3>1 DEF Reads
  <2>6. CASE e = <<34>> \o <<a, b>>
    <3>1. e \in Seq(Byte) /\ Len(e) = 3 /\ e[1] = 34 /\ e[2] = a /\ e[3] = b
      BY <2>6 DEF Byte
    <3>2. QED
      BY <1>1, <2>1, <2>3, <3>1 DEF Reads
  <2>7. QED
    BY <2>4, <2>5, <2>6
<1>3. CASE d \in [is : {"extended"}, gsi : Short, traits : SUBSET Trait]
  <2>1. PICK a \in Byte, b \in Byte : Two(d.gsi) = <<a, b>> /\ a + 256 * b = d.gsi
    BY <1>3, TwoIs
  <2>2. PICK p \in 0..15 : p = Packed(d.traits, 0, 1, 2, 3) /\ Packed(d.traits, 1, 2, 3, 4) = 2 * p
    BY PackedIs
  <2>3. PICK q \in Byte : q = 1 + 2 * p /\ q \div 2 = p
    BY DEF Byte
  <2>4. d.is = "extended" /\ TypeOf(d) = 137
    BY <1>3 DEF TypeOf
  <2>5. e = <<137>> \o <<6, 0>> \o <<q, 1>> \o (<<a, b>> \o <<0, 0>>)
    <3>1. Two(6) = <<6, 0>>
      BY DEF Two
    <3>2. e = <<137>> \o Two(6) \o <<1 + Packed(d.traits, 1, 2, 3, 4), 1>> \o Four(d.gsi)
      BY <1>1, <2>4 DEF Encoded
    <3>3. QED
      BY Zenon, <2>1, <2>2, <2>3, <3>1, <3>2 DEF Four
  <2>6. PICK x, y : x = <<137>> \o <<6, 0>> \o <<q, 1>> /\ y = <<a, b>> \o <<0, 0>> /\ e = x \o y
    BY <2>5
  <2>7. x \in Seq(Byte) /\ Len(x) = 5 /\ x[1] = 137 /\ x[2] = 6 /\ x[3] = 0 /\ x[4] = q
    BY <2>6 DEF Byte
  <2>8. y \in Seq(Byte) /\ Len(y) = 4 /\ y[1] = a /\ y[2] = b
    BY <2>6 DEF Byte
  <2>9. /\ e \in Seq(Byte) /\ Len(e) = 9 /\ e[1] = 137 /\ e[2] = 6 /\ e[3] = 0
        /\ e[4] = q /\ e[6] = a /\ e[7] = b
    BY <2>6, <2>7, <2>8
  <2>10. QED
    BY <1>1, <2>1, <2>2, <2>3, <2>4, <2>9 DEF Reads
<1>4. CASE d \in [is : {"io"}, min : Short]
  <2>1. PICK a \in Byte, b \in Byte : Two(d.min) = <<a, b>> /\ a + 256 * b = d.min
    BY <1>4, TwoIs
  <2>2. d.is = "io" /\ TypeOf(d) = 8
    BY <1>4 DEF TypeOf
  <2>3. e = <<71, 1>> \o <<a, b>> \o <<a, b>> \o <<1, 1>>
    BY <1>1, <2>1, <2>2 DEF Encoded
  <2>4. e \in Seq(Byte) /\ Len(e) = 8 /\ e[1] = 71 /\ e[3] = a /\ e[4] = b
    BY <2>3 DEF Byte
  <2>5. QED
    BY <1>1, <2>1, <2>2, <2>4 DEF Reads
<1>5. CASE d \in [is : {"bus"}, min : 0..255]
  <2>0. d.min \in 0..255 /\ d.is = "bus"
    BY <1>5
  <2>1. PICK a \in Byte, b \in Byte : Two(d.min) = <<a, b>> /\ a + 256 * b = d.min
    <3>1. d.min \in Short
      BY <2>0, Shorts
    <3>2. QED
      BY <3>1, TwoIs
  <2>2. PICK f \in Byte, g \in Byte : Two(256 - d.min) = <<f, g>>
    <3>1. 256 - d.min \in Short
      BY <2>0, Shorts
    <3>2. QED
      BY <3>1, TwoIs
  <2>3. TypeOf(d) = 136
    BY <2>0 DEF TypeOf
  <2>4. e = <<136>> \o <<13, 0>> \o <<2, 12, 0>> \o <<0, 0>> \o <<a, b>> \o <<255, 0>>
              \o <<0, 0>> \o <<f, g>>
    <3>1. Two(13) = <<13, 0>> /\ Two(0) = <<0, 0>> /\ Two(255) = <<255, 0>>
      BY DEF Two
    <3>2. QED
      BY <1>1, <2>0, <2>1, <2>2, <3>1 DEF Encoded
  <2>5. PICK x, y : /\ x = <<136>> \o <<13, 0>> \o <<2, 12, 0>> \o <<0, 0>>
                    /\ y = x \o <<a, b>> /\ e = y \o <<255, 0>> \o <<0, 0>> \o <<f, g>>
    BY <2>4
  <2>6. x \in Seq(Byte) /\ Len(x) = 8 /\ x[1] = 136 /\ x[2] = 13 /\ x[3] = 0
    BY <2>5 DEF Byte
  <2>7. /\ y \in Seq(Byte) /\ Len(y) = 10 /\ y[1] = 136 /\ y[2] = 13 /\ y[3] = 0
        /\ y[9] = a /\ y[10] = b
    BY <2>5, <2>6
  <2>8. /\ e \in Seq(Byte) /\ Len(e) = 16 /\ e[1] = 136 /\ e[2] = 13 /\ e[3] = 0
        /\ e[9] = a /\ e[10] = b
    BY <2>5, <2>7 DEF Byte
  <2>9. QED
    BY <1>1, <2>0, <2>1, <2>3, <2>8 DEF Reads
<1>6. QED
  BY <1>2, <1>3, <1>4, <1>5 DEF Resource

-----------------------------------------------------------------------------
(* Loops. *)
Steps(k, S) == [1..k -> [S -> S]]
Loop(f, k, S, first, step) ==
    f \in [0..k -> S] /\ f[0] = first /\ \A n \in 1..k : f[n] = step[n][f[n - 1]]

(* A loop that steps from one state of S to another exists. *)
LEMMA LoopExists ==
    ASSUME NEW k \in Nat, NEW S, NEW s \in S, NEW step \in Steps(k, S)
    PROVE  \E f : Loop(f, k, S, s, step)
<1> USE DEF Steps
<1> DEFINE T == {m \in Nat : m =< k => \E f : Loop(f, m, S, s, step)}
<1>1. 0 \in T
  <2>1. Loop([n \in 0..0 |-> s], 0, S, s, step)
    BY DEF Loop
  <2>2. QED
    BY <2>1
<1>2. ASSUME NEW m \in 0..(k - 1), m \in T PROVE m + 1 \in T
  <2>0. \E f : Loop(f, m, S, s, step)
    BY <1>2
  <2>1. PICK f : f \in [0..m -> S] /\ f[0] = s /\ \A n \in 1..m : f[n] = step[n][f[n - 1]]
    BY <2>0 DEF Loop
  <2> DEFINE g == [n \in 0..(m + 1) |-> IF n = m + 1 THEN step[m + 1][f[m]] ELSE f[n]]
  <2>2. step[m + 1][f[m]] \in S
    BY <2>1
  <2>3. g \in [0..(m + 1) -> S]
    BY <2>1, <2>2
  <2>4. ASSUME NEW n \in 1..(m + 1)
        PROVE  g[n] = step[n][g[n - 1]]
    <3>1. CASE n = m + 1
      <4>1. g[m + 1] = step[m + 1][f[m]] /\ g[m] = f[m] /\ m + 1 - 1 = m
        OBVIOUS
      <4>2. QED
        BY <3>1, <4>1
    <3>2. CASE n \in 1..m
      BY <2>1, <3>2
    <3>3. QED
      BY <3>1, <3>2
  <2>5. Loop(g, m + 1, S, s, step)
    <3>1. g[0] = s
      BY <2>1
    <3>2. QED
      BY <2>3, <2>4, <3>1 DEF Loop
  <2>6. m + 1 \in Nat
    OBVIOUS
  <2>7. QED
    BY <2>5, <2>6
<1>3. 0..k \subseteq T
  BY <1>1, <1>2, UpTo
<1>4. k \in T
  BY <1>3
<1>5. QED
  BY <1>4

-----------------------------------------------------------------------------
(* The bytes of a template. *)
EncodeLoop(f, t) ==
    f = [i \in 0..Len(t) |-> IF i = 0 THEN <<>> ELSE f[i - 1] \o Encoded(t[i])]

LEMMA EncodeIs ==
    ASSUME NEW t
    PROVE  Encode(t) = (CHOOSE f : EncodeLoop(f, t))[Len(t)] \o EndTag
BY Zenon DEF Encode, EncodeLoop

(* Descriptor n of t begins at o[n - 1] in buf, and the end tag is behind  *)
(* the last one.                                                           *)
Template(buf, t, o) ==
    /\ o \in [0..Len(t) -> Nat] /\ o[0] = 0
    /\ \A n \in 1..Len(t) : o[n] = o[n - 1] + Len(Encoded(t[n]))
    /\ \A n \in 1..Len(t) : \A j \in 1..Len(Encoded(t[n])) : buf[o[n - 1] + j] = Encoded(t[n])[j]
    /\ buf[o[Len(t)] + 1] = 121

Begun(s, r) == Len(s) =< Len(r) /\ \A x \in 1..Len(s) : r[x] = s[x]

LEMMA BegunOn ==
    ASSUME NEW s \in Seq(Byte), NEW r \in Seq(Byte), NEW e \in Seq(Byte), Begun(s, r)
    PROVE  Begun(s, r \o e)
BY DEF Begun

LEMMA EncodeHas ==
    ASSUME NEW t \in Seq(Resource)
    PROVE  \E o : Template(Encode(t), t, o)
<1>1. PICK k \in Nat : k = Len(t) /\ \A n \in 1..k : t[n] \in Resource
  OBVIOUS
<1>2. \A n \in 1..k : Encoded(t[n]) \in Seq(Byte)
  BY <1>1, EncodedIs DEF Reads
<1>3. PICK step : step = [n \in 1..k |-> [b \in Seq(Byte) |-> b \o Encoded(t[n])]]
  OBVIOUS
<1>4. step \in Steps(k, Seq(Byte))
  BY <1>2, <1>3 DEF Steps
<1>5. PICK g : Loop(g, k, Seq(Byte), <<>>, step)
  <2>1. <<>> \in Seq(Byte)
    OBVIOUS
  <2>2. QED
    BY <1>4, <2>1, LoopExists
<1>6. EncodeLoop(g, t)
  <2>1. g = [i \in 0..k |-> g[i]] /\ g[0] = <<>>
    BY <1>5 DEF Loop
  <2>2. ASSUME NEW i \in 0..k
        PROVE  g[i] = IF i = 0 THEN <<>> ELSE g[i - 1] \o Encoded(t[i])
    <3>1. CASE i # 0
      <4>1. i \in 1..k /\ i - 1 \in 0..k
        BY <3>1
      <4>2. g[i] = step[i][g[i - 1]] /\ g[i - 1] \in Seq(Byte)
        BY <1>5, <4>1 DEF Loop
      <4>3. QED
        BY <1>3, <3>1, <4>1, <4>2
    <3>2. QED
      BY <2>1, <3>1
  <2>3. g = [i \in 0..k |-> IF i = 0 THEN <<>> ELSE g[i - 1] \o Encoded(t[i])]
    BY Zenon, <2>1, <2>2
  <2>4. QED
    BY <1>1, <2>3 DEF EncodeLoop
<1>7. PICK f : f = (CHOOSE l : EncodeLoop(l, t)) /\ EncodeLoop(f, t)
  BY Zenon, <1>6
<1>8. f[0] = <<>> /\ \A n \in 1..k : f[n] = f[n - 1] \o Encoded(t[n])
  <2>1. \A i \in 0..k : f[i] = IF i = 0 THEN <<>> ELSE f[i - 1] \o Encoded(t[i])
    BY <1>1, <1>7 DEF EncodeLoop
  <2>2. 0 \in 0..k /\ \A n \in 1..k : n \in 0..k /\ n # 0
    OBVIOUS
  <2>3. QED
    BY <2>1, <2>2
<1>9. \A n \in 0..k : f[n] \in Seq(Byte)
  <2>1. PICK S : S = {n \in 0..k : f[n] \in Seq(Byte)}
    OBVIOUS
  <2>2. 0 \in S
    <3>1. <<>> \in Seq(Byte) /\ 0 \in 0..k
      OBVIOUS
    <3>2. QED
      BY <1>8, <2>1, <3>1
  <2>3. ASSUME NEW n \in 0..(k - 1), n \in S PROVE n + 1 \in S
    <3>1. PICK j \in 1..k : j = n + 1 /\ j - 1 = n /\ j \in 0..k
      OBVIOUS
    <3>2. PICK e \in Seq(Byte) : e = Encoded(t[j]) /\ f[j] = f[n] \o e
      BY <1>2, <1>8, <3>1
    <3>3. f[n] \in Seq(Byte)
      BY <2>1, <2>3
    <3>4. f[j] \in Seq(Byte)
      BY <3>2, <3>3
    <3>5. QED
      BY <2>1, <3>1, <3>4
  <2>4. 0..k \subseteq S
    BY <2>2, <2>3, UpTo
  <2>5. QED
    BY <2>1, <2>4
<1>10. ASSUME NEW m \in 0..k
       PROVE  Begun(f[m], f[k])
  <2>1. PICK S : S = {n \in 0..(k - m) : Begun(f[m], f[m + n])}
    OBVIOUS
  <2>2. 0 \in S
    <3>1. Begun(f[m], f[m]) /\ m + 0 = m
      BY <1>9 DEF Begun
    <3>2. QED
      BY <2>1, <3>1
  <2>3. ASSUME NEW n \in 0..(k - m - 1), n \in S PROVE n + 1 \in S
    <3>1. PICK j \in 1..k : j = m + (n + 1) /\ j - 1 = m + n /\ j - 1 \in 0..k /\ m \in 0..k
      OBVIOUS
    <3>2. f[j] = f[j - 1] \o Encoded(t[j]) /\ Encoded(t[j]) \in Seq(Byte)
      BY <1>2, <1>8
    <3>3. Begun(f[m], f[j - 1])
      BY <2>1, <2>3, <3>1
    <3>4. Begun(f[m], f[j])
      BY <1>9, <3>1, <3>2, <3>3, BegunOn
    <3>5. QED
      BY <2>1, <3>1, <3>4
  <2>4. 0..(k - m) \subseteq S
    <3>1. k - m \in Nat
      OBVIOUS
    <3>2. QED
      BY <2>2, <2>3, <3>1, UpTo
  <2>5. k - m \in S /\ m + (k - m) = k
    BY <2>4
  <2>6. QED
    BY <2>1, <2>5
<1>11. PICK o : o = [n \in 0..k |-> Len(f[n])]
  OBVIOUS
<1>12. o \in [0..k -> Nat] /\ o[0] = 0 /\ \A n \in 0..k : o[n] = Len(f[n])
  BY <1>8, <1>9, <1>11
<1>13. Encode(t) = f[k] \o <<121, 0>>
  BY <1>1, <1>7, EncodeIs DEF EndTag
<1>14. ASSUME NEW n \in 1..k
       PROVE  /\ o[n] = o[n - 1] + Len(Encoded(t[n]))
              /\ \A j \in 1..Len(Encoded(t[n])) : Encode(t)[o[n - 1] + j] = Encoded(t[n])[j]
  <2>1. PICK m \in 0..k, e \in Seq(Byte) : m = n - 1 /\ e = Encoded(t[n]) /\ n \in 0..k
    BY <1>2
  <2>2. PICK a \in Seq(Byte), b \in Seq(Byte), c \in Seq(Byte) :
          /\ a = f[m] /\ b = f[n] /\ c = f[k] /\ b = a \o e /\ Begun(b, c)
          /\ o[m] = Len(a) /\ o[n] = Len(b)
    <3>1. k \in 0..k
      OBVIOUS
    <3>2. QED
      BY <1>8, <1>9, <1>10, <1>12, <2>1, <3>1
  <2>3. Len(b) = Len(a) + Len(e)
    BY <2>2
  <2>4. ASSUME NEW j \in 1..Len(e)
        PROVE  (c \o <<121, 0>>)[Len(a) + j] = e[j]
    <3>1. b[Len(a) + j] = e[j] /\ Len(a) + j \in 1..Len(b)
      BY <2>2, <2>3
    <3>2. PICK x \in 1..Len(b) : x = Len(a) + j /\ b[x] = e[j]
      BY <3>1
    <3>3. c[x] = b[x] /\ x \in 1..Len(c)
      BY <2>2 DEF Begun
    <3>4. QED
      BY <3>2, <3>3
  <2>5. QED
    BY <1>13, <2>1, <2>2, <2>3, <2>4
<1>15. Encode(t)[o[k] + 1] = 121
  <2>1. PICK c \in Seq(Byte) : c = f[k] /\ o[k] = Len(c)
    BY <1>9, <1>12
  <2>2. (c \o <<121, 0>>)[Len(c) + 1] = 121
    OBVIOUS
  <2>3. QED
    BY <1>13, <2>1, <2>2
<1>16. Template(Encode(t), t, o)
  BY <1>1, <1>12, <1>14, <1>15 DEF Template
<1>17. QED
  BY <1>16

-----------------------------------------------------------------------------
(* Iterating over a template. *)

(* Bytes and words of descriptor n, which has the bytes e. *)
LEMMA BytesAre ==
    ASSUME NEW t \in Seq(Resource), NEW buf, NEW o, Template(buf, t, o), NEW n \in 1..Len(t),
           NEW p, p = o[n - 1], NEW e, e = Encoded(t[n])
    PROVE  /\ p \in Nat /\ e \in Seq(Byte) /\ Len(e) \in Nat /\ Len(e) >= 3 /\ o[n] = p + Len(e)
           /\ \A j \in Nat : j < Len(e) => ByteAt(buf, p + j) = e[j + 1]
           /\ \A j \in Nat : j + 1 < Len(e) =>
                WordAt(buf, p + j) = e[j + 1] + 256 * e[j + 2]
<1>1. PICK k \in Nat : k = Len(t) /\ n \in 1..k /\ n - 1 \in 0..k
  OBVIOUS
<1>2. t[n] \in Resource
  OBVIOUS
<1>3. e \in Seq(Byte) /\ Len(e) >= 3 /\ Len(e) \in Nat
  BY <1>2, EncodedIs DEF Reads
<1>4. /\ p \in Nat /\ o[n] = p + Len(e)
      /\ \A j \in 1..Len(e) : buf[p + j] = e[j]
  BY <1>1 DEF Template
<1>5. ASSUME NEW j \in Nat, j < Len(e)
      PROVE  ByteAt(buf, p + j) = e[j + 1]
  <2>1. PICK i \in 1..Len(e) : i = j + 1 /\ p + i = p + j + 1
    BY <1>3, <1>4, <1>5
  <2>2. QED
    BY <1>4, <2>1 DEF ByteAt
<1>6. ASSUME NEW j \in Nat, j + 1 < Len(e)
      PROVE  WordAt(buf, p + j) = e[j + 1] + 256 * e[j + 2]
  <2>1. PICK len \in Nat, q \in Nat : len = Len(e) /\ q = p
    BY <1>3, <1>4
  <2>0. j + 1 < len
    BY <1>6, <2>1
  <2>2. PICK i \in Nat : i = j + 1 /\ q + j + 1 = q + i /\ i + 1 = j + 2 /\ j < len /\ i < len
    <3>1. j + 1 \in Nat /\ q + j + 1 = q + (j + 1) /\ j + 1 + 1 = j + 2 /\ j < len
      BY <2>0
    <3>2. QED
      BY <2>0, <3>1
  <2>3. ByteAt(buf, p + j) = e[j + 1] /\ ByteAt(buf, p + i) = e[i + 1]
    BY <1>5, <2>1, <2>2
  <2>4. QED
    BY <2>1, <2>2, <2>3 DEF WordAt
<1>7. QED
  BY <1>3, <1>4, <1>5, <1>6

(* What the code takes from the bytes at a descriptor, and at the end tag. *)
LEMMA TypeIs ==
    ASSUME NEW t \in Seq(Resource), NEW buf, NEW o, Template(buf, t, o), NEW n \in 1..Len(t)
    PROVE  /\ Type(buf, o[n - 1]) = TypeOf(t[n]) /\ TypeOf(t[n]) # 15
           /\ Length(buf, o[n - 1]) = Len(Encoded(t[n]))
<1>1. PICK p, e, d : p = o[n - 1] /\ e = Encoded(d) /\ d = t[n] /\ d \in Resource
  OBVIOUS
<1>2. Reads(d, e)
  BY <1>1, EncodedIs
<1>3. /\ p \in Nat /\ e \in Seq(Byte) /\ Len(e) \in Nat /\ Len(e) >= 3
      /\ \A j \in Nat : j < Len(e) => ByteAt(buf, p + j) = e[j + 1]
      /\ \A j \in Nat : j + 1 < Len(e) => WordAt(buf, p + j) = e[j + 1] + 256 * e[j + 2]
  BY <1>1, BytesAre
<1>4. ByteAt(buf, p) = e[1] /\ WordAt(buf, p + 1) = e[2] + 256 * e[3]
  <2>1. ByteAt(buf, p + 0) = e[0 + 1] /\ WordAt(buf, p + 1) = e[1 + 1] + 256 * e[1 + 2]
    BY <1>3
  <2>2. p + 0 = p
    BY <1>3
  <2>3. QED
    BY <2>1, <2>2
<1>5. Type(buf, p) = TypeOf(d) /\ TypeOf(d) # 15
  BY <1>2, <1>4 DEF Reads, Type
<1>6. Length(buf, p) = Len(e)
  BY <1>2, <1>4 DEF Reads, Length
<1>7. QED
  BY <1>1, <1>5, <1>6

(* The sabi_descriptor_t of descriptor n, and of none. *)
Spot(t, o, n) ==
    IF n = 0 THEN NoDesc
    ELSE [type |-> TypeOf(t[n]), data |-> o[n - 1], length |-> Len(Encoded(t[n]))]
After(t, n) == IF n = Len(t) THEN 0 ELSE n + 1

LEMMA NextIs ==
    ASSUME NEW t \in Seq(Resource), NEW o, Template(Encode(t), t, o), NEW n \in 0..Len(t)
    PROVE  NextResource(Encode(t), Moved(Spot(t, o, n))) = Spot(t, o, After(t, n))
<1>1. PICK buf, k : buf = Encode(t) /\ k = Len(t) /\ k \in Nat
  OBVIOUS
<1>2. PICK r, p : r = Moved(Spot(t, o, n)) /\ p = IF r.pos = Nowhere THEN 0 ELSE r.pos + r.skip
  OBVIOUS
<1>3. /\ Template(buf, t, o)
      /\ o \in [0..k -> Nat] /\ o[0] = 0
      /\ \A m \in 1..k : o[m] = o[m - 1] + Len(Encoded(t[m]))
      /\ buf[o[k] + 1] = 121
  BY <1>1 DEF Template
<1>4. p = o[n]
  <2>1. CASE n = 0
    BY <1>2, <1>3, <2>1 DEF Spot, Moved, NoDesc, Nowhere
  <2>2. CASE n # 0
    <3>1. n \in 1..k /\ n - 1 \in 0..k
      BY <1>1, <2>2
    <3>2. r = [pos |-> o[n - 1], skip |-> Len(Encoded(t[n]))]
      BY <1>2, <2>2 DEF Spot, Moved
    <3>3. o[n - 1] \in Nat /\ o[n] = o[n - 1] + Len(Encoded(t[n]))
      BY <1>3, <3>1
    <3>4. r.pos # Nowhere
      BY <3>2, <3>3 DEF Nowhere
    <3>5. QED
      BY <1>2, <3>2, <3>3, <3>4
  <2>3. QED
    BY <2>1, <2>2
<1>5. NextResource(buf, r) = IF Type(buf, p) = 15 THEN NoDesc
                             ELSE [type |-> Type(buf, p), data |-> p, length |-> Length(buf, p)]
  BY <1>2 DEF NextResource
<1>6. CASE n = k
  <2>1. Type(buf, p) = 15
    <3>1. ByteAt(buf, p) = 121
      BY <1>3, <1>4, <1>6 DEF ByteAt
    <3>2. QED
      BY <3>1 DEF Type
  <2>2. QED
    BY <1>1, <1>2, <1>5, <1>6, <2>1 DEF Spot, After
<1>7. CASE n # k
  <2>1. PICK m \in 1..k : m = n + 1 /\ m - 1 = n
    BY <1>1, <1>7
  <2>2. /\ Type(buf, o[m - 1]) = TypeOf(t[m]) /\ TypeOf(t[m]) # 15
        /\ Length(buf, o[m - 1]) = Len(Encoded(t[m]))
    <3>1. m \in 1..Len(t)
      BY <1>1
    <3>2. Template(buf, t, o)
      BY <1>3
    <3>3. QED
      BY Zenon, <3>1, <3>2, TypeIs
  <2>3. NextResource(buf, r)
          = [type |-> TypeOf(t[m]), data |-> o[m - 1], length |-> Len(Encoded(t[m]))]
    BY <1>4, <1>5, <2>1, <2>2
  <2>4. After(t, n) = m /\ m # 0
    BY <1>1, <1>7, <2>1 DEF After
  <2>5. QED
    BY <1>1, <1>2, <2>3, <2>4 DEF Spot
<1>8. QED
  BY <1>6, <1>7

(* The descriptor after n calls, one of which may find the end. *)
AfterLoop(f, buf, n) ==
    f = [i \in 0..n |-> IF i = 0 THEN [res |-> Start, desc |-> NoDesc]
                        ELSE LET d == NextResource(buf, f[i - 1].res)
                             IN  [res |-> Moved(d), desc |-> d]]

LEMMA DescriptorLoop ==
    ASSUME NEW buf, NEW n
    PROVE  Descriptor(buf, n) = (CHOOSE f : AfterLoop(f, buf, n))[n].desc
BY Zenon DEF Descriptor, AfterLoop

Stand(t, o, i) == IF i = Len(t) + 1 THEN 0 ELSE i
Standing(t, o, i) == [res |-> Moved(Spot(t, o, Stand(t, o, i))), desc |-> Spot(t, o, Stand(t, o, i))]

LEMMA DescriptorIs ==
    ASSUME NEW t \in Seq(Resource), NEW o, Template(Encode(t), t, o), NEW n \in 0..(Len(t) + 1)
    PROVE  Descriptor(Encode(t), n) = Spot(t, o, Stand(t, o, n))
<1>1. PICK buf, k : buf = Encode(t) /\ k = Len(t) /\ k \in Nat
  OBVIOUS
<1>2. Standing(t, o, 0) = [res |-> Start, desc |-> NoDesc]
  BY DEF Standing, Stand, Spot, Moved, Start, NoDesc
<1>3. ASSUME NEW i \in 1..n
      PROVE  Standing(t, o, i)
               = LET d == NextResource(buf, Standing(t, o, i - 1).res)
                 IN  [res |-> Moved(d), desc |-> d]
  <2>1. PICK j \in 0..k : j = i - 1 /\ j + 1 = i
    BY <1>1
  <2>2. Stand(t, o, j) = j /\ Stand(t, o, i) = After(t, j)
    BY <1>1, <2>1 DEF Stand, After
  <2>3. NextResource(buf, Moved(Spot(t, o, j))) = Spot(t, o, After(t, j))
    BY <1>1, <2>1, NextIs
  <2>4. Standing(t, o, j).res = Moved(Spot(t, o, j))
    BY <2>2 DEF Standing
  <2>5. Standing(t, o, i) = [res |-> Moved(Spot(t, o, After(t, j))), desc |-> Spot(t, o, After(t, j))]
    BY <2>2 DEF Standing
  <2>6. QED
    BY <2>1, <2>3, <2>4, <2>5
<1>4. PICK g : g = [i \in 0..n |-> Standing(t, o, i)]
  OBVIOUS
<1>5. AfterLoop(g, buf, n)
  <2>1. ASSUME NEW i \in 0..n
        PROVE  g[i] = IF i = 0 THEN [res |-> Start, desc |-> NoDesc]
                      ELSE LET d == NextResource(buf, g[i - 1].res)
                           IN  [res |-> Moved(d), desc |-> d]
    <3>1. CASE i = 0
      BY <1>2, <1>4, <3>1
    <3>2. CASE i # 0
      <4>1. i \in 1..n /\ i - 1 \in 0..n
        BY <3>2
      <4>2. g[i - 1] = Standing(t, o, i - 1) /\ g[i] = Standing(t, o, i)
        BY <1>4, <4>1
      <4>3. QED
        BY <1>3, <3>2, <4>1, <4>2
    <3>3. QED
      BY <3>1, <3>2
  <2>2. g = [i \in 0..n |-> g[i]]
    BY <1>4
  <2>3. QED
    BY Zenon, <2>1, <2>2 DEF AfterLoop
<1>6. PICK f : f = (CHOOSE l : AfterLoop(l, buf, n)) /\ AfterLoop(f, buf, n)
  BY Zenon, <1>5
<1>7. \A i \in 0..n : f[i] = IF i = 0 THEN [res |-> Start, desc |-> NoDesc]
                             ELSE LET d == NextResource(buf, f[i - 1].res)
                                  IN  [res |-> Moved(d), desc |-> d]
  BY <1>6 DEF AfterLoop
<1>8. f[n] = Standing(t, o, n)
  <2>1. PICK S : S = {i \in 0..n : f[i] = Standing(t, o, i)}
    OBVIOUS
  <2>2. 0 \in S
    <3>1. 0 \in 0..n
      BY <1>1
    <3>2. QED
      BY <1>2, <1>7, <2>1, <3>1
  <2>3. ASSUME NEW i \in 0..(n - 1), i \in S PROVE i + 1 \in S
    <3>1. PICK j \in 1..n : j = i + 1 /\ j - 1 = i /\ j # 0 /\ j \in 0..n
      BY <1>1
    <3>2. f[j] = LET d == NextResource(buf, f[i].res)
                 IN  [res |-> Moved(d), desc |-> d]
      BY <1>7, <3>1
    <3>3. f[i] = Standing(t, o, i)
      BY <2>1, <2>3
    <3>4. f[j] = Standing(t, o, j)
      BY <1>3, <3>1, <3>2, <3>3
    <3>5. QED
      BY <2>1, <3>1, <3>4
  <2>4. 0..n \subseteq S
    <3>1. n \in Nat
      BY <1>1
    <3>2. QED
      BY <2>2, <2>3, <3>1, UpTo
  <2>5. QED
    BY <1>1, <2>1, <2>4
<1>9. QED
  BY <1>1, <1>6, <1>8, DescriptorLoop DEF Standing

(* Where descriptors begin. *)
BeginsLoop(f, n) ==
    f = [i \in 1..n |-> IF i = 1 THEN 0 ELSE f[i - 1] + Len(Encoded(template[i - 1]))]

LEMMA BeginsAs ==
    ASSUME NEW n
    PROVE  Begins(n) = (CHOOSE f : BeginsLoop(f, n))[n]
BY Zenon DEF Begins, BeginsLoop

LEMMA BeginsIs ==
    ASSUME NEW buf, NEW o, Template(buf, template, o), template \in Seq(Resource),
           NEW n \in 1..Len(template)
    PROVE  Begins(n) = o[n - 1]
<1>1. PICK k \in Nat : k = Len(template) /\ n \in 1..k
  OBVIOUS
<1>2. /\ o \in [0..k -> Nat] /\ o[0] = 0
      /\ \A m \in 1..k : o[m] = o[m - 1] + Len(Encoded(template[m]))
  BY <1>1 DEF Template
<1>3. ASSUME NEW i \in 1..n, i # 1
      PROVE  o[i - 1] = o[i - 1 - 1] + Len(Encoded(template[i - 1]))
  <2>1. PICK m \in 1..k : m = i - 1
    BY <1>1, <1>3
  <2>2. QED
    BY <1>2, <2>1
<1>4. PICK g : g = [i \in 1..n |-> o[i - 1]]
  OBVIOUS
<1>5. BeginsLoop(g, n)
  <2>1. ASSUME NEW i \in 1..n
        PROVE  g[i] = IF i = 1 THEN 0 ELSE g[i - 1] + Len(Encoded(template[i - 1]))
    <3>1. CASE i = 1
      BY <1>2, <1>4, <3>1
    <3>2. CASE i # 1
      <4>1. i - 1 \in 1..n
        BY <3>2
      <4>2. QED
        BY <1>3, <1>4, <3>2, <4>1
    <3>3. QED
      BY <3>1, <3>2
  <2>2. g = [i \in 1..n |-> g[i]]
    BY <1>4
  <2>3. QED
    BY Zenon, <2>1, <2>2 DEF BeginsLoop
<1>6. PICK f : f = (CHOOSE l : BeginsLoop(l, n)) /\ BeginsLoop(f, n)
  BY Zenon, <1>5
<1>7. \A i \in 1..n : f[i] = IF i = 1 THEN 0 ELSE f[i - 1] + Len(Encoded(template[i - 1]))
  BY <1>6 DEF BeginsLoop
<1>8. f[n] = o[n - 1]
  <2>1. PICK S : S = {i \in 0..(n - 1) : f[i + 1] = o[i]}
    OBVIOUS
  <2>2. 0 \in S
    <3>1. 0 \in 0..(n - 1) /\ 1 \in 1..n /\ 0 + 1 = 1
      BY <1>1
    <3>2. QED
      BY <1>2, <1>7, <2>1, <3>1
  <2>3. ASSUME NEW i \in 0..(n - 1 - 1), i \in S PROVE i + 1 \in S
    <3>1. PICK j \in 1..n, m \in 1..n : /\ m = i + 1 /\ j = m + 1 /\ j - 1 = m /\ m - 1 = i
                                        /\ j # 1 /\ m \in 0..(n - 1)
      BY <1>1
    <3>2. f[j] = f[m] + Len(Encoded(template[m]))
      BY <1>7, <3>1
    <3>3. o[m] = o[i] + Len(Encoded(template[m]))
      BY <1>1, <1>2, <3>1
    <3>4. f[m] = o[i]
      BY <2>1, <2>3, <3>1
    <3>5. QED
      BY <2>1, <3>1, <3>2, <3>3, <3>4
  <2>4. 0..(n - 1) \subseteq S
    <3>1. n - 1 \in Nat
      BY <1>1
    <3>2. QED
      BY <2>2, <2>3, <3>1, UpTo
  <2>5. n - 1 \in S /\ n - 1 + 1 = n
    BY <1>1, <2>4
  <2>6. QED
    BY <2>1, <2>5
<1>9. QED
  BY <1>6, <1>8, BeginsAs

-----------------------------------------------------------------------------
(* The invariant of routing. *)
RoutingInv ==
    /\ template \in Seq(Resource) /\ present \in BOOLEAN /\ (~present => template = <<>>)
    /\ children \in Seq(Addresses \cup {-1})
    /\ given \in 0..Len(template)
    /\ held => res = Moved(desc)
    /\ DescriptorsInOrder
    /\ RoutedAsDescribed

LEMMA InOrderIs ==
    ASSUME template \in Seq(Resource), NEW o, Template(Encode(template), template, o),
           given \in 0..Len(template)
    PROVE  DescriptorsInOrder <=> (held => desc = Spot(template, o, given))
<1>1. CASE given = 0
  BY <1>1 DEF DescriptorsInOrder, Spot
<1>2. CASE given # 0
  <2>1. given \in 1..Len(template)
    BY <1>2
  <2>2. Begins(given) = o[given - 1]
    BY <2>1, BeginsIs
  <2>3. QED
    BY <1>2, <2>2 DEF DescriptorsInOrder, Spot
<1>3. QED
  BY <1>1, <1>2

(* A call of sabi_next_resource. *)
LEMMA ResourceTaken ==
    ASSUME RoutingInv, TakeResource
    PROVE  RoutingInv'
<1>1. /\ template \in Seq(Resource) /\ given \in 0..Len(template)
      /\ held /\ res = Moved(desc) /\ DescriptorsInOrder
      /\ desc' = NextResource(Encode(template), res) /\ res' = Moved(desc')
      /\ given' = IF given = Len(template) THEN 0 ELSE given + 1
      /\ UNCHANGED <<present, template, children, held, answer>>
  BY DEF RoutingInv, TakeResource
<1>2. PICK o : Template(Encode(template), template, o)
  BY <1>1, EncodeHas
<1>3. desc = Spot(template, o, given)
  BY <1>1, <1>2, InOrderIs
<1>4. desc' = Spot(template, o, given')
  <2>1. given' = After(template, given)
    BY <1>1 DEF After
  <2>2. desc' = NextResource(Encode(template), Moved(Spot(template, o, given)))
    BY <1>1, <1>3
  <2>3. QED
    BY <1>1, <1>2, <2>1, <2>2, NextIs
<1>5. given' \in 0..Len(template)
  BY <1>1
<1>6. DescriptorsInOrder'
  <2>1. CASE given' = 0
    BY <1>1, <1>4, <2>1 DEF DescriptorsInOrder, Spot
  <2>2. CASE given' # 0
    <3>1. PICK n \in 1..Len(template) : n = given'
      BY <1>5, <2>2
    <3>2. Begins(n) = o[n - 1]
      BY <1>1, <1>2, BeginsIs
    <3>3. Begins(n)' = Begins(n)
      BY Zenon, <1>1 DEF Begins
    <3>4. QED
      BY <1>1, <1>4, <2>2, <3>1, <3>2, <3>3 DEF DescriptorsInOrder, Spot
  <2>3. QED
    BY <2>1, <2>2
<1>7. RoutedAsDescribed' <=> RoutedAsDescribed
  BY SMT, <1>1 DEF RoutedAsDescribed, RouteDescribed, BusDescribed, PortsDescribed, DeviceDescribed
<1>8. QED
  BY <1>1, <1>5, <1>6, <1>7 DEF RoutingInv
-----------------------------------------------------------------------------
(* The calls that read a template on their own. *)

(* What the code finds as descriptor n. *)
LEMMA DescriptorAt ==
    ASSUME template \in Seq(Resource), NEW buf, buf = Encode(template),
           NEW n \in 1..Len(template), NEW d, d = Descriptor(buf, n), NEW r, r = template[n]
    PROVE  /\ r \in Resource /\ d.type = TypeOf(r)
           /\ r.is = "irq" => Highest(WordAt(buf, d.data + 1)) = r.line
           /\ r.is = "extended" => /\ WordAt(buf, d.data + 5) = r.gsi
                                   /\ ByteAt(buf, d.data + 3) \div 2 = Packed(r.traits, 0, 1, 2, 3)
           /\ r.is = "io" => WordAt(buf, d.data + 2) = r.min
           /\ r.is = "bus" => WordAt(buf, d.data + 8) = r.min
<1>0. PICK t : t = template /\ t \in Seq(Resource) /\ n \in 1..Len(t) /\ r = t[n]
  OBVIOUS
<1>1. PICK o : Template(buf, t, o)
  BY <1>0, EncodeHas
<1>2. PICK p, e : p = o[n - 1] /\ e = Encoded(t[n]) /\ e = Encoded(r)
  BY <1>0
<1>3. d = [type |-> TypeOf(r), data |-> p, length |-> Len(e)]
  <2>1. n \in 0..(Len(template) + 1) /\ Stand(template, o, n) = n /\ n # 0
    BY DEF Stand
  <2>2. d = Spot(template, o, n)
    BY <1>0, <1>1, <2>1, DescriptorIs
  <2>3. QED
    BY <1>0, <1>2, <2>1, <2>2 DEF Spot
<1>4. /\ p \in Nat /\ e \in Seq(Byte) /\ Len(e) \in Nat /\ Len(e) >= 3
      /\ \A j \in Nat : j < Len(e) => ByteAt(buf, p + j) = e[j + 1]
      /\ \A j \in Nat : j + 1 < Len(e) => WordAt(buf, p + j) = e[j + 1] + 256 * e[j + 2]
  <2>1. p = o[n - 1] /\ e = Encoded(t[n])
    BY <1>2
  <2>2. QED
    BY <1>0, <1>1, <2>1, BytesAre
<1>5. r \in Resource /\ Reads(r, e)
  BY <1>0, <1>2, EncodedIs
<1>6. ASSUME r.is = "irq"
      PROVE  Highest(WordAt(buf, p + 1)) = r.line
  <2>1. WordAt(buf, p + 1) = e[1 + 1] + 256 * e[1 + 2]
    BY <1>4
  <2>2. e[2] + 256 * e[3] = 2^r.line
    BY <1>5, <1>6 DEF Reads
  <2>3. r.line \in 0..15
    BY <1>5, <1>6 DEF Resource
  <2>4. WordAt(buf, p + 1) = 2^r.line
    BY <2>1, <2>2
  <2>5. QED
    BY Zenon, <2>3, <2>4, HighestIs
<1>7. ASSUME r.is = "extended"
      PROVE  /\ WordAt(buf, p + 5) = r.gsi
             /\ ByteAt(buf, p + 3) \div 2 = Packed(r.traits, 0, 1, 2, 3)
  <2>1. /\ Len(e) = 9 /\ e[6] + 256 * e[7] = r.gsi
        /\ e[4] \div 2 = Packed(r.traits, 0, 1, 2, 3)
    BY <1>5, <1>7 DEF Reads
  <2>2. WordAt(buf, p + 5) = e[5 + 1] + 256 * e[5 + 2]
    <3>1. 5 \in Nat /\ 5 + 1 < Len(e)
      BY <2>1
    <3>2. QED
      BY Zenon, <1>4, <3>1
  <2>3. ByteAt(buf, p + 3) = e[3 + 1]
    <3>1. 3 \in Nat /\ 3 < Len(e)
      BY <2>1
    <3>2. QED
      BY Zenon, <1>4, <3>1
  <2>4. QED
    BY <2>1, <2>2, <2>3
<1>8. ASSUME r.is = "io"
      PROVE  WordAt(buf, p + 2) = r.min
  <2>1. Len(e) = 8 /\ e[3] + 256 * e[4] = r.min
    BY <1>5, <1>8 DEF Reads
  <2>2. WordAt(buf, p + 2) = e[2 + 1] + 256 * e[2 + 2]
    <3>1. 2 \in Nat /\ 2 + 1 < Len(e)
      BY <2>1
    <3>2. QED
      BY Zenon, <1>4, <3>1
  <2>3. QED
    BY <2>1, <2>2
<1>9. ASSUME r.is = "bus"
      PROVE  WordAt(buf, p + 8) = r.min
  <2>1. Len(e) = 16 /\ e[9] + 256 * e[10] = r.min
    BY <1>5, <1>9 DEF Reads
  <2>2. WordAt(buf, p + 8) = e[8 + 1] + 256 * e[8 + 2]
    <3>1. 8 \in Nat /\ 8 + 1 < Len(e)
      BY <2>1
    <3>2. QED
      BY Zenon, <1>4, <3>1
  <2>3. QED
    BY <2>1, <2>2
<1>10. QED
  BY <1>3, <1>5, <1>6, <1>7, <1>8, <1>9
(* The call after the last descriptor finds none. *)
LEMMA NoneAt ==
    ASSUME template \in Seq(Resource)
    PROVE  Descriptor(Encode(template), Len(template) + 1) = NoDesc
<1>1. PICK o : Template(Encode(template), template, o)
  BY EncodeHas
<1>2. Len(template) + 1 \in 0..(Len(template) + 1) /\ Stand(template, o, Len(template) + 1) = 0
  BY DEF Stand
<1>3. QED
  BY <1>1, <1>2, DescriptorIs DEF Spot

LEMMA Types ==
    ASSUME NEW r \in Resource
    PROVE  /\ r.is \in {"irq", "extended", "io", "bus"}
           /\ r.is = "irq" <=> TypeOf(r) = 4
           /\ r.is = "extended" <=> TypeOf(r) = 137
           /\ r.is = "io" <=> TypeOf(r) = 8
           /\ r.is = "bus" <=> TypeOf(r) = 136
<1>1. r.is \in {"irq", "extended", "io", "bus"}
  BY DEF Resource
<1>2. QED
  BY <1>1 DEF TypeOf

(* The device of an entry of _PRT. *)
LEMMA SlotIs ==
    ASSUME NEW adr \in Nat, adr % 65536 = 65535
    PROVE  (adr \div 65536) * 65536 + 65535 = adr
BY SMT

LEMMA UnroutedIs ==
    ASSUME NEW e, e.adr \in Nat, e.adr % 65536 = 65535
    PROVE  \E s : /\ s * 65536 + 65535 = e.adr
                  /\ Unrouted(e) = [slot |-> s, pin |-> e.pin, gsi |-> -1, flags |-> DefaultFlags]
<1>1. (e.adr \div 65536) * 65536 + 65535 = e.adr
  BY SMT, SlotIs
<1>2. Unrouted(e) = [slot |-> e.adr \div 65536, pin |-> e.pin, gsi |-> -1, flags |-> DefaultFlags]
  BY SMT DEF Unrouted
<1>3. PICK s : s = e.adr \div 65536
  OBVIOUS
<1>4. s * 65536 + 65535 = e.adr
  BY SMT, <1>1, <1>3
<1>5. Unrouted(e) = [slot |-> s, pin |-> e.pin, gsi |-> -1, flags |-> DefaultFlags]
  BY SMT, <1>2, <1>3
<1>6. QED
  BY SMT, <1>4, <1>5
LEMMA RouteIs ==
    ASSUME template \in Seq(Resource), present \in BOOLEAN,
           NEW e \in Entries, Translatable(e)
    PROVE  RouteDescribed(e, PciPackage(e))
<1>1. e.source \in {"gsi", "link", "missing"} /\ e.index \in Nat
  BY SMT, RoutingAssumption
<1>2. PICK s : /\ s * 65536 + 65535 = e.adr
               /\ Unrouted(e) = [slot |-> s, pin |-> e.pin, gsi |-> -1, flags |-> DefaultFlags]
  BY SMT, RoutingAssumption, UnroutedIs
<1>3. PICK r : r = PciPackage(e)
  OBVIOUS
<1>4. CASE e.source = "gsi"
  BY SMT, <1>2, <1>4 DEF PciPackage, RouteDescribed
<1>5. CASE e.source = "missing" \/ (e.source = "link" /\ ~present)
  BY SMT, <1>2, <1>5 DEF PciPackage, RouteDescribed
<1>6. CASE e.source = "link" /\ present
  <2>1. PICK n \in 1..Len(template) : n = e.index + 1
    BY <1>1, <1>6 DEF Translatable
  <2>2. PICK buf, d, t : buf = Encode(template) /\ d = Descriptor(buf, n) /\ t = template[n]
    OBVIOUS
  <2>3. /\ t \in Resource /\ d.type = TypeOf(t)
        /\ t.is = "irq" => Highest(WordAt(buf, d.data + 1)) = t.line
        /\ t.is = "extended" => /\ WordAt(buf, d.data + 5) = t.gsi
                                /\ ByteAt(buf, d.data + 3) \div 2 = Packed(t.traits, 0, 1, 2, 3)
    BY <2>2, DescriptorAt
  <2>4. /\ t.is \in {"irq", "extended", "io", "bus"}
        /\ t.is = "irq" <=> d.type = 4
        /\ t.is = "extended" <=> d.type = 137
    BY <2>3, Types
  <2>5. PciPackage(e) = CASE d.type = 4 ->
                                [Unrouted(e) EXCEPT
                                   !.gsi = Highest(WordAt(buf, d.data + 1)),
                                   !.flags = IF d.length = 3
                                             THEN 2 * ((ByteAt(buf, d.data + 3) \div 8) % 8)
                                                    + (ByteAt(buf, d.data + 3) % 2) ELSE @]
                          [] d.type = 137 ->
                                [Unrouted(e) EXCEPT !.gsi = WordAt(buf, d.data + 5),
                                                    !.flags = ByteAt(buf, d.data + 3) \div 2]
                          [] OTHER -> Unrouted(e)
    BY <1>6, <2>1, <2>2 DEF PciPackage
  <2>6. ASSUME t.is = "irq"
        PROVE  r.slot = s /\ r.pin = e.pin /\ r.gsi = t.line
    <3>1. PICK f : r = [Unrouted(e) EXCEPT !.gsi = Highest(WordAt(buf, d.data + 1)), !.flags = f]
      BY Zenon, <1>3, <2>4, <2>5, <2>6
    <3>2. r = [Unrouted(e) EXCEPT !.gsi = t.line, !.flags = f]
      BY Zenon, <2>3, <2>6, <3>1
    <3>3. QED
      BY SMT, <1>2, <3>2
  <2>7. ASSUME t.is = "extended"
        PROVE  /\ r.slot = s /\ r.pin = e.pin /\ r.gsi = t.gsi
               /\ r.flags = Packed(t.traits, 0, 1, 2, 3)
    <3>1. d.type # 4 /\ d.type = 137
      BY SMT, <2>4, <2>7
    <3>2. r = [Unrouted(e) EXCEPT !.gsi = WordAt(buf, d.data + 5),
                                  !.flags = ByteAt(buf, d.data + 3) \div 2]
      BY Zenon, <1>3, <2>5, <3>1
    <3>3. r = [Unrouted(e) EXCEPT !.gsi = t.gsi, !.flags = Packed(t.traits, 0, 1, 2, 3)]
      BY Zenon, <2>3, <2>7, <3>2
    <3>4. QED
      BY SMT, <1>2, <3>3
  <2>9. t.is \in {"io", "bus"} => r.slot = s /\ r.pin = e.pin /\ r.gsi = -1
    BY SMT, <1>2, <1>3, <2>3, <2>4, <2>5
  <2>10. QED
    BY SMT, <1>2, <1>3, <1>6, <2>1, <2>2, <2>4, <2>6, <2>7, <2>9 DEF RouteDescribed
<1>7. QED
  BY <1>1, <1>4, <1>5, <1>6

(* The bus of a bridge. *)
LEMMA BusIs ==
    ASSUME template \in Seq(Resource), present \in BOOLEAN, ~present => template = <<>>
    PROVE  BusDescribed(Bbn)
<1>1. CASE ~present
  BY <1>1 DEF Bbn, BusDescribed
<1>2. CASE present /\ template = <<>>
  <2>1. Len(template) + 1 = 1
    BY <1>2
  <2>2. Descriptor(Encode(template), 1) = NoDesc
    BY <2>1, NoneAt
  <2>3. QED
    BY <1>2, <2>2 DEF Bbn, BusDescribed, NoDesc
<1>3. CASE present /\ template # <<>>
  <2>1. 1 \in 1..Len(template)
    BY <1>3
  <2>2. PICK buf, d, r : buf = Encode(template) /\ d = Descriptor(buf, 1) /\ r = template[1]
    OBVIOUS
  <2>3. /\ r \in Resource /\ d.type = TypeOf(r)
        /\ r.is = "bus" => WordAt(buf, d.data + 8) = r.min
    BY <2>1, <2>2, DescriptorAt
  <2>4. r.is = "bus" <=> d.type = 136
    BY <2>3, Types
  <2>5. Bbn = IF d.type = 136 THEN WordAt(buf, d.data + 8) ELSE 0
    BY <1>3, <2>2 DEF Bbn
  <2>6. QED
    BY <1>3, <2>2, <2>3, <2>4, <2>5 DEF BusDescribed
<1>4. QED
  BY <1>1, <1>2, <1>3

(* The ports of a controller. *)
LEMMA PortAt ==
    ASSUME template \in Seq(Resource), NEW buf, buf = Encode(template),
           NEW n \in 1..(Len(template) + 1), NEW d, d = Descriptor(buf, n)
    PROVE  IF n =< Len(template) /\ template[n].is = "io"
           THEN d.type = 8 /\ WordAt(buf, d.data + 2) = template[n].min
           ELSE d.type # 8
<1>1. CASE n = Len(template) + 1
  BY <1>1, NoneAt DEF NoDesc
<1>2. CASE n \in 1..Len(template)
  <2>1. PICK r : r = template[n]
    OBVIOUS
  <2>2. /\ r \in Resource /\ d.type = TypeOf(r)
        /\ r.is = "io" => WordAt(buf, d.data + 2) = r.min
    BY <1>2, <2>1, DescriptorAt
  <2>3. r.is = "io" <=> d.type = 8
    BY <2>2, Types
  <2>4. QED
    BY <1>2, <2>1, <2>2, <2>3
<1>3. QED
  BY <1>1, <1>2

LEMMA PortsIs ==
    ASSUME template \in Seq(Resource)
    PROVE  PortsDescribed(EcPorts)
<1>1. PICK buf, d, e : /\ buf = Encode(template)
                       /\ d = Descriptor(buf, 1) /\ e = Descriptor(buf, 2)
  OBVIOUS
<1>2. IF Len(template) >= 1 /\ template[1].is = "io"
      THEN d.type = 8 /\ WordAt(buf, d.data + 2) = template[1].min
      ELSE d.type # 8
  <2>1. 1 \in 1..(Len(template) + 1)
    OBVIOUS
  <2>2. QED
    BY <1>1, <2>1, PortAt
<1>3. Len(template) >= 1 =>
        IF Len(template) >= 2 /\ template[2].is = "io"
        THEN e.type = 8 /\ WordAt(buf, e.data + 2) = template[2].min
        ELSE e.type # 8
  <2>1. Len(template) >= 1 => 2 \in 1..(Len(template) + 1)
    OBVIOUS
  <2>2. QED
    BY <1>1, <2>1, PortAt
<1>4. EcPorts = IF d.type = 8 /\ e.type = 8
                THEN [data |-> WordAt(buf, d.data + 2), base |-> WordAt(buf, e.data + 2)]
                ELSE [data |-> -1, base |-> -1]
  BY Zenon, <1>1 DEF EcPorts
<1>5. Len(template) \in Nat
  OBVIOUS
<1>6. CASE Len(template) >= 2 /\ template[1].is = "io" /\ template[2].is = "io"
  BY <1>2, <1>3, <1>4, <1>5, <1>6 DEF PortsDescribed
<1>7. CASE ~(Len(template) >= 2 /\ template[1].is = "io" /\ template[2].is = "io")
  <2>1. ~(d.type = 8 /\ e.type = 8)
    BY <1>2, <1>3, <1>5, <1>7
  <2>2. QED
    BY Zenon, <1>4, <1>7, <2>1 DEF PortsDescribed
<1>8. QED
  BY <1>6, <1>7

(* The device at an address. *)
LEMMA AddressIs ==
    ASSUME NEW dev \in Addresses, NEW slot \in 0..2, NEW fn \in 0..2
    PROVE  dev # -1 /\ (Address(dev) = [slot |-> slot, func |-> fn] <=> dev = Adr(slot, fn))
<1>1. PICK s \in 0..31, f \in 0..7 \cup {65535} : dev = 65536 * s + f
  BY SMT, RoutingAssumption DEF Adr
<1>2. s \in 0..31 /\ (f \in 0..7 \/ f = 65535)
  BY SMT, <1>1
<1>3. (dev \div 65536) % 256 = s /\ dev \in Nat
  BY SMT, <1>1, <1>2
<1>4. (f \in 0..7 => dev % 256 = f) /\ (f = 65535 => dev % 256 = 255)
  BY SMT, <1>1, <1>2
<1>5. Address(dev) = [slot |-> s, func |-> dev % 256]
  BY SMT, <1>3 DEF Address
<1>6. dev = Adr(slot, fn) <=> s = slot /\ f = fn
  BY SMT, <1>1, <1>2 DEF Adr
<1>7. QED
  BY SMT, <1>2, <1>3, <1>4, <1>5, <1>6

First(S) == IF S = {} THEN 0 ELSE CHOOSE i \in S : \A j \in S : i =< j

LEMMA DeviceIs ==
    ASSUME children \in Seq(Addresses \cup {-1}), NEW slot \in 0..2, NEW fn \in 0..2
    PROVE  DeviceDescribed(slot, fn, FindDevice(slot, fn))
<1>1. PICK found : found = {i \in DOMAIN children : children[i] = Adr(slot, fn)}
  OBVIOUS
<1>2. found = {i \in DOMAIN children :
                 /\ children[i] # -1
                 /\ Address(children[i]) = [slot |-> slot, func |-> fn]}
  <2>1. Adr(slot, fn) # -1
    BY SMT DEF Adr
  <2>2. ASSUME NEW i \in DOMAIN children
        PROVE  children[i] = Adr(slot, fn)
                 <=> /\ children[i] # -1
                     /\ Address(children[i]) = [slot |-> slot, func |-> fn]
    <3>1. children[i] \in Addresses \/ children[i] = -1
      BY SMT
    <3>2. CASE children[i] \in Addresses
      BY Zenon, <3>2, AddressIs
    <3>3. CASE children[i] = -1
      BY Zenon, <2>1, <3>3
    <3>4. QED
      BY <3>1, <3>2, <3>3
  <2>3. QED
    BY Zenon, <1>1, <2>2
<1>3. found \in SUBSET Nat /\ \A i \in found : i # 0
  BY SMT, <1>1
<1>4. FindDevice(slot, fn) = First(found)
  <2>1. FindDevice(slot, fn) = First({i \in DOMAIN children : children[i] = Adr(slot, fn)})
    BY Zenon DEF FindDevice, First
  <2>2. QED
    BY Zenon, <1>1, <2>1
<1>5. CASE found = {}
  <2>1. FindDevice(slot, fn) = 0
    BY Zenon, <1>4, <1>5 DEF First
  <2>2. QED
    BY Zenon, <1>2, <1>5, <2>1 DEF DeviceDescribed
<1>6. CASE found # {}
  <2>1. PICK i \in found : \A j \in found : i =< j
    BY Zenon, <1>3, <1>6, Least
  <2>2. PICK k : k = CHOOSE x \in found : \A j \in found : x =< j
    OBVIOUS
  <2>3. k \in found /\ \A j \in found : k =< j
    BY Zenon, <2>1, <2>2
  <2>4. FindDevice(slot, fn) = k /\ k # 0
    BY Zenon, <1>3, <1>4, <1>6, <2>2, <2>3 DEF First
  <2>5. QED
    BY Zenon, <1>2, <2>3, <2>4 DEF DeviceDescribed
<1>7. QED
  BY <1>5, <1>6

(* The other steps. *)
LEMMA EmptyIn == <<>> \in Seq(Resource)
OBVIOUS

LEMMA SameIn ==
    ASSUME template' = template, held' = held, desc' = desc, given' = given
    PROVE  DescriptorsInOrder' <=> DescriptorsInOrder
<1>1. ASSUME NEW n PROVE Begins(n)' = Begins(n)
  BY Zenon DEF Begins
<1>2. PICK n : n = given
  OBVIOUS
<1>3. QED
  BY <1>1, <1>2 DEF DescriptorsInOrder

LEMMA RoutingStarts ==
    ASSUME RoutingInit
    PROVE  RoutingInv
<1>1. /\ present \in BOOLEAN /\ held = FALSE /\ given = 0 /\ answer.is = "none"
  BY DEF RoutingInit
<1>2. template \in Seq(Resource) /\ (~present => template = <<>>)
  <2>1. Templates \subseteq Seq(Resource) /\ <<>> \in Seq(Resource)
    BY SMT, RoutingAssumption, EmptyIn
  <2>2. \/ present /\ template \in Templates
        \/ template = <<>>
    BY Zenon DEF RoutingInit
  <2>3. QED
    BY <2>1, <2>2
<1>3. children \in Seq(Addresses \cup {-1})
  <2>1. CASE children = <<>>
    BY <2>1
  <2>2. CASE children # <<>>
    <3>1. PICK n \in 0..2 : children \in [1..n -> Addresses \cup {-1}]
      BY Zenon, <2>2 DEF RoutingInit
    <3>2. QED
      BY <3>1
  <2>3. QED
    BY <2>1, <2>2
<1>4. given \in 0..Len(template)
  BY <1>1, <1>2
<1>5. QED
  BY <1>1, <1>2, <1>3, <1>4 DEF RoutingInv, DescriptorsInOrder, RoutedAsDescribed

(* The operating system begins an iteration, or ends it. *)
LEMMA ResourceHeld ==
    ASSUME RoutingInv, EvalResource \/ FreeResource
    PROVE  RoutingInv'
<1>1. /\ res' = Start /\ desc' = NoDesc /\ given' = 0
      /\ UNCHANGED <<present, template, children, answer>>
  BY DEF EvalResource, FreeResource
<1>2. res' = Moved(desc')
  BY <1>1 DEF Moved, Start, NoDesc
<1>3. DescriptorsInOrder'
  BY <1>1 DEF DescriptorsInOrder
<1>4. RoutedAsDescribed' <=> RoutedAsDescribed
  BY SMT, <1>1 DEF RoutedAsDescribed, RouteDescribed, BusDescribed, PortsDescribed, DeviceDescribed
<1>5. QED
  BY <1>1, <1>2, <1>3, <1>4 DEF RoutingInv

(* Another call: what it returns is all that changes. *)
LEMMA Answered ==
    ASSUME RoutingInv, NEW a, Returns(a),
           \/ \E e \in Entries : Translatable(e)
                                   /\ a = [is |-> "route", entry |-> e, route |-> PciPackage(e)]
           \/ a = [is |-> "bus", bus |-> Bbn]
           \/ a = [is |-> "ports", ports |-> EcPorts]
           \/ \E slot \in 0..2, fn \in 0..2 :
                a = [is |-> "device", slot |-> slot, fn |-> fn, device |-> FindDevice(slot, fn)]
    PROVE  RoutingInv'
<1>1. answer' = a /\ UNCHANGED <<present, template, children, held, res, desc, given>>
  BY DEF Returns
<1>2. /\ template \in Seq(Resource) /\ present \in BOOLEAN /\ (~present => template = <<>>)
      /\ children \in Seq(Addresses \cup {-1})
  BY DEF RoutingInv
<1>3. /\ a.is = "route" => RouteDescribed(a.entry, a.route)
      /\ a.is = "bus" => BusDescribed(a.bus)
      /\ a.is = "ports" => PortsDescribed(a.ports)
      /\ a.is = "device" => DeviceDescribed(a.slot, a.fn, a.device)
  <2>1. CASE \E e \in Entries :
               Translatable(e) /\ a = [is |-> "route", entry |-> e, route |-> PciPackage(e)]
    <3>1. PICK e \in Entries :
            Translatable(e) /\ a = [is |-> "route", entry |-> e, route |-> PciPackage(e)]
      BY <2>1
    <3>2. RouteDescribed(e, PciPackage(e))
      BY <1>2, <3>1, RouteIs
    <3>3. QED
      BY <3>1, <3>2
  <2>2. CASE a = [is |-> "bus", bus |-> Bbn]
    BY <1>2, <2>2, BusIs
  <2>3. CASE a = [is |-> "ports", ports |-> EcPorts]
    BY <1>2, <2>3, PortsIs
  <2>4. CASE \E slot \in 0..2, fn \in 0..2 :
               a = [is |-> "device", slot |-> slot, fn |-> fn, device |-> FindDevice(slot, fn)]
    <3>1. PICK slot \in 0..2, fn \in 0..2 :
            a = [is |-> "device", slot |-> slot, fn |-> fn, device |-> FindDevice(slot, fn)]
      BY <2>4
    <3>2. DeviceDescribed(slot, fn, FindDevice(slot, fn))
      BY <1>2, DeviceIs
    <3>3. QED
      BY <3>1, <3>2
  <2>5. QED
    BY <2>1, <2>2, <2>3, <2>4
<1>4. RoutedAsDescribed'
  <2>1. /\ a.is = "route" => RouteDescribed(a.entry, a.route)'
        /\ a.is = "bus" => BusDescribed(a.bus)'
        /\ a.is = "ports" => PortsDescribed(a.ports)'
        /\ a.is = "device" => DeviceDescribed(a.slot, a.fn, a.device)'
    BY SMT, <1>1, <1>3 DEF RouteDescribed, BusDescribed, PortsDescribed, DeviceDescribed
  <2>2. QED
    BY <1>1, <2>1 DEF RoutedAsDescribed
<1>5. DescriptorsInOrder' <=> DescriptorsInOrder
  BY <1>1, SameIn
<1>6. QED
  BY <1>1, <1>4, <1>5 DEF RoutingInv

(* The templates are those that firmware writes, an iteration stands at    *)
(* the descriptor it was given last, and every answer is right: the        *)
(* inductive invariant of routing.                                         *)
THEOREM RoutingInvariant == RoutingSpec => []RoutingInv
<1>1. RoutingInit => RoutingInv
  BY RoutingStarts
<1>2. RoutingInv /\ [RoutingNext]_routing => RoutingInv'
  <2> SUFFICES ASSUME RoutingInv, [RoutingNext]_routing PROVE RoutingInv'
    OBVIOUS
  <2>1. CASE EvalResource \/ FreeResource
    BY <2>1, ResourceHeld
  <2>2. CASE TakeResource
    BY <2>2, ResourceTaken
  <2>3. ASSUME NEW e \in Entries, EvalPrt(e)
        PROVE  RoutingInv'
    BY <2>3, Answered DEF EvalPrt
  <2>4. CASE EvalBbn
    BY <2>4, Answered DEF EvalBbn
  <2>5. CASE ResolveEc
    BY <2>5, Answered DEF ResolveEc
  <2>6. ASSUME NEW slot \in 0..2, NEW fn \in 0..2, SearchDevice(slot, fn)
        PROVE  RoutingInv'
    BY <2>6, Answered DEF SearchDevice
  <2>7. CASE UNCHANGED routing
    <3>1. UNCHANGED <<present, template, children, held, res, desc, given, answer>>
      BY <2>7 DEF routing
    <3>2. DescriptorsInOrder' <=> DescriptorsInOrder
      BY <3>1, SameIn
    <3>3. RoutedAsDescribed' <=> RoutedAsDescribed
      BY SMT, <3>1
         DEF RoutedAsDescribed, RouteDescribed, BusDescribed, PortsDescribed, DeviceDescribed
    <3>4. QED
      BY <3>1, <3>2, <3>3 DEF RoutingInv
  <2>8. QED
    BY <2>1, <2>2, <2>3, <2>4, <2>5, <2>6, <2>7 DEF RoutingNext
<1>3. QED
  BY <1>1, <1>2, PTL DEF RoutingSpec

(* sabi_next_resource, called again and again, gets every descriptor of a  *)
(* template once, in order and whole, then the end, and begins again: for  *)
(* every list of descriptors that firmware writes, of any length.          *)
THEOREM InOrder == RoutingSpec => []DescriptorsInOrder
<1>1. RoutingInv => DescriptorsInOrder
  BY DEF RoutingInv
<1>2. QED
  BY <1>1, RoutingInvariant, PTL

(* An entry of _PRT is translated to the interrupt that the descriptor it  *)
(* selects names, the ports of a controller and the number of a bus are    *)
(* read from the right descriptors, and the device that is found is the    *)
(* first at its address: for every template, every table of entries and    *)
(* all children.                                                           *)
THEOREM Described == RoutingSpec => []RoutedAsDescribed
<1>1. RoutingInv => RoutedAsDescribed
  BY DEF RoutingInv
<1>2. QED
  BY <1>1, RoutingInvariant, PTL

=============================================================================
