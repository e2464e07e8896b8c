---------------------------- MODULE I2cBusProofs ----------------------------
(***************************************************************************)
(* Proofs about I2cBus, for every set of bytes on the bus, transfers of    *)
(* any length and captures of any length.                                  *)
(*                                                                         *)
(* Sound: the types, what an idle bus looks like, and that the decoder     *)
(* knows whether it is inside a transfer.  The order of the packets        *)
(* (ImplementsEvents) follows from it alone.                               *)
(*                                                                         *)
(* InStep: how far a decoder that missed a condition can be from the bus.  *)
(* It reads the same clock pulses, so it is some number k of pulses ahead  *)
(* in its count, and Lags(k) bounds k by the transfers since.              *)
(*                                                                         *)
(* Mirror: a decoder in step holds the bits and the direction of what is   *)
(* on the bus, and unless packets are off the part and the earlier parts   *)
(* of the transfer.  With it each step of the decoder reports what         *)
(* happened on the bus (Transcript, PacketIsTransfer).  How Text cuts a    *)
(* list of parts does not matter: it is the list of the parts on the bus.  *)
(***************************************************************************)
EXTENDS I2cBus, TLAPS, SequenceTheorems, FiniteSetTheorems

-----------------------------------------------------------------------------
(* The first part of the invariant.                                        *)

\* Between two transfers both lines are high.
Lines == ~bus.active => bus = Idle /\ scl = 1 /\ sda = 1

\* After an address there is a part.
PartsThere == bus.phase = "data" \/ bus.n = 8 => bus.parts # <<>>

\* is_repeat_start is 1 from a START to the STOP, and nothing is left of a
\* packet after the STOP unless packets are off.
Repeats ==
    IF dec.state = "FIND_START"
    THEN /\ dec.is_repeat_start = 0
         /\ format # "none" => dec.packet_data = <<>> /\ dec.packet_str = <<>>
    ELSE dec.is_repeat_start = 1

Sound == TypeOK /\ Lines /\ PartsThere /\ Repeats

-----------------------------------------------------------------------------
(* Which handler a change of the lines reaches, and what it does.          *)

\* SCL falls: no state waits for it.
LEMMA FallReaches ==
  ASSUME TypeOK, Fall, Decode
  PROVE  Listen
  BY DEF TypeOK, Fall, Decode

\* SCL rises: a bit of a byte, or the acknowledge bit.
LEMMA RiseReaches ==
  ASSUME TypeOK, Rise, Decode
  PROVE  /\ dec.state = "FIND_START" => Listen
         /\ dec.state \in {"FIND_ADDRESS", "FIND_DATA"} => HandleAddressOrData(dec, sda)
         /\ dec.state = "FIND_ACK" => GetAck(dec, sda)
  BY DEF TypeOK, Rise, Decode

\* A START condition is seen between transfers and among data bytes only.
LEMMA StartReaches ==
  ASSUME TypeOK, StartCondition, Decode
  PROVE  IF dec.state \in {"FIND_START", "FIND_DATA"} THEN HandleStart(dec) ELSE Listen
  BY DEF TypeOK, StartCondition, Decode

\* A STOP condition is seen among data bytes only.
LEMMA StopReaches ==
  ASSUME TypeOK, StopCondition, Decode
  PROVE  IF dec.state = "FIND_DATA" THEN HandleStop(dec) ELSE Listen
  BY DEF TypeOK, StopCondition, Decode

\* databyte is a byte after the shift.
LEMMA ByteRange ==
  ASSUME NEW x \in 0 .. 255, NEW b \in {0, 1}
  PROVE  (2 * x + b) % 256 \in 0 .. 255
<1>1. 2 * x + b \in Nat
  BY SMT
<1>2. ASSUME NEW y \in Nat PROVE y % 256 \in 0 .. 255
  BY SMT
<1>3. QED
  BY <1>1, <1>2

\* i2c_handle_packet(): the packet so far is closed, kept or extended; with
\* packets off nothing changes.
LEMMA PacketFields ==
  ASSUME NEW d, DecoderTypes(d), NEW repeat \in BOOLEAN
  PROVE  /\ DecoderTypes(PacketState(d, repeat))
         /\ format = "none" => PacketState(d, repeat) = d
         /\ format # "none" =>
              /\ PacketState(d, repeat).packet_data = <<>>
              /\ PacketState(d, repeat).packet_str =
                   IF ~repeat THEN <<>>
                   ELSE IF d.packet_data = <<>> THEN d.packet_str
                   ELSE Append(d.packet_str, Part(d))
<1>1. Part(d) \in Parts
  BY DEF Part, Parts, DecoderTypes
<1>2. CASE format = "none"
  <2>1. PacketState(d, repeat) = d
    BY <1>2 DEF PacketState
  <2>2. QED
    BY <1>2, <2>1
<1>3. CASE format # "none" /\ ~repeat
  <2>1. PacketState(d, repeat) = ResetPacket(d)
    BY <1>3 DEF PacketState
  <2>2. QED
    BY <1>3, <2>1 DEF ResetPacket, DecoderTypes, ResetState, Directions
<1>4. CASE format # "none" /\ repeat /\ d.packet_data = <<>>
  <2>1. PacketState(d, repeat) = d
    BY <1>4 DEF PacketState
  <2>2. QED
    BY <1>4, <2>1
<1>5. CASE format # "none" /\ repeat /\ d.packet_data # <<>>
  <2>1. PacketState(d, repeat) =
          [d EXCEPT !.packet_str = Append(@, Part(d)), !.packet_data = <<>>]
    BY <1>5 DEF PacketState
  <2>2. Append(d.packet_str, Part(d)) \in Seq(Parts)
    BY <1>1 DEF DecoderTypes
  <2>3. ASSUME NEW s \in Seq(Parts), NEW e,
               e = [d EXCEPT !.packet_str = s, !.packet_data = <<>>]
        PROVE  DecoderTypes(e) /\ e.packet_data = <<>> /\ e.packet_str = s
    BY <2>3 DEF DecoderTypes, ResetState
  <2>4. QED
    BY <1>5, <2>1, <2>2, <2>3
<1>6. QED
  BY <1>2, <1>3, <1>4, <1>5

\* i2c_handle_start().
LEMMA StartFields ==
  ASSUME DecoderTypes(dec), HandleStart(dec)
  PROVE  /\ DecoderTypes(dec')
         /\ dec'.state = "FIND_ADDRESS" /\ dec'.bitcount = 0 /\ dec'.databyte = 0
         /\ dec'.is_repeat_start = 1 /\ dec'.wr = -1
         /\ format # "none" =>
              /\ dec'.packet_data = <<>>
              /\ dec'.packet_str = IF dec.is_repeat_start # 1 THEN <<>>
                                   ELSE IF dec.packet_data = <<>> THEN dec.packet_str
                                   ELSE Append(dec.packet_str, Part(dec))
         /\ out' = <<IF dec.is_repeat_start = 1 THEN Events!START_REPEAT ELSE Events!START>>
         /\ format = "none" \/ dec.is_repeat_start = 1 \/ dec.packet_data = <<>> =>
              packets' = <<>>
<1> DEFINE q == PacketState(dec, dec.is_repeat_start = 1)
<1>0. DecoderTypes(q)
  BY PacketFields
<1>1. format # "none" =>
        /\ q.packet_data = <<>>
        /\ q.packet_str = IF dec.is_repeat_start # 1 THEN <<>>
                                ELSE IF dec.packet_data = <<>> THEN dec.packet_str
                                ELSE Append(dec.packet_str, Part(dec))
  BY PacketFields
<1>2. /\ dec' = [q EXCEPT
                  !.state = "FIND_ADDRESS", !.bitcount = 0, !.databyte = 0,
                  !.is_repeat_start = 1, !.wr = -1]
      /\ out' = <<IF dec.is_repeat_start = 1 THEN Events!START_REPEAT ELSE Events!START>>
      /\ format = "none" \/ dec.is_repeat_start = 1 \/ dec.packet_data = <<>> =>
           packets' = <<>>
  BY DEF HandleStart, PacketAnnotations
<1> HIDE DEF q
<1>3. DecoderTypes(dec')
  BY <1>0, <1>2 DEF DecoderTypes, ResetState, Directions
<1>4. /\ dec'.packet_data = q.packet_data /\ dec'.packet_str = q.packet_str
      /\ dec'.state = "FIND_ADDRESS" /\ dec'.bitcount = 0 /\ dec'.databyte = 0
      /\ dec'.is_repeat_start = 1 /\ dec'.wr = -1
  BY <1>0, <1>2 DEF DecoderTypes, ResetState
<1>5. QED
  BY <1>1, <1>2, <1>3, <1>4

\* i2c_handle_stop().
LEMMA StopFields ==
  ASSUME DecoderTypes(dec), HandleStop(dec)
  PROVE  /\ DecoderTypes(dec')
         /\ dec'.state = "FIND_START"
         /\ dec'.is_repeat_start = 0 /\ dec'.wr = -1
         /\ format # "none" => dec'.packet_data = <<>> /\ dec'.packet_str = <<>>
         /\ out' = <<Events!STOP>>
         /\ packets' = IF format = "none" \/ dec.packet_data = <<>> THEN <<>>
                       ELSE <<Text(Append(dec.packet_str, Part(dec)))>>
<1> DEFINE q == PacketState(dec, FALSE)
<1>1. DecoderTypes(q) /\ (format # "none" => q.packet_data = <<>> /\ q.packet_str = <<>>)
  BY PacketFields
<1>2. /\ dec' = [q EXCEPT !.state = "FIND_START", !.is_repeat_start = 0, !.wr = -1]
      /\ out' = <<Events!STOP>>
      /\ packets' = IF format = "none" \/ dec.packet_data = <<>> THEN <<>>
                    ELSE <<Text(Append(dec.packet_str, Part(dec)))>>
  BY DEF HandleStop, PacketAnnotations
<1> HIDE DEF q
<1>3. DecoderTypes(dec')
  BY <1>1, <1>2 DEF DecoderTypes, ResetState, Directions
<1>4. /\ dec'.packet_data = q.packet_data /\ dec'.packet_str = q.packet_str
      /\ dec'.state = "FIND_START" /\ dec'.is_repeat_start = 0 /\ dec'.wr = -1
  BY <1>1, <1>2 DEF DecoderTypes, ResetState
<1>5. QED
  BY <1>1, <1>2, <1>3, <1>4

\* i2c_get_ack().
LEMMA AckFields ==
  ASSUME DecoderTypes(dec), NEW b \in {0, 1}, GetAck(dec, b)
  PROVE  /\ DecoderTypes(dec')
         /\ dec' = [dec EXCEPT !.state = "FIND_DATA"]
         /\ dec'.state = "FIND_DATA"
         /\ dec'.bitcount = dec.bitcount /\ dec'.databyte = dec.databyte
         /\ dec'.wr = dec.wr /\ dec'.is_repeat_start = dec.is_repeat_start
         /\ dec'.address = dec.address /\ dec'.packet_data = dec.packet_data
         /\ dec'.packet_str = dec.packet_str /\ dec'.byte = dec.byte
         /\ out' = <<IF b = 0 THEN Events!ACK ELSE Events!NACK>>
         /\ packets' = <<>>
  BY DEF GetAck, DecoderTypes, ResetState, Directions

\* A clock pulse inside a byte.
LEMMA BitFields ==
  ASSUME DecoderTypes(dec), NEW b \in {0, 1}, HandleAddressOrData(dec, b),
         dec.bitcount < 7,
         NEW byte, byte = (2 * dec.databyte + b) % 256
  PROVE  /\ DecoderTypes(dec')
         /\ dec'.databyte = byte
         /\ dec'.bitcount = dec.bitcount + 1
         /\ dec'.state = dec.state
         /\ dec'.wr = dec.wr /\ dec'.is_repeat_start = dec.is_repeat_start
         /\ dec'.address = dec.address /\ dec'.packet_data = dec.packet_data
         /\ dec'.packet_str = dec.packet_str /\ dec'.byte = dec.byte
         /\ out' = <<>>
         /\ packets' = <<>>
<1>1. byte \in 0 .. 255
  <2>1. dec.databyte \in 0 .. 255
    BY DEF DecoderTypes, ResetState, Directions
  <2>2. QED
    BY <2>1, ByteRange
<1>2. /\ dec' = [dec EXCEPT !.databyte = byte, !.bitcount = @ + 1]
      /\ out' = <<>> /\ packets' = <<>>
  BY DEF HandleAddressOrData
<1>3. dec.bitcount + 1 \in 0 .. 7
  BY DEF DecoderTypes, ResetState, Directions
<1>4. DecoderTypes(dec')
  BY <1>1, <1>2, <1>3 DEF DecoderTypes, ResetState, Directions
<1>5. QED
  BY <1>2, <1>4 DEF DecoderTypes, ResetState, Directions

\* What an address byte says: the direction, and the address as it is shown.
Direction(byte) == IF byte % 2 = 1 THEN 0 ELSE 1
Shown(byte) == IF shifted THEN byte \div 2 ELSE byte

\* A byte is complete: what address and data bytes have in common.
Complete(d) == [d EXCEPT !.databyte = 0, !.bitcount = 0, !.state = "FIND_ACK"]

\* The fields after a complete byte.
LEMMA CompleteFields ==
  ASSUME NEW d, DecoderTypes(d)
  PROVE  /\ DecoderTypes(Complete(d))
         /\ Complete(d).state = "FIND_ACK"
         /\ Complete(d).databyte = 0 /\ Complete(d).bitcount = 0
         /\ Complete(d).wr = d.wr /\ Complete(d).address = d.address
         /\ Complete(d).is_repeat_start = d.is_repeat_start
         /\ Complete(d).packet_data = d.packet_data
         /\ Complete(d).packet_str = d.packet_str
  BY DEF Complete, DecoderTypes, ResetState, Directions

\* The eighth clock of an address byte.
LEMMA AddressFields ==
  ASSUME DecoderTypes(dec), NEW b \in {0, 1}, HandleAddressOrData(dec, b),
         dec.bitcount = 7, dec.state = "FIND_ADDRESS",
         NEW byte, byte = (2 * dec.databyte + b) % 256
  PROVE  /\ DecoderTypes(dec')
         /\ dec'.state = "FIND_ACK" /\ dec'.byte = "address"
         /\ dec'.databyte = 0 /\ dec'.bitcount = 0
         /\ dec'.wr = Direction(byte) /\ dec'.address = Shown(byte)
         /\ dec'.is_repeat_start = dec.is_repeat_start
         /\ dec'.packet_data = dec.packet_data /\ dec'.packet_str = dec.packet_str
         /\ out' = <<Events!BITS(0), Events!ADDRESS(Direction(byte), Shown(byte))>>
         /\ packets' = <<>>
         /\ Direction(byte) \in {0, 1} /\ Shown(byte) \in 0 .. 255
<1> DEFINE q == Complete(dec)
<1>2. /\ DecoderTypes(q)
      /\ q.state = "FIND_ACK" /\ q.databyte = 0 /\ q.bitcount = 0
      /\ q.wr = dec.wr /\ q.address = dec.address
      /\ q.is_repeat_start = dec.is_repeat_start
      /\ q.packet_data = dec.packet_data /\ q.packet_str = dec.packet_str
  BY CompleteFields
<1>3. /\ dec' = [q EXCEPT !.wr = Direction(byte), !.address = Shown(byte),
                         !.byte = "address"]
      /\ out' = <<Events!BITS(0), Events!ADDRESS(Direction(byte), Shown(byte))>>
      /\ packets' = <<>>
  <2>1. ~(dec.bitcount < 7) /\ dec.state # "FIND_DATA"
    OBVIOUS
  <2>2. QED
    BY <2>1, Zenon DEF HandleAddressOrData, Complete, Direction, Shown
<1> HIDE DEF q
<1>4. byte \in 0 .. 255
  BY ByteRange DEF DecoderTypes, ResetState, Directions
<1>5. Direction(byte) \in {0, 1} /\ Shown(byte) \in 0 .. 255
  BY <1>4 DEF Direction, Shown
<1>6. DecoderTypes(dec')
  BY <1>2, <1>3, <1>5 DEF DecoderTypes, ResetState, Directions
<1>7. QED
  BY <1>2, <1>3, <1>5, <1>6 DEF DecoderTypes, ResetState, Directions

\* The eighth clock of a data byte.
LEMMA DataFields ==
  ASSUME DecoderTypes(dec), NEW b \in {0, 1}, HandleAddressOrData(dec, b),
         dec.bitcount = 7, dec.state = "FIND_DATA",
         NEW byte, byte = (2 * dec.databyte + b) % 256
  PROVE  /\ DecoderTypes(dec')
         /\ dec'.state = "FIND_ACK" /\ dec'.byte = "data"
         /\ dec'.databyte = 0 /\ dec'.bitcount = 0
         /\ dec'.packet_data = Append(dec.packet_data, byte)
         /\ dec'.is_repeat_start = dec.is_repeat_start
         /\ dec'.wr = dec.wr /\ dec'.address = dec.address
         /\ dec'.packet_str = dec.packet_str
         /\ out' = <<Events!BITS(0), Events!DATA(dec.wr, byte)>>
         /\ packets' = <<>>
         /\ byte \in 0 .. 255
<1> DEFINE q == Complete(dec)
<1>2. /\ DecoderTypes(q)
      /\ q.state = "FIND_ACK" /\ q.databyte = 0 /\ q.bitcount = 0
      /\ q.wr = dec.wr /\ q.address = dec.address
      /\ q.is_repeat_start = dec.is_repeat_start
      /\ q.packet_data = dec.packet_data /\ q.packet_str = dec.packet_str
  BY CompleteFields
<1>3. /\ dec' = [q EXCEPT !.packet_data = Append(@, byte), !.byte = "data"]
      /\ out' = <<Events!BITS(0), Events!DATA(dec.wr, byte)>>
      /\ packets' = <<>>
  BY DEF HandleAddressOrData, Complete
<1> HIDE DEF q
<1>4. byte \in 0 .. 255
  BY ByteRange DEF DecoderTypes, ResetState, Directions
<1>5. Append(q.packet_data, byte) \in Seq(0 .. 255)
  BY <1>2, <1>4 DEF DecoderTypes, ResetState, Directions
<1>6. DecoderTypes(dec')
  BY <1>2, <1>3, <1>5 DEF DecoderTypes, ResetState, Directions
<1>7. QED
  BY <1>2, <1>3, <1>4, <1>6 DEF DecoderTypes, ResetState, Directions
-----------------------------------------------------------------------------
(* Packets and the parts of a transfer.                                    *)

\* The packet lists those of the first m parts that carried data, in order:
\* f tells where each of its parts comes from.
Lists(packet, parts, m) ==
    \E f \in [1 .. Len(packet) -> 1 .. m] :
        /\ \A i, j \in 1 .. Len(packet) : i < j => f[i] < f[j]
        /\ \A i \in 1 .. Len(packet) : packet[i] = parts[f[i]]
        /\ \A p \in 1 .. m :
             parts[p].data # <<>> <=> \E i \in 1 .. Len(packet) : f[i] = p

\* An empty packet lists no parts.
LEMMA ListsNone ==
  ASSUME NEW parts
  PROVE  Lists(<<>>, parts, 0)
<1> DEFINE f == [i \in 1 .. Len(<<>>) |-> 1]
<1>1. 1 .. Len(<<>>) = {} /\ 1 .. 0 = {}
  OBVIOUS
<1>2. f \in [1 .. Len(<<>>) -> 1 .. 0]
  BY <1>1
<1> HIDE DEF f
<1>3. QED
  BY <1>1, <1>2, Zenon DEF Lists

\* Only the first m parts matter.
LEMMA ListsSame ==
  ASSUME NEW packet \in Seq(Parts), NEW a, NEW b, NEW m \in Nat,
         \A p \in 1 .. m : b[p] = a[p],
         Lists(packet, a, m)
  PROVE  Lists(packet, b, m)
<1> PICK f \in [1 .. Len(packet) -> 1 .. m] :
        /\ \A i, j \in 1 .. Len(packet) : i < j => f[i] < f[j]
        /\ \A i \in 1 .. Len(packet) : packet[i] = a[f[i]]
        /\ \A p \in 1 .. m :
             a[p].data # <<>> <=> \E i \in 1 .. Len(packet) : f[i] = p
  BY DEF Lists
<1>1. \A i \in 1 .. Len(packet) : packet[i] = b[f[i]]
  OBVIOUS
<1>2. \A p \in 1 .. m :
         b[p].data # <<>> <=> \E i \in 1 .. Len(packet) : f[i] = p
  OBVIOUS
<1>3. QED
  BY <1>1, <1>2 DEF Lists

\* A part without data is not listed.
LEMMA ListsSkip ==
  ASSUME NEW packet \in Seq(Parts), NEW parts \in Seq(Parts),
         parts # <<>>, parts[Len(parts)].data = <<>>,
         Lists(packet, parts, Len(parts) - 1)
  PROVE  Lists(packet, parts, Len(parts))
<1> DEFINE m == Len(parts)
<1>0. m \in Nat /\ m >= 1
  OBVIOUS
<1> PICK f \in [1 .. Len(packet) -> 1 .. m - 1] :
        /\ \A i, j \in 1 .. Len(packet) : i < j => f[i] < f[j]
        /\ \A i \in 1 .. Len(packet) : packet[i] = parts[f[i]]
        /\ \A p \in 1 .. m - 1 :
             parts[p].data # <<>> <=> \E i \in 1 .. Len(packet) : f[i] = p
  BY DEF Lists
<1> HIDE DEF m
<1>1. f \in [1 .. Len(packet) -> 1 .. m]
  BY <1>0
<1>2. \A i \in 1 .. Len(packet) : f[i] # m
  BY <1>0
<1>3. \A p \in 1 .. m :
         parts[p].data # <<>> <=> \E i \in 1 .. Len(packet) : f[i] = p
  <2> TAKE p \in 1 .. m
  <2>1. CASE p = m
    BY <1>2, <2>1 DEF m
  <2>2. CASE p # m
    <3>1. p \in 1 .. m - 1
      BY <1>0, <2>2
    <3>2. QED
      BY <3>1
  <2>3. QED
    BY <2>1, <2>2
<1>4. Lists(packet, parts, m)
  BY <1>1, <1>3 DEF Lists
<1>5. QED
  BY <1>4 DEF m

\* A part with data is listed at the end.
LEMMA ListsTake ==
  ASSUME NEW packet \in Seq(Parts), NEW parts \in Seq(Parts),
         parts # <<>>, parts[Len(parts)].data # <<>>,
         Lists(packet, parts, Len(parts) - 1)
  PROVE  Lists(Append(packet, parts[Len(parts)]), parts, Len(parts))
<1> DEFINE m == Len(parts)
           l == Len(packet)
           q == Append(packet, parts[m])
<1>0. /\ m \in Nat /\ m >= 1 /\ l \in Nat
      /\ parts[m] \in Parts
      /\ Len(q) = l + 1 /\ q[l + 1] = parts[m]
      /\ \A i \in 1 .. l : q[i] = packet[i]
  OBVIOUS
<1> PICK f \in [1 .. l -> 1 .. m - 1] :
        /\ \A i, j \in 1 .. l : i < j => f[i] < f[j]
        /\ \A i \in 1 .. l : packet[i] = parts[f[i]]
        /\ \A p \in 1 .. m - 1 :
             parts[p].data # <<>> <=> \E i \in 1 .. l : f[i] = p
  BY DEF Lists
<1> DEFINE g == [i \in 1 .. l + 1 |-> IF i = l + 1 THEN m ELSE f[i]]
<1> HIDE DEF m, l, q
<1>1. /\ g[l + 1] = m
      /\ \A i \in 1 .. l : g[i] = f[i] /\ f[i] \in 1 .. m - 1
      /\ \A i \in 1 .. l + 1 : i = l + 1 \/ i \in 1 .. l
  BY <1>0
<1>2. g \in [1 .. l + 1 -> 1 .. m]
  BY <1>0
<1> HIDE DEF g
<1>3. ASSUME NEW i \in 1 .. l + 1, NEW j \in 1 .. l + 1, i < j
      PROVE  g[i] < g[j]
  <2>1. i \in 1 .. l
    BY <1>0, <1>3
  <2>2. g[i] = f[i] /\ f[i] \in 1 .. m - 1
    BY <1>1, <2>1
  <2>3. CASE j = l + 1
    BY <1>0, <1>1, <2>2, <2>3
  <2>4. CASE j # l + 1
    <3>1. j \in 1 .. l
      BY <1>1, <2>4
    <3>2. QED
      BY <1>1, <1>3, <2>1, <3>1
  <2>5. QED
    BY <2>3, <2>4
<1>4. \A i \in 1 .. l + 1 : q[i] = parts[g[i]]
  BY <1>0, <1>1
<1>5. \A p \in 1 .. m :
         parts[p].data # <<>> <=> \E i \in 1 .. l + 1 : g[i] = p
  <2> TAKE p \in 1 .. m
  <2>1. CASE p = m
    <3>1. l + 1 \in 1 .. l + 1
      BY <1>0
    <3>2. QED
      BY <1>1, <2>1, <3>1 DEF m
  <2>2. CASE p # m
    <3>1. p \in 1 .. m - 1
      BY <1>0, <2>2
    <3>2. (\E i \in 1 .. l + 1 : g[i] = p) <=> (\E i \in 1 .. l : f[i] = p)
      BY <1>0, <1>1, <2>2
    <3>3. QED
      BY <3>1, <3>2
  <2>3. QED
    BY <2>1, <2>2
<1>6. Lists(q, parts, m)
  <2>1. g \in [1 .. Len(q) -> 1 .. m]
    BY <1>0, <1>2
  <2>2. /\ \A i, j \in 1 .. Len(q) : i < j => g[i] < g[j]
        /\ \A i \in 1 .. Len(q) : q[i] = parts[g[i]]
        /\ \A p \in 1 .. m :
             parts[p].data # <<>> <=> \E i \in 1 .. Len(q) : g[i] = p
    BY <1>0, <1>3, <1>4, <1>5
  <2>3. QED
    BY <2>1, <2>2, Zenon DEF Lists
<1>7. QED
  BY <1>6 DEF q, m

\* No more parts are listed than there are.
LEMMA FewerListed ==
  ASSUME NEW l \in Nat, NEW n \in Nat, NEW f \in [1 .. l -> 1 .. n],
         \A i, j \in 1 .. l : i < j => f[i] < f[j]
  PROVE  l <= n
<1>1. /\ IsFiniteSet(1 .. l) /\ Cardinality(1 .. l) = l
      /\ IsFiniteSet(1 .. n) /\ Cardinality(1 .. n) = n
  <2>1. ASSUME NEW k \in Nat
        PROVE  IsFiniteSet(1 .. k) /\ Cardinality(1 .. k) = k
    <3>1. IsFiniteSet(1 .. k) /\ Cardinality(1 .. k) = IF 1 > k THEN 0 ELSE k - 1 + 1
      BY FS_Interval
    <3>2. (IF 1 > k THEN 0 ELSE k - 1 + 1) = k
      OBVIOUS
    <3>3. QED
      BY <3>1, <3>2
  <2>2. QED
    BY <2>1
<1>2. \A i, j \in 1 .. l : f[i] = f[j] => i = j
  <2> TAKE i, j \in 1 .. l
  <2>1. /\ i \in Int /\ j \in Int /\ f[i] \in Int /\ f[j] \in Int
        /\ i < j => f[i] < f[j]
        /\ j < i => f[j] < f[i]
    OBVIOUS
  <2>2. QED
    BY <2>1
<1>3. f \in Injection(1 .. l, 1 .. n)
  BY <1>2 DEF Injection, IsInjective
<1>4. Cardinality(1 .. l) <= Cardinality(1 .. n)
  BY <1>1, <1>3, FS_Injection
<1>5. QED
  BY <1>1, <1>4

\* The text of a list of the parts is the text PacketIsTransfer asks for.
LEMMA TextOfList ==
  ASSUME NEW list \in Seq(Parts), NEW parts \in Seq(Parts),
         Lists(list, parts, Len(parts))
  PROVE  IsTextOf(Text(list), parts)
<1> DEFINE l == Len(list)
           n == Len(parts)
<1>0. l \in Nat /\ n \in Nat
  OBVIOUS
<1>1. PICK f \in [1 .. l -> 1 .. n] :
        /\ \A i, j \in 1 .. l : i < j => f[i] < f[j]
        /\ \A i \in 1 .. l : list[i] = parts[f[i]]
        /\ \A p \in 1 .. n : parts[p].data # <<>> <=> \E i \in 1 .. l : f[i] = p
  BY DEF Lists
<1>2. list = [i \in 1 .. l |-> parts[f[i]]]
  BY <1>1
<1> HIDE DEF l, n
<1>3. l \in 0 .. n
  <2>1. l <= n
    BY <1>0, <1>1, FewerListed
  <2>2. QED
    BY <1>0, <2>1
<1>4. Selects(f, parts, n)
  <2>1. DOMAIN f = 1 .. l
    OBVIOUS
  <2>2. QED
    BY <1>1, <2>1 DEF Selects
<1>5. Text(list) = Text([i \in 1 .. l |-> parts[f[i]]])
  BY <1>2
<1>6. QED
  BY <1>3, <1>4, <1>5, Zenon DEF IsTextOf, n
-----------------------------------------------------------------------------
(* The bus.                                                                *)

\* What is on the bus is a prefix of a byte.
LEMMA SentByte ==
  ASSUME NEW n \in 1 .. 8, NEW p, Sent(n, p)
  PROVE  p \in 0 .. 255
<1>1. PICK x \in Bytes : x \div Weight[n] = p
  BY DEF Sent
<1>2. Weight[n] \in 1 .. 255
  BY DEF Weight
<1>3. x \in 0 .. 255
  BY I2cBusConstants
<1>4. ASSUME NEW y \in 0 .. 255, NEW z \in 1 .. 255 PROVE y \div z \in 0 .. 255
  BY SMT
<1>5. QED
  BY <1>1, <1>2, <1>3, <1>4

\* The part an address byte opens.
NewPart(byte) == [address |-> Shown(byte), wr |-> Direction(byte), data |-> <<>>]

\* One more data byte in the last part.
OneMore(parts, byte) == [parts EXCEPT ![Len(parts)].data = Append(@, byte)]

\* It is a part again, and the other parts stay.
LEMMA LongerPart ==
  ASSUME NEW parts \in Seq(Parts), parts # <<>>, NEW byte \in 0 .. 255,
         NEW longer, longer = OneMore(parts, byte)
  PROVE  /\ longer \in Seq(Parts)
         /\ Len(longer) = Len(parts)
         /\ \A p \in 1 .. Len(parts) - 1 : longer[p] = parts[p]
         /\ longer[Len(parts)] = [address |-> parts[Len(parts)].address,
                                  wr |-> parts[Len(parts)].wr,
                                  data |-> Append(parts[Len(parts)].data, byte)]
<1> DEFINE m == Len(parts)
           old == parts[m]
           new == [old EXCEPT !.data = Append(@, byte)]
<1>1. m \in Nat /\ m \in 1 .. m /\ parts \in [1 .. m -> Parts] /\ old \in Parts
  OBVIOUS
<1>2. longer = [parts EXCEPT ![m] = new]
  BY DEF OneMore
<1>3. Append(old.data, byte) \in Seq(0 .. 255)
  BY <1>1 DEF Parts
<1>4. /\ new \in Parts
      /\ new = [address |-> old.address, wr |-> old.wr, data |-> Append(old.data, byte)]
  <2> HIDE DEF old
  <2>1. new = [address |-> old.address, wr |-> old.wr, data |-> Append(old.data, byte)]
    <3> DEFINE A == 0 .. 255
               D == Seq(0 .. 255)
               x == Append(old.data, byte)
    <3>1. old \in [address : A, wr : Directions, data : D]
      BY <1>1 DEF Parts
    <3>2. new = [old EXCEPT !.data = x]
      OBVIOUS
    <3> HIDE DEF A, D, x, new
    <3>3. new = [address |-> old.address, wr |-> old.wr, data |-> x]
      BY <3>1, <3>2, SMT
    <3>4. QED
      BY <3>3 DEF x
  <2>2. QED
    BY <1>1, <1>3, <2>1 DEF Parts
<1> HIDE DEF m, old, new
<1>5. longer \in [1 .. m -> Parts]
  BY <1>1, <1>2, <1>4
<1>6. longer \in Seq(Parts) /\ Len(longer) = m
  BY <1>1, <1>5
<1>7. /\ longer[m] = new
      /\ \A p \in 1 .. m - 1 : longer[p] = parts[p]
  BY <1>1, <1>2
<1>8. QED
  BY <1>4, <1>6, <1>7 DEF m, old

\* A bit of a byte by the bus's own rules.
LEMMA BitOnBus ==
  ASSUME TypeOK, PartsThere, ClockBit,
         NEW byte, byte = 2 * bus.byte + sda
  PROVE  /\ bus.n < 8 /\ byte \in 0 .. 255
         /\ DOMAIN bus' = DOMAIN Idle
         /\ bus'.n = bus.n + 1 /\ bus'.byte = byte
         /\ bus'.active = bus.active /\ bus'.phase = bus.phase
         /\ bus.n < 7 => bus'.parts = bus.parts /\ said' = <<>>
         /\ bus.n = 7 /\ bus.phase = "address" =>
              /\ bus'.parts = Append(bus.parts, NewPart(byte))
              /\ said' = <<Events!BITS(0), Events!ADDRESS(Direction(byte), Shown(byte))>>
         /\ bus.n = 7 /\ bus.phase = "data" =>
              /\ bus'.parts = LastPart(byte)
              /\ said' = <<Events!BITS(0), Events!DATA(Last(bus.parts).wr, byte)>>
<1>1. bus.n < 8 /\ Sent(bus.n + 1, byte)
  BY DEF ClockBit
<1>2. bus.n + 1 \in 1 .. 8
  BY <1>1 DEF TypeOK, BusTypes
<1>3. byte \in 0 .. 255
  BY <1>1, <1>2, SentByte
<1> DEFINE np == IF bus.n < 7 THEN bus.parts
                 ELSE IF bus.phase = "data" THEN LastPart(byte)
                 ELSE Append(bus.parts, NewPart(byte))
<1>4. bus' = [bus EXCEPT !.n = @ + 1, !.byte = byte, !.parts = np]
  BY Zenon DEF ClockBit, NewPart, Direction, Shown
<1>5. bus.n < 7 => np = bus.parts /\ said' = <<>>
  BY Zenon DEF ClockBit
<1>6. ASSUME bus.n = 7, bus.phase = "address"
      PROVE  /\ np = Append(bus.parts, NewPart(byte))
             /\ said' = <<Events!BITS(0), Events!ADDRESS(Direction(byte), Shown(byte))>>
  <2>1. ~(bus.n < 7) /\ bus.phase # "data"
    BY <1>6
  <2>2. QED
    BY <1>6, <2>1, Zenon DEF ClockBit, Direction, Shown
<1>7. ASSUME bus.n = 7, bus.phase = "data"
      PROVE  /\ np = LastPart(byte)
             /\ said' = <<Events!BITS(0), Events!DATA(Last(bus.parts).wr, byte)>>
  <2>1. ~(bus.n < 7) /\ bus.phase # "address"
    BY <1>7
  <2>2. QED
    BY <1>7, <2>1, Zenon DEF ClockBit
<1> HIDE DEF np
<1>8. /\ DOMAIN bus' = DOMAIN Idle
      /\ bus'.n = bus.n + 1 /\ bus'.byte = byte
      /\ bus'.active = bus.active /\ bus'.phase = bus.phase
      /\ bus'.parts = np
  BY <1>4 DEF TypeOK, BusTypes, Idle
<1>9. QED
  BY <1>1, <1>3, <1>5, <1>6, <1>7, <1>8

\* The bus keeps its types when a bit is clocked.
LEMMA BitTypes ==
  ASSUME TypeOK, PartsThere, ClockBit
  PROVE  BusTypes(bus') /\ PartsThere'
<1> DEFINE byte == 2 * bus.byte + sda
<1>1. /\ bus.n < 8 /\ byte \in 0 .. 255
      /\ DOMAIN bus' = DOMAIN Idle
      /\ bus'.n = bus.n + 1 /\ bus'.byte = byte
      /\ bus'.active = bus.active /\ bus'.phase = bus.phase
      /\ bus.n < 7 => bus'.parts = bus.parts
      /\ bus.n = 7 /\ bus.phase = "address" =>
              bus'.parts = Append(bus.parts, NewPart(byte))
      /\ bus.n = 7 /\ bus.phase = "data" => bus'.parts = LastPart(byte)
  BY BitOnBus
<1> HIDE DEF byte
<1>2. /\ bus.n \in 0 .. 7 /\ bus.n + 1 \in 0 .. 8 /\ bus.parts \in Seq(Parts)
      /\ bus.active \in BOOLEAN /\ bus.phase \in {"address", "data"}
  BY <1>1 DEF TypeOK, BusTypes
<1>3. NewPart(byte) \in Parts
  BY <1>1 DEF NewPart, Parts, Direction, Shown, Directions
<1>4. bus'.parts \in Seq(Parts) /\ (bus.n = 7 \/ bus.parts # <<>> => bus'.parts # <<>>)
  <2>1. CASE bus.n < 7
    BY <1>1, <1>2, <2>1
  <2>2. CASE bus.n = 7 /\ bus.phase = "address"
    <3>1. ASSUME NEW t \in Seq(Parts), NEW x \in Parts
          PROVE  Append(t, x) \in Seq(Parts) /\ Append(t, x) # <<>>
      <4>1. Append(t, x) \in Seq(Parts) /\ Len(Append(t, x)) = Len(t) + 1
        OBVIOUS
      <4>2. Len(t) + 1 # 0 /\ Len(<<>>) = 0
        OBVIOUS
      <4>3. QED
        BY <4>1, <4>2, Zenon
    <3>2. QED
      BY <1>1, <1>2, <1>3, <2>2, <3>1
  <2>3. CASE bus.n = 7 /\ bus.phase = "data"
    <3>1. bus.parts # <<>>
      BY <2>3 DEF PartsThere
    <3>2. LastPart(byte) \in Seq(Parts) /\ Len(LastPart(byte)) = Len(bus.parts)
      BY <1>1, <1>2, <3>1, LongerPart DEF LastPart, OneMore
    <3>3. QED
      BY <1>1, <1>2, <2>3, <3>1, <3>2
  <2>4. /\ bus.n < 7 \/ bus.n = 7
        /\ bus.phase = "address" \/ bus.phase = "data"
    BY <1>2
  <2>5. QED
    BY <2>1, <2>2, <2>3, <2>4
<1>5. BusTypes(bus')
  BY <1>1, <1>2, <1>4 DEF BusTypes
<1>6. PartsThere'
  BY <1>1, <1>2, <1>4 DEF PartsThere
<1>7. QED
  BY <1>5, <1>6
-----------------------------------------------------------------------------
(* Types, and the handler each change of the lines reaches.                *)

\* Both kinds of capture begin soundly.
LEMMA SoundInit == Init => Sound
<1> SUFFICES ASSUME Init PROVE Sound
  OBVIOUS
<1>1. DecoderTypes(dec) /\ Repeats
  BY DEF Init, ResetState, DecoderTypes, Directions, Repeats
<1>2. /\ BusTypes(bus) /\ PartsThere /\ Lines
      /\ scl \in {0, 1} /\ sda \in {0, 1} /\ calm \in 0 .. Settled
  <2>1. CASE bus = Idle /\ calm = Settled /\ scl = 1 /\ sda = 1
    BY <2>1 DEF Idle, BusTypes, PartsThere, Lines, Settled
  <2>2. ASSUME NEW n \in 0 .. 8,
               bus = [Idle EXCEPT !.active = TRUE, !.phase = "data", !.n = n,
                        !.parts = <<[address |-> 0, wr |-> 0, data |-> <<>>]>>],
               calm = Settled - 1, scl = 0, sda \in {0, 1}
        PROVE  /\ BusTypes(bus) /\ PartsThere /\ Lines
               /\ scl \in {0, 1} /\ sda \in {0, 1} /\ calm \in 0 .. Settled
    <3> DEFINE one == <<[address |-> 0, wr |-> 0, data |-> <<>>]>>
    <3>1. one \in Seq(Parts) /\ one # <<>>
      BY DEF Parts, Directions
    <3> HIDE DEF one
    <3>2. /\ DOMAIN bus = DOMAIN Idle /\ bus.active = TRUE /\ bus.phase = "data"
          /\ bus.n = n /\ bus.byte = 0 /\ bus.parts = one
      BY <2>2 DEF Idle, one
    <3>3. QED
      BY <2>2, <3>1, <3>2 DEF BusTypes, PartsThere, Lines, Settled
  <2>3. QED
    BY <2>1, <2>2 DEF Init, Capture
<1>3. shifted \in BOOLEAN /\ format \in Formats
  BY I2cBusConstants DEF Init
<1>4. QED
  BY <1>1, <1>2, <1>3 DEF Sound, TypeOK

\* The bus keeps its types when SCL rises, and is in a transfer.
LEMMA RiseTypes ==
  ASSUME Sound, Rise
  PROVE  BusTypes(bus') /\ PartsThere' /\ Lines' /\ bus'.active /\ bus.active
<1>1. bus.active
  BY DEF Sound, TypeOK, Lines, Rise
<1>2. CASE ClockBit
  <2>1. BusTypes(bus') /\ PartsThere'
    BY <1>2, BitTypes DEF Sound
  <2>2. bus'.active = bus.active
    BY <1>2, BitOnBus DEF Sound
  <2>3. QED
    BY <1>1, <2>1, <2>2 DEF Lines
<1>3. CASE ClockAck
  <2>1. /\ DOMAIN bus' = DOMAIN Idle /\ bus'.active = bus.active
        /\ bus'.phase = "data" /\ bus'.n = 0 /\ bus'.byte = 0
        /\ bus'.parts = bus.parts
    BY <1>3 DEF ClockAck, Sound, TypeOK, BusTypes, Idle
  <2>2. bus.parts \in Seq(Parts) /\ bus.parts # <<>> /\ bus.active \in BOOLEAN
    BY <1>3 DEF ClockAck, Sound, TypeOK, BusTypes, PartsThere
  <2>3. QED
    BY <1>1, <2>1, <2>2 DEF BusTypes, PartsThere, Lines
<1>4. QED
  BY <1>2, <1>3 DEF Rise

\* A START condition on the bus.
LEMMA StartOnBus ==
  ASSUME Sound, StartCondition
  PROVE  /\ BusTypes(bus') /\ bus'.active /\ bus'.phase = "address"
         /\ bus'.n = 0 /\ bus'.byte = 0 /\ bus'.parts = bus.parts
         /\ PartsThere' /\ Lines'
<1>1. /\ DOMAIN bus' = DOMAIN Idle /\ bus'.active = TRUE /\ bus'.phase = "address"
      /\ bus'.n = 0 /\ bus'.byte = 0 /\ bus'.parts = bus.parts
  BY DEF StartCondition, Idle
<1>2. bus.parts \in Seq(Parts)
  BY DEF Sound, TypeOK, BusTypes
<1>3. BusTypes(bus')
  <2>1. bus'.active \in BOOLEAN
    BY <1>1, Zenon
  <2>2. 0 \in 0 .. 8 /\ 0 \in 0 .. 255
    BY SMT
  <2>3. QED
    BY <1>1, <1>2, <2>1, <2>2, Zenon DEF BusTypes
<1>4. PartsThere'
  BY <1>1 DEF PartsThere
<1>5. Lines'
  BY <1>1 DEF Lines
<1>6. QED
  BY <1>1, <1>3, <1>4, <1>5

\* A STOP condition on the bus, which comes only in a transfer.
LEMMA StopOnBus ==
  ASSUME Sound, StopCondition
  PROVE  /\ BusTypes(bus') /\ ~bus'.active /\ bus' = Idle /\ bus'.n = 0
         /\ bus'.phase = "address" /\ PartsThere' /\ Lines' /\ bus.active
  BY DEF StopCondition, Idle, Sound, TypeOK, BusTypes, PartsThere, Lines

\* Every step keeps the types, and the decoder knows whether it is in a transfer.
LEMMA SoundStep == Sound /\ [Next]_vars => Sound'
<1> SUFFICES ASSUME Sound, [Next]_vars
             PROVE  Sound'
  OBVIOUS
<1> USE DEF Sound
<1>1. ASSUME Listen, UNCHANGED options PROVE DecoderTypes(dec') /\ Repeats'
  BY <1>1 DEF Listen, TypeOK, Repeats, options
<1>2. CASE Fall /\ Decode /\ UNCHANGED options
  <2>1. Listen
    BY <1>2, FallReaches
  <2>2. /\ UNCHANGED <<bus, calm, shifted, format>>
        /\ scl' \in {0, 1} /\ sda' \in {0, 1} /\ bus.active
    BY <1>2 DEF Fall, options
  <2>3. BusTypes(bus') /\ PartsThere' /\ Lines'
    BY <2>2 DEF TypeOK, PartsThere, Lines
  <2>4. DecoderTypes(dec') /\ Repeats'
    BY <1>1, <1>2, <2>1
  <2>5. QED
    BY <2>2, <2>3, <2>4 DEF TypeOK
<1>3. CASE Rise /\ Decode /\ UNCHANGED options
  <2>1. BusTypes(bus') /\ PartsThere' /\ Lines'
    BY <1>3, RiseTypes
  <2>2. /\ UNCHANGED <<calm, shifted, format>>
        /\ scl' \in {0, 1} /\ sda' \in {0, 1}
    BY <1>3 DEF Rise, TypeOK, options
  <2>3. DecoderTypes(dec') /\ Repeats'
    <3>1. CASE dec.state = "FIND_START"
      BY <1>1, <1>3, <3>1, RiseReaches
    <3>2. CASE dec.state = "FIND_ACK"
      <4>1. GetAck(dec, sda) /\ sda \in {0, 1} /\ DecoderTypes(dec)
        BY <1>3, <3>2, RiseReaches DEF TypeOK
      <4>2. DecoderTypes(dec') /\ dec'.state = "FIND_DATA"
              /\ dec'.is_repeat_start = dec.is_repeat_start
        BY <4>1, AckFields
      <4>3. QED
        BY <3>2, <4>2 DEF Repeats
    <3>3. CASE dec.state \in {"FIND_ADDRESS", "FIND_DATA"}
      <4> DEFINE byte == (2 * dec.databyte + sda) % 256
      <4>1. /\ HandleAddressOrData(dec, sda) /\ sda \in {0, 1} /\ DecoderTypes(dec)
            /\ dec.bitcount < 7 \/ dec.bitcount = 7
        BY <1>3, <3>3, RiseReaches DEF TypeOK, DecoderTypes
      <4>2. /\ DecoderTypes(dec') /\ dec'.state # "FIND_START"
            /\ dec'.is_repeat_start = dec.is_repeat_start
        <5>1. CASE dec.bitcount < 7
          BY <3>3, <4>1, <5>1, BitFields
        <5>2. CASE dec.bitcount = 7 /\ dec.state = "FIND_ADDRESS"
          BY <4>1, <5>2, AddressFields
        <5>3. CASE dec.bitcount = 7 /\ dec.state = "FIND_DATA"
          BY <4>1, <5>3, DataFields
        <5>4. QED
          BY <3>3, <4>1, <5>1, <5>2, <5>3
      <4>3. QED
        BY <3>3, <4>2 DEF Repeats
    <3>4. QED
      BY <3>1, <3>2, <3>3 DEF TypeOK, DecoderTypes
  <2>4. QED
    BY <2>1, <2>2, <2>3 DEF TypeOK
<1>4. CASE StartCondition /\ Decode /\ UNCHANGED options
  <2>1. BusTypes(bus') /\ PartsThere' /\ Lines'
    BY <1>4, StartOnBus
  <2>2. /\ UNCHANGED <<scl, shifted, format>> /\ sda' = 0 /\ calm' \in 0 .. Settled
    BY <1>4 DEF StartCondition, TypeOK, Settled, options
  <2>3. DecoderTypes(dec') /\ Repeats'
    <3>1. CASE HandleStart(dec)
      <4>1. DecoderTypes(dec') /\ dec'.state = "FIND_ADDRESS" /\ dec'.is_repeat_start = 1
        BY <3>1, StartFields DEF TypeOK
      <4>2. QED
        BY <4>1 DEF Repeats
    <3>2. QED
      BY <1>1, <1>4, <3>1, StartReaches
  <2>4. QED
    BY <2>1, <2>2, <2>3 DEF TypeOK
<1>5. CASE StopCondition /\ Decode /\ UNCHANGED options
  <2>1. BusTypes(bus') /\ PartsThere' /\ Lines'
    BY <1>5, StopOnBus
  <2>2. /\ UNCHANGED <<scl, shifted, format>> /\ sda' = 1 /\ calm' \in 0 .. Settled
    BY <1>5 DEF StopCondition, TypeOK, Settled, options
  <2>3. DecoderTypes(dec') /\ Repeats'
    <3>1. CASE HandleStop(dec)
      <4>1. /\ DecoderTypes(dec') /\ dec'.state = "FIND_START"
            /\ dec'.is_repeat_start = 0
            /\ format # "none" => dec'.packet_data = <<>> /\ dec'.packet_str = <<>>
        BY <3>1, StopFields DEF TypeOK
      <4>2. QED
        BY <2>2, <4>1 DEF Repeats
    <3>2. QED
      BY <1>1, <1>5, <3>1, StopReaches
  <2>4. QED
    BY <2>1, <2>2, <2>3 DEF TypeOK
<1>6. CASE Restart
  <2>1. DecoderTypes(dec') /\ Repeats'
    BY <1>6 DEF Restart, ResetState, DecoderTypes, Directions, Repeats
  <2>2. /\ BusTypes(bus') /\ PartsThere' /\ Lines'
        /\ scl' \in {0, 1} /\ sda' \in {0, 1} /\ calm' \in 0 .. Settled
    BY <1>6 DEF Restart, Idle, BusTypes, PartsThere, Lines, Settled
  <2>3. UNCHANGED <<shifted, format>>
    BY <1>6 DEF Restart, options
  <2>4. QED
    BY <2>1, <2>2, <2>3 DEF TypeOK
<1>7. CASE UNCHANGED vars
  BY <1>7 DEF vars, lines, decoder, ideal, options, TypeOK, PartsThere, Lines, Repeats
<1>8. QED
  BY <1>2, <1>3, <1>4, <1>5, <1>6, <1>7 DEF Next

\* Type correctness of the I2C decoder on any bus.
THEOREM TypeCorrect == Spec => []TypeOK
<1>1. Spec => []Sound
  BY SoundInit, SoundStep, PTL DEF Spec
<1>2. Sound => TypeOK
  BY DEF Sound
<1>3. QED
  BY <1>1, <1>2, PTL
-----------------------------------------------------------------------------
(* The packets come in the order I2cEvents allows.                         *)

\* Whatever the lines do, a step of the decoder sends what the specification of
\* the events allows next.
LEMMA EventsStep == Sound /\ [Next]_vars => [Events!Next]_(Events!vars)
<1> SUFFICES ASSUME Sound, [Next]_vars
             PROVE  [Events!Next]_(Events!vars)
  OBVIOUS
<1>0. /\ DecoderTypes(dec) /\ sda \in {0, 1} /\ TypeOK
      /\ dec.state \in {"FIND_START", "FIND_ADDRESS", "FIND_DATA", "FIND_ACK"}
      /\ dec.state = "FIND_START" <=> dec.is_repeat_start = 0
      /\ dec.is_repeat_start \in {0, 1}
  BY DEF Sound, TypeOK, DecoderTypes, Repeats
<1>1. ASSUME Listen PROVE [Events!Next]_(Events!vars)
  BY <1>1 DEF Listen, Events!Next, Events!Quiet
<1>2. ASSUME HandleStart(dec), dec.state \in {"FIND_START", "FIND_DATA"}
      PROVE  [Events!Next]_(Events!vars)
  <2>1. /\ dec'.state = "FIND_ADDRESS" /\ dec'.wr = -1
        /\ out' = <<IF dec.is_repeat_start = 1 THEN Events!START_REPEAT ELSE Events!START>>
    BY <1>0, <1>2, StartFields
  <2>2. CASE dec.state = "FIND_START"
    BY <1>0, <2>1, <2>2 DEF Events!Next, Events!Start
  <2>3. CASE dec.state = "FIND_DATA"
    BY <1>0, <2>1, <2>3 DEF Events!Next, Events!StartRepeat
  <2>4. QED
    BY <1>2, <2>2, <2>3
<1>3. ASSUME HandleStop(dec), dec.state = "FIND_DATA"
      PROVE  [Events!Next]_(Events!vars)
  <2>1. dec'.state = "FIND_START" /\ dec'.wr = -1 /\ out' = <<Events!STOP>>
    BY <1>0, <1>3, StopFields
  <2>2. QED
    BY <1>3, <2>1 DEF Events!Next, Events!Stop
<1>4. ASSUME GetAck(dec, sda), dec.state = "FIND_ACK"
      PROVE  [Events!Next]_(Events!vars)
  <2>1. /\ dec'.state = "FIND_DATA" /\ dec'.wr = dec.wr
        /\ out' = <<IF sda = 0 THEN Events!ACK ELSE Events!NACK>>
    BY <1>0, <1>4, AckFields
  <2>2. QED
    BY <1>4, <2>1 DEF Events!Next, Events!Acknowledge
<1>5. ASSUME HandleAddressOrData(dec, sda), dec.state \in {"FIND_ADDRESS", "FIND_DATA"}
      PROVE  [Events!Next]_(Events!vars)
  <2> DEFINE byte == (2 * dec.databyte + sda) % 256
  <2>1. dec.bitcount < 7 \/ dec.bitcount = 7
    BY <1>0 DEF DecoderTypes
  <2>2. CASE dec.bitcount < 7
    <3>1. dec'.state = dec.state /\ dec'.wr = dec.wr /\ dec'.byte = dec.byte /\ out' = <<>>
      BY <1>0, <1>5, <2>2, BitFields
    <3>2. QED
      BY <3>1 DEF Events!Next, Events!Quiet
  <2>3. CASE dec.bitcount = 7 /\ dec.state = "FIND_ADDRESS"
    <3>1. PICK x : x = (2 * dec.databyte + sda) % 256
      OBVIOUS
    <3>2. /\ dec'.state = "FIND_ACK" /\ dec'.byte = "address"
          /\ dec'.wr = Direction(x)
          /\ out' = <<Events!BITS(0), Events!ADDRESS(Direction(x), Shown(x))>>
          /\ Direction(x) \in {0, 1} /\ Shown(x) \in 0 .. 255
      <4>1. dec'.state = "FIND_ACK" /\ dec'.byte = "address"
        BY <1>0, <1>5, <2>3, <3>1, AddressFields
      <4>2. dec'.wr = Direction(x)
        BY <1>0, <1>5, <2>3, <3>1, AddressFields
      <4>3. Direction(x) \in {0, 1}
        BY <1>0, <1>5, <2>3, <3>1, AddressFields
      <4>4. Shown(x) \in 0 .. 255
        BY <1>0, <1>5, <2>3, <3>1, AddressFields
      <4>5. out' = <<Events!BITS(0), Events!ADDRESS(Direction(x), Shown(x))>>
        BY <1>0, <1>5, <2>3, <3>1, AddressFields
      <4>6. QED
        BY <4>1, <4>2, <4>3, <4>4, <4>5
    <3>3. PICK w \in {0, 1}, a \in 0 .. 255 : w = Direction(x) /\ a = Shown(x)
      BY <3>2
    <3>4. Events!Address(w, a, 0)
      BY <2>3, <3>2, <3>3 DEF Events!Address
    <3>5. QED
      BY <3>4 DEF Events!Next
  <2>4. CASE dec.bitcount = 7 /\ dec.state = "FIND_DATA"
    <3>1. PICK d \in 0 .. 255 :
             /\ dec'.state = "FIND_ACK" /\ dec'.byte = "data" /\ dec'.wr = dec.wr
             /\ out' = <<Events!BITS(0), Events!DATA(dec.wr, d)>>
      BY <1>0, <1>5, <2>4, DataFields
    <3>2. Events!Data(d, 0)
      BY <2>4, <3>1 DEF Events!Data
    <3>3. QED
      BY <3>2 DEF Events!Next
  <2>5. QED
    BY <1>5, <2>1, <2>2, <2>3, <2>4
<1>6. CASE Fall /\ Decode
  BY <1>0, <1>1, <1>6, FallReaches
<1>7. CASE Rise /\ Decode
  BY <1>0, <1>1, <1>4, <1>5, <1>7, RiseReaches
<1>8. CASE StartCondition /\ Decode
  BY <1>0, <1>1, <1>2, <1>8, StartReaches
<1>9. CASE StopCondition /\ Decode
  BY <1>0, <1>1, <1>3, <1>9, StopReaches
<1>10. CASE Restart
  <2>1. dec'.state = "FIND_START" /\ dec'.wr = -1 /\ out' = <<>>
    BY <1>10 DEF Restart, ResetState
  <2>2. QED
    BY <2>1 DEF Events!Next, Events!Reset
<1>11. CASE UNCHANGED vars
  BY <1>11 DEF vars, decoder, Events!vars
<1>12. QED
  BY <1>6, <1>7, <1>8, <1>9, <1>10, <1>11 DEF Next

\* i2c_c.c implements the specification its stacked decoders rely on: START
\* before an address, an acknowledge after every byte, a direction that stays
\* the same until the next START, for any bytes and any disturbance of the bus.
THEOREM EventsImplemented == Spec => ImplementsEvents
<1>1. Init => Events!Init
  BY DEF Init, ResetState, Events!Init
<1>2. Spec => []Sound
  BY SoundInit, SoundStep, PTL DEF Spec
<1>3. QED
  BY <1>1, <1>2, EventsStep, PTL DEF Spec, ImplementsEvents, Events!Spec
-----------------------------------------------------------------------------
(* The decoder falls into step with the bus.                               *)

\* The decoder is k clocks ahead of the bus: k of the nine clocks of a byte had
\* gone by when it missed a START.
Ahead(k) ==
    LET pos == bus.n + k IN
    IF bus.phase = "address" /\ pos < 8
    THEN dec.state = "FIND_ADDRESS" /\ dec.bitcount = pos
    ELSE IF pos = 8
    THEN dec.state = "FIND_ACK" /\ dec.bitcount = 0
    ELSE /\ dec.state = "FIND_DATA"
         /\ dec.bitcount = IF pos > 8 THEN pos - 9 ELSE pos

\* How far it can be ahead.  The conditions that follow a disturbance come after
\* one clock of a data byte: the decoder sees them unless it then waits for an
\* acknowledge bit, which it does if it is 7 clocks ahead, and never twice.
Lags(k) == (calm = Settled => k = 0) /\ (calm = Settled - 1 => k \in {0, 8})

InStep ==
    IF dec.state = "FIND_START" THEN calm = Settled => ~bus.active
    ELSE /\ calm = Settled => bus.active
         /\ \E k \in 0 .. 8 : Lags(k) /\ Ahead(k)

\* One clock pulse: the decoder stays as far ahead as it is.
LEMMA AheadRise ==
  ASSUME Sound, Rise, Decode, NEW k \in 0 .. 8, Ahead(k)
  PROVE  Ahead(k)' /\ dec'.state # "FIND_START"
<1>0. /\ DecoderTypes(dec) /\ sda \in {0, 1} /\ TypeOK
      /\ bus.n \in 0 .. 8 /\ bus.phase \in {"address", "data"}
      /\ dec.bitcount \in 0 .. 7
  BY DEF Sound, TypeOK, DecoderTypes, BusTypes
<1>1. \/ bus.n < 8 /\ bus'.n = bus.n + 1 /\ bus'.phase = bus.phase
      \/ bus.n = 8 /\ bus'.n = 0 /\ bus'.phase = "data"
  <2>1. CASE ClockBit
    BY <1>0, <2>1, BitOnBus DEF Sound
  <2>2. CASE ClockAck
    BY <2>2 DEF ClockAck, Sound, TypeOK, BusTypes, Idle
  <2>3. QED
    BY <2>1, <2>2 DEF Rise
<1>2. CASE dec.state = "FIND_ACK"
  <2>1. dec'.state = "FIND_DATA" /\ dec'.bitcount = dec.bitcount
    BY <1>0, <1>2, RiseReaches, AckFields
  <2>2. QED
    BY <1>0, <1>1, <1>2, <2>1 DEF Ahead
<1>3. CASE dec.state \in {"FIND_ADDRESS", "FIND_DATA"} /\ dec.bitcount < 7
  <2> DEFINE byte == (2 * dec.databyte + sda) % 256
  <2>1. dec'.state = dec.state /\ dec'.bitcount = dec.bitcount + 1
    BY <1>0, <1>3, RiseReaches, BitFields
  <2>2. CASE bus.n < 8 /\ bus'.n = bus.n + 1 /\ bus'.phase = bus.phase
    BY <1>0, <1>3, <2>1, <2>2 DEF Ahead
  <2>3. CASE bus.n = 8 /\ bus'.n = 0 /\ bus'.phase = "data"
    BY <1>0, <1>3, <2>1, <2>3 DEF Ahead
  <2>4. QED
    BY <1>1, <2>2, <2>3
<1>4. CASE dec.state \in {"FIND_ADDRESS", "FIND_DATA"} /\ dec.bitcount = 7
  <2> DEFINE byte == (2 * dec.databyte + sda) % 256
  <2>1. dec'.state = "FIND_ACK" /\ dec'.bitcount = 0
    <3>1. HandleAddressOrData(dec, sda)
      BY <1>0, <1>4, RiseReaches
    <3>2. CASE dec.state = "FIND_ADDRESS"
      BY <1>0, <1>4, <3>1, <3>2, AddressFields
    <3>3. CASE dec.state = "FIND_DATA"
      BY <1>0, <1>4, <3>1, <3>3, DataFields
    <3>4. QED
      BY <1>4, <3>2, <3>3
  <2>2. QED
    BY <1>0, <1>1, <1>4, <2>1 DEF Ahead
<1>5. QED
  BY <1>0, <1>2, <1>3, <1>4 DEF Ahead

\* A condition that the decoder misses, with the bus about to begin a byte.
LEMMA ConditionMissed ==
  ASSUME Sound, InStep, UNCHANGED dec,
         dec.state \in {"FIND_ADDRESS", "FIND_ACK"},
         BusTypes(bus'), bus'.phase = "address", bus'.n = 0,
         Rare, Disturbs => calm' = 0
  PROVE  /\ \E k \in 0 .. 8 : Ahead(k)'
         /\ calm = Settled => Disturbs
         /\ calm # Settled /\ bus.active => calm = 0 /\ Ahead(8)'
         /\ calm # Settled /\ ~bus.active =>
              \A k \in 0 .. 8 : Ahead(k) => Ahead(k)'
<1>0. /\ bus.n \in 0 .. 8 /\ bus.phase \in {"address", "data"}
      /\ dec.bitcount \in 0 .. 7 /\ calm \in 0 .. 2
  BY DEF Sound, TypeOK, DecoderTypes, BusTypes, Settled
<1>1. PICK k \in 0 .. 8 : Lags(k) /\ Ahead(k)
  BY DEF InStep
<1>2. CASE calm = Settled
  <2>1. k = 0 /\ bus.active
    BY <1>1, <1>2 DEF Lags, InStep
  <2>2. bus.phase = "address" \/ bus.n = 8
    BY <1>0, <1>1, <2>1 DEF Ahead
  <2>3. Disturbs
    BY <2>1, <2>2 DEF Disturbs, Orderly, Misplaced
  <2>4. ASSUME NEW j \in 0 .. 8, j = bus.n PROVE Ahead(j)'
    BY <1>0, <1>1, <2>1, <2>2, <2>4 DEF Ahead
  <2>5. QED
    BY <1>0, <1>2, <2>3, <2>4
<1>3. CASE calm # Settled /\ bus.active
  <2>1. bus.phase = "data" /\ bus.n = 1
    BY <1>0, <1>3 DEF Rare, Disturbs, Orderly, Misplaced
  <2>2. k = 7 /\ dec.state = "FIND_ACK" /\ dec.bitcount = 0
    BY <1>0, <1>1, <2>1 DEF Ahead
  <2>3. calm = 0
    BY <1>0, <1>1, <1>3, <2>2 DEF Lags, Settled
  <2>4. Ahead(8)'
    BY <2>2 DEF Ahead
  <2>5. QED
    BY <1>3, <2>3, <2>4
<1>4. CASE calm # Settled /\ ~bus.active
  <2>1. bus.n = 0 /\ bus.phase = "address"
    BY <1>4 DEF Sound, Lines, Idle
  <2>2. ASSUME NEW j \in 0 .. 8, Ahead(j) PROVE Ahead(j)'
    BY <2>1, <2>2 DEF Ahead
  <2>3. QED
    BY <1>1, <1>4, <2>2
<1>5. QED
  BY <1>2, <1>3, <1>4

\* Two transfers after a disturbance the decoder is in step with the bus.
LEMMA InStepStep == Sound /\ InStep /\ [Next]_vars => InStep'
<1> SUFFICES ASSUME Sound, InStep, [Next]_vars
             PROVE  InStep'
  OBVIOUS
<1>0. /\ TypeOK /\ DecoderTypes(dec) /\ calm \in 0 .. 2 /\ Settled = 2
      /\ dec.state \in {"FIND_START", "FIND_ADDRESS", "FIND_DATA", "FIND_ACK"}
  BY DEF Sound, TypeOK, DecoderTypes, Settled
<1>1. CASE Fall /\ Decode
  <2>1. UNCHANGED <<dec, bus, calm>>
    BY <1>0, <1>1, FallReaches DEF Fall, Listen
  <2>2. QED
    BY <2>1 DEF InStep, Lags, Ahead
<1>2. CASE Rise /\ Decode
  <2>1. bus.active /\ bus'.active /\ calm' = calm
    BY <1>2, RiseTypes DEF Rise
  <2>2. CASE dec.state = "FIND_START"
    <3>1. dec' = dec
      BY <1>0, <1>2, <2>2, RiseReaches DEF Listen
    <3>2. QED
      BY <2>1, <2>2, <3>1 DEF InStep
  <2>3. CASE dec.state # "FIND_START"
    <3>1. PICK k \in 0 .. 8 : Lags(k) /\ Ahead(k)
      BY <2>3 DEF InStep
    <3>2. Ahead(k)' /\ dec'.state # "FIND_START"
      BY <1>2, <3>1, AheadRise
    <3>3. Lags(k)'
      BY <2>1, <3>1 DEF Lags, Settled
    <3>4. QED
      BY <2>1, <3>2, <3>3 DEF InStep
  <2>4. QED
    BY <2>2, <2>3
<1>3. CASE StartCondition /\ Decode
  <2>1. /\ BusTypes(bus') /\ bus'.active /\ bus'.phase = "address" /\ bus'.n = 0
    BY <1>3, StartOnBus
  <2>2. calm' = (IF Disturbs THEN 0 ELSE calm) /\ Rare
    BY <1>3 DEF StartCondition
  <2>3. CASE dec.state \in {"FIND_START", "FIND_DATA"}
    <3>1. dec'.state = "FIND_ADDRESS" /\ dec'.bitcount = 0
      BY <1>0, <1>3, <2>3, StartReaches, StartFields
    <3>2. Ahead(0)' /\ Lags(0)'
      BY <2>1, <3>1 DEF Ahead, Lags
    <3>3. QED
      BY <2>1, <3>1, <3>2 DEF InStep
  <2>4. CASE dec.state \in {"FIND_ADDRESS", "FIND_ACK"}
    <3>1. dec' = dec
      BY <1>0, <1>3, <2>4, StartReaches DEF Listen
    <3>2. \E k \in 0 .. 8 : Lags(k)' /\ Ahead(k)'
      <4>1. CASE calm = Settled
        <5>1. calm' = 0 /\ \E k \in 0 .. 8 : Ahead(k)'
          BY <2>1, <2>2, <2>4, <3>1, <4>1, ConditionMissed
        <5>2. QED
          BY <5>1 DEF Lags, Settled
      <4>2. CASE calm # Settled /\ bus.active
        <5>1. calm' = 0 /\ Ahead(8)'
          BY <2>1, <2>2, <2>4, <3>1, <4>2, ConditionMissed
        <5>2. QED
          BY <5>1 DEF Lags, Settled
      <4>3. CASE calm # Settled /\ ~bus.active
        <5>1. PICK k \in 0 .. 8 : Lags(k) /\ Ahead(k)
          BY <2>4 DEF InStep
        <5>2. Ahead(k)'
          BY <2>1, <2>2, <2>4, <3>1, <4>3, <5>1, ConditionMissed
        <5>3. calm' = calm \/ calm' = 0
          BY <2>2
        <5>4. QED
          BY <5>1, <5>2, <5>3 DEF Lags, Settled
      <4>4. QED
        BY <4>1, <4>2, <4>3
    <3>3. QED
      BY <2>1, <2>4, <3>1, <3>2 DEF InStep
  <2>5. QED
    BY <1>0, <2>3, <2>4
<1>4. CASE StopCondition /\ Decode
  <2>1. /\ BusTypes(bus') /\ ~bus'.active /\ bus'.phase = "address" /\ bus'.n = 0
        /\ bus.active
    BY <1>4, StopOnBus
  <2>2. /\ calm' = (IF Disturbs THEN 0 ELSE IF calm = Settled THEN calm ELSE calm + 1)
        /\ Rare
    BY <1>4 DEF StopCondition
  <2>3. CASE dec.state \in {"FIND_START", "FIND_DATA"}
    <3>1. dec'.state = "FIND_START"
      BY <1>0, <1>4, <2>3, StopReaches, StopFields DEF Listen
    <3>2. QED
      BY <2>1, <3>1 DEF InStep
  <2>4. CASE dec.state \in {"FIND_ADDRESS", "FIND_ACK"}
    <3>1. dec' = dec
      BY <1>0, <1>4, <2>4, StopReaches DEF Listen
    <3>2. calm' # Settled /\ \E k \in 0 .. 8 : Lags(k)' /\ Ahead(k)'
      <4>1. CASE calm = Settled
        <5>1. calm' = 0 /\ \E k \in 0 .. 8 : Ahead(k)'
          BY <2>1, <2>2, <2>4, <3>1, <4>1, ConditionMissed
        <5>2. QED
          BY <5>1 DEF Lags, Settled
      <4>2. CASE calm # Settled
        <5>1. calm' \in {0, 1} /\ Ahead(8)'
          BY <1>0, <2>1, <2>2, <2>4, <3>1, <4>2, ConditionMissed
        <5>2. QED
          BY <5>1 DEF Lags, Settled
      <4>3. QED
        BY <4>1, <4>2
    <3>3. QED
      BY <2>1, <2>4, <3>1, <3>2 DEF InStep, Settled
  <2>5. QED
    BY <1>0, <2>3, <2>4
<1>5. CASE Restart
  BY <1>5 DEF Restart, ResetState, Idle, InStep
<1>6. CASE UNCHANGED vars
  BY <1>6 DEF vars, decoder, ideal, InStep, Lags, Ahead
<1>7. QED
  BY <1>1, <1>2, <1>3, <1>4, <1>5, <1>6 DEF Next
-----------------------------------------------------------------------------
(* In step, the decoder knows what is on the bus.                          *)

\* What is kept for the PACKET annotation: the address and data of the current
\* part, and the parts that carried data before it.
Gathered ==
    IF bus.phase = "address" /\ bus.n < 8
    THEN /\ dec.packet_data = <<>>
         /\ Lists(dec.packet_str, bus.parts, Len(bus.parts))
    ELSE /\ bus.parts[Len(bus.parts)] = Part(dec)
         /\ Lists(dec.packet_str, bus.parts, Len(bus.parts) - 1)

\* The direction of the current part.
Directed ==
    bus.phase = "data" \/ bus.n = 8 => bus.parts[Len(bus.parts)].wr = dec.wr

\* The bits of the byte read so far, the direction, and the packet if packets
\* are shown.
Mirror ==
    calm = Settled /\ bus.active =>
        /\ dec.databyte = IF bus.n < 8 THEN bus.byte ELSE 0
        /\ Directed
        /\ format # "none" => Gathered

\* Where the decoder is when it is in step and a transfer is on the bus.
LEMMA SettledState ==
  ASSUME Sound, InStep, calm = Settled, bus.active
  PROVE  /\ bus.n = 8 => dec.state = "FIND_ACK"
         /\ bus.n < 8 => /\ dec.bitcount = bus.n
                         /\ dec.state = IF bus.phase = "address" THEN "FIND_ADDRESS"
                                        ELSE "FIND_DATA"
         /\ dec.state # "FIND_START" /\ dec.is_repeat_start = 1
<1>1. dec.state # "FIND_START"
  BY DEF InStep
<1>2. Ahead(0)
  BY <1>1 DEF InStep, Lags
<1>3. bus.n \in 0 .. 8 /\ bus.phase \in {"address", "data"}
  BY DEF Sound, TypeOK, BusTypes
<1>4. QED
  BY <1>1, <1>2, <1>3 DEF Ahead, Sound, Repeats

\* The clock of a bit: same bit in the same place on both sides.
LEMMA MirrorBit ==
  ASSUME Sound, InStep, Mirror, calm = Settled, calm' = Settled,
         Rise, ClockBit, Decode, UNCHANGED options
  PROVE  Mirror' /\ out' = said' /\ packets' = <<>>
<1>1. bus.active /\ bus'.active
  BY RiseTypes
<1>2. PICK byte : byte = 2 * bus.byte + sda
  OBVIOUS
<1>3. /\ bus.n < 8 /\ byte \in 0 .. 255
      /\ bus'.n = bus.n + 1 /\ bus'.byte = byte /\ bus'.phase = bus.phase
      /\ bus.n < 7 => bus'.parts = bus.parts /\ said' = <<>>
      /\ bus.n = 7 /\ bus.phase = "address" =>
           /\ bus'.parts = Append(bus.parts, NewPart(byte))
           /\ said' = <<Events!BITS(0), Events!ADDRESS(Direction(byte), Shown(byte))>>
      /\ bus.n = 7 /\ bus.phase = "data" =>
           /\ bus'.parts = LastPart(byte)
           /\ said' = <<Events!BITS(0), Events!DATA(Last(bus.parts).wr, byte)>>
  BY <1>2, BitOnBus DEF Sound
<1>4. /\ dec.databyte = bus.byte /\ dec.bitcount = bus.n
      /\ dec.state = IF bus.phase = "address" THEN "FIND_ADDRESS" ELSE "FIND_DATA"
  BY <1>1, <1>3, SettledState DEF Mirror
<1>5. byte = (2 * dec.databyte + sda) % 256
  <2>1. byte % 256 = byte
    BY <1>3, SMT
  <2>2. QED
    BY <1>2, <1>4, <2>1
<1>6. /\ TypeOK /\ DecoderTypes(dec) /\ sda \in {0, 1}
      /\ bus.n \in 0 .. 8 /\ bus.phase \in {"address", "data"}
      /\ bus.parts \in Seq(Parts) /\ dec.packet_str \in Seq(Parts)
  BY DEF Sound, TypeOK, BusTypes, DecoderTypes
<1>7. HandleAddressOrData(dec, sda)
  BY <1>4, <1>6, RiseReaches
<1>12. format' = format
  BY DEF options
<1>8. CASE bus.n < 7
  <2>1. /\ dec'.databyte = byte
        /\ dec'.wr = dec.wr /\ dec'.address = dec.address
        /\ dec'.packet_data = dec.packet_data /\ dec'.packet_str = dec.packet_str
        /\ out' = <<>> /\ packets' = <<>>
    BY <1>4, <1>5, <1>6, <1>7, <1>8, BitFields
  <2>2. Part(dec') = Part(dec)
    BY <2>1 DEF Part
  <2>3. bus'.parts = bus.parts /\ said' = <<>> /\ bus'.n < 8
    BY <1>3, <1>6, <1>8
  <2>4. Directed' /\ (format # "none" => Gathered')
    <3>1. Directed /\ (format # "none" => Gathered)
      BY <1>1 DEF Mirror
    <3>2. /\ bus'.phase = "data" \/ bus'.n = 8 => bus.phase = "data" \/ bus.n = 8
          /\ (bus'.phase = "address" /\ bus'.n < 8) <=> (bus.phase = "address" /\ bus.n < 8)
      BY <1>3, <1>6, <1>8
    <3>3. QED
      BY <2>1, <2>2, <2>3, <3>1, <3>2 DEF Directed, Gathered
  <2>5. QED
    BY <1>3, <1>12, <2>1, <2>3, <2>4 DEF Mirror
<1>9. CASE bus.n = 7 /\ bus.phase = "address"
  <2>1. dec.state = "FIND_ADDRESS" /\ dec.bitcount = 7
    BY <1>4, <1>9
  <2>2. /\ dec'.wr = Direction(byte) /\ dec'.address = Shown(byte)
        /\ dec'.packet_data = dec.packet_data /\ dec'.packet_str = dec.packet_str
        /\ dec'.databyte = 0
    BY <1>5, <1>6, <1>7, <2>1, AddressFields
  <2>3. out' = <<Events!BITS(0), Events!ADDRESS(Direction(byte), Shown(byte))>>
    BY <1>5, <1>6, <1>7, <2>1, AddressFields
  <2>4. packets' = <<>>
    BY <1>5, <1>6, <1>7, <2>1, AddressFields
  <2>5. format # "none" =>
          dec.packet_data = <<>> /\ Lists(dec.packet_str, bus.parts, Len(bus.parts))
    BY <1>1, <1>9 DEF Mirror, Gathered
  <2>6. /\ format # "none" => Part(dec') = NewPart(byte)
        /\ NewPart(byte).wr = Direction(byte)
    BY <2>2, <2>5 DEF Part, NewPart
  <2>7. NewPart(byte) \in Parts
    BY <1>3 DEF NewPart, Parts, Direction, Shown, Directions
  <2>8. /\ Len(bus'.parts) - 1 = Len(bus.parts)
        /\ bus'.parts[Len(bus'.parts)] = NewPart(byte)
        /\ \A p \in 1 .. Len(bus.parts) : bus'.parts[p] = bus.parts[p]
        /\ Len(bus.parts) \in Nat
    BY <1>3, <1>6, <1>9, <2>7
  <2>9. PICK m : m = Len(bus.parts)
    OBVIOUS
  <2>10. ASSUME format # "none" PROVE Lists(dec.packet_str, bus'.parts, m)
    <3>1. m \in Nat /\ Lists(dec.packet_str, bus.parts, m)
      BY <2>5, <2>8, <2>9, <2>10
    <3>2. \A p \in 1 .. m : bus'.parts[p] = bus.parts[p]
      BY <2>8, <2>9
    <3>3. QED
      BY <1>6, <3>1, <3>2, ListsSame
  <2>11. format # "none" => Lists(dec'.packet_str, bus'.parts, Len(bus'.parts) - 1)
    BY <2>2, <2>8, <2>9, <2>10
  <2>13. bus'.n = 8 /\ ~(bus'.n < 8)
    BY <1>3, <1>9
  <2>14. /\ bus'.parts[Len(bus'.parts)].wr = dec'.wr
         /\ format # "none" => bus'.parts[Len(bus'.parts)] = Part(dec')
    BY <2>2, <2>6, <2>8
  <2>15. Mirror'
    <3>1. Directed'
      BY <2>14 DEF Directed
    <3>2. format # "none" => Gathered'
      BY <2>11, <2>13, <2>14, Zenon DEF Gathered
    <3>3. QED
      BY <1>12, <2>2, <2>13, <3>1, <3>2, Zenon DEF Mirror
  <2>16. QED
    BY <1>3, <1>9, <2>3, <2>4, <2>15
<1>10. CASE bus.n = 7 /\ bus.phase = "data"
  <2>1. dec.state = "FIND_DATA" /\ dec.bitcount = 7
    BY <1>4, <1>10
  <2>2. /\ dec'.wr = dec.wr /\ dec'.address = dec.address
        /\ dec'.packet_data = Append(dec.packet_data, byte)
        /\ dec'.packet_str = dec.packet_str /\ dec'.databyte = 0
    BY <1>5, <1>6, <1>7, <2>1, DataFields
  <2>3. out' = <<Events!BITS(0), Events!DATA(dec.wr, byte)>> /\ packets' = <<>>
    BY <1>5, <1>6, <1>7, <2>1, DataFields
  <2>4. /\ bus.parts[Len(bus.parts)].wr = dec.wr
        /\ format # "none" =>
             /\ bus.parts[Len(bus.parts)] = Part(dec)
             /\ Lists(dec.packet_str, bus.parts, Len(bus.parts) - 1)
    BY <1>1, <1>10 DEF Mirror, Directed, Gathered
  <2>5. bus.parts # <<>>
    BY <1>10 DEF Sound, PartsThere
  <2>6. bus'.parts = OneMore(bus.parts, byte)
    BY <1>3, <1>10 DEF LastPart, OneMore
  <2>7. PICK old : old = bus.parts
    OBVIOUS
  <2>8. PICK new : new = bus'.parts
    OBVIOUS
  <2>9. /\ old \in Seq(Parts) /\ old # <<>> /\ byte \in 0 .. 255
        /\ new = OneMore(old, byte)
    BY <1>3, <1>6, <2>5, <2>6, <2>7, <2>8
  <2>10. /\ Len(new) = Len(old)
         /\ \A p \in 1 .. Len(old) - 1 : new[p] = old[p]
         /\ new[Len(old)] = [address |-> old[Len(old)].address,
                             wr |-> old[Len(old)].wr,
                             data |-> Append(old[Len(old)].data, byte)]
    <3>1. Len(new) = Len(old)
      BY <2>9, LongerPart
    <3>2. ASSUME NEW p \in 1 .. Len(old) - 1 PROVE new[p] = old[p]
      BY <2>9, <3>2, LongerPart, Zenon
    <3>3. new[Len(old)] = [address |-> old[Len(old)].address,
                             wr |-> old[Len(old)].wr,
                             data |-> Append(old[Len(old)].data, byte)]
      BY <2>9, LongerPart
    <3>4. QED
      BY <3>1, <3>2, <3>3
  <2>11. /\ new[Len(new)].wr = dec'.wr
         /\ format # "none" => new[Len(new)] = Part(dec')
    <3>1. new[Len(new)].wr = old[Len(old)].wr
      <4>1. new[Len(new)] = [address |-> old[Len(old)].address,
                             wr |-> old[Len(old)].wr,
                             data |-> Append(old[Len(old)].data, byte)]
        BY <2>10
      <4>2. QED
        BY <4>1
    <3>2. ASSUME format # "none" PROVE new[Len(new)] = Part(dec')
      <4>1. old[Len(old)] = Part(dec)
        BY <2>4, <2>7, <3>2
      <4>2. /\ old[Len(old)].address = dec.address
            /\ old[Len(old)].wr = dec.wr
            /\ old[Len(old)].data = dec.packet_data
        BY <4>1 DEF Part
      <4>3. new[Len(new)] = [address |-> dec.address, wr |-> dec.wr,
                             data |-> Append(dec.packet_data, byte)]
        BY <2>10, <4>2
      <4>4. QED
        BY <2>2, <4>3 DEF Part
    <3>3. QED
      BY <2>2, <2>4, <2>7, <3>1, <3>2
  <2>12. PICK m \in Nat : m = Len(old) - 1
    BY <2>9
  <2>13. ASSUME format # "none" PROVE Lists(dec.packet_str, new, m)
    <3>1. Lists(dec.packet_str, old, m)
      BY <2>4, <2>7, <2>12, <2>13
    <3>2. \A p \in 1 .. m : new[p] = old[p]
      BY <2>10, <2>12
    <3>3. QED
      BY <1>6, <3>1, <3>2, ListsSame
  <2>14. format # "none" => Lists(dec'.packet_str, bus'.parts, Len(bus'.parts) - 1)
    BY <2>2, <2>8, <2>10, <2>12, <2>13
  <2>15. bus'.n = 8 /\ ~(bus'.n < 8)
    BY <1>3, <1>10
  <2>16. /\ bus'.parts[Len(bus'.parts)].wr = dec'.wr
         /\ format # "none" => bus'.parts[Len(bus'.parts)] = Part(dec')
    BY <2>8, <2>11
  <2>17. Mirror'
    <3>1. Directed'
      BY <2>16 DEF Directed
    <3>2. format # "none" => Gathered'
      BY <2>14, <2>15, <2>16, Zenon DEF Gathered
    <3>3. QED
      BY <1>12, <2>2, <2>15, <3>1, <3>2, Zenon DEF Mirror
  <2>18. Last(bus.parts).wr = dec.wr
    BY <2>4 DEF Last
  <2>19. QED
    BY <1>3, <1>10, <2>3, <2>17, <2>18
<1>11. QED
  BY <1>3, <1>6, <1>8, <1>9, <1>10

\* The clock of the acknowledge bit.
LEMMA MirrorAck ==
  ASSUME Sound, InStep, Mirror, calm = Settled, calm' = Settled,
         Rise, ClockAck, Decode, UNCHANGED options
  PROVE  Mirror' /\ out' = said' /\ packets' = <<>>
<1>1. bus.active /\ bus.n = 8 /\ ~(bus.n < 8)
  BY RiseTypes DEF ClockAck
<1>2. /\ TypeOK /\ DecoderTypes(dec) /\ sda \in {0, 1}
      /\ dec.state = "FIND_ACK"
  BY <1>1, SettledState DEF Sound, TypeOK
<1>3. GetAck(dec, sda)
  BY <1>2, RiseReaches
<1>4. /\ dec'.databyte = dec.databyte /\ dec'.wr = dec.wr
      /\ dec'.address = dec.address /\ dec'.packet_data = dec.packet_data
      /\ dec'.packet_str = dec.packet_str
      /\ out' = <<IF sda = 0 THEN Events!ACK ELSE Events!NACK>> /\ packets' = <<>>
  BY <1>2, <1>3, AckFields
<1>5. /\ bus'.n = 0 /\ bus'.byte = 0 /\ bus'.phase = "data" /\ bus'.parts = bus.parts
      /\ said' = <<IF sda = 0 THEN Events!ACK ELSE Events!NACK>>
  BY DEF ClockAck, Sound, TypeOK, BusTypes, Idle
<1>6. /\ dec.databyte = 0
      /\ bus.parts[Len(bus.parts)].wr = dec.wr
      /\ format # "none" =>
           /\ bus.parts[Len(bus.parts)] = Part(dec)
           /\ Lists(dec.packet_str, bus.parts, Len(bus.parts) - 1)
  BY <1>1 DEF Mirror, Directed, Gathered
<1>7. Part(dec') = Part(dec) /\ format' = format
  BY <1>4 DEF Part, options
<1>8. Mirror'
  BY <1>4, <1>5, <1>6, <1>7 DEF Mirror, Directed, Gathered
<1>9. QED
  BY <1>4, <1>5, <1>8

\* What the last part adds to the packet when its data bytes are over: at a
\* repeated START and at the STOP.
LEMMA PartEnds ==
  ASSUME Sound, Mirror, calm = Settled, bus.active, bus.phase = "data",
         format # "none"
  PROVE  /\ dec.packet_data = <<>> =>
              Lists(dec.packet_str, bus.parts, Len(bus.parts))
         /\ dec.packet_data # <<>> =>
              Lists(Append(dec.packet_str, Part(dec)), bus.parts, Len(bus.parts))
<1>1. PICK parts, packet : parts = bus.parts /\ packet = dec.packet_str
  OBVIOUS
<1>2. /\ parts \in Seq(Parts) /\ packet \in Seq(Parts) /\ parts # <<>>
  BY <1>1 DEF Sound, TypeOK, BusTypes, DecoderTypes, PartsThere
<1>3. /\ parts[Len(parts)] = Part(dec)
      /\ Lists(packet, parts, Len(parts) - 1)
  BY <1>1 DEF Mirror, Gathered
<1>4. Part(dec).data = dec.packet_data
  BY DEF Part
<1>5. CASE dec.packet_data = <<>>
  <2>1. Lists(packet, parts, Len(parts))
    BY <1>2, <1>3, <1>4, <1>5, ListsSkip
  <2>2. QED
    BY <1>1, <1>5, <2>1
<1>6. CASE dec.packet_data # <<>>
  <2>1. Lists(Append(packet, parts[Len(parts)]), parts, Len(parts))
    BY <1>2, <1>3, <1>4, <1>6, ListsTake
  <2>2. QED
    BY <1>1, <1>3, <1>6, <2>1
<1>7. QED
  BY <1>5, <1>6

\* A START between two transfers, and a repeated START.
LEMMA MirrorStart ==
  ASSUME Sound, InStep, Mirror, calm = Settled, calm' = Settled,
         StartCondition, Decode, UNCHANGED options
  PROVE  Mirror' /\ out' = said' /\ packets' = <<>>
<1>1. /\ bus'.phase = "address" /\ bus'.n = 0 /\ bus'.byte = 0
      /\ bus'.parts = bus.parts /\ bus'.n < 8
  BY StartOnBus
<1>2. /\ TypeOK /\ DecoderTypes(dec)
      /\ bus.n \in 0 .. 8 /\ bus.phase \in {"address", "data"}
  BY DEF Sound, TypeOK, BusTypes
<1>3. said' = <<IF bus.active THEN Events!START_REPEAT ELSE Events!START>>
  BY DEF StartCondition
<1>4. ~Misplaced /\ format' = format
  BY DEF StartCondition, Disturbs, Orderly, Settled, options
<1>5. CASE ~bus.active
  <2>1. dec.state = "FIND_START"
    BY <1>5 DEF InStep
  <2>2. dec.is_repeat_start = 0 /\ (format # "none" => dec.packet_data = <<>>)
    BY <2>1 DEF Sound, Repeats
  <2>3. HandleStart(dec)
    BY <1>2, <2>1, StartReaches
  <2>4. /\ dec'.databyte = 0
        /\ format # "none" => dec'.packet_data = <<>> /\ dec'.packet_str = <<>>
        /\ out' = <<Events!START>> /\ packets' = <<>>
    BY <1>2, <2>2, <2>3, StartFields
  <2>5. bus.parts = <<>>
    BY <1>5 DEF Sound, Lines, Idle
  <2>6. Lists(<<>>, bus'.parts, 0) /\ Len(bus'.parts) = 0
    BY <1>1, <2>5, ListsNone
  <2>7. Mirror'
    BY <1>1, <1>4, <2>4, <2>6 DEF Mirror, Directed, Gathered
  <2>8. QED
    BY <1>3, <1>5, <2>4, <2>7
<1>6. CASE bus.active
  <2>1. bus.phase = "data" /\ bus.n < 8
    BY <1>2, <1>4, <1>6 DEF Misplaced
  <2>2. dec.state = "FIND_DATA" /\ dec.is_repeat_start = 1
    BY <1>6, <2>1, SettledState
  <2>3. HandleStart(dec)
    BY <1>2, <2>2, StartReaches
  <2>4. /\ dec'.databyte = 0
        /\ format # "none" =>
             /\ dec'.packet_data = <<>>
             /\ dec'.packet_str = IF dec.packet_data = <<>> THEN dec.packet_str
                                  ELSE Append(dec.packet_str, Part(dec))
        /\ out' = <<Events!START_REPEAT>> /\ packets' = <<>>
    BY <1>2, <2>2, <2>3, StartFields
  <2>5. format # "none" => Lists(dec'.packet_str, bus.parts, Len(bus.parts))
    BY <1>6, <2>1, <2>4, PartEnds
  <2>6. Mirror'
    BY <1>1, <1>4, <2>4, <2>5 DEF Mirror, Directed, Gathered
  <2>7. QED
    BY <1>3, <1>6, <2>4, <2>6
<1>7. QED
  BY <1>5, <1>6

\* The STOP: the packet that is shown is the transfer.
LEMMA MirrorStop ==
  ASSUME Sound, InStep, Mirror, calm = Settled, calm' = Settled,
         StopCondition, Decode
  PROVE  /\ Mirror' /\ out' = said' /\ said' = <<Events!STOP>>
         /\ \A i \in 1 .. Len(packets') :
              IsTextOf(packets'[i], bus.parts)
<1>1. ~bus'.active /\ bus.active
  BY StopOnBus
<1>2. /\ TypeOK /\ DecoderTypes(dec)
      /\ bus.n \in 0 .. 8 /\ bus.phase \in {"address", "data"}
  BY DEF Sound, TypeOK, BusTypes
<1>3. said' = <<Events!STOP>>
  BY DEF StopCondition
<1>4. ~Misplaced
  BY DEF StopCondition, Disturbs, Orderly, Settled
<1>5. bus.phase = "data" /\ bus.n < 8
  BY <1>1, <1>2, <1>4 DEF Misplaced
<1>6. dec.state = "FIND_DATA"
  BY <1>1, <1>5, SettledState
<1>7. HandleStop(dec)
  BY <1>2, <1>6, StopReaches
<1>8. /\ out' = <<Events!STOP>>
      /\ packets' = IF format = "none" \/ dec.packet_data = <<>> THEN <<>>
                    ELSE <<Text(Append(dec.packet_str, Part(dec)))>>
  BY <1>2, <1>7, StopFields
<1>9. Mirror'
  BY <1>1 DEF Mirror
<1>10. ASSUME NEW i \in 1 .. Len(packets')
       PROVE  IsTextOf(packets'[i], bus.parts)
  <2> DEFINE list == Append(dec.packet_str, Part(dec))
  <2>1. format # "none" /\ dec.packet_data # <<>>
    BY <1>8, <1>10
  <2>2. packets' = <<Text(list)>>
    BY <1>8, <2>1
  <2>3. packets'[i] = Text(list)
    <3>1. Len(packets') = 1
      BY <2>2
    <3>2. QED
      BY <1>10, <2>2, <3>1
  <2>4. Lists(list, bus.parts, Len(bus.parts))
    BY <1>1, <1>5, <2>1, PartEnds
  <2>5. list \in Seq(Parts) /\ bus.parts \in Seq(Parts)
    <3>1. Part(dec) \in Parts /\ dec.packet_str \in Seq(Parts)
      BY <1>2 DEF Part, Parts, DecoderTypes
    <3>2. QED
      BY <3>1 DEF Sound, TypeOK, BusTypes
  <2> HIDE DEF list
  <2>6. QED
    BY <2>3, <2>4, <2>5, TextOfList
<1>11. QED
  BY <1>3, <1>8, <1>9, <1>10

\* A step of a settled decoder that stays settled: what it sends and shows.
Reports ==
    /\ out' = said'
    /\ \A i \in 1 .. Len(packets') :
          said' = <<Events!STOP>> /\ IsTextOf(packets'[i], bus.parts)

\* A transfer begins with a START the decoder sees, so a decoder that becomes
\* settled does so between two transfers.
LEMMA MirrorStep ==
  ASSUME Sound, InStep, Mirror, [Next]_vars
  PROVE  /\ Mirror'
         /\ calm = Settled /\ calm' = Settled => Reports \/ UNCHANGED vars
<1>0. TypeOK /\ calm \in 0 .. 2 /\ Settled = 2
  BY DEF Sound, TypeOK, Settled
<1>1. ASSUME packets' = <<>> PROVE \A i \in 1 .. Len(packets') : FALSE
  BY <1>1
<1>2. CASE Fall /\ Decode /\ UNCHANGED options
  <2>1. UNCHANGED <<dec, bus, calm>> /\ out' = <<>> /\ packets' = <<>> /\ said' = <<>>
    BY <1>0, <1>2, FallReaches DEF Fall, Listen
  <2>2. Mirror'
    BY <1>2, <2>1 DEF Mirror, Directed, Gathered, options
  <2>3. QED
    BY <1>1, <2>1, <2>2 DEF Reports
<1>3. CASE Rise /\ Decode /\ UNCHANGED options
  <2>1. calm' = calm /\ (ClockBit \/ ClockAck)
    BY <1>3 DEF Rise
  <2>2. CASE calm = Settled
    <3>1. Mirror' /\ out' = said' /\ packets' = <<>>
      BY <1>3, <2>1, <2>2, MirrorBit, MirrorAck
    <3>2. QED
      BY <1>1, <3>1 DEF Reports
  <2>3. CASE calm # Settled
    BY <2>1, <2>3 DEF Mirror, Settled
  <2>4. QED
    BY <2>2, <2>3
<1>4. CASE StartCondition /\ Decode /\ UNCHANGED options
  <2>1. calm' = 0 \/ calm' = calm
    BY <1>4 DEF StartCondition
  <2>2. CASE calm = Settled /\ calm' = Settled
    <3>1. Mirror' /\ out' = said' /\ packets' = <<>>
      BY <1>4, <2>2, MirrorStart
    <3>2. QED
      BY <1>1, <3>1 DEF Reports
  <2>3. CASE calm' # Settled
    BY <2>3 DEF Mirror, Settled
  <2>4. QED
    BY <1>0, <2>1, <2>2, <2>3
<1>5. CASE StopCondition /\ Decode /\ UNCHANGED options
  <2>1. ~bus'.active
    BY <1>5, StopOnBus
  <2>2. Mirror'
    BY <2>1 DEF Mirror
  <2>3. calm = Settled /\ calm' = Settled => Reports
    BY <1>5, MirrorStop DEF Reports
  <2>4. QED
    BY <2>2, <2>3
<1>6. CASE Restart
  <2>1. ~bus'.active /\ out' = <<>> /\ packets' = <<>> /\ said' = <<>>
    BY <1>6 DEF Restart, Idle
  <2>2. Mirror'
    BY <2>1 DEF Mirror
  <2>3. QED
    BY <1>1, <2>1, <2>2 DEF Reports
<1>7. CASE UNCHANGED vars
  <2>1. UNCHANGED <<dec, bus, calm, format>>
    BY <1>7 DEF vars, decoder, ideal, options
  <2>2. QED
    BY <1>7, <2>1 DEF Mirror, Directed, Gathered
<1>8. QED
  BY <1>2, <1>3, <1>4, <1>5, <1>6, <1>7 DEF Next

\* The whole invariant.
Follows == Sound /\ InStep /\ Mirror

\* A capture that begins inside a transfer counts as disturbed.
LEMMA FollowsInit == Init => Follows
<1> SUFFICES ASSUME Init
             PROVE  Follows
  OBVIOUS
<1>1. Sound
  BY SoundInit
<1>2. dec.state = "FIND_START"
  BY DEF Init, ResetState
<1>3. ~bus.active \/ calm = Settled - 1
  BY DEF Init, Capture, Idle
<1>4. ~(calm = Settled /\ bus.active)
  BY <1>3 DEF Settled
<1>5. QED
  BY <1>1, <1>2, <1>4 DEF Follows, InStep, Mirror

\* The invariant holds always.
LEMMA FollowsInvariant == Spec => []Follows
<1>1. Follows /\ [Next]_vars => Follows'
  BY SoundStep, InStepStep, MirrorStep DEF Follows
<1>2. QED
  BY <1>1, FollowsInit, PTL DEF Spec

\* While no condition is misplaced and none was in the last two transfers, the
\* decoder sends in each step exactly what happened on the bus: for all bytes,
\* transfers of any length and conditions at any time.
THEOREM TranscriptKept == Spec => Transcript
<1>1. Follows /\ [Next]_vars =>
          [calm = Settled /\ calm' = Settled => out' = said']_vars
  BY MirrorStep DEF Follows, Reports
<1>2. QED
  BY <1>1, FollowsInvariant, PTL DEF Spec, Transcript

\* The PACKET annotation of a settled decoder comes with the STOP and is what the
\* buffers hold of the list of the parts that carried data, in order, whatever
\* the sizes of the buffers and the packet format.
THEOREM PacketsAreTransfers == Spec => PacketIsTransfer
<1> DEFINE A == \A i \in 1 .. Len(packets') :
                   calm = Settled /\ calm' = Settled =>
                       said' = <<Events!STOP>> /\ IsTextOf(packets'[i], bus.parts)
<1>1. Follows /\ [Next]_vars => [A]_vars
  BY MirrorStep DEF Follows, Reports
<1>2. QED
  BY <1>1, FollowsInvariant, PTL DEF Spec, PacketIsTransfer
=============================================================================
