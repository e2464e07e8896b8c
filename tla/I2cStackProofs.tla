--------------------------- MODULE I2cStackProofs ---------------------------
(***************************************************************************)
(* What the proofs about the decoders stacked on I2C share: the steps of   *)
(* the bus with the packets they send, the transfer that they build up,    *)
(* the buffers that follow it, and what a report shows of it.  Then the    *)
(* relays, which hand a transfer on: i2cdemux, i2cfilter and i2c_packet.   *)
(***************************************************************************)
EXTENDS I2cDevices, TLAPS, SequenceTheorems, FiniteSetTheorems

-----------------------------------------------------------------------------
(* The bus, as the stacked decoders see it.                                *)

Byte == 0 .. 255
PartTypes == [w : {0, 1}, a : 0 .. 127, bytes : Seq(Byte)]

\* Behind an address there is a part, of the direction that was announced.
BusOK ==
    /\ phase \in Events!Phases
    /\ wr \in {-1, 0, 1}
    /\ xfer \in Seq(PartTypes)
    /\ phase \in {"address_ack", "data", "data_ack"} => xfer # <<>> /\ Last(xfer).w = wr

\* The part that is on the bus.
Here == Last(xfer)
Within == phase \in {"address_ack", "data", "data_ack"}

\* An address that was on the bus in this transfer.
Met(a) == \E i \in DOMAIN xfer : xfer[i].a = a

\* The packets of the bus.
Commands ==
    {"START", "START REPEAT", "STOP", "ACK", "NACK", "BITS",
     "ADDRESS WRITE", "ADDRESS READ", "DATA WRITE", "DATA READ"}
Sent == [cmd : Commands, val : Byte \cup PointerBytes]

\* The steps of the bus, each with the packets that the decoder receives.
Hushed == Silenced(upper, s)

Noted(packets) == seen' = IF upper \in Forwarders THEN seen \o Noting(packets) ELSE <<>>

\* The packets as they are handed on.
HandedOn == {Resent(p) : p \in Sent}

Starts(p) ==
    /\ phase = "stopped" /\ phase' = "address"
    /\ xfer' = <<>> /\ ptr' = ptr /\ carried' = carried
    /\ p.cmd = "START"
    /\ s' = Recv(upper, Hushed, p)
    /\ seen' = IF upper \in Forwarders THEN <<Resent(p)>> ELSE <<>>

Repeats(p) ==
    /\ phase = "data" /\ phase' = "address"
    /\ xfer' = xfer /\ ptr' = ptr /\ carried' = carried
    /\ p.cmd = "START REPEAT"
    /\ s' = Recv(upper, Hushed, p) /\ Noted(<<p>>)

Addresses(w, a, q, p) ==
    /\ phase = "address" /\ phase' = "address_ack"
    /\ xfer' = Append(xfer, [w |-> w, a |-> a, bytes |-> <<>>])
    /\ ptr' = ptr /\ carried' = carried
    /\ q.cmd = "BITS"
    /\ p.cmd = (IF w = 1 THEN "ADDRESS WRITE" ELSE "ADDRESS READ") /\ p.val = a
    /\ s' = Recv(upper, Recv(upper, Hushed, q), p) /\ Noted(<<q, p>>)

Transfers(d, q, p) ==
    /\ phase = "data" /\ phase' = "data_ack"
    /\ xfer' = [xfer EXCEPT ![Len(xfer)].bytes = Append(@, d)]
    /\ ptr' = Pointed(Here, d) /\ carried' = carried \cup Carries(Here, d)
    /\ q.cmd = "BITS"
    /\ p.cmd = (IF wr = 1 THEN "DATA WRITE" ELSE "DATA READ") /\ p.val = d
    /\ s' = Recv(upper, Recv(upper, Hushed, q), p) /\ Noted(<<q, p>>)

Acknowledges(p) ==
    /\ phase \in {"address_ack", "data_ack"} /\ phase' = "data"
    /\ xfer' = xfer /\ ptr' = ptr /\ carried' = carried
    /\ p.cmd \in {"ACK", "NACK"}
    /\ s' = Recv(upper, Hushed, p) /\ Noted(<<p>>)

Stops(p) ==
    /\ phase = "data" /\ phase' = "stopped"
    /\ xfer' = xfer /\ ptr' = ptr /\ carried' = carried
    /\ p.cmd = "STOP"
    /\ s' = Recv(upper, Hushed, p) /\ Noted(<<p>>)

Resets ==
    /\ phase' = "stopped" /\ xfer' = <<>> /\ seen' = <<>> /\ ptr' = ptr /\ carried' = {}
    /\ s' = ResetOf(upper)

Steps ==
    \/ Resets
    \/ \E p \in Sent : Starts(p) \/ Repeats(p) \/ Stops(p) \/ Acknowledges(p)
    \/ \E w \in {0, 1}, a \in 0 .. 127 : \E q, p \in Sent : Addresses(w, a, q, p)
    \/ \E d \in Byte : \E q, p \in Sent : Transfers(d, q, p)

\* What is handed on of a packet.
LEMMA ResentFields ==
  /\ \A p : Resent(p).cmd = p.cmd
  /\ \A p \in Sent : Resent(p) \in HandedOn
<1>1. \A p : Resent(p).cmd = p.cmd
  BY DEF Resent
<1>2. QED
  BY <1>1, Zenon DEF HandedOn

LEMMA NotingPackets ==
  ASSUME NEW p, NEW q
  PROVE  Noting(<<p>>) = <<Resent(p)>> /\ Noting(<<p, q>>) = <<Resent(p), Resent(q)>>
BY DEF Noting

\* A step that sends one packet.
LEMMA OnePacket ==
  ASSUME NEW p, Deliver, out' = <<p>>
  PROVE  /\ s' = Recv(upper, Hushed, p)
         /\ upper' = upper
         /\ p # Events!START =>
              Noted(<<p>>)
         /\ p = Events!START =>
              seen' = IF upper \in Forwarders THEN <<Resent(p)>> ELSE <<>>
<1>1. Len(out') = 1 /\ out'[1] = p
  OBVIOUS
<1>2. s' = Recv(upper, Hushed, p)
  BY <1>1 DEF Deliver, Received, Hushed
<1>3. out' = <<Events!START>> <=> p = Events!START
  <2>1. ASSUME out' = <<Events!START>> PROVE p = Events!START
    BY <1>1, <2>1
  <2>2. QED
    BY <2>1
<1>4. /\ upper' = upper
      /\ upper \notin Forwarders => seen' = <<>>
      /\ upper \in Forwarders /\ out' = <<Events!START>> => seen' = Noting(out')
      /\ upper \in Forwarders /\ out' # <<Events!START>> => seen' = seen \o Noting(out')
  BY DEF Deliver
<1>5. QED
  BY <1>2, <1>3, <1>4, NotingPackets DEF Noted

\* A step that sends two packets: the bits of a byte and the byte.
LEMMA TwoPackets ==
  ASSUME NEW p, NEW q, Deliver, out' = <<p, q>>
  PROVE  /\ s' = Recv(upper, Recv(upper, Hushed, p), q)
         /\ upper' = upper
         /\ Noted(<<p, q>>)
<1>1. Len(out') = 2 /\ out'[1] = p /\ out'[2] = q
  OBVIOUS
<1>2. s' = Recv(upper, Recv(upper, Hushed, p), q)
  BY <1>1 DEF Deliver, Received, Hushed
<1>3. out' # <<Events!START>>
  BY <1>1
<1>4. /\ upper' = upper
      /\ upper \notin Forwarders => seen' = <<>>
      /\ upper \in Forwarders /\ out' # <<Events!START>> => seen' = seen \o Noting(out')
  BY DEF Deliver
<1>5. QED
  BY <1>2, <1>3, <1>4 DEF Noted

\* The packets, by their commands.
LEMMA Packets ==
  /\ Events!START.cmd = "START" /\ Events!START_REPEAT.cmd = "START REPEAT"
  /\ Events!STOP.cmd = "STOP" /\ Events!ACK.cmd = "ACK" /\ Events!NACK.cmd = "NACK"
  /\ Events!START_REPEAT # Events!START /\ Events!STOP # Events!START
  /\ Events!ACK # Events!START /\ Events!NACK # Events!START
BY DEF Events!START, Events!START_REPEAT, Events!STOP, Events!ACK, Events!NACK, Events!Packet

LEMMA PacketsSent ==
  /\ Events!START \in Sent /\ Events!START_REPEAT \in Sent /\ Events!STOP \in Sent
  /\ Events!ACK \in Sent /\ Events!NACK \in Sent
  /\ \A b \in PointerBytes : Events!BITS(b) \in Sent
  /\ \A w : \A a \in Byte : Events!ADDRESS(w, a) \in Sent /\ Events!DATA(w, a) \in Sent
<1>1. \A c \in Commands, v \in Byte \cup PointerBytes : Events!Packet(c, v) \in Sent
  BY DEF Events!Packet, Sent
<1>2. 0 \in Byte
  BY DEF Byte
<1>3. /\ Events!START \in Sent /\ Events!START_REPEAT \in Sent /\ Events!STOP \in Sent
      /\ Events!ACK \in Sent /\ Events!NACK \in Sent
  BY <1>1, <1>2 DEF Events!START, Events!START_REPEAT, Events!STOP, Events!ACK, Events!NACK, Commands
<1>4. \A b \in PointerBytes : Events!BITS(b) \in Sent
  BY <1>1 DEF Events!BITS, Commands
<1>5. ASSUME NEW w, NEW a \in Byte
      PROVE  Events!ADDRESS(w, a) \in Sent /\ Events!DATA(w, a) \in Sent
  BY <1>1 DEF Events!ADDRESS, Events!DATA, Commands
<1>6. QED
  BY <1>3, <1>4, <1>5

LEMMA AddressSteps ==
  ASSUME NEW w, NEW a, NEW b, Address(w, a, b)
  PROVE  Addresses(w, a, Events!BITS(b), Events!ADDRESS(w, a)) /\ upper' = upper
<1> DEFINE q == Events!BITS(b)  p == Events!ADDRESS(w, a)
<1>1. /\ phase = "address" /\ phase' = "address_ack" /\ ptr' = ptr /\ carried' = carried
      /\ xfer' = Append(xfer, [w |-> w, a |-> a, bytes |-> <<>>])
      /\ Deliver /\ out' = <<q, p>>
  BY DEF Address, Events!Address
<1>2. /\ q.cmd = "BITS" /\ p.val = a
      /\ p.cmd = (IF w = 1 THEN "ADDRESS WRITE" ELSE "ADDRESS READ")
  BY DEF Events!BITS, Events!ADDRESS, Events!Packet
<1> HIDE DEF q, p
<1>3. s' = Recv(upper, Recv(upper, Hushed, q), p) /\ upper' = upper /\ Noted(<<q, p>>)
  BY <1>1, TwoPackets
<1>4. Addresses(w, a, q, p)
  BY <1>1, <1>2, <1>3 DEF Addresses
<1>5. QED
  BY <1>3, <1>4 DEF q, p

LEMMA DataSteps ==
  ASSUME NEW d, NEW b, Data(d, b)
  PROVE  Transfers(d, Events!BITS(b), Events!DATA(wr, d)) /\ upper' = upper
<1> DEFINE q == Events!BITS(b)  p == Events!DATA(wr, d)
<1>1. /\ phase = "data" /\ phase' = "data_ack"
      /\ ptr' = Pointed(Here, d) /\ carried' = carried \cup Carries(Here, d)
      /\ xfer' = [xfer EXCEPT ![Len(xfer)].bytes = Append(@, d)]
      /\ Deliver /\ out' = <<q, p>>
  BY DEF Data, Events!Data, Here
<1>2. /\ q.cmd = "BITS" /\ p.val = d
      /\ p.cmd = (IF wr = 1 THEN "DATA WRITE" ELSE "DATA READ")
  BY DEF Events!BITS, Events!DATA, Events!Packet
<1> HIDE DEF q, p
<1>3. s' = Recv(upper, Recv(upper, Hushed, q), p) /\ upper' = upper /\ Noted(<<q, p>>)
  BY <1>1, TwoPackets
<1>4. Transfers(d, q, p)
  BY <1>1, <1>2, <1>3 DEF Transfers
<1>5. QED
  BY <1>3, <1>4 DEF q, p

\* Every step of the specification is a step of the bus.
LEMMA NextSteps ==
  ASSUME BusOK, Next
  PROVE  Steps /\ upper' = upper
<1>1. CASE Start
  <2>1. phase = "stopped" /\ phase' = "address" /\ xfer' = <<>>
        /\ ptr' = ptr /\ carried' = carried /\ Deliver /\ out' = <<Events!START>>
    BY <1>1 DEF Start, Events!Start
  <2>2. Starts(Events!START) /\ upper' = upper
    BY <2>1, OnePacket, Packets DEF Starts
  <2>3. QED
    BY <2>2, PacketsSent DEF Steps
<1>2. CASE StartRepeat
  <2>1. phase = "data" /\ phase' = "address" /\ xfer' = xfer
        /\ ptr' = ptr /\ carried' = carried /\ Deliver /\ out' = <<Events!START_REPEAT>>
    BY <1>2 DEF StartRepeat, Events!StartRepeat
  <2>3. Repeats(Events!START_REPEAT) /\ upper' = upper
    BY <2>1, OnePacket, Packets DEF Repeats
  <2>4. QED
    BY <2>3, PacketsSent DEF Steps
<1>3. CASE Acknowledge
  <2>1. PICK p \in {Events!ACK, Events!NACK} :
          /\ phase \in {"address_ack", "data_ack"} /\ phase' = "data"
          /\ xfer' = xfer /\ ptr' = ptr /\ carried' = carried
          /\ Deliver /\ out' = <<p>>
    BY <1>3 DEF Acknowledge, Events!Acknowledge
  <2>2. p # Events!START /\ p.cmd \in {"ACK", "NACK"}
    BY Packets
  <2>3. Acknowledges(p) /\ upper' = upper
    BY <2>1, <2>2, OnePacket DEF Acknowledges
  <2>4. QED
    BY <2>3, PacketsSent DEF Steps
<1>4. CASE Stop
  <2>1. phase = "data" /\ phase' = "stopped" /\ xfer' = xfer
        /\ ptr' = ptr /\ carried' = carried /\ Deliver /\ out' = <<Events!STOP>>
    BY <1>4 DEF Stop, Events!Stop
  <2>3. Stops(Events!STOP) /\ upper' = upper
    BY <2>1, OnePacket, Packets DEF Stops
  <2>4. QED
    BY <2>3, PacketsSent DEF Steps
<1>5. CASE ResetStack
  BY <1>5 DEF ResetStack, Events!Reset, Steps, Resets
<1>6. ASSUME NEW w \in {0, 1}, NEW a \in 0 .. 127, NEW b \in PointerBytes, Address(w, a, b)
      PROVE  Steps /\ upper' = upper
  <2>1. a \in Byte
    BY DEF Byte
  <2>2. QED
    BY <1>6, <2>1, AddressSteps, PacketsSent DEF Steps
<1>7. ASSUME NEW d \in Byte, NEW b \in PointerBytes, Data(d, b)
      PROVE  Steps /\ upper' = upper
  BY <1>7, DataSteps, PacketsSent DEF Steps
<1>8. QED
  BY <1>1, <1>2, <1>3, <1>4, <1>5, <1>6, <1>7 DEF Next, Byte

\* A byte is added to the last part.
LEMMA TransfersPart ==
  ASSUME BusOK, NEW d \in Byte, NEW q, NEW p, Transfers(d, q, p)
  PROVE  /\ xfer # <<>> /\ xfer' # <<>> /\ xfer' \in Seq(PartTypes) /\ Len(xfer') = Len(xfer)
         /\ Here \in PartTypes /\ Here' \in PartTypes
         /\ Here'.w = Here.w /\ Here'.a = Here.a /\ Here'.bytes = Append(Here.bytes, d)
         /\ \A i \in DOMAIN xfer : xfer'[i].a = xfer[i].a /\ xfer'[i].w = xfer[i].w
         /\ \A i \in 1 .. Len(xfer) - 1 : xfer'[i] = xfer[i]
<1> DEFINE n == Len(xfer)
           more == Append(xfer[n].bytes, d)
           e == [xfer[n] EXCEPT !.bytes = more]
<1>0. phase = "data"
  BY DEF Transfers
<1>1. xfer \in Seq(PartTypes) /\ xfer # <<>> /\ n \in Nat /\ n >= 1
  BY <1>0 DEF BusOK
<1>2. /\ xfer[n] \in PartTypes
      /\ \A i \in 1 .. n : xfer[i] \in PartTypes
  BY <1>1, ElementOfSeq
<1>3. xfer[n].w \in {0, 1} /\ xfer[n].a \in 0 .. 127 /\ xfer[n].bytes \in Seq(Byte)
  BY <1>2 DEF PartTypes
<1>4. more \in Seq(Byte)
  BY <1>3
<1>5. e \in PartTypes /\ e.w = xfer[n].w /\ e.a = xfer[n].a /\ e.bytes = more
  <2> HIDE DEF more
  <2>1. QED
    BY <1>2, <1>4 DEF PartTypes
<1>6. xfer' = [xfer EXCEPT ![n] = e]
  BY DEF Transfers
<1> HIDE DEF e
<1>7. xfer' \in Seq(PartTypes) /\ Len(xfer') = n /\ xfer'[n] = e
      /\ \A i \in 1 .. n : i # n => xfer'[i] = xfer[i]
  BY <1>1, <1>5, <1>6
<1>8. Here = xfer[n] /\ Here' = e
  BY <1>7 DEF Here, Last
<1>9. \A i \in DOMAIN xfer : i \in 1 .. n
  BY <1>1
<1>10. \A i \in DOMAIN xfer : xfer'[i].a = xfer[i].a /\ xfer'[i].w = xfer[i].w
  BY <1>5, <1>7, <1>9
<1>11. xfer' # <<>>
  BY <1>1, <1>7
<1>12. \A i \in 1 .. n - 1 : xfer'[i] = xfer[i]
  BY <1>1, <1>7
<1>13. QED
  BY <1>1, <1>2, <1>5, <1>7, <1>8, <1>10, <1>11, <1>12

\* A new part begins.
LEMMA AddressesPart ==
  ASSUME BusOK, NEW w \in {0, 1}, NEW a \in 0 .. 127, NEW q, NEW p, Addresses(w, a, q, p)
  PROVE  /\ xfer' # <<>> /\ xfer' \in Seq(PartTypes) /\ Len(xfer') = Len(xfer) + 1
         /\ Here' \in PartTypes /\ a \in Nat
         /\ Here'.w = w /\ Here'.a = a /\ Here'.bytes = <<>>
         /\ \A i \in 1 .. Len(xfer) : xfer'[i] = xfer[i]
<1> DEFINE e == [w |-> w, a |-> a, bytes |-> <<>>]
<1>1. xfer \in Seq(PartTypes) /\ xfer' = Append(xfer, e)
  BY DEF BusOK, Addresses
<1>2. e \in PartTypes /\ e.w = w /\ e.a = a /\ e.bytes = <<>>
  BY DEF PartTypes
<1> HIDE DEF e
<1>3. xfer' \in Seq(PartTypes) /\ Len(xfer') = Len(xfer) + 1 /\ xfer'[Len(xfer) + 1] = e
      /\ \A i \in 1 .. Len(xfer) : xfer'[i] = xfer[i]
  BY <1>1, <1>2
<1>4. Here' = e
  BY <1>3 DEF Here, Last
<1>5. xfer' # <<>>
  BY <1>1, <1>3
<1>6. a \in Nat
  OBVIOUS
<1>7. QED
  BY <1>2, <1>3, <1>4, <1>5, <1>6

\* The bus keeps its own rules.
LEMMA BusHolds ==
  ASSUME BusOK, Next
  PROVE  BusOK'
<1> USE DEF Events!Phases, Within
<1>1. CASE Start
  BY <1>1 DEF Start, Events!Start, BusOK
<1>2. CASE StartRepeat
  BY <1>2 DEF StartRepeat, Events!StartRepeat, BusOK
<1>3. CASE Acknowledge
  BY <1>3 DEF Acknowledge, Events!Acknowledge, BusOK
<1>4. CASE Stop
  BY <1>4 DEF Stop, Events!Stop, BusOK
<1>5. CASE ResetStack
  BY <1>5 DEF ResetStack, Events!Reset, BusOK
<1>6. ASSUME NEW w \in {0, 1}, NEW a \in 0 .. 127, NEW b \in PointerBytes, Address(w, a, b)
      PROVE  BusOK'
  <2>1. Addresses(w, a, Events!BITS(b), Events!ADDRESS(w, a))
    BY <1>6, AddressSteps
  <2>2. wr' = w /\ phase' = "address_ack"
    BY <1>6 DEF Address, Events!Address
  <2>3. QED
    BY <2>1, <2>2, AddressesPart DEF BusOK, Here
<1>7. ASSUME NEW d \in Byte, NEW b \in PointerBytes, Data(d, b)
      PROVE  BusOK'
  <2>1. Transfers(d, Events!BITS(b), Events!DATA(wr, d))
    BY <1>7, DataSteps
  <2>2. wr' = wr /\ phase' = "data_ack" /\ phase = "data"
    BY <1>7 DEF Data, Events!Data
  <2>3. QED
    BY <2>1, <2>2, TransfersPart DEF BusOK, Here
<1>8. QED
  BY <1>1, <1>2, <1>3, <1>4, <1>5, <1>6, <1>7 DEF Next, Byte

\* Inside a part.
LEMMA HereTyped ==
  ASSUME BusOK, Within
  PROVE  /\ xfer # <<>> /\ xfer \in Seq(PartTypes) /\ Here \in PartTypes
         /\ Here.w = wr /\ wr \in {0, 1} /\ Here.a \in 0 .. 127 /\ Here.bytes \in Seq(Byte)
         /\ xfer' = xfer => Here' = Here
<1>1. xfer # <<>> /\ xfer \in Seq(PartTypes) /\ Here.w = wr
  BY DEF BusOK, Within, Here
<1>2. Here \in PartTypes
  BY <1>1 DEF Here, Last
<1>3. QED
  BY <1>1, <1>2 DEF PartTypes, Here

\* The transfer only grows.
LEMMA Meets ==
  ASSUME BusOK, NEW w \in {0, 1}, NEW a \in 0 .. 127, NEW q, NEW p, Addresses(w, a, q, p), NEW b
  PROVE  Met(a)' /\ (Met(b) => Met(b)')
<1>1. /\ xfer' \in Seq(PartTypes) /\ Len(xfer') = Len(xfer) + 1 /\ xfer \in Seq(PartTypes)
      /\ Here'.a = a /\ \A i \in 1 .. Len(xfer) : xfer'[i] = xfer[i]
  BY AddressesPart DEF BusOK
<1>2. Len(xfer') \in DOMAIN xfer' /\ Here' = xfer'[Len(xfer')]
  BY <1>1 DEF Here, Last
<1>3. \A i \in DOMAIN xfer : i \in DOMAIN xfer' /\ xfer'[i] = xfer[i]
  BY <1>1
<1>4. QED
  BY <1>1, <1>2, <1>3 DEF Met

LEMMA StaysMet ==
  ASSUME BusOK, NEW d \in Byte, NEW q, NEW p, Transfers(d, q, p), NEW b, Met(b)
  PROVE  Met(b)'
<1>1. /\ xfer' \in Seq(PartTypes) /\ Len(xfer') = Len(xfer) /\ xfer \in Seq(PartTypes)
      /\ \A i \in DOMAIN xfer : xfer'[i].a = xfer[i].a
  BY TransfersPart DEF BusOK
<1>2. DOMAIN xfer' = DOMAIN xfer
  BY <1>1
<1>3. QED
  BY <1>1, <1>2 DEF Met

-----------------------------------------------------------------------------
(* Buffers.                                                                *)

\* buf is the piece of a part behind its first o bytes.
Window(buf, bytes, o) ==
    /\ o + Len(buf) <= Len(bytes)
    /\ \A i \in 1 .. Len(buf) : buf[i] = bytes[o + i]

\* It holds all bytes from there on, up to its size.
Fills(buf, bytes, o, size) ==
    /\ o <= Len(bytes) /\ Window(buf, bytes, o)
    /\ Len(buf) = IF Len(bytes) - o < size THEN Len(bytes) - o ELSE size

\* What is taken from the bus keeps the buffer a piece of what there was.
LEMMA FillsKeepAny ==
  ASSUME NEW Values, NEW buf \in Seq(Values), NEW bytes \in Seq(Values), NEW d \in Values,
         NEW o \in Nat, NEW size \in Nat, Fills(buf, bytes, o, size)
  PROVE  Keep(buf, d, size) \in Seq(Values) /\ Fills(Keep(buf, d, size), Append(bytes, d), o, size)
<1> DEFINE n == Len(bytes)  m == Len(buf)
           more == Append(bytes, d)
<1>1. /\ more \in Seq(Values) /\ Len(more) = n + 1 /\ more[n + 1] = d
      /\ \A i \in 1 .. n : more[i] = bytes[i]
  OBVIOUS
<1>2. n \in Nat /\ m \in Nat /\ o <= n /\ m = IF n - o < size THEN n - o ELSE size
  BY DEF Fills, Window
<1>3. \A i \in 1 .. m : buf[i] = more[o + i]
  BY <1>1, <1>2 DEF Fills, Window
<1>4. CASE m < size
  <2>1. m = n - o
    BY <1>2, <1>4
  <2>2. Keep(buf, d, size) = Append(buf, d)
    BY <1>4 DEF Keep
  <2>3. /\ Append(buf, d) \in Seq(Values) /\ Len(Append(buf, d)) = m + 1
        /\ Append(buf, d)[m + 1] = d
        /\ \A i \in 1 .. m : Append(buf, d)[i] = buf[i]
    OBVIOUS
  <2>4. \A i \in 1 .. m + 1 : Append(buf, d)[i] = more[o + i]
    <3>1. TAKE i \in 1 .. m + 1
    <3>2. CASE i = m + 1
      BY <1>1, <1>2, <2>1, <2>3, <3>2
    <3>3. CASE i \in 1 .. m
      BY <1>3, <2>3, <3>3
    <3>4. QED
      BY <1>2, <3>2, <3>3
  <2>5. m + 1 = IF n + 1 - o < size THEN n + 1 - o ELSE size
    BY <1>2, <1>4, <2>1
  <2>6. o <= n + 1 /\ o + (m + 1) <= n + 1
    BY <1>2, <2>1
  <2> HIDE DEF more
  <2>7. QED
    BY <1>1, <2>2, <2>3, <2>4, <2>5, <2>6 DEF Fills, Window, more
<1>5. CASE m >= size
  <2>1. Keep(buf, d, size) = buf
    BY <1>2, <1>5 DEF Keep
  <2>2. m = IF n + 1 - o < size THEN n + 1 - o ELSE size
    BY <1>2, <1>5
  <2>3. o <= n + 1 /\ o + m <= n + 1
    BY <1>2
  <2> HIDE DEF more
  <2>4. QED
    BY <1>1, <1>3, <2>1, <2>2, <2>3 DEF Fills, Window, more
<1>6. QED
  BY <1>2, <1>4, <1>5

\* A byte that is taken from the bus keeps the buffer a piece of the part.
LEMMA FillsKeep ==
  ASSUME NEW buf \in Seq(Byte), NEW bytes \in Seq(Byte), NEW d \in Byte,
         NEW o \in Nat, NEW size \in Nat, Fills(buf, bytes, o, size)
  PROVE  Keep(buf, d, size) \in Seq(Byte) /\ Fills(Keep(buf, d, size), Append(bytes, d), o, size)
BY FillsKeepAny

\* Such a buffer is a piece of the part, and so is its beginning.
LEMMA WindowPiece ==
  ASSUME NEW buf \in Seq(Byte), NEW bytes \in Seq(Byte), NEW o \in Nat, Window(buf, bytes, o)
  PROVE  Piece(buf, bytes)
<1> DEFINE n == Len(bytes)  m == Len(buf)
<1>1. n \in Nat /\ m \in Nat /\ o <= n /\ m <= n - o
  BY DEF Window
<1>2. o \in 0 .. n - m
  BY <1>1
<1>3. \A i \in 1 .. m : buf[i] = bytes[o + i]
  BY DEF Window
<1>4. SubSeq(bytes, o + 1, o + m) \in Seq(Byte)
      /\ Len(SubSeq(bytes, o + 1, o + m)) = m
      /\ \A i \in 1 .. m : SubSeq(bytes, o + 1, o + m)[i] = bytes[o + i]
  <2>1. o + 1 \in 1 .. n + 1 /\ o + m \in o .. n
    BY <1>1
  <2>2. Len(SubSeq(bytes, o + 1, o + m)) = (o + m) - (o + 1) + 1
        /\ \A i \in 1 .. (o + m) - (o + 1) + 1 : SubSeq(bytes, o + 1, o + m)[i] = bytes[(o + 1) + i - 1]
    BY <1>1, <2>1, SubSeqProperties
  <2>3. SubSeq(bytes, o + 1, o + m) \in Seq(Byte)
    BY <1>1, <2>1, SubSeqProperties
  <2>4. (o + m) - (o + 1) + 1 = m
    BY <1>1
  <2>5. \A i \in 1 .. m : bytes[(o + 1) + i - 1] = bytes[o + i]
    BY <1>1
  <2>6. QED
    BY <2>2, <2>3, <2>4, <2>5
<1>5. buf = SubSeq(bytes, o + 1, o + m)
  BY <1>3, <1>4, SeqEqual
<1>6. QED
  BY <1>2, <1>5 DEF Piece

\* One byte that has just been added, and nothing at all, are pieces too.
LEMMA LastPiece ==
  ASSUME NEW bytes \in Seq(Byte), NEW d \in Byte
  PROVE  Piece(<<d>>, Append(bytes, d)) /\ Piece(<<>>, bytes)
<1> DEFINE more == Append(bytes, d)  n == Len(bytes)
<1>1. more \in Seq(Byte) /\ Len(more) = n + 1 /\ more[n + 1] = d /\ n \in Nat
  OBVIOUS
<1>2. Window(<<d>>, more, n)
  <2> HIDE DEF more
  <2>1. Len(<<d>>) = 1 /\ <<d>>[1] = d
    OBVIOUS
  <2>2. QED
    BY <1>1, <2>1 DEF Window
<1>3. Window(<<>>, bytes, n)
  BY DEF Window
<1>4. <<d>> \in Seq(Byte) /\ <<>> \in Seq(Byte)
  OBVIOUS
<1> HIDE DEF more
<1>5. Piece(<<d>>, more)
  BY <1>1, <1>2, <1>4, WindowPiece
<1>6. Piece(<<>>, bytes)
  BY <1>1, <1>3, <1>4, WindowPiece
<1>7. QED
  BY <1>5, <1>6 DEF more

LEMMA WindowFront ==
  ASSUME NEW buf \in Seq(Byte), NEW bytes \in Seq(Byte), NEW o \in Nat, Window(buf, bytes, o),
         NEW m \in Nat, m <= Len(buf)
  PROVE  SubSeq(buf, 1, m) \in Seq(Byte) /\ Window(SubSeq(buf, 1, m), bytes, o)
<1> DEFINE front == SubSeq(buf, 1, m)
<1>1. front \in Seq(Byte) /\ Len(front) = m /\ \A i \in 1 .. m : front[i] = buf[i]
  <2>1. \A i \in 1 .. m : buf[i] \in Byte
    OBVIOUS
  <2>2. /\ front \in Seq(Byte) /\ Len(front) = IF 1 <= m THEN m - 1 + 1 ELSE 0
        /\ \A i \in 1 .. m - 1 + 1 : front[i] = buf[1 + i - 1]
    BY <2>1, SubSeqProperties
  <2>3. m - 1 + 1 = m /\ \A i \in 1 .. m : 1 + i - 1 = i
    OBVIOUS
  <2>4. QED
    BY <2>2, <2>3
<1> HIDE DEF front
<1>2. o + Len(front) <= Len(bytes)
  BY <1>1 DEF Window
<1>3. \A i \in 1 .. Len(front) : front[i] = bytes[o + i]
  <2>1. \A i \in 1 .. m : i \in 1 .. Len(buf)
    OBVIOUS
  <2>2. QED
    BY <1>1, <2>1 DEF Window
<1>4. QED
  BY <1>1, <1>2, <1>3 DEF front, Window

\* An empty buffer, where the part is so far.
LEMMA FillsNone ==
  ASSUME NEW bytes \in Seq(Byte), NEW size \in Nat
  PROVE  Fills(<<>>, bytes, Len(bytes), size)
BY DEF Fills, Window

LEMMA NonePiece ==
  ASSUME NEW bytes \in Seq(Byte)
  PROVE  Piece(<<>>, bytes)
<1>1. 0 \in Byte
  BY DEF Byte
<1>2. QED
  BY <1>1, LastPiece

\* A buffer that was large enough holds all of it.
LEMMA FillsAll ==
  ASSUME NEW Values, NEW buf \in Seq(Values), NEW bytes \in Seq(Values), NEW o \in Nat, NEW size \in Nat,
         Fills(buf, bytes, o, size), Len(bytes) - o <= size
  PROVE  buf = SubSeq(bytes, o + 1, Len(bytes)) /\ (o = 0 => buf = bytes)
<1> DEFINE n == Len(bytes)  m == Len(buf)  rest == SubSeq(bytes, o + 1, n)
<1>1. n \in Nat /\ o <= n /\ m = n - o /\ \A i \in 1 .. m : buf[i] = bytes[o + i]
  BY DEF Fills, Window
<1>2. rest \in Seq(Values) /\ Len(rest) = m /\ \A i \in 1 .. m : rest[i] = bytes[o + i]
  <2>1. \A i \in o + 1 .. n : bytes[i] \in Values
    BY <1>1
  <2>2. /\ rest \in Seq(Values) /\ Len(rest) = IF o + 1 <= n THEN n - (o + 1) + 1 ELSE 0
        /\ \A i \in 1 .. n - (o + 1) + 1 : rest[i] = bytes[o + 1 + i - 1]
    BY <1>1, <2>1, SubSeqProperties
  <2>3. n - (o + 1) + 1 = m /\ \A i \in 1 .. m : o + 1 + i - 1 = o + i
    BY <1>1
  <2>4. QED
    BY <1>1, <2>2, <2>3
<1> HIDE DEF rest
<1>3. buf = rest
  BY <1>1, <1>2, SeqEqual
<1>4. ASSUME o = 0
      PROVE  buf = bytes
  <2>1. Len(buf) = Len(bytes) /\ \A i \in 1 .. Len(buf) : buf[i] = bytes[i]
    BY <1>1, <1>4
  <2>2. QED
    BY <2>1, SeqEqual
<1>5. QED
  BY <1>3, <1>4 DEF rest

-----------------------------------------------------------------------------
(* Reports.                                                                *)

Reports == [reg : Int, bytes : Seq(Int)]

\* What a report is about when it is neither a warning nor a summary.
Subjects == Nat \cup {-1}

LEMMA RepTyped == <<>> \in Seq(Reports) /\ <<>> \in Seq(Byte)
  OBVIOUS

LEMMA ByteIsNat == \A d \in Byte : d \in Nat
  BY DEF Byte

LEMMA SubjectOf ==
  /\ \A reg \in Subjects : reg \in Int /\ reg # Warning /\ reg # Summary
  /\ \A d \in Byte : d \in Subjects
  /\ \A n \in Nat : n \in Subjects
  /\ -1 \in Subjects /\ Warning # Summary
BY DEF Subjects, Warning, Summary, Byte

Respects == AtRest /\ OnlyItsOwn /\ BytesOfPart

\* What has to be shown of a step without a report, and of one with a report.
LEMMA SilentRespects ==
  ASSUME s'.rep = <<>>,
         upper' \in Tidy /\ phase' = "stopped" => s'.state = ResetOf(upper').state
  PROVE  Respects'
<1>1. AtRest'
  BY DEF AtRest
<1>2. DOMAIN s'.rep = {}
  OBVIOUS
<1>3. OnlyItsOwn'
  BY <1>2 DEF OnlyItsOwn
<1>4. BytesOfPart'
  BY <1>2 DEF BytesOfPart, PieceOfPart, DateOfClock
<1>5. QED
  BY <1>1, <1>3, <1>4 DEF Respects

LEMMA OneRespects ==
  ASSUME NEW r, s'.rep = <<r>>, xfer' # <<>>, xfer' \in Seq(PartTypes),
         upper' \in Tidy /\ phase' = "stopped" => s'.state = ResetOf(upper').state,
         upper' \in Choosy => (r.reg = Warning <=> Here'.a \notin Own(upper')),
         upper' \in Choosy /\ upper' \notin Forgetful /\ r.reg = Warning => r.bytes = <<Here'.a>>,
         upper' = "hdmi_scdc" => \E i \in DOMAIN xfer' : xfer'[i].a \in Own(upper'),
         upper' \in Quoting /\ r.reg \notin {Warning, Summary} => Piece(r.bytes, Here'.bytes),
         upper' = "ds1307" /\ r.reg = Summary => \A k \in 0 .. 6 : <<k, r.bytes[k + 1]>> \in carried'
  PROVE  Respects'
<1>1. AtRest'
  BY DEF AtRest
<1>2. \A i \in DOMAIN s'.rep : s'.rep[i] = r
  OBVIOUS
<1>3. OnlyItsOwn'
  <2>1. upper' \in Choosy => \A i \in DOMAIN s'.rep :
            /\ s'.rep[i].reg = Warning <=> Last(xfer').a \notin Own(upper')
            /\ s'.rep[i].reg = Warning /\ upper' \notin Forgetful => s'.rep[i].bytes = <<Last(xfer').a>>
    BY <1>2 DEF Here
  <2>2. upper' \in Choosing =>
            upper' \in Choosy \/ \E i \in DOMAIN xfer' : xfer'[i].a \in Own(upper')
    BY DEF Choosing
  <2>3. QED
    BY <2>1, <2>2 DEF OnlyItsOwn
<1>4. PieceOfPart'
  <2>1. ASSUME upper' \in Quoting, NEW i \in DOMAIN s'.rep
        PROVE  \/ s'.rep[i].reg \in {Warning, Summary}
               \/ Piece(s'.rep[i].bytes, IF xfer' = <<>> THEN <<>> ELSE Last(xfer').bytes)
    BY <1>2, <2>1 DEF Here
  <2>2. QED
    BY <2>1 DEF PieceOfPart
<1>5. DateOfClock'
  BY <1>2 DEF DateOfClock
<1>6. QED
  BY <1>1, <1>3, <1>4, <1>5 DEF Respects, BytesOfPart

\* A report about a register of the chip.
LEMMA ReportRespects ==
  ASSUME NEW r, s'.rep = <<r>>, r.reg \in Subjects, xfer' # <<>>, xfer' \in Seq(PartTypes),
         upper' \in Tidy /\ phase' = "stopped" => s'.state = ResetOf(upper').state,
         upper' \in Choosy => Here'.a \in Own(upper'),
         upper' = "hdmi_scdc" => \E i \in DOMAIN xfer' : xfer'[i].a \in Own(upper'),
         upper' \in Quoting => Piece(r.bytes, Here'.bytes)
  PROVE  Respects'
<1>1. r.reg # Warning /\ r.reg # Summary
  BY SubjectOf
<1>2. QED
  BY <1>1, OneRespects

\* A warning about another chip.
LEMMA WarnRespects ==
  ASSUME NEW r, s'.rep = <<r>>, r.reg = Warning, xfer' # <<>>, xfer' \in Seq(PartTypes),
         upper' \in Tidy /\ phase' = "stopped" => s'.state = ResetOf(upper').state,
         upper' # "hdmi_scdc",
         upper' \in Choosy => /\ Here'.a \notin Own(upper')
                              /\ upper' \notin Forgetful => r.bytes = <<Here'.a>>
  PROVE  Respects'
<1>1. r.reg # Summary
  BY SubjectOf
<1>2. QED
  BY <1>1, OneRespects

\* What is put together from kept values.
LEMMA SummaryRespects ==
  ASSUME NEW r, s'.rep = <<r>>, r.reg = Summary, xfer' # <<>>, xfer' \in Seq(PartTypes),
         upper' \in Tidy /\ phase' = "stopped" => s'.state = ResetOf(upper').state,
         upper' \in Choosy => Here'.a \in Own(upper'),
         upper' = "hdmi_scdc" => \E i \in DOMAIN xfer' : xfer'[i].a \in Own(upper'),
         upper' = "ds1307" => \A k \in 0 .. 6 : <<k, r.bytes[k + 1]>> \in carried'
  PROVE  Respects'
<1>1. r.reg # Warning
  BY SubjectOf
<1>2. QED
  BY <1>1, OneRespects

\* One report.
LEMMA OneReportAny ==
  ASSUME NEW reg \in Int, NEW bytes \in Seq(Int)
  PROVE  /\ Report(reg, bytes) \in Reports
         /\ Report(reg, bytes).reg = reg /\ Report(reg, bytes).bytes = bytes
         /\ Append(<<>>, Report(reg, bytes)) = <<Report(reg, bytes)>>
         /\ <<Report(reg, bytes)>> \in Seq(Reports) /\ <<Report(reg, bytes)>> # <<>>
         /\ Last(<<Report(reg, bytes)>>) = Report(reg, bytes)
         /\ \A i \in DOMAIN <<Report(reg, bytes)>> : <<Report(reg, bytes)>>[i] = Report(reg, bytes)
<1> DEFINE r == Report(reg, bytes)
<1>1. r \in Reports /\ r.reg = reg /\ r.bytes = bytes
  BY DEF Report, Reports
<1> HIDE DEF r
<1>2. Append(<<>>, r) = <<r>> /\ <<r>> \in Seq(Reports) /\ <<r>> # <<>>
  BY <1>1
<1>3. Last(<<r>>) = r
  BY DEF Last
<1>4. \A i \in DOMAIN <<r>> : <<r>>[i] = r
  OBVIOUS
<1>5. QED
  BY <1>1, <1>2, <1>3, <1>4 DEF r

LEMMA OneReport ==
  ASSUME NEW reg \in Subjects, NEW bytes \in Seq(Byte)
  PROVE  /\ Report(reg, bytes) \in Reports
         /\ Report(reg, bytes).reg = reg /\ Report(reg, bytes).bytes = bytes
         /\ Append(<<>>, Report(reg, bytes)) = <<Report(reg, bytes)>>
         /\ <<Report(reg, bytes)>> \in Seq(Reports) /\ <<Report(reg, bytes)>> # <<>>
         /\ Last(<<Report(reg, bytes)>>) = Report(reg, bytes)
         /\ \A i \in DOMAIN <<Report(reg, bytes)>> : <<Report(reg, bytes)>>[i] = Report(reg, bytes)
<1>1. reg \in Int /\ bytes \in Seq(Int)
  BY SubjectOf, ByteIsNat
<1>2. QED
  BY <1>1, OneReportAny

\* A text without data, and a warning about an address, put out by a decoder
\* whose earlier reports have been taken.
Remark == Report(-1, <<>>)
Complaint(a) == Report(Warning, <<a>>)

LEMMA Remarks ==
  ASSUME NEW t, t.rep = <<>>
  PROVE  /\ Mention(t) = [t EXCEPT !.rep = <<Remark>>]
         /\ <<Remark>> \in Seq(Reports) /\ Remark.reg \in Subjects /\ Remark.bytes = <<>>
<1>1. -1 \in Subjects /\ <<>> \in Seq(Byte)
  BY SubjectOf
<1>2. /\ Remark.reg = -1 /\ Remark.bytes = <<>> /\ <<Remark>> \in Seq(Reports)
      /\ Append(<<>>, Remark) = <<Remark>>
  BY <1>1, OneReport DEF Remark
<1>3. Mention(t) = [t EXCEPT !.rep = Append(t.rep, Remark)]
  BY DEF Mention, Say, Remark
<1>4. QED
  BY <1>1, <1>2, <1>3

LEMMA Complaints ==
  ASSUME NEW t, t.rep = <<>>, NEW a \in Int
  PROVE  /\ Warn(t, a) = [t EXCEPT !.rep = <<Complaint(a)>>]
         /\ <<Complaint(a)>> \in Seq(Reports)
         /\ Complaint(a).reg = Warning /\ Complaint(a).bytes = <<a>>
<1>1. Warning \in Int /\ <<a>> \in Seq(Int)
  BY DEF Warning
<1>2. /\ Complaint(a).reg = Warning /\ Complaint(a).bytes = <<a>>
      /\ <<Complaint(a)>> \in Seq(Reports) /\ Append(<<>>, Complaint(a)) = <<Complaint(a)>>
  BY <1>1, OneReportAny DEF Complaint
<1>3. Warn(t, a) = [t EXCEPT !.rep = Append(t.rep, Complaint(a))]
  BY DEF Warn, Say, Complaint
<1>4. QED
  BY <1>2, <1>3

\* What has to be shown of a decoder whose reports are not compared with the bus.
LEMMA OwnRespects ==
  ASSUME xfer' # <<>>, xfer' \in Seq(PartTypes), upper' \notin Quoting, upper' # "hdmi_scdc",
         upper' \in Tidy /\ phase' = "stopped" => s'.state = ResetOf(upper').state,
         upper' \in Choosy => Here'.a \in Own(upper'),
         \A i \in DOMAIN s'.rep : s'.rep[i].reg # Warning
  PROVE  Respects'
<1>1. AtRest'
  BY DEF AtRest
<1>2. OnlyItsOwn'
  BY DEF OnlyItsOwn, Here, Choosing
<1>3. "ds1307" \in Quoting
  BY DEF Quoting
<1>4. BytesOfPart'
  BY <1>3 DEF BytesOfPart, PieceOfPart, DateOfClock
<1>5. QED
  BY <1>1, <1>2, <1>4 DEF Respects

\* A decoder that has just been reset.
LEMMA SilentBegins ==
  ASSUME s.rep = <<>>, s = ResetOf(upper)
  PROVE  Respects
<1>1. DOMAIN s.rep = {}
  OBVIOUS
<1>2. QED
  BY <1>1 DEF Respects, AtRest, OnlyItsOwn, BytesOfPart, PieceOfPart, DateOfClock

-----------------------------------------------------------------------------
(* What the decoders that hand packets on have received.                   *)

\* A packet is noted.
LEMMA NotesOne ==
  ASSUME upper \in Forwarders, seen \in Seq(HandedOn), NEW p \in Sent, Noted(<<p>>)
  PROVE  /\ seen' = Append(seen, Resent(p)) /\ seen' \in Seq(HandedOn) /\ seen' # <<>>
         /\ Len(seen') = Len(seen) + 1 /\ Last(seen') = Resent(p)
         /\ \A i \in 1 .. Len(seen) : seen'[i] = seen[i]
<1> DEFINE h == Resent(p)
<1>0. h \in HandedOn
  BY ResentFields
<1>1. seen' = seen \o <<h>>
  BY NotingPackets DEF Noted
<1> HIDE DEF h
<1>2. seen' = Append(seen, h)
  BY <1>0, <1>1, AppendIsConcat
<1>3. /\ seen' \in Seq(HandedOn) /\ seen' # <<>> /\ Len(seen') = Len(seen) + 1
      /\ seen'[Len(seen) + 1] = h /\ \A i \in 1 .. Len(seen) : seen'[i] = seen[i]
  BY <1>0, <1>2, AppendProperties
<1>4. QED
  BY <1>2, <1>3 DEF Last, h

\* So are the two packets of a byte.
LEMMA NotesTwo ==
  ASSUME upper \in Forwarders, seen \in Seq(HandedOn), NEW q \in Sent, NEW p \in Sent, Noted(<<q, p>>)
  PROVE  /\ Append(seen, Resent(q)) \in Seq(HandedOn) /\ Len(Append(seen, Resent(q))) = Len(seen) + 1
         /\ \A i \in 1 .. Len(seen) : Append(seen, Resent(q))[i] = seen[i]
         /\ Append(seen, Resent(q))[Len(seen) + 1] = Resent(q)
         /\ seen' = Append(Append(seen, Resent(q)), Resent(p)) /\ seen' \in Seq(HandedOn) /\ seen' # <<>>
         /\ Len(seen') = Len(seen) + 2 /\ Last(seen') = Resent(p)
         /\ \A i \in 1 .. Len(seen) : seen'[i] = seen[i]
         /\ seen'[Len(seen) + 1] = Resent(q) /\ seen'[Len(seen) + 2] = Resent(p)
<1> DEFINE g == Resent(q)  h == Resent(p)  one == Append(seen, g)  n == Len(seen)
<1>0. g \in HandedOn /\ h \in HandedOn
  BY ResentFields
<1>6. seen' = seen \o <<g, h>>
  BY NotingPackets DEF Noted
<1> HIDE DEF g, h
<1>1. /\ one \in Seq(HandedOn) /\ Len(one) = n + 1 /\ n \in Nat
      /\ one[n + 1] = g /\ \A i \in 1 .. n : one[i] = seen[i]
  BY <1>0, AppendProperties
<1>2. seen' = seen \o <<g, h>>
  BY <1>6
<1>3. seen' = Append(one, h)
  <2>1. <<g, h>> \in Seq(HandedOn) /\ Len(<<g, h>>) = 2 /\ <<g, h>>[1] = g /\ <<g, h>>[2] = h
    BY <1>0
  <2>2. /\ seen' \in Seq(HandedOn) /\ Len(seen') = n + 2
        /\ \A i \in 1 .. n + 2 : seen'[i] = IF i <= n THEN seen[i] ELSE <<g, h>>[i - n]
    BY <1>2, <2>1, ConcatProperties
  <2> HIDE DEF one
  <2>3. /\ Append(one, h) \in Seq(HandedOn) /\ Len(Append(one, h)) = n + 2
        /\ Append(one, h)[n + 2] = h /\ \A i \in 1 .. n + 1 : Append(one, h)[i] = one[i]
    BY <1>0, <1>1, AppendProperties
  <2>4. \A i \in 1 .. n + 2 : seen'[i] = Append(one, h)[i]
    <3>1. TAKE i \in 1 .. n + 2
    <3>2. CASE i \in 1 .. n
      BY <1>1, <2>2, <2>3, <3>2
    <3>3. CASE i = n + 1
      BY <1>1, <2>1, <2>2, <2>3, <3>3
    <3>4. CASE i = n + 2
      BY <1>1, <2>1, <2>2, <2>3, <3>4
    <3>5. QED
      BY <1>1, <3>2, <3>3, <3>4
  <2>5. QED
    BY <2>2, <2>3, <2>4, SeqEqual
<1> HIDE DEF one
<1>4. /\ seen' \in Seq(HandedOn) /\ seen' # <<>> /\ Len(seen') = n + 2
      /\ seen'[n + 2] = h /\ \A i \in 1 .. n + 1 : seen'[i] = one[i]
  BY <1>0, <1>1, <1>3, AppendProperties
<1>5. QED
  BY <1>1, <1>3, <1>4 DEF one, g, h, Last

\* A packet is no longer noted when the next transfer begins.
LEMMA NotesStart ==
  ASSUME NEW p \in HandedOn
  PROVE  /\ <<p>> \in Seq(HandedOn) /\ Len(<<p>>) = 1 /\ Last(<<p>>) = p /\ <<p>> # <<>> /\ <<p>>[1] = p
         /\ Keep(<<>>, p, 1024) = <<p>> /\ Fills(<<p>>, <<p>>, 0, 1024)
<1>1. <<p>> \in Seq(HandedOn) /\ Len(<<p>>) = 1 /\ <<p>>[1] = p
  OBVIOUS
<1>2. Last(<<p>>) = p /\ <<p>> # <<>>
  BY <1>1 DEF Last
<1>3. Keep(<<>>, p, 1024) = <<p>>
  BY DEF Keep
<1>4. Fills(<<p>>, <<p>>, 0, 1024)
  BY <1>1 DEF Fills, Window
<1>5. QED
  BY <1>1, <1>2, <1>3, <1>4

\* A decoder keeps the packets in a buffer of 1024.
LEMMA PacketsKept ==
  ASSUME NEW packets \in Seq(HandedOn), NEW got \in Seq(HandedOn), NEW p \in HandedOn, NEW o \in Nat
  PROVE  /\ Keep(packets, p, 1024) \in Seq(HandedOn)
         /\ Fills(packets, got, o, 1024) => Fills(Keep(packets, p, 1024), Append(got, p), o, 1024)
<1>1. 1024 \in Nat
  OBVIOUS
<1>2. Keep(packets, p, 1024) \in Seq(HandedOn)
  BY AppendProperties DEF Keep
<1>3. QED
  BY <1>1, <1>2, FillsKeepAny

LEMMA AllPackets ==
  ASSUME NEW packets \in Seq(HandedOn), NEW got \in Seq(HandedOn), NEW o \in Nat,
         Fills(packets, got, o, 1024), Len(got) - o <= 1024
  PROVE  packets = SubSeq(got, o + 1, Len(got)) /\ (o = 0 => packets = got)
<1>1. 1024 \in Nat
  OBVIOUS
<1>2. QED
  BY <1>1, FillsAll

-----------------------------------------------------------------------------
(* i2cdemux                                                                *)

Demux(slaves, stream, packets, sent) ==
    [state |-> "none", slaves |-> slaves, stream |-> stream,
     packets |-> packets, sent |-> sent, rep |-> <<>>]

Different(slaves) == \A i, j \in 1 .. Len(slaves) : slaves[i] = slaves[j] => i = j

\* The table has no address twice, the current stream is the one of the
\* address that came last, and the packets are those received.
i2cdemux_OK ==
    /\ s = Demux(s.slaves, s.stream, s.packets, s.sent)
    /\ s.slaves \in Seq(0 .. 127) /\ s.packets \in Seq(HandedOn) /\ seen \in Seq(HandedOn)
    /\ Different(s.slaves)
    /\ phase = "stopped" => s.packets = <<>>
    /\ phase # "stopped" => Fills(s.packets, seen, 0, 1024)
    /\ Within => s.stream \in 1 .. Len(s.slaves) /\ s.slaves[s.stream] = Here.a

\* The table cannot be full while an address is missing: there are 128 of them.
LEMMA RoomForSlaves ==
  ASSUME NEW slaves \in Seq(0 .. 127), Different(slaves), NEW a \in 0 .. 127,
         \A i \in 1 .. Len(slaves) : slaves[i] # a
  PROVE  /\ Keep(slaves, a, 128) = Append(slaves, a)
         /\ Append(slaves, a) \in Seq(0 .. 127) /\ Different(Append(slaves, a))
         /\ Len(Append(slaves, a)) = Len(slaves) + 1 /\ Append(slaves, a)[Len(slaves) + 1] = a
<1> DEFINE more == Append(slaves, a)  n == Len(slaves)
<1>1. /\ more \in Seq(0 .. 127) /\ Len(more) = n + 1 /\ n \in Nat
      /\ more[n + 1] = a /\ \A i \in 1 .. n : more[i] = slaves[i]
  BY AppendProperties
<1> HIDE DEF more
<1>2. ASSUME NEW i \in 1 .. n + 1, NEW j \in 1 .. n + 1, more[i] = more[j]
      PROVE  i = j
  <2>1. CASE i \in 1 .. n /\ j \in 1 .. n
    BY <1>1, <1>2, <2>1 DEF Different
  <2>2. CASE i \notin 1 .. n \/ j \notin 1 .. n
    BY <1>1, <1>2, <2>2
  <2>3. QED
    BY <2>1, <2>2
<1>3. Different(more)
  BY <1>1, <1>2 DEF Different
<1>4. n + 1 <= 128
  <2> DEFINE D == 1 .. n + 1  R == 0 .. 127
  <2>1. more \in [D -> R]
    <3>1. more \in [1 .. Len(more) -> R]
      BY <1>1, LenProperties
    <3>2. QED
      BY <1>1, <3>1
  <2>2. IsFiniteSet(D) /\ Cardinality(D) = n + 1
    BY <1>1, FS_Interval
  <2>3. IsFiniteSet(R) /\ Cardinality(R) = 128
    <3> DEFINE top == 127
    <3>1. top \in Int /\ top = 127 /\ 0 \in Int
      OBVIOUS
    <3> HIDE DEF top
    <3>2. IsFiniteSet(0 .. top) /\ Cardinality(0 .. top) = IF 0 > top THEN 0 ELSE top - 0 + 1
      BY <3>1, FS_Interval
    <3>3. QED
      BY <3>1, <3>2
  <2>4. ASSUME n + 1 > 128
        PROVE  \E i, j \in D : i # j /\ more[i] = more[j]
    <3>1. Cardinality(R) < Cardinality(D)
      BY <1>1, <2>2, <2>3, <2>4
    <3> HIDE DEF D, R
    <3>2. QED
      BY <2>1, <2>2, <2>3, <3>1, FS_PigeonHole
  <2>5. QED
    BY <1>1, <1>2, <2>4
<1>5. Keep(slaves, a, 128) = more
  BY <1>1, <1>4 DEF Keep, more
<1>6. QED
  BY <1>1, <1>3, <1>5 DEF more

\* The search in the table finds the address, if it is there.
LEMMA StreamFinds ==
  ASSUME NEW st, st.slaves \in Seq(0 .. 127), Different(st.slaves), NEW a
  PROVE  \/ i2cdemux_stream(st, a) = 0 /\ \A i \in 1 .. Len(st.slaves) : st.slaves[i] # a
         \/ i2cdemux_stream(st, a) \in 1 .. Len(st.slaves) /\ st.slaves[i2cdemux_stream(st, a)] = a
<1> DEFINE I == {i \in 1 .. Len(st.slaves) : st.slaves[i] = a}
<1>1. i2cdemux_stream(st, a) = IF I # {} THEN Min(I) ELSE 0
  BY DEF i2cdemux_stream, SelectInSeq
<1>2. CASE I = {}
  BY <1>1, <1>2
<1>3. ASSUME NEW i \in I
      PROVE  Min(I) \in I
  <2>1. \A k \in I : k = i /\ k \in Nat
    BY DEF Different
  <2>2. i \in I /\ \A k \in I : i <= k
    BY <2>1
  <2>3. QED
    BY <2>2 DEF Min
<1>4. QED
  BY <1>1, <1>2, <1>3

\* The decoder among the others.
LEMMA i2cdemux_Receives ==
  /\ \A st, p : Recv("i2cdemux", st, p) = i2cdemux_recv(st, p)
  /\ \A st : Silenced("i2cdemux", st) = [st EXCEPT !.rep = <<>>, !.sent = <<>>]
  /\ ResetOf("i2cdemux") = i2cdemux_reset
  /\ "i2cdemux" \in Forwarders
<1>1. /\ \A st, p : Recv("i2cdemux", st, p) = i2cdemux_recv(st, p)
      /\ ResetOf("i2cdemux") = i2cdemux_reset
  BY DEF Recv, ResetOf
<1>2. \A st : Silenced("i2cdemux", st) = [st EXCEPT !.rep = <<>>, !.sent = <<>>]
  BY DEF Silenced, Relays, Forwarders
<1>3. QED
  BY <1>1, <1>2 DEF Forwarders

LEMMA DemuxFields ==
  ASSUME NEW st, NEW slaves, NEW stream, NEW packets, NEW sent, st = Demux(slaves, stream, packets, sent)
  PROVE  /\ st.slaves = slaves /\ st.stream = stream /\ st.packets = packets /\ st.sent = sent
         /\ st = Demux(st.slaves, st.stream, st.packets, st.sent)
BY DEF Demux

LEMMA i2cdemux_Caches ==
  ASSUME NEW slaves, NEW stream, NEW packets, NEW sent, NEW p
  PROVE  i2cdemux_cache(Demux(slaves, stream, packets, sent), p) =
            Demux(slaves, stream, Keep(packets, Resent(p), 1024), sent)
<1> DEFINE st == Demux(slaves, stream, packets, sent)  k == Keep(packets, Resent(p), 1024)
<1>1. st.packets = packets
  BY DEF Demux
<1>2. i2cdemux_cache(st, p) = [st EXCEPT !.packets = Keep(st.packets, Resent(p), 1024)]
  BY DEF i2cdemux_cache
<1>3. Keep(st.packets, Resent(p), 1024) = k
  BY <1>1
<1> HIDE DEF k
<1>4. [st EXCEPT !.packets = k] = Demux(slaves, stream, k, sent)
  BY DEF Demux
<1> HIDE DEF st
<1>5. i2cdemux_cache(st, p) = Demux(slaves, stream, k, sent)
  BY <1>2, <1>3, <1>4
<1>6. QED
  BY <1>5 DEF st, k

\* A packet between the address and the STOP is only kept.
LEMMA i2cdemux_Keeps ==
  ASSUME NEW slaves, NEW stream, NEW packets, NEW sent, NEW p, ~IsAddress(p), p.cmd # "STOP"
  PROVE  i2cdemux_recv(Demux(slaves, stream, packets, sent), p) =
            Demux(slaves, stream, Keep(packets, Resent(p), 1024), sent)
BY i2cdemux_Caches DEF i2cdemux_recv

\* An address finds or gets its stream.
LEMMA i2cdemux_Chooses ==
  ASSUME NEW slaves \in Seq(0 .. 127), Different(slaves), NEW stream, NEW packets, NEW sent,
         NEW p, IsAddress(p), p.val \in 0 .. 127
  PROVE  \E table \in Seq(0 .. 127) : \E found \in 1 .. Len(table) :
            /\ i2cdemux_recv(Demux(slaves, stream, packets, sent), p) =
                  Demux(table, found, Keep(packets, Resent(p), 1024), sent)
            /\ Different(table) /\ table[found] = p.val
<1> DEFINE a == p.val
           k == Keep(packets, Resent(p), 1024)
           more == Keep(slaves, a, 128)
           t == Demux(slaves, stream, k, sent)
           u == Demux(more, stream, k, sent)
<1>1. i2cdemux_recv(Demux(slaves, stream, packets, sent), p) = i2cdemux_select(i2cdemux_listed(t, a), a)
  <2>1. i2cdemux_cache(Demux(slaves, stream, packets, sent), p) = t
    BY i2cdemux_Caches
  <2> HIDE DEF t
  <2>2. QED
    BY <2>1 DEF i2cdemux_recv, IsAddress
<1>2. t.slaves = slaves /\ u.slaves = more
  BY DEF Demux
<1> HIDE DEF k, more
<1>3. \A f : [t EXCEPT !.stream = f] = Demux(slaves, f, k, sent)
  BY DEF Demux
<1>4. \A f : [u EXCEPT !.stream = f] = Demux(more, f, k, sent)
  BY DEF Demux
<1>5. [t EXCEPT !.slaves = Keep(t.slaves, a, 128)] = u
  <2>1. Keep(t.slaves, a, 128) = more
    BY <1>2 DEF more
  <2>2. [t EXCEPT !.slaves = more] = u
    BY DEF Demux
  <2> HIDE DEF t, u
  <2>3. QED
    BY <2>1, <2>2
<1> HIDE DEF t, u
<1>6. CASE i2cdemux_stream(t, a) = 0
  <2>1. \A i \in 1 .. Len(slaves) : slaves[i] # a
    <3>1. t.slaves \in Seq(0 .. 127) /\ Different(t.slaves)
      BY <1>2
    <3>2. \A i \in 1 .. Len(t.slaves) : t.slaves[i] # a
      BY <1>6, <3>1, StreamFinds
    <3>3. QED
      BY <1>2, <3>2
  <2>2. more \in Seq(0 .. 127) /\ Different(more) /\ Len(slaves) + 1 \in 1 .. Len(more)
        /\ more[Len(slaves) + 1] = a
    <3> USE DEF more
    <3> DEFINE longer == Append(slaves, a)
    <3>1. more = longer /\ longer \in Seq(0 .. 127) /\ Different(longer)
          /\ Len(longer) = Len(slaves) + 1 /\ longer[Len(slaves) + 1] = a
      BY <2>1, RoomForSlaves
    <3>2. Len(slaves) \in Nat
      OBVIOUS
    <3> HIDE DEF longer, more
    <3>3. QED
      BY <3>1, <3>2
  <2> HIDE DEF more
  <2>3. i2cdemux_listed(t, a) = u
    BY <1>5, <1>6 DEF i2cdemux_listed
  <2> DEFINE found == i2cdemux_stream(u, a)
  <2>4. found \in 1 .. Len(more) /\ more[found] = a
    BY <1>2, <2>2, StreamFinds
  <2>5. found # 0
    BY <2>4
  <2>6. i2cdemux_select(u, a) = Demux(more, found, k, sent)
    BY <1>4, <2>5 DEF i2cdemux_select
  <2> HIDE DEF found
  <2>7. QED
    BY <1>1, <2>2, <2>3, <2>4, <2>6 DEF k
<1>7. CASE i2cdemux_stream(t, a) # 0
  <2> DEFINE found == i2cdemux_stream(t, a)
  <2>1. found \in 1 .. Len(slaves) /\ slaves[found] = a
    BY <1>2, <1>7, StreamFinds
  <2>2. i2cdemux_listed(t, a) = t
    BY <1>7 DEF i2cdemux_listed
  <2>3. i2cdemux_select(t, a) = Demux(slaves, found, k, sent)
    BY <1>3, <1>7 DEF i2cdemux_select
  <2> HIDE DEF found
  <2>4. QED
    BY <1>1, <2>1, <2>2, <2>3 DEF k
<1>8. QED
  BY <1>6, <1>7

\* The STOP sends the transfer to its stream.
LEMMA i2cdemux_Sends ==
  ASSUME NEW slaves, NEW stream, stream # -1, NEW packets \in Seq(HandedOn), NEW p \in Sent, p.cmd = "STOP"
  PROVE  i2cdemux_recv(Demux(slaves, stream, packets, <<>>), p) =
            Demux(slaves, -1, <<>>, Keep(packets, Resent(p), 1024))
<1> DEFINE k == Keep(packets, Resent(p), 1024)
           none == <<>>  off == -1
           t == Demux(slaves, stream, k, none)
           x == IF t.stream = -1 THEN t.sent ELSE t.sent \o t.packets
<1>1. i2cdemux_recv(Demux(slaves, stream, packets, none), p) = i2cdemux_send(t)
  BY i2cdemux_Caches DEF i2cdemux_recv, IsAddress
<1>2. k \in Seq(HandedOn)
  BY PacketsKept, ResentFields, 0 \in Nat
<1> HIDE DEF k
<1>3. x = k
  <2>1. t.stream = stream /\ t.packets = k /\ t.sent = none
    BY DEF Demux
  <2> HIDE DEF t
  <2>2. none \o k = k
    BY <1>2
  <2>3. QED
    BY <2>1, <2>2
<1>4. i2cdemux_send(t) = [t EXCEPT !.packets = none, !.stream = off, !.sent = x]
  <2> HIDE DEF t
  <2>1. QED
    BY DEF i2cdemux_send
<1> HIDE DEF x, none, off
<1>5. PICK y : y = [t EXCEPT !.packets = none, !.stream = off, !.sent = x]
  OBVIOUS
<1>6. /\ y.state = "none" /\ y.slaves = slaves /\ y.stream = off
      /\ y.packets = none /\ y.sent = x /\ y.rep = <<>>
  BY <1>5 DEF Demux
<1>7. y = Demux(slaves, off, none, x)
  BY <1>5, <1>6 DEF Demux
<1> HIDE DEF t
<1>8. i2cdemux_send(t) = Demux(slaves, off, none, k)
  BY <1>3, <1>4, <1>5, <1>7
<1>9. QED
  BY <1>1, <1>8 DEF k, none, off

LEMMA i2cdemux_Becomes ==
  ASSUME NEW slaves \in Seq(0 .. 127), Different(slaves), NEW stream, NEW packets \in Seq(HandedOn),
         NEW sent, s' = Demux(slaves, stream, packets, sent), seen' \in Seq(HandedOn),
         phase' = "stopped" => packets = <<>>,
         phase' # "stopped" => Fills(packets, seen', 0, 1024),
         Within' => stream \in 1 .. Len(slaves) /\ slaves[stream] = Here'.a
  PROVE  i2cdemux_OK' /\ s'.slaves = slaves /\ s'.sent = sent
<1>1. /\ s' = Demux(s'.slaves, s'.stream, s'.packets, s'.sent)
      /\ s'.slaves = slaves /\ s'.stream = stream /\ s'.packets = packets /\ s'.sent = sent
  BY DemuxFields
<1>2. QED
  BY <1>1 DEF i2cdemux_OK

\* Every event of the bus keeps its invariant, and the STOP sends all.
LEMMA i2cdemux_Step ==
  ASSUME upper = "i2cdemux", upper' = upper, BusOK, BusOK', i2cdemux_OK, Steps
  PROVE  i2cdemux_OK' /\ TransferRelayed'
<1> DEFINE t == Demux(s.slaves, s.stream, s.packets, <<>>)
           slaves == s.slaves  stream == s.stream  packets == s.packets
<1>1. /\ slaves \in Seq(0 .. 127) /\ packets \in Seq(HandedOn) /\ seen \in Seq(HandedOn)
      /\ Different(slaves) /\ upper \in Forwarders
  BY i2cdemux_Receives DEF i2cdemux_OK
<1>2. Hushed = t
  <2>1. s = Demux(slaves, stream, packets, s.sent)
    BY DEF i2cdemux_OK
  <2>2. Hushed = [s EXCEPT !.rep = <<>>, !.sent = <<>>]
    BY i2cdemux_Receives DEF Hushed
  <2>3. PICK y : y = [s EXCEPT !.rep = <<>>, !.sent = <<>>]
    OBVIOUS
  <2> HIDE DEF slaves, stream, packets
  <2>4. /\ y.state = "none" /\ y.slaves = slaves /\ y.stream = stream
        /\ y.packets = packets /\ y.sent = <<>> /\ y.rep = <<>>
    BY <2>1, <2>3 DEF Demux
  <2>5. y = Demux(slaves, stream, packets, <<>>)
    BY <2>1, <2>3, <2>4 DEF Demux
  <2>6. QED
    BY <2>2, <2>3, <2>5 DEF slaves, stream, packets
<1>3. /\ phase = "stopped" => packets = <<>>
      /\ phase # "stopped" => Fills(packets, seen, 0, 1024)
      /\ Within => stream \in 1 .. Len(slaves) /\ slaves[stream] = Here.a
  BY DEF i2cdemux_OK
<1> HIDE DEF slaves, stream, packets
<1>5. ASSUME NEW p \in Sent, Starts(p)
      PROVE  i2cdemux_OK' /\ TransferRelayed'
  <2>1. /\ s' = i2cdemux_recv(t, p) /\ p.cmd = "START" /\ phase' = "address" /\ seen' = <<Resent(p)>>
        /\ packets = <<>> /\ ~IsAddress(p) /\ p.cmd # "STOP" /\ ~Within'
    BY <1>1, <1>2, <1>3, <1>5, i2cdemux_Receives DEF Starts, IsAddress, Within
  <2>2. s' = Demux(slaves, stream, <<Resent(p)>>, <<>>)
    <3>1. s' = Demux(slaves, stream, Keep(packets, Resent(p), 1024), <<>>)
      BY <2>1, i2cdemux_Keeps DEF slaves, stream, packets
    <3>2. QED
      BY <2>1, <3>1, NotesStart, ResentFields
  <2>3. /\ <<Resent(p)>> \in Seq(HandedOn) /\ Fills(<<Resent(p)>>, seen', 0, 1024) /\ Last(seen') = Resent(p)
        /\ seen' \in Seq(HandedOn) /\ phase' # "stopped" /\ ~Within'
    BY <2>1, NotesStart, ResentFields
  <2>4. i2cdemux_OK' /\ s'.sent = <<>>
    <3> DEFINE kept == <<Resent(p)>>
    <3>1. s' = Demux(slaves, stream, kept, <<>>) /\ kept \in Seq(HandedOn) /\ Fills(kept, seen', 0, 1024)
      BY <2>2, <2>3
    <3> HIDE DEF kept
    <3>2. QED
      BY <1>1, <2>3, <3>1, i2cdemux_Becomes
  <2>5. QED
    BY <2>1, <2>3, <2>4, ResentFields DEF TransferRelayed
<1>6. ASSUME NEW p \in Sent, Repeats(p) \/ Acknowledges(p)
      PROVE  i2cdemux_OK' /\ TransferRelayed'
  <2> DEFINE kept == Keep(packets, Resent(p), 1024)
  <2>1. /\ s' = i2cdemux_recv(t, p) /\ ~IsAddress(p) /\ p.cmd # "STOP"
        /\ Within /\ phase # "stopped" /\ phase' # "stopped" /\ xfer' = xfer /\ Noted(<<p>>)
    BY <1>2, <1>6, i2cdemux_Receives DEF Repeats, Acknowledges, Within, IsAddress
  <2>2. s' = Demux(slaves, stream, kept, <<>>)
    BY <2>1, i2cdemux_Keeps DEF slaves, stream, packets
  <2>3. seen' = Append(seen, Resent(p)) /\ seen' \in Seq(HandedOn) /\ Last(seen') = Resent(p)
    BY <1>1, <2>1, NotesOne
  <2>4. kept \in Seq(HandedOn) /\ Fills(kept, seen', 0, 1024)
    <3>1. kept \in Seq(HandedOn) /\ Fills(kept, Append(seen, Resent(p)), 0, 1024)
      BY <1>1, <1>3, <2>1, PacketsKept, ResentFields, 0 \in Nat
    <3>2. QED
      BY <2>3, <3>1
  <2> HIDE DEF kept
  <2>5. Here' = Here
    BY <2>1, HereTyped
  <2>6. i2cdemux_OK' /\ s'.sent = <<>>
    BY <1>1, <1>3, <2>1, <2>2, <2>3, <2>4, <2>5, i2cdemux_Becomes
  <2>7. QED
    BY <2>1, <2>3, <2>6, ResentFields DEF TransferRelayed
<1>7. ASSUME NEW p \in Sent, Stops(p)
      PROVE  i2cdemux_OK' /\ TransferRelayed'
  <2> DEFINE kept == Keep(packets, Resent(p), 1024)
  <2>1. /\ s' = i2cdemux_recv(t, p) /\ p.cmd = "STOP" /\ Within /\ phase # "stopped"
        /\ phase' = "stopped" /\ xfer' = xfer /\ Noted(<<p>>)
    BY <1>2, <1>7, i2cdemux_Receives DEF Stops, Within
  <2>2. stream \in 1 .. Len(slaves) /\ slaves[stream] = Here.a /\ stream # -1
    BY <1>3, <2>1
  <2>3. seen' = Append(seen, Resent(p)) /\ seen' \in Seq(HandedOn) /\ Last(seen') = Resent(p) /\ Len(seen') \in Nat
    BY <1>1, <2>1, NotesOne, LenProperties
  <2>4. kept \in Seq(HandedOn) /\ Fills(kept, seen', 0, 1024)
    <3>1. kept \in Seq(HandedOn) /\ Fills(kept, Append(seen, Resent(p)), 0, 1024)
      BY <1>1, <1>3, <2>1, PacketsKept, ResentFields, 0 \in Nat
    <3>2. QED
      BY <2>3, <3>1
  <2>5. ASSUME Len(seen') <= 1024
        PROVE  kept = seen'
    <3>1. Len(seen') - 0 <= 1024 /\ 0 \in Nat
      BY <2>3, <2>5
    <3>2. seen' \in Seq(HandedOn)
      BY <2>3
    <3> HIDE DEF kept
    <3>3. QED
      BY <2>4, <3>1, <3>2, AllPackets
  <2>6. s' = Demux(slaves, -1, <<>>, kept)
    BY <1>1, <2>1, <2>2, i2cdemux_Sends DEF slaves, stream, packets
  <2> HIDE DEF kept
  <2>8. <<>> \in Seq(HandedOn) /\ ~Within'
    BY <2>1 DEF Within
  <2>9. i2cdemux_OK' /\ s'.slaves = slaves /\ s'.sent = kept
    BY <1>1, <2>1, <2>3, <2>6, <2>8, i2cdemux_Becomes
  <2>10. Last(seen').cmd = "STOP"
    BY <2>1, <2>3, ResentFields
  <2>11. TransferRelayed'
    BY <2>5, <2>9, <2>10 DEF TransferRelayed
  <2>12. QED
    BY <2>9, <2>11
<1>8. ASSUME NEW w \in {0, 1}, NEW a \in 0 .. 127, NEW q \in Sent, NEW p \in Sent, Addresses(w, a, q, p)
      PROVE  i2cdemux_OK' /\ TransferRelayed'
  <2> DEFINE one == Keep(packets, Resent(q), 1024)  both == Keep(one, Resent(p), 1024)
  <2>1. /\ s' = i2cdemux_recv(i2cdemux_recv(t, q), p)
        /\ ~IsAddress(q) /\ q.cmd # "STOP" /\ IsAddress(p) /\ p.val = a /\ p.cmd # "STOP"
        /\ phase = "address" /\ phase' = "address_ack" /\ Noted(<<q, p>>)
    BY <1>2, <1>8, i2cdemux_Receives DEF Addresses, IsAddress
  <2>2. i2cdemux_recv(t, q) = Demux(slaves, stream, one, <<>>)
    BY <2>1, i2cdemux_Keeps DEF slaves, stream, packets
  <2>3. /\ Append(seen, Resent(q)) \in Seq(HandedOn)
        /\ seen' = Append(Append(seen, Resent(q)), Resent(p)) /\ seen' \in Seq(HandedOn) /\ Last(seen') = Resent(p)
    BY <1>1, <2>1, NotesTwo
  <2>4. one \in Seq(HandedOn) /\ Fills(one, Append(seen, Resent(q)), 0, 1024)
    BY <1>1, <1>3, <2>1, PacketsKept, ResentFields, 0 \in Nat
  <2> HIDE DEF one
  <2>5. both \in Seq(HandedOn) /\ Fills(both, seen', 0, 1024)
    <3> DEFINE got == Append(seen, Resent(q))
    <3>1. got \in Seq(HandedOn) /\ Fills(one, got, 0, 1024) /\ one \in Seq(HandedOn) /\ seen' = Append(got, Resent(p))
      BY <2>3, <2>4
    <3> HIDE DEF got
    <3>2. both \in Seq(HandedOn) /\ Fills(both, Append(got, Resent(p)), 0, 1024)
      BY <3>1, PacketsKept, ResentFields, 0 \in Nat
    <3>3. QED
      BY <3>1, <3>2
  <2>6. PICK table \in Seq(0 .. 127) : \E found \in 1 .. Len(table) :
            /\ s' = Demux(table, found, both, <<>>)
            /\ Different(table) /\ table[found] = a
    <3> DEFINE none == <<>>
    <3>1. s' = i2cdemux_recv(Demux(slaves, stream, one, none), p)
      BY <2>1, <2>2
    <3>2. IsAddress(p) /\ p.val \in 0 .. 127
      BY <2>1
    <3>3. slaves \in Seq(0 .. 127) /\ Different(slaves)
      BY <1>1
    <3> HIDE DEF none, both
    <3>4. \E table \in Seq(0 .. 127) : \E found \in 1 .. Len(table) :
            /\ i2cdemux_recv(Demux(slaves, stream, one, none), p) =
                  Demux(table, found, Keep(one, Resent(p), 1024), none)
            /\ Different(table) /\ table[found] = p.val
      BY <3>2, <3>3, i2cdemux_Chooses
    <3>5. \E table \in Seq(0 .. 127) : \E found \in 1 .. Len(table) :
            /\ s' = Demux(table, found, Keep(one, Resent(p), 1024), none)
            /\ Different(table) /\ table[found] = a
      BY <2>1, <3>1, <3>4
    <3>6. QED
      BY <3>5 DEF both, none
  <2>7. PICK found \in 1 .. Len(table) :
            /\ s' = Demux(table, found, both, <<>>)
            /\ Different(table) /\ table[found] = a
    BY <2>6
  <2> HIDE DEF both
  <2>8. Here'.a = a
    BY <1>8, AddressesPart
  <2>9. i2cdemux_OK' /\ s'.sent = <<>>
    BY <2>1, <2>3, <2>5, <2>7, <2>8, i2cdemux_Becomes
  <2>10. QED
    BY <2>1, <2>3, <2>9, ResentFields DEF TransferRelayed
<1>9. ASSUME NEW d \in Byte, NEW q \in Sent, NEW p \in Sent, Transfers(d, q, p)
      PROVE  i2cdemux_OK' /\ TransferRelayed'
  <2> DEFINE one == Keep(packets, Resent(q), 1024)  both == Keep(one, Resent(p), 1024)
  <2>1. /\ s' = i2cdemux_recv(i2cdemux_recv(t, q), p)
        /\ ~IsAddress(q) /\ q.cmd # "STOP" /\ ~IsAddress(p) /\ p.cmd # "STOP"
        /\ phase = "data" /\ phase' = "data_ack" /\ Noted(<<q, p>>)
    BY <1>2, <1>9, i2cdemux_Receives DEF Transfers, IsAddress
  <2>2. i2cdemux_recv(t, q) = Demux(slaves, stream, one, <<>>)
    BY <2>1, i2cdemux_Keeps DEF slaves, stream, packets
  <2>3. s' = Demux(slaves, stream, both, <<>>)
    BY <2>1, <2>2, i2cdemux_Keeps
  <2>4. /\ Append(seen, Resent(q)) \in Seq(HandedOn)
        /\ seen' = Append(Append(seen, Resent(q)), Resent(p)) /\ seen' \in Seq(HandedOn) /\ Last(seen') = Resent(p)
    BY <1>1, <2>1, NotesTwo
  <2>5. one \in Seq(HandedOn) /\ Fills(one, Append(seen, Resent(q)), 0, 1024)
    BY <1>1, <1>3, <2>1, PacketsKept, ResentFields, 0 \in Nat
  <2> HIDE DEF one
  <2>6. both \in Seq(HandedOn) /\ Fills(both, seen', 0, 1024)
    <3> DEFINE got == Append(seen, Resent(q))
    <3>1. got \in Seq(HandedOn) /\ Fills(one, got, 0, 1024) /\ one \in Seq(HandedOn) /\ seen' = Append(got, Resent(p))
      BY <2>4, <2>5
    <3> HIDE DEF got
    <3>2. both \in Seq(HandedOn) /\ Fills(both, Append(got, Resent(p)), 0, 1024)
      BY <3>1, PacketsKept, ResentFields, 0 \in Nat
    <3>3. QED
      BY <3>1, <3>2
  <2> HIDE DEF both
  <2>7. Here'.a = Here.a
    BY <1>9, TransfersPart
  <2>8. Within
    BY <2>1 DEF Within
  <2>9. i2cdemux_OK' /\ s'.sent = <<>>
    BY <1>1, <1>3, <2>1, <2>3, <2>4, <2>6, <2>7, <2>8, i2cdemux_Becomes
  <2>10. QED
    BY <2>1, <2>4, <2>9, ResentFields DEF TransferRelayed
<1>10. CASE Resets
  <2>1. s' = i2cdemux_reset /\ phase' = "stopped" /\ seen' = <<>>
    BY <1>10, i2cdemux_Receives DEF Resets
  <2>2. i2cdemux_reset = Demux(<<>>, -1, <<>>, <<>>)
    BY DEF i2cdemux_reset, Demux
  <2>3. /\ s' = Demux(s'.slaves, s'.stream, s'.packets, s'.sent)
        /\ s'.slaves = <<>> /\ s'.packets = <<>>
    BY <2>1, <2>2, DemuxFields
  <2>4. Different(<<>>) /\ <<>> \in Seq(HandedOn) /\ <<>> \in Seq(0 .. 127)
    BY DEF Different
  <2>5. i2cdemux_OK'
    BY <2>1, <2>3, <2>4 DEF i2cdemux_OK, Within
  <2>6. QED
    BY <2>1, <2>5, ResentFields DEF TransferRelayed
<1>11. QED
  BY <1>5, <1>6, <1>7, <1>8, <1>9, <1>10 DEF Steps

LEMMA i2cdemux_Begin ==
  ASSUME upper = "i2cdemux", phase = "stopped", seen = <<>>, s = ResetOf(upper)
  PROVE  i2cdemux_OK /\ TransferRelayed
<1>1. s = Demux(<<>>, -1, <<>>, <<>>)
  BY i2cdemux_Receives DEF i2cdemux_reset, Demux
<1>2. /\ s = Demux(s.slaves, s.stream, s.packets, s.sent)
      /\ s.slaves = <<>> /\ s.packets = <<>>
  BY <1>1, DemuxFields
<1>3. Different(<<>>) /\ <<>> \in Seq(HandedOn) /\ <<>> \in Seq(0 .. 127)
  BY DEF Different
<1>4. i2cdemux_OK
  BY <1>2, <1>3 DEF i2cdemux_OK, Within
<1>5. QED
  BY <1>4 DEF TransferRelayed

-----------------------------------------------------------------------------
(* i2cfilter                                                               *)

Filters == {"i2cfilter", "i2cfilter_read"}

\* The options of the two instances.
WantedAddress == IF upper = "i2cfilter" THEN \h68 ELSE 0
WantedDirection == IF upper = "i2cfilter" THEN "both" ELSE "read"

Filter(a, d, slave, dir, packets, sent) ==
    [state |-> "none", filter_address |-> a, filter_direction |-> d,
     curslave |-> slave, curdirection |-> dir, packets |-> packets, sent |-> sent, rep |-> <<>>]

Restarts(p) == p.cmd = "START REPEAT"
Ends(p) == p.cmd \in {"STOP", "START REPEAT"}

\* The packets since the START or the last repeated START.
Since(packets, got) ==
    \E j \in 0 .. Len(got) :
        /\ j > 0 => Restarts(got[j])
        /\ \A k \in j + 1 .. Len(got) : ~Restarts(got[k])
        /\ Fills(packets, got, j, 1024)

\* The part with what ended it, if there was room.
Whole(packets, got) ==
    \E j \in 0 .. Len(got) :
        /\ j > 0 => Restarts(got[j])
        /\ \A k \in j + 1 .. Len(got) - 1 : ~Restarts(got[k])
        /\ Len(got) - j <= 1024 => packets = SubSeq(got, j + 1, Len(got))

Heading(p) == IF p.cmd = "ADDRESS READ" THEN "read" ELSE "write"
DirectionOf(w) == IF w = 1 THEN "write" ELSE "read"

\* The buffer holds the packets of the part, and the decoder knows whose part
\* it is.
i2cfilter_OK ==
    /\ s = Filter(WantedAddress, WantedDirection, s.curslave, s.curdirection, s.packets, s.sent)
    /\ s.packets \in Seq(HandedOn) /\ seen \in Seq(HandedOn)
    /\ phase = "stopped" => s.packets = <<>>
    /\ phase # "stopped" => Since(s.packets, seen)
    /\ Within => s.curslave = Here.a /\ s.curdirection = DirectionOf(Here.w)

LEMMA i2cfilter_Receives ==
  ASSUME upper \in Filters
  PROVE  /\ \A st, p : Recv(upper, st, p) = i2cfilter_recv(st, p)
         /\ \A st : Silenced(upper, st) = [st EXCEPT !.rep = <<>>, !.sent = <<>>]
         /\ ResetOf(upper) = Filter(WantedAddress, WantedDirection, -1, "none", <<>>, <<>>)
         /\ upper \in Forwarders
<1>1. upper \in {"i2cfilter", "i2cfilter_read"}
  BY DEF Filters
<1>2. \A st, p : Recv(upper, st, p) = i2cfilter_recv(st, p)
  BY <1>1 DEF Recv
<1>3. \A st : Silenced(upper, st) = [st EXCEPT !.rep = <<>>, !.sent = <<>>]
  BY <1>1 DEF Silenced, Relays, Forwarders
<1>4. ResetOf(upper) = Filter(WantedAddress, WantedDirection, -1, "none", <<>>, <<>>)
  <2>1. CASE upper = "i2cfilter"
    BY <2>1 DEF ResetOf, i2cfilter_reset, Filter, WantedAddress, WantedDirection
  <2>2. CASE upper = "i2cfilter_read"
    BY <2>2 DEF ResetOf, i2cfilter_reset, Filter, WantedAddress, WantedDirection
  <2>3. QED
    BY <1>1, <2>1, <2>2
<1>5. QED
  BY <1>1, <1>2, <1>3, <1>4 DEF Forwarders

LEMMA FilterFields ==
  ASSUME NEW st, NEW a, NEW d, NEW slave, NEW dir, NEW packets, NEW sent,
         st = Filter(a, d, slave, dir, packets, sent)
  PROVE  /\ st.filter_address = a /\ st.filter_direction = d /\ st.curslave = slave
         /\ st.curdirection = dir /\ st.packets = packets /\ st.sent = sent
         /\ st = Filter(a, d, st.curslave, st.curdirection, st.packets, st.sent)
BY DEF Filter

\* A packet of the part is kept behind the others.
LEMMA SinceKeeps ==
  ASSUME NEW packets \in Seq(HandedOn), NEW got \in Seq(HandedOn), NEW p \in HandedOn,
         ~Restarts(p), Since(packets, got)
  PROVE  Since(Keep(packets, p, 1024), Append(got, p))
<1> DEFINE n == Len(got)  more == Append(got, p)  kept == Keep(packets, p, 1024)
<1>1. /\ Len(more) = n + 1 /\ more[n + 1] = p /\ n \in Nat
      /\ \A i \in 1 .. n : more[i] = got[i]
  BY AppendProperties
<1>2. PICK j \in 0 .. n :
        /\ j > 0 => Restarts(got[j])
        /\ \A k \in j + 1 .. n : ~Restarts(got[k])
        /\ Fills(packets, got, j, 1024)
  BY DEF Since
<1>3. Fills(kept, more, j, 1024)
  BY <1>2, PacketsKept
<1> HIDE DEF more, kept
<1>4. \A k \in j + 1 .. n + 1 : ~Restarts(more[k])
  <2>1. TAKE k \in j + 1 .. n + 1
  <2>2. CASE k = n + 1
    BY <1>1, <2>2
  <2>3. CASE k \in j + 1 .. n
    BY <1>1, <1>2, <2>3
  <2>4. QED
    BY <1>1, <1>2, <2>2, <2>3
<1>5. j \in 0 .. Len(more) /\ (j > 0 => Restarts(more[j]))
  BY <1>1, <1>2
<1>6. Since(kept, more)
  BY <1>1, <1>3, <1>4, <1>5 DEF Since
<1>7. QED
  BY <1>6 DEF kept, more

\* The repeated START leaves an empty buffer behind it.
LEMMA SinceRepeats ==
  ASSUME NEW got \in Seq(HandedOn), NEW p \in HandedOn, Restarts(p)
  PROVE  Since(<<>>, Append(got, p))
<1> DEFINE n == Len(got)  more == Append(got, p)
<1>1. Len(more) = n + 1 /\ more[n + 1] = p /\ n \in Nat
  BY AppendProperties
<1> HIDE DEF more
<1>2. Fills(<<>>, more, n + 1, 1024)
  BY <1>1 DEF Fills, Window
<1>3. Since(<<>>, more)
  BY <1>1, <1>2 DEF Since
<1>4. QED
  BY <1>3 DEF more

\* The packet that is kept has the command of the one received.
LEMMA ResentEnds == \A p : (Restarts(Resent(p)) <=> Restarts(p)) /\ (Ends(Resent(p)) <=> Ends(p))
BY ResentFields, Zenon DEF Restarts, Ends

\* What is in the buffer when the part ends is the part, if there was room.
LEMMA SinceEnds ==
  ASSUME NEW packets \in Seq(HandedOn), NEW got \in Seq(HandedOn), NEW p \in HandedOn, Since(packets, got)
  PROVE  Whole(Keep(packets, p, 1024), Append(got, p))
<1> DEFINE n == Len(got)  more == Append(got, p)  kept == Keep(packets, p, 1024)
<1>1. /\ more \in Seq(HandedOn) /\ Len(more) = n + 1 /\ n \in Nat
      /\ \A i \in 1 .. n : more[i] = got[i]
  BY AppendProperties
<1>2. PICK j \in 0 .. n :
        /\ j > 0 => Restarts(got[j])
        /\ \A k \in j + 1 .. n : ~Restarts(got[k])
        /\ Fills(packets, got, j, 1024)
  BY DEF Since
<1>3. kept \in Seq(HandedOn) /\ Fills(kept, more, j, 1024)
  BY <1>2, PacketsKept
<1> HIDE DEF more, kept
<1>4. Len(more) - j <= 1024 => kept = SubSeq(more, j + 1, Len(more))
  BY <1>1, <1>2, <1>3, AllPackets
<1>5. /\ j \in 0 .. Len(more) /\ (j > 0 => Restarts(more[j]))
      /\ \A k \in j + 1 .. Len(more) - 1 : ~Restarts(more[k])
  BY <1>1, <1>2
<1>6. Whole(kept, more)
  BY <1>4, <1>5 DEF Whole
<1>7. QED
  BY <1>6 DEF more, kept

LEMMA i2cfilter_Caches ==
  ASSUME NEW a, NEW d, NEW slave, NEW dir, NEW packets, NEW sent, NEW p
  PROVE  i2cfilter_cache(Filter(a, d, slave, dir, packets, sent), p) =
            Filter(a, d, slave, dir, Keep(packets, Resent(p), 1024), sent)
<1> DEFINE st == Filter(a, d, slave, dir, packets, sent)  k == Keep(packets, Resent(p), 1024)
<1>1. st.packets = packets
  BY DEF Filter
<1>2. i2cfilter_cache(st, p) = [st EXCEPT !.packets = Keep(st.packets, Resent(p), 1024)]
  BY DEF i2cfilter_cache
<1>3. Keep(st.packets, Resent(p), 1024) = k
  BY <1>1
<1> HIDE DEF k
<1>4. [st EXCEPT !.packets = k] = Filter(a, d, slave, dir, k, sent)
  BY DEF Filter
<1> HIDE DEF st
<1>5. i2cfilter_cache(st, p) = Filter(a, d, slave, dir, k, sent)
  BY <1>2, <1>3, <1>4
<1>6. QED
  BY <1>5 DEF st, k

LEMMA i2cfilter_Keeps ==
  ASSUME NEW a, NEW d, NEW slave, NEW dir, NEW packets, NEW sent, NEW p, ~IsAddress(p), ~Ends(p)
  PROVE  i2cfilter_recv(Filter(a, d, slave, dir, packets, sent), p) =
            Filter(a, d, slave, dir, Keep(packets, Resent(p), 1024), sent)
<1>1. \A st : i2cfilter_recv(st, p) = i2cfilter_cache(st, p)
  BY Zenon DEF i2cfilter_recv, Ends
<1>2. QED
  BY <1>1, i2cfilter_Caches

LEMMA i2cfilter_Turns ==
  ASSUME NEW a, NEW d, NEW slave, NEW dir, NEW packets, NEW sent, NEW p, IsAddress(p)
  PROVE  i2cfilter_recv(Filter(a, d, slave, dir, packets, sent), p) =
            Filter(a, d, p.val, Heading(p), Keep(packets, Resent(p), 1024), sent)
<1> DEFINE k == Keep(packets, Resent(p), 1024)
           heading == Heading(p)
           who == p.val
           t == Filter(a, d, slave, dir, k, sent)
<1>1. i2cfilter_recv(Filter(a, d, slave, dir, packets, sent), p) = i2cfilter_address(t, p)
  <2>1. ~Ends(p)
    BY Zenon DEF Ends, IsAddress
  <2>2. \A st : i2cfilter_recv(st, p) = i2cfilter_address(i2cfilter_cache(st, p), p)
    BY <2>1, Zenon DEF i2cfilter_recv, Ends
  <2>3. QED
    BY <2>2, i2cfilter_Caches
<1>2. i2cfilter_address(t, p) = [t EXCEPT !.curslave = who, !.curdirection = heading]
  <2> HIDE DEF t
  <2>1. QED
    BY Zenon DEF i2cfilter_address, Heading
<1> HIDE DEF k, heading, who
<1>3. PICK y : y = [t EXCEPT !.curslave = who, !.curdirection = heading]
  OBVIOUS
<1>4. /\ y.state = "none" /\ y.filter_address = a /\ y.filter_direction = d /\ y.curslave = who
      /\ y.curdirection = heading /\ y.packets = k /\ y.sent = sent /\ y.rep = <<>>
  BY <1>3 DEF Filter
<1>5. y = Filter(a, d, who, heading, k, sent)
  BY <1>3, <1>4 DEF Filter
<1> HIDE DEF t
<1>6. i2cfilter_address(t, p) = Filter(a, d, who, heading, k, sent)
  BY <1>2, <1>3, <1>5
<1>7. QED
  BY <1>1, <1>6 DEF k, heading, who

\* The STOP and the repeated START decide about the part.
LEMMA i2cfilter_Decides ==
  ASSUME NEW a, NEW d, NEW slave, NEW dir, NEW packets \in Seq(HandedOn), NEW p \in Sent, Ends(p)
  PROVE  i2cfilter_recv(Filter(a, d, slave, dir, packets, <<>>), p) =
            Filter(a, d, slave, dir, <<>>,
                   IF a \in {0, slave} /\ d \in {"both", dir} THEN Keep(packets, Resent(p), 1024) ELSE <<>>)
<1> DEFINE none == <<>>
           k == Keep(packets, Resent(p), 1024)
           t == Filter(a, d, slave, dir, k, none)
           passed == IF i2cfilter_passes(t) THEN t.sent \o t.packets ELSE t.sent
           going == IF a \in {0, slave} /\ d \in {"both", dir} THEN k ELSE none
<1>1. i2cfilter_recv(Filter(a, d, slave, dir, packets, none), p) = i2cfilter_decide(t)
  <2>1. ~IsAddress(p)
    BY Zenon DEF Ends, IsAddress
  <2>2. \A st : i2cfilter_recv(st, p) = i2cfilter_decide(i2cfilter_cache(st, p))
    BY <2>1, Zenon DEF i2cfilter_recv, Ends
  <2> HIDE DEF none
  <2>3. QED
    BY <2>2, i2cfilter_Caches
<1>2. i2cfilter_decide(t) = [t EXCEPT !.packets = none, !.sent = passed]
  <2> HIDE DEF t
  <2>1. QED
    BY Zenon DEF i2cfilter_decide
<1>3. k \in Seq(HandedOn)
  BY PacketsKept, ResentFields, 0 \in Nat
<1> HIDE DEF k
<1>4. passed = going
  <2>1. /\ t.filter_address = a /\ t.filter_direction = d /\ t.curslave = slave
        /\ t.curdirection = dir /\ t.packets = k /\ t.sent = none
    BY DEF Filter
  <2> HIDE DEF t
  <2>2. i2cfilter_passes(t) <=> a \in {0, slave} /\ d \in {"both", dir}
    BY <2>1 DEF i2cfilter_passes
  <2>3. none \o k = k
    BY <1>3
  <2> HIDE DEF none
  <2>4. QED
    BY <2>1, <2>2, <2>3
<1> HIDE DEF passed, going, none
<1>5. PICK y : y = [t EXCEPT !.packets = none, !.sent = passed]
  OBVIOUS
<1>6. /\ y.state = "none" /\ y.filter_address = a /\ y.filter_direction = d /\ y.curslave = slave
      /\ y.curdirection = dir /\ y.packets = none /\ y.sent = passed /\ y.rep = <<>>
  BY <1>5 DEF Filter
<1>7. y = Filter(a, d, slave, dir, none, passed)
  BY <1>5, <1>6 DEF Filter
<1> HIDE DEF t
<1>8. i2cfilter_decide(t) = Filter(a, d, slave, dir, none, going)
  BY <1>2, <1>4, <1>5, <1>7
<1>9. QED
  BY <1>1, <1>8 DEF k, none, going

LEMMA i2cfilter_Becomes ==
  ASSUME upper' = upper, NEW slave, NEW dir, NEW packets \in Seq(HandedOn), NEW sent,
         s' = Filter(WantedAddress, WantedDirection, slave, dir, packets, sent), seen' \in Seq(HandedOn),
         phase' = "stopped" => packets = <<>>,
         phase' # "stopped" => Since(packets, seen'),
         Within' => slave = Here'.a /\ dir = DirectionOf(Here'.w)
  PROVE  i2cfilter_OK' /\ s'.sent = sent
<1>1. /\ s' = Filter(WantedAddress, WantedDirection, s'.curslave, s'.curdirection, s'.packets, s'.sent)
      /\ s'.curslave = slave /\ s'.curdirection = dir /\ s'.packets = packets /\ s'.sent = sent
  BY FilterFields
<1>2. WantedAddress' = WantedAddress /\ WantedDirection' = WantedDirection
  BY DEF WantedAddress, WantedDirection
<1>3. QED
  BY <1>1, <1>2 DEF i2cfilter_OK

\* The options say which parts pass.
LEMMA WantedPasses ==
  ASSUME upper \in Filters, NEW part \in PartTypes
  PROVE  Passes(part) <=> /\ WantedAddress \in {0, part.a}
                          /\ WantedDirection \in {"both", DirectionOf(part.w)}
<1>1. part.w \in {0, 1} /\ part.a \in 0 .. 127
  BY DEF PartTypes
<1>2. CASE upper = "i2cfilter"
  BY <1>1, <1>2 DEF Passes, WantedAddress, WantedDirection
<1>3. CASE upper = "i2cfilter_read"
  BY <1>1, <1>3 DEF Passes, WantedAddress, WantedDirection, DirectionOf
<1>4. QED
  BY <1>2, <1>3 DEF Filters

\* Every event of the bus keeps its invariant, and what ends a part decides.
LEMMA i2cfilter_Step ==
  ASSUME upper \in Filters, upper' = upper, BusOK, BusOK', i2cfilter_OK, Steps
  PROVE  i2cfilter_OK' /\ FilterRelayed'
<1> DEFINE a == WantedAddress  d == WantedDirection
           slave == s.curslave  dir == s.curdirection  packets == s.packets
           none == <<>>
           t == Filter(a, d, slave, dir, packets, none)
<1>1. packets \in Seq(HandedOn) /\ seen \in Seq(HandedOn) /\ none \in Seq(HandedOn) /\ upper \in Forwarders
      /\ none = <<>>
  <2>1. packets \in Seq(HandedOn) /\ seen \in Seq(HandedOn)
    BY DEF i2cfilter_OK
  <2>2. upper \in Forwarders
    BY i2cfilter_Receives
  <2>3. none \in Seq(HandedOn)
    OBVIOUS
  <2>4. QED
    BY <2>1, <2>2, <2>3
<1>2. Hushed = t
  <2>1. s = Filter(a, d, slave, dir, packets, s.sent)
    BY DEF i2cfilter_OK
  <2>2. Hushed = [s EXCEPT !.rep = <<>>, !.sent = <<>>]
    BY i2cfilter_Receives DEF Hushed
  <2>3. PICK y : y = [s EXCEPT !.rep = <<>>, !.sent = <<>>]
    OBVIOUS
  <2> HIDE DEF a, d, slave, dir, packets
  <2>4. /\ y.state = "none" /\ y.filter_address = a /\ y.filter_direction = d /\ y.curslave = slave
        /\ y.curdirection = dir /\ y.packets = packets /\ y.sent = <<>> /\ y.rep = <<>>
    BY <2>1, <2>3 DEF Filter
  <2>5. y = Filter(a, d, slave, dir, packets, <<>>)
    BY <2>1, <2>3, <2>4 DEF Filter
  <2>6. QED
    BY <2>2, <2>3, <2>5 DEF a, d, slave, dir, packets
<1>3. /\ phase = "stopped" => packets = none
      /\ phase # "stopped" => Since(packets, seen)
      /\ Within => slave = Here.a /\ dir = DirectionOf(Here.w)
  BY DEF i2cfilter_OK
<1>4. upper' \in {"i2cfilter", "i2cfilter_read"}
  BY DEF Filters
<1>5. \A st, p : Recv(upper, st, p) = i2cfilter_recv(st, p)
  BY i2cfilter_Receives
<1> HIDE DEF a, d, slave, dir, packets, none
<1>6. ASSUME s'.sent = none, NEW p, ~Ends(p), Last(seen') = Resent(p)
      PROVE  FilterRelayed'
  <2>1. Last(seen').cmd \notin {"STOP", "START REPEAT"}
    BY <1>6, ResentFields, Zenon DEF Ends
  <2>2. s'.sent = <<>>
    BY <1>6 DEF none
  <2>3. QED
    BY <2>1, <2>2, Zenon DEF FilterRelayed
<1>7. ASSUME NEW p \in Sent, Starts(p)
      PROVE  i2cfilter_OK' /\ FilterRelayed'
  <2> DEFINE kept == Keep(packets, Resent(p), 1024)  one == <<Resent(p)>>
  <2>1. /\ s' = i2cfilter_recv(t, p) /\ phase' = "address" /\ seen' = one /\ packets = none
        /\ ~IsAddress(p) /\ ~Ends(p) /\ ~Restarts(p) /\ ~Within'
    <3>1. /\ s' = i2cfilter_recv(t, p) /\ phase' = "address" /\ seen' = one /\ packets = none
          /\ p.cmd = "START" /\ ~Within'
      BY <1>1, <1>2, <1>3, <1>5, <1>7 DEF Starts, Within
    <3>2. ~IsAddress(p) /\ ~Ends(p) /\ ~Restarts(p)
      BY <3>1, Zenon DEF IsAddress, Ends, Restarts
    <3>3. QED
      BY <3>1, <3>2
  <2>2. s' = Filter(a, d, slave, dir, kept, none)
    BY <2>1, i2cfilter_Keeps
  <2>3. kept = one /\ one \in Seq(HandedOn) /\ Last(one) = Resent(p) /\ Len(one) = 1 /\ one[1] = Resent(p)
        /\ Fills(one, one, 0, 1024)
    BY <2>1, NotesStart, ResentFields DEF none
  <2> HIDE DEF kept, one
  <2>4. Since(one, one)
    BY <2>1, <2>3, ResentEnds DEF Since
  <2>5. i2cfilter_OK' /\ s'.sent = none
    <3>1. s' = Filter(WantedAddress, WantedDirection, slave, dir, one, none)
      BY <2>2, <2>3 DEF a, d
    <3>2. seen' \in Seq(HandedOn) /\ phase' # "stopped" /\ Since(one, seen') /\ one \in Seq(HandedOn)
      BY <2>1, <2>3, <2>4
    <3>3. QED
      BY <2>1, <3>1, <3>2, i2cfilter_Becomes
  <2>6. QED
    BY <1>6, <2>1, <2>3, <2>5
<1>8. ASSUME NEW p \in Sent, Acknowledges(p)
      PROVE  i2cfilter_OK' /\ FilterRelayed'
  <2> DEFINE kept == Keep(packets, Resent(p), 1024)
  <2>1. /\ s' = i2cfilter_recv(t, p) /\ ~IsAddress(p) /\ ~Ends(p) /\ ~Restarts(p)
        /\ Within /\ phase # "stopped" /\ phase' # "stopped" /\ xfer' = xfer /\ Noted(<<p>>)
    <3>1. /\ s' = i2cfilter_recv(t, p) /\ p.cmd \in {"ACK", "NACK"}
          /\ Within /\ phase # "stopped" /\ phase' # "stopped" /\ xfer' = xfer /\ Noted(<<p>>)
      BY <1>2, <1>5, <1>8 DEF Acknowledges, Within
    <3>2. ~IsAddress(p) /\ ~Ends(p) /\ ~Restarts(p)
      BY <3>1, Zenon DEF IsAddress, Ends, Restarts
    <3>3. QED
      BY <3>1, <3>2
  <2>2. s' = Filter(a, d, slave, dir, kept, none)
    BY <2>1, i2cfilter_Keeps
  <2>3. seen' = Append(seen, Resent(p)) /\ seen' \in Seq(HandedOn) /\ Last(seen') = Resent(p)
    BY <1>1, <2>1, NotesOne
  <2>4. kept \in Seq(HandedOn) /\ Since(kept, seen')
    BY <1>1, <1>3, <2>1, <2>3, PacketsKept, ResentFields, SinceKeeps, ResentFields, ResentEnds, 0 \in Nat
  <2>5. Here' = Here
    BY <2>1, HereTyped
  <2> HIDE DEF kept
  <2>6. i2cfilter_OK' /\ s'.sent = none
    <3>1. s' = Filter(WantedAddress, WantedDirection, slave, dir, kept, none)
      BY <2>2 DEF a, d
    <3>2. Within' => slave = Here'.a /\ dir = DirectionOf(Here'.w)
      BY <1>3, <2>1, <2>5
    <3>3. QED
      BY <2>1, <2>3, <2>4, <3>1, <3>2, i2cfilter_Becomes
  <2>7. QED
    BY <1>6, <2>1, <2>3, <2>6
<1>9. ASSUME NEW p \in Sent, Repeats(p) \/ Stops(p)
      PROVE  i2cfilter_OK' /\ FilterRelayed'
  <2> DEFINE kept == Keep(packets, Resent(p), 1024)
             going == IF a \in {0, slave} /\ d \in {"both", dir} THEN kept ELSE none
  <2>1. /\ s' = i2cfilter_recv(t, p) /\ Ends(p)
        /\ Within /\ phase # "stopped" /\ ~Within' /\ (phase' # "stopped" => Restarts(p))
        /\ xfer' = xfer /\ Noted(<<p>>)
    <3>1. /\ s' = i2cfilter_recv(t, p)
          /\ Within /\ phase # "stopped" /\ ~Within' /\ xfer' = xfer /\ Noted(<<p>>)
      BY <1>2, <1>5, <1>9 DEF Repeats, Stops, Within
    <3>2. Ends(p) /\ (phase' # "stopped" => Restarts(p))
      BY <1>9, Zenon DEF Repeats, Stops, Ends, Restarts
    <3>3. QED
      BY <3>1, <3>2
  <2>2. s' = Filter(a, d, slave, dir, none, going)
    BY <1>1, <2>1, i2cfilter_Decides DEF none
  <2>3. seen' = Append(seen, Resent(p)) /\ seen' \in Seq(HandedOn) /\ Last(seen') = Resent(p)
    BY <1>1, <2>1, NotesOne
  <2>4. Here' = Here /\ slave = Here.a /\ dir = DirectionOf(Here.w) /\ Here \in PartTypes
    BY <1>3, <2>1, HereTyped
  <2>5. phase' # "stopped" => Since(none, seen')
    BY <1>1, <2>1, <2>3, SinceRepeats, ResentFields, ResentEnds DEF none
  <2>6. Whole(kept, seen')
    BY <1>1, <1>3, <2>1, <2>3, SinceEnds, ResentFields
  <2> HIDE DEF kept
  <2>7. going = IF Passes(Here) THEN kept ELSE none
    <3>1. Passes(Here) <=> a \in {0, slave} /\ d \in {"both", dir}
      BY <2>4, WantedPasses DEF a, d
    <3>2. QED
      BY <3>1
  <2> HIDE DEF going
  <2>8. i2cfilter_OK' /\ s'.sent = going
    <3>1. s' = Filter(WantedAddress, WantedDirection, slave, dir, none, going)
      BY <2>2 DEF a, d
    <3>2. QED
      BY <1>1, <2>1, <2>3, <2>5, <3>1, i2cfilter_Becomes
  <2>9. Last(xfer') = Here
    BY <2>4 DEF Here
  <2>10. CASE Passes(Here)
    <3>1. s'.sent = kept /\ Passes(Last(xfer'))
      BY <2>7, <2>8, <2>9, <2>10
    <3>2. \E j \in 0 .. Len(seen') :
            /\ j > 0 => seen'[j].cmd = "START REPEAT"
            /\ \A k \in j + 1 .. Len(seen') - 1 : seen'[k].cmd # "START REPEAT"
            /\ Len(seen') - j <= 1024 => s'.sent = SubSeq(seen', j + 1, Len(seen'))
      <4>1. Whole(s'.sent, seen')
        BY <2>6, <3>1
      <4>2. QED
        BY <4>1, Zenon DEF Whole, Restarts
    <3>3. Passes(Last(xfer))' /\ Last(seen').cmd \in {"STOP", "START REPEAT"}
      BY <1>4, <2>1, <2>3, <3>1, ResentFields, Zenon DEF Passes, Ends
    <3>4. QED
      BY <2>8, <3>2, <3>3, Zenon DEF FilterRelayed
  <2>11. CASE ~Passes(Here)
    <3>1. s'.sent = <<>> /\ ~Passes(Last(xfer'))
      BY <2>7, <2>8, <2>9, <2>11 DEF none
    <3>2. ~Passes(Last(xfer))'
      BY <3>1, Zenon DEF Passes
    <3>3. QED
      BY <2>8, <3>1, <3>2, Zenon DEF FilterRelayed
  <2>12. QED
    BY <2>10, <2>11
<1>10. ASSUME NEW w \in {0, 1}, NEW b \in 0 .. 127, NEW q \in Sent, NEW p \in Sent, Addresses(w, b, q, p)
      PROVE  i2cfilter_OK' /\ FilterRelayed'
  <2> DEFINE one == Keep(packets, Resent(q), 1024)  both == Keep(one, Resent(p), 1024)
             got == Append(seen, Resent(q))
  <2>1. /\ s' = i2cfilter_recv(i2cfilter_recv(t, q), p)
        /\ ~IsAddress(q) /\ ~Ends(q) /\ ~Restarts(q) /\ IsAddress(p) /\ ~Ends(p) /\ ~Restarts(p)
        /\ p.val = b /\ Heading(p) = DirectionOf(w)
        /\ phase # "stopped" /\ phase' # "stopped" /\ Noted(<<q, p>>)
    <3>1. /\ s' = i2cfilter_recv(i2cfilter_recv(t, q), p)
          /\ q.cmd = "BITS" /\ p.val = b /\ phase # "stopped" /\ phase' # "stopped" /\ Noted(<<q, p>>)
      BY <1>2, <1>5, <1>10 DEF Addresses
    <3>2. ~IsAddress(q) /\ ~Ends(q) /\ ~Restarts(q)
      BY <3>1, Zenon DEF IsAddress, Ends, Restarts
    <3>3. p.cmd = (IF w = 1 THEN "ADDRESS WRITE" ELSE "ADDRESS READ")
      BY <1>10 DEF Addresses
    <3>4. IsAddress(p) /\ ~Ends(p) /\ ~Restarts(p) /\ Heading(p) = DirectionOf(w)
      BY <3>3, Zenon DEF IsAddress, Ends, Restarts, Heading, DirectionOf
    <3>5. QED
      BY <3>1, <3>2, <3>4
  <2>2. i2cfilter_recv(t, q) = Filter(a, d, slave, dir, one, none)
    BY <2>1, i2cfilter_Keeps
  <2>3. s' = Filter(a, d, b, DirectionOf(w), both, none)
    <3> HIDE DEF one, both
    <3>1. i2cfilter_recv(Filter(a, d, slave, dir, one, none), p) =
            Filter(a, d, p.val, Heading(p), Keep(one, Resent(p), 1024), none)
      BY <2>1, i2cfilter_Turns
    <3>2. QED
      BY <2>1, <2>2, <3>1 DEF both
  <2>4. /\ got \in Seq(HandedOn)
        /\ seen' = Append(got, Resent(p)) /\ seen' \in Seq(HandedOn) /\ Last(seen') = Resent(p)
    BY <1>1, <2>1, NotesTwo
  <2>5. one \in Seq(HandedOn) /\ Since(one, got)
    BY <1>1, <1>3, <2>1, PacketsKept, ResentFields, SinceKeeps, ResentFields, ResentEnds, 0 \in Nat
  <2> HIDE DEF one, got
  <2>6. both \in Seq(HandedOn) /\ Since(both, seen')
    BY <2>1, <2>4, <2>5, PacketsKept, ResentFields, SinceKeeps, ResentFields, ResentEnds, 0 \in Nat
  <2> HIDE DEF both
  <2>7. Here'.a = b /\ Here'.w = w
    BY <1>10, AddressesPart
  <2>8. i2cfilter_OK' /\ s'.sent = none
    <3>1. s' = Filter(WantedAddress, WantedDirection, b, DirectionOf(w), both, none)
      BY <2>3 DEF a, d
    <3>2. QED
      BY <2>1, <2>4, <2>6, <2>7, <3>1, i2cfilter_Becomes
  <2>9. QED
    BY <1>6, <2>1, <2>4, <2>8
<1>11. ASSUME NEW b \in Byte, NEW q \in Sent, NEW p \in Sent, Transfers(b, q, p)
      PROVE  i2cfilter_OK' /\ FilterRelayed'
  <2> DEFINE one == Keep(packets, Resent(q), 1024)  both == Keep(one, Resent(p), 1024)
             got == Append(seen, Resent(q))
  <2>1. /\ s' = i2cfilter_recv(i2cfilter_recv(t, q), p)
        /\ ~IsAddress(q) /\ ~Ends(q) /\ ~Restarts(q) /\ ~IsAddress(p) /\ ~Ends(p) /\ ~Restarts(p)
        /\ Within /\ phase # "stopped" /\ phase' # "stopped" /\ Noted(<<q, p>>)
    <3>1. /\ s' = i2cfilter_recv(i2cfilter_recv(t, q), p)
          /\ q.cmd = "BITS" /\ Within /\ phase # "stopped" /\ phase' # "stopped" /\ Noted(<<q, p>>)
      BY <1>2, <1>5, <1>11 DEF Transfers, Within
    <3>2. ~IsAddress(q) /\ ~Ends(q) /\ ~Restarts(q)
      BY <3>1, Zenon DEF IsAddress, Ends, Restarts
    <3>3. p.cmd = (IF wr = 1 THEN "DATA WRITE" ELSE "DATA READ")
      BY <1>11 DEF Transfers
    <3>4. ~IsAddress(p) /\ ~Ends(p) /\ ~Restarts(p)
      BY <3>3, Zenon DEF IsAddress, Ends, Restarts
    <3>5. QED
      BY <3>1, <3>2, <3>4
  <2>2. i2cfilter_recv(t, q) = Filter(a, d, slave, dir, one, none)
    BY <2>1, i2cfilter_Keeps
  <2>3. s' = Filter(a, d, slave, dir, both, none)
    <3> HIDE DEF one, both
    <3>1. i2cfilter_recv(Filter(a, d, slave, dir, one, none), p) =
            Filter(a, d, slave, dir, Keep(one, Resent(p), 1024), none)
      BY <2>1, i2cfilter_Keeps
    <3>2. QED
      BY <2>1, <2>2, <3>1 DEF both
  <2>4. /\ got \in Seq(HandedOn)
        /\ seen' = Append(got, Resent(p)) /\ seen' \in Seq(HandedOn) /\ Last(seen') = Resent(p)
    BY <1>1, <2>1, NotesTwo
  <2>5. one \in Seq(HandedOn) /\ Since(one, got)
    BY <1>1, <1>3, <2>1, PacketsKept, ResentFields, SinceKeeps, ResentFields, ResentEnds, 0 \in Nat
  <2> HIDE DEF one, got
  <2>6. both \in Seq(HandedOn) /\ Since(both, seen')
    BY <2>1, <2>4, <2>5, PacketsKept, ResentFields, SinceKeeps, ResentFields, ResentEnds, 0 \in Nat
  <2> HIDE DEF both
  <2>7. Here'.a = Here.a /\ Here'.w = Here.w
    BY <1>11, TransfersPart
  <2>8. i2cfilter_OK' /\ s'.sent = none
    <3>1. s' = Filter(WantedAddress, WantedDirection, slave, dir, both, none)
      BY <2>3 DEF a, d
    <3>2. QED
      BY <1>3, <2>1, <2>4, <2>6, <2>7, <3>1, i2cfilter_Becomes
  <2>9. QED
    BY <1>6, <2>1, <2>4, <2>8
<1>12. CASE Resets
  <2> DEFINE off == -1  nothing == "none"
  <2>1. s' = Filter(WantedAddress, WantedDirection, off, nothing, none, none)
        /\ phase' = "stopped" /\ seen' = none /\ ~Within'
    BY <1>12, i2cfilter_Receives DEF Resets, none, Within
  <2> HIDE DEF off, nothing
  <2>2. i2cfilter_OK'
    BY <1>1, <2>1, i2cfilter_Becomes
  <2>3. seen' = <<>>
    BY <2>1 DEF none
  <2>4. QED
    BY <2>2, <2>3, Zenon DEF FilterRelayed
<1>13. QED
  BY <1>7, <1>8, <1>9, <1>10, <1>11, <1>12 DEF Steps

LEMMA i2cfilter_Begin ==
  ASSUME upper \in Filters, phase = "stopped", seen = <<>>, s = ResetOf(upper)
  PROVE  i2cfilter_OK /\ FilterRelayed
<1>1. s = Filter(WantedAddress, WantedDirection, -1, "none", <<>>, <<>>)
  BY i2cfilter_Receives
<1>2. /\ s = Filter(WantedAddress, WantedDirection, s.curslave, s.curdirection, s.packets, s.sent)
      /\ s.packets = <<>>
  BY <1>1, FilterFields
<1>3. <<>> \in Seq(HandedOn) /\ ~Within
  BY DEF Within
<1>4. i2cfilter_OK
  BY <1>2, <1>3 DEF i2cfilter_OK
<1>5. QED
  BY <1>4, Zenon DEF FilterRelayed

-----------------------------------------------------------------------------
(* i2c_packet                                                              *)

\* The parts with data among the first n, in their order.
ListsUpTo(shown, parts, n) ==
    \E f \in [1 .. Len(shown) -> 1 .. n] :
        /\ \A i, j \in 1 .. Len(shown) : i < j => f[i] < f[j]
        /\ \A i \in 1 .. Len(shown) :
              shown[i].bytes = parts[f[i]].bytes /\ shown[i].val = parts[f[i]].a
        /\ \A k \in 1 .. n :
              parts[k].bytes # <<>> <=> \E i \in 1 .. Len(shown) : f[i] = k

LEMMA ListsAll ==
  ASSUME NEW shown, NEW parts, ListsUpTo(shown, parts, Len(parts))
  PROVE  Lists(shown, parts)
BY Zenon DEF ListsUpTo, Lists

LEMMA ListsNone ==
  ASSUME NEW parts
  PROVE  ListsUpTo(<<>>, parts, 0)
<1> DEFINE none == <<>>  f == [i \in 1 .. Len(none) |-> 1]
<1>1. Len(none) = 0
  OBVIOUS
<1> HIDE DEF none
<1>2. f \in [1 .. Len(none) -> 1 .. 0] /\ (\A i \in 1 .. Len(none) : FALSE) /\ \A k \in 1 .. 0 : FALSE
  BY <1>1
<1> HIDE DEF f
<1>3. ListsUpTo(none, parts, 0)
  BY <1>2, Zenon DEF ListsUpTo
<1>4. QED
  BY <1>3 DEF none

\* A part without data is passed over.
LEMMA ListsSkip ==
  ASSUME NEW S, NEW shown \in Seq(S), NEW parts, NEW n \in Nat, ListsUpTo(shown, parts, n),
         parts[n + 1].bytes = <<>>
  PROVE  ListsUpTo(shown, parts, n + 1)
<1> DEFINE m == Len(shown)
<1>1. PICK f \in [1 .. m -> 1 .. n] :
        /\ \A i, j \in 1 .. m : i < j => f[i] < f[j]
        /\ \A i \in 1 .. m : shown[i].bytes = parts[f[i]].bytes /\ shown[i].val = parts[f[i]].a
        /\ \A k \in 1 .. n : parts[k].bytes # <<>> <=> \E i \in 1 .. m : f[i] = k
  BY DEF ListsUpTo
<1>2. m \in Nat
  OBVIOUS
<1>3. f \in [1 .. m -> 1 .. n + 1] /\ \A i \in 1 .. m : f[i] \in 1 .. n
  OBVIOUS
<1>4. ASSUME NEW k \in 1 .. n + 1
      PROVE  parts[k].bytes # <<>> <=> \E i \in 1 .. m : f[i] = k
  <2>1. CASE k \in 1 .. n
    BY <1>1, <2>1
  <2>2. CASE k = n + 1
    BY <1>3, <2>2
  <2>3. QED
    BY <2>1, <2>2
<1> HIDE DEF m
<1>5. QED
  BY <1>1, <1>3, <1>4 DEF ListsUpTo, m

\* One with data is added.
LEMMA ListsAdd ==
  ASSUME NEW S, NEW shown \in Seq(S), NEW x \in S, NEW parts, NEW n \in Nat, ListsUpTo(shown, parts, n),
         parts[n + 1].bytes # <<>>, x.bytes = parts[n + 1].bytes, x.val = parts[n + 1].a
  PROVE  ListsUpTo(Append(shown, x), parts, n + 1)
<1> DEFINE m == Len(shown)  more == Append(shown, x)
<1>1. PICK f \in [1 .. m -> 1 .. n] :
        /\ \A i, j \in 1 .. m : i < j => f[i] < f[j]
        /\ \A i \in 1 .. m : shown[i].bytes = parts[f[i]].bytes /\ shown[i].val = parts[f[i]].a
        /\ \A k \in 1 .. n : parts[k].bytes # <<>> <=> \E i \in 1 .. m : f[i] = k
  BY DEF ListsUpTo
<1>2. m \in Nat /\ Len(more) = m + 1 /\ more[m + 1] = x /\ \A i \in 1 .. m : more[i] = shown[i]
  BY AppendProperties
<1> DEFINE g == [i \in 1 .. m + 1 |-> IF i = m + 1 THEN n + 1 ELSE f[i]]
<1> HIDE DEF more, m
<1>3. g \in [1 .. m + 1 -> 1 .. n + 1] /\ g[m + 1] = n + 1 /\ \A i \in 1 .. m : g[i] = f[i] /\ f[i] \in 1 .. n
  BY <1>2
<1> HIDE DEF g
<1>4. ASSUME NEW i \in 1 .. m + 1, NEW j \in 1 .. m + 1, i < j
      PROVE  g[i] < g[j]
  <2>1. i \in 1 .. m
    BY <1>2, <1>4
  <2>2. CASE j \in 1 .. m
    BY <1>1, <1>3, <1>4, <2>1, <2>2
  <2>3. CASE j = m + 1
    BY <1>3, <2>1, <2>3
  <2>4. QED
    BY <1>2, <2>2, <2>3
<1>5. ASSUME NEW i \in 1 .. m + 1
      PROVE  more[i].bytes = parts[g[i]].bytes /\ more[i].val = parts[g[i]].a
  <2>1. CASE i \in 1 .. m
    BY <1>1, <1>2, <1>3, <2>1
  <2>2. CASE i = m + 1
    BY <1>2, <1>3, <2>2
  <2>3. QED
    BY <1>2, <2>1, <2>2
<1>6. ASSUME NEW k \in 1 .. n + 1
      PROVE  parts[k].bytes # <<>> <=> \E i \in 1 .. m + 1 : g[i] = k
  <2>1. CASE k \in 1 .. n
    <3>1. parts[k].bytes # <<>> <=> \E i \in 1 .. m : f[i] = k
      BY <1>1, <2>1
    <3>2. (\E i \in 1 .. m : f[i] = k) => \E i \in 1 .. m + 1 : g[i] = k
      BY <1>2, <1>3
    <3>3. ASSUME NEW i \in 1 .. m + 1, g[i] = k
          PROVE  i \in 1 .. m /\ f[i] = k
      BY <1>2, <1>3, <2>1, <3>3
    <3>4. QED
      BY <3>1, <3>2, <3>3
  <2>2. CASE k = n + 1
    <3>1. m + 1 \in 1 .. m + 1
      BY <1>2
    <3>2. QED
      BY <1>3, <2>2, <3>1
  <2>3. QED
    BY <2>1, <2>2
<1>7. ListsUpTo(more, parts, n + 1)
  <2>1. /\ g \in [1 .. Len(more) -> 1 .. n + 1]
        /\ \A i, j \in 1 .. Len(more) : i < j => g[i] < g[j]
        /\ \A i \in 1 .. Len(more) : more[i].bytes = parts[g[i]].bytes /\ more[i].val = parts[g[i]].a
        /\ \A k \in 1 .. n + 1 : parts[k].bytes # <<>> <=> \E i \in 1 .. Len(more) : g[i] = k
    BY <1>2, <1>3, <1>4, <1>5, <1>6
  <2>2. QED
    BY <2>1, Zenon DEF ListsUpTo
<1>8. QED
  BY <1>7 DEF more

\* What comes behind them does not matter.
LEMMA ListsSame ==
  ASSUME NEW S, NEW shown \in Seq(S), NEW parts, NEW more, NEW n \in Nat, ListsUpTo(shown, parts, n),
         \A i \in 1 .. n : more[i] = parts[i]
  PROVE  ListsUpTo(shown, more, n)
<1> DEFINE m == Len(shown)
<1>1. PICK f \in [1 .. m -> 1 .. n] :
        /\ \A i, j \in 1 .. m : i < j => f[i] < f[j]
        /\ \A i \in 1 .. m : shown[i].bytes = parts[f[i]].bytes /\ shown[i].val = parts[f[i]].a
        /\ \A k \in 1 .. n : parts[k].bytes # <<>> <=> \E i \in 1 .. m : f[i] = k
  BY DEF ListsUpTo
<1>2. \A i \in 1 .. m : f[i] \in 1 .. n
  OBVIOUS
<1> HIDE DEF m
<1>3. \A i \in 1 .. m : shown[i].bytes = more[f[i]].bytes /\ shown[i].val = more[f[i]].a
  BY <1>1, <1>2
<1>4. \A k \in 1 .. n : more[k].bytes # <<>> <=> \E i \in 1 .. m : f[i] = k
  BY <1>1
<1>5. QED
  BY <1>1, <1>3, <1>4 DEF ListsUpTo, m

\* A transfer that fits did so all the time.
LEMMA FitsBefore ==
  ASSUME BusOK, Fits(xfer'),
         \/ xfer' = xfer
         \/ \E w \in {0, 1}, a \in 0 .. 127 : \E q, p \in Sent : Addresses(w, a, q, p)
         \/ \E d \in Byte : \E q, p \in Sent : Transfers(d, q, p)
  PROVE  Fits(xfer)
<1>1. PICK n \in 0 .. MaxText :
        /\ \A i \in DOMAIN xfer' : Len(xfer'[i].bytes) <= n
        /\ Len(xfer') * (3 * n + 12) <= MaxText
  BY Zenon DEF Fits
<1> DEFINE room == 3 * n + 12
<1>8. n \in Nat
  BY <1>1 DEF MaxText
<1>9. MaxText \in Nat
  BY DEF MaxText
<1>6. room \in Nat /\ \A i \in DOMAIN xfer' : Len(xfer'[i].bytes) <= n
  BY <1>1, <1>8
<1>7. Len(xfer') * room <= MaxText
  BY <1>1
<1>2. CASE xfer' = xfer
  BY <1>2
<1>3. ASSUME NEW w \in {0, 1}, NEW a \in 0 .. 127, NEW q \in Sent, NEW p \in Sent, Addresses(w, a, q, p)
      PROVE  Fits(xfer)
  <2>1. /\ xfer' \in Seq(PartTypes) /\ xfer \in Seq(PartTypes) /\ Len(xfer') = Len(xfer) + 1
        /\ \A i \in 1 .. Len(xfer) : xfer'[i] = xfer[i]
    BY <1>3, AddressesPart DEF BusOK
  <2>2. \A i \in DOMAIN xfer : Len(xfer[i].bytes) <= n
    <3>1. DOMAIN xfer = 1 .. Len(xfer) /\ DOMAIN xfer' = 1 .. Len(xfer) + 1 /\ Len(xfer) \in Nat
      BY <2>1
    <3>2. QED
      BY <1>6, <2>1, <3>1
  <2>3. Len(xfer) * room <= MaxText
    <3> DEFINE m == Len(xfer)
    <3> HIDE DEF room
    <3>1. m \in Nat /\ (m + 1) * room <= MaxText
      BY <1>7, <2>1
    <3> HIDE DEF m
    <3>2. (m + 1) * room = m * room + room /\ m * room \in Nat
      BY <1>6, <3>1
    <3>3. QED
      BY <1>6, <1>9, <3>1, <3>2 DEF m
  <2>4. QED
    BY <2>2, <2>3, Zenon DEF Fits
<1>4. ASSUME NEW d \in Byte, NEW q \in Sent, NEW p \in Sent, Transfers(d, q, p)
      PROVE  Fits(xfer)
  <2>1. /\ xfer' \in Seq(PartTypes) /\ xfer \in Seq(PartTypes) /\ Len(xfer') = Len(xfer)
        /\ \A i \in 1 .. Len(xfer) - 1 : xfer'[i] = xfer[i]
        /\ Here'.bytes = Append(Here.bytes, d) /\ Here = xfer[Len(xfer)] /\ Here' = xfer'[Len(xfer)]
        /\ Here \in PartTypes /\ xfer # <<>>
    BY <1>4, TransfersPart DEF BusOK, Here, Last
  <2>2. Len(Here.bytes) <= Len(Here'.bytes)
    <3>1. Here.bytes \in Seq(Byte)
      BY <2>1 DEF PartTypes
    <3>2. Len(Append(Here.bytes, d)) = Len(Here.bytes) + 1 /\ Len(Here.bytes) \in Nat
      BY <3>1
    <3>3. QED
      BY <2>1, <3>2
  <2>3. ASSUME NEW i \in 1 .. Len(xfer)
        PROVE  Len(xfer[i].bytes) <= n
    <3>1. Len(xfer'[i].bytes) <= n /\ Len(Here'.bytes) <= n
      BY <1>1, <2>1
    <3>2. CASE i = Len(xfer)
      <4>1. Here.bytes \in Seq(Byte) /\ Here'.bytes \in Seq(Byte)
        BY <1>4, <2>1, TransfersPart DEF PartTypes
      <4>2. Len(Here.bytes) \in Nat /\ Len(Here'.bytes) \in Nat
        BY <4>1
      <4>3. QED
        BY <2>1, <2>2, <3>1, <3>2, <4>2
    <3>3. CASE i \in 1 .. Len(xfer) - 1
      BY <2>1, <3>1, <3>3
    <3>4. QED
      BY <2>1, <3>2, <3>3
  <2>4. \A i \in DOMAIN xfer : Len(xfer[i].bytes) <= n
    BY <2>1, <2>3
  <2>5. Len(xfer) * (3 * n + 12) <= MaxText
    BY <1>1, <2>1
  <2>6. QED
    BY <2>4, <2>5, Zenon DEF Fits
<1>5. QED
  BY <1>2, <1>3, <1>4

\* In a transfer that fits every part fits into the buffer of the data.
LEMMA FitsData ==
  ASSUME BusOK, Within, Fits(xfer)
  PROVE  Len(Here.bytes) <= 4096
<1>1. Here.bytes \in Seq(Byte) /\ xfer \in Seq(PartTypes) /\ xfer # <<>>
  BY HereTyped
<1>2. Len(xfer) \in DOMAIN xfer /\ Here = xfer[Len(xfer)]
  BY <1>1 DEF Here, Last
<1>3. PICK n \in 0 .. MaxText : \A i \in DOMAIN xfer : Len(xfer[i].bytes) <= n
  BY Zenon DEF Fits
<1>4. Len(Here.bytes) <= n
  BY <1>2, <1>3
<1>5. Len(Here.bytes) \in Nat
  BY <1>1
<1>6. n \in Nat /\ n <= 4096
  BY <1>3 DEF MaxText
<1> DEFINE have == Len(Here.bytes)
<1>7. have \in Nat /\ have <= n
  BY <1>4, <1>5
<1> HIDE DEF have
<1>8. have <= 4096
  BY <1>6, <1>7
<1>9. QED
  BY <1>8 DEF have

PacketCmd(r) == IF r = 1 THEN "PACKET READ" ELSE "PACKET WRITE"
PacketOf(r, a, data) == [cmd |-> PacketCmd(r), val |-> a, bytes |-> data]
SevenBit == 0 .. 127
Signs == {0, 1}
Nothing == <<>>
PacketTypes == [cmd : {PacketCmd(r) : r \in Signs}, val : SevenBit, bytes : Seq(Byte)]

Packeter(a, r, data, str, sent, rep) ==
    [state |-> "none", address |-> a, read_sign |-> r, packet_data |-> data,
     packet_str |-> str, sent |-> sent, rep |-> rep]

\* The buffer holds the data of the part, the text those of the parts before.
i2c_packet_OK ==
    /\ s = Packeter(s.address, s.read_sign, s.packet_data, s.packet_str, s.sent, s.rep)
    /\ s.address \in SevenBit /\ s.read_sign \in Signs
    /\ s.packet_data \in Seq(Byte) /\ s.packet_str \in Seq(PacketTypes)
    /\ ~Within => s.packet_data = <<>>
    /\ phase = "stopped" => s.packet_str = <<>>
    /\ phase = "address" /\ Fits(xfer) => ListsUpTo(s.packet_str, xfer, Len(xfer))
    /\ Within =>
        /\ s.address = Here.a /\ Fills(s.packet_data, Here.bytes, 0, 4096)
        /\ Fits(xfer) => ListsUpTo(s.packet_str, xfer, Len(xfer) - 1)

LEMMA PacketerFields ==
  ASSUME NEW st, NEW a, NEW r, NEW data, NEW str, NEW sent, NEW rep,
         st = Packeter(a, r, data, str, sent, rep)
  PROVE  /\ st.address = a /\ st.read_sign = r /\ st.packet_data = data /\ st.packet_str = str
         /\ st.sent = sent /\ st.rep = rep
         /\ st = Packeter(st.address, st.read_sign, st.packet_data, st.packet_str, st.sent, st.rep)
BY DEF Packeter

LEMMA PacketFields ==
  ASSUME NEW r \in Signs, NEW a \in SevenBit, NEW data \in Seq(Byte)
  PROVE  /\ PacketOf(r, a, data) \in PacketTypes
         /\ PacketOf(r, a, data).val = a /\ PacketOf(r, a, data).bytes = data
<1>1. PacketCmd(r) \in {PacketCmd(x) : x \in Signs}
  OBVIOUS
<1>2. QED
  BY <1>1 DEF PacketOf, PacketTypes

LEMMA i2c_packet_Receives ==
  ASSUME upper = "i2c_packet"
  PROVE  /\ \A st, p : Recv(upper, st, p) = i2c_packet_recv(st, p)
         /\ \A st : Silenced(upper, st) = [st EXCEPT !.rep = <<>>, !.sent = <<>>]
         /\ ResetOf(upper) = Packeter(0, 0, <<>>, <<>>, <<>>, <<>>)
<1>1. \A st, p : Recv(upper, st, p) = i2c_packet_recv(st, p)
  BY DEF Recv
<1>2. \A st : Silenced(upper, st) = [st EXCEPT !.rep = <<>>, !.sent = <<>>]
  BY DEF Silenced, Relays
<1>3. ResetOf(upper) = Packeter(0, 0, <<>>, <<>>, <<>>, <<>>)
  BY DEF ResetOf, i2c_packet_reset, Packeter
<1>4. QED
  BY <1>1, <1>2, <1>3

\* What each packet does.
LEMMA i2c_packet_Ignores ==
  ASSUME NEW st, NEW p, p.cmd \in {"BITS", "ACK", "NACK"}
  PROVE  i2c_packet_recv(st, p) = st
BY Zenon DEF i2c_packet_recv, IsData, IsAddress

LEMMA i2c_packet_Keeps ==
  ASSUME NEW a, NEW r, NEW data, NEW str, NEW sent, NEW rep, NEW p, IsData(p)
  PROVE  i2c_packet_recv(Packeter(a, r, data, str, sent, rep), p) =
            Packeter(a, r, Keep(data, p.val, 4096), str, sent, rep)
<1> DEFINE st == Packeter(a, r, data, str, sent, rep)  k == Keep(data, p.val, 4096)
<1>1. \A x : i2c_packet_recv(x, p) = [x EXCEPT !.packet_data = Keep(x.packet_data, p.val, 4096)]
  <2>1. ~(p.cmd \in {"START", "START REPEAT"}) /\ ~IsAddress(p) /\ ~(p.cmd = "STOP")
    BY Zenon DEF IsData, IsAddress
  <2>2. \A x : i2c_packet_recv(x, p) = i2c_packet_byte(x, p)
    BY <2>1, Zenon DEF i2c_packet_recv
  <2>3. QED
    BY <2>2 DEF i2c_packet_byte
<1>2. st.packet_data = data
  BY DEF Packeter
<1>3. Keep(st.packet_data, p.val, 4096) = k
  BY <1>2
<1> HIDE DEF k
<1>4. [st EXCEPT !.packet_data = k] = Packeter(a, r, k, str, sent, rep)
  BY DEF Packeter
<1> HIDE DEF st
<1>5. i2c_packet_recv(st, p) = Packeter(a, r, k, str, sent, rep)
  BY <1>1, <1>3, <1>4
<1>6. QED
  BY <1>5 DEF st, k

LEMMA i2c_packet_Turns ==
  ASSUME NEW a, NEW r, NEW data, NEW str, NEW sent, NEW rep, NEW p, IsAddress(p)
  PROVE  \E sign \in Signs :
            i2c_packet_recv(Packeter(a, r, data, str, sent, rep), p) =
                Packeter(p.val, sign, data, str, sent, rep)
<1> DEFINE st == Packeter(a, r, data, str, sent, rep)
           sign == IF p.cmd = "ADDRESS READ" THEN 1 ELSE 0
           who == p.val
<1>1. i2c_packet_recv(st, p) = [st EXCEPT !.address = who, !.read_sign = sign]
  <2>1. ~IsData(p) /\ ~(p.cmd \in {"START", "START REPEAT"}) /\ ~(p.cmd = "STOP")
    BY Zenon DEF IsData, IsAddress
  <2> HIDE DEF st
  <2>2. i2c_packet_recv(st, p) = i2c_packet_address(st, p)
    BY <2>1, Zenon DEF i2c_packet_recv
  <2>3. QED
    BY <2>2, Zenon DEF i2c_packet_address
<1>2. sign \in Signs
  BY Zenon DEF Signs
<1> HIDE DEF sign, who
<1>3. PICK y : y = [st EXCEPT !.address = who, !.read_sign = sign]
  OBVIOUS
<1>4. /\ y.state = "none" /\ y.address = who /\ y.read_sign = sign /\ y.packet_data = data
      /\ y.packet_str = str /\ y.sent = sent /\ y.rep = rep
  BY <1>3 DEF Packeter
<1>5. y = Packeter(who, sign, data, str, sent, rep)
  BY <1>3, <1>4 DEF Packeter
<1> HIDE DEF st
<1>6. i2c_packet_recv(st, p) = Packeter(who, sign, data, str, sent, rep)
  BY <1>1, <1>3, <1>5
<1>7. QED
  BY <1>2, <1>6 DEF st, who

LEMMA i2c_packet_Clears ==
  ASSUME NEW a, NEW r, NEW data, NEW str, NEW sent, NEW rep
  PROVE  i2c_packet_reset_state(Packeter(a, r, data, str, sent, rep)) =
            Packeter(0, 0, <<>>, <<>>, sent, rep)
<1> DEFINE st == Packeter(a, r, data, str, sent, rep)  none == <<>>  zero == 0
           fresh == Packeter(zero, zero, none, none, none, none)
<1>1. st.sent = sent /\ st.rep = rep
  BY DEF Packeter
<1>2. i2c_packet_reset = fresh
  BY DEF i2c_packet_reset, Packeter
<1> HIDE DEF st, none, zero
<1>3. i2c_packet_reset_state(st) = [i2c_packet_reset EXCEPT !.sent = sent, !.rep = rep]
  BY <1>1 DEF i2c_packet_reset_state
<1>4. PICK y : y = [fresh EXCEPT !.sent = sent, !.rep = rep]
  OBVIOUS
<1>5. /\ y.state = "none" /\ y.address = zero /\ y.read_sign = zero /\ y.packet_data = none
      /\ y.packet_str = none /\ y.sent = sent /\ y.rep = rep
  BY <1>4 DEF Packeter
<1>6. y = Packeter(zero, zero, none, none, sent, rep)
  BY <1>4, <1>5 DEF Packeter
<1> HIDE DEF fresh
<1>7. i2c_packet_reset_state(st) = Packeter(zero, zero, none, none, sent, rep)
  BY <1>2, <1>3, <1>4, <1>6
<1>8. QED
  BY <1>7 DEF st, none, zero

LEMMA i2c_packet_Merges ==
  ASSUME NEW a, NEW r, NEW data, NEW str, NEW rep
  PROVE  i2c_packet_merge(Packeter(a, r, data, str, <<>>, rep)) =
            Packeter(a, r, <<>>, Append(str, PacketOf(r, a, data)), <<PacketOf(r, a, data)>>, rep)
<1> DEFINE none == <<>>  part == PacketOf(r, a, data)
           st == Packeter(a, r, data, str, none, rep)
           all == Append(str, part)  one == Append(none, part)
<1>1. /\ st.address = a /\ st.read_sign = r /\ st.packet_data = data /\ st.packet_str = str
      /\ st.sent = none
  BY DEF Packeter
<1>2. one = <<part>>
  OBVIOUS
<1> HIDE DEF st
<1>3. i2c_packet_PACKET(st) = part
  BY <1>1, Zenon DEF i2c_packet_PACKET, PacketOf, PacketCmd
<1> HIDE DEF part
<1>4. i2c_packet_merge(st) =
        [st EXCEPT !.sent = Append(st.sent, part), !.packet_str = Append(st.packet_str, part),
                   !.packet_data = none]
  BY <1>3, Zenon DEF i2c_packet_merge
<1>5. Append(st.sent, part) = one /\ Append(st.packet_str, part) = all
  BY <1>1
<1> HIDE DEF all, one, none
<1>6. i2c_packet_merge(st) = [st EXCEPT !.sent = one, !.packet_str = all, !.packet_data = none]
  BY <1>4, <1>5
<1>7. PICK y : y = [st EXCEPT !.sent = one, !.packet_str = all, !.packet_data = none]
  OBVIOUS
<1>8. /\ y.state = "none" /\ y.address = a /\ y.read_sign = r /\ y.packet_data = none
      /\ y.packet_str = all /\ y.sent = one /\ y.rep = rep
  BY <1>7 DEF st, Packeter
<1>9. y = Packeter(a, r, none, all, one, rep)
  BY <1>7, <1>8 DEF st, Packeter
<1>10. i2c_packet_merge(st) = Packeter(a, r, none, all, one, rep)
  BY <1>6, <1>7, <1>9
<1>11. QED
  BY <1>2, <1>10 DEF st, part, none, all

LEMMA i2c_packet_Finishes ==
  ASSUME NEW a, NEW r, NEW data, NEW str
  PROVE  i2c_packet_finish(Packeter(a, r, data, str, <<>>, <<>>)) =
            Packeter(0, 0, <<>>, <<>>, <<PacketOf(r, a, data), i2c_packet_END>>,
                     <<Report(-1, Append(str, PacketOf(r, a, data)))>>)
<1> DEFINE none == <<>>  part == PacketOf(r, a, data)
           st == Packeter(a, r, data, str, none, none)
           report == Report(-1, Append(str, part))
           shown == Append(none, report)  both == none \o <<part, i2c_packet_END>>
<1>1. /\ st.address = a /\ st.read_sign = r /\ st.packet_data = data /\ st.packet_str = str
      /\ st.sent = none /\ st.rep = none
  BY DEF Packeter
<1>2. shown = <<report>> /\ both = <<part, i2c_packet_END>>
  <2> HIDE DEF report, part
  <2>1. QED
    OBVIOUS
<1> HIDE DEF st
<1>3. i2c_packet_PACKET(st) = part
  BY <1>1, Zenon DEF i2c_packet_PACKET, PacketOf, PacketCmd
<1> HIDE DEF part
<1> DEFINE t == [st EXCEPT !.sent = st.sent \o <<part, i2c_packet_END>>,
                           !.rep = Append(st.rep, Report(-1, Append(st.packet_str, part)))]
<1>4. i2c_packet_finish(st) = i2c_packet_reset_state(t)
  BY <1>3, Zenon DEF i2c_packet_finish
<1>5. st.sent \o <<part, i2c_packet_END>> = both
      /\ Append(st.rep, Report(-1, Append(st.packet_str, part))) = shown
  BY <1>1
<1> HIDE DEF shown, both, none, report
<1>6. t = [st EXCEPT !.sent = both, !.rep = shown]
  BY <1>5
<1> HIDE DEF t
<1>7. PICK y : y = [st EXCEPT !.sent = both, !.rep = shown]
  OBVIOUS
<1>8. /\ y.state = "none" /\ y.address = a /\ y.read_sign = r /\ y.packet_data = data
      /\ y.packet_str = str /\ y.sent = both /\ y.rep = shown
  BY <1>7 DEF st, Packeter
<1>9. y = Packeter(a, r, data, str, both, shown)
  BY <1>7, <1>8 DEF st, Packeter
<1>10. i2c_packet_finish(st) = Packeter(0, 0, <<>>, <<>>, both, shown)
  BY <1>4, <1>6, <1>7, <1>9, i2c_packet_Clears
<1>11. QED
  BY <1>2, <1>10 DEF st, part, none, report

\* START, START REPEAT and STOP.
LEMMA i2c_packet_Handles ==
  ASSUME NEW st, NEW p
  PROVE  /\ p.cmd = "START REPEAT" =>
              i2c_packet_recv(st, p) = IF st.packet_data = <<>> THEN st ELSE i2c_packet_merge(st)
         /\ p.cmd \in {"START", "STOP"} =>
              i2c_packet_recv(st, p) =
                IF st.packet_data = <<>> THEN i2c_packet_reset_state(st) ELSE i2c_packet_finish(st)
<1>1. i2c_packet_handle_packet(st, TRUE) = IF st.packet_data = <<>> THEN st ELSE i2c_packet_merge(st)
  BY Zenon DEF i2c_packet_handle_packet
<1>2. i2c_packet_handle_packet(st, FALSE) =
        IF st.packet_data = <<>> THEN i2c_packet_reset_state(st) ELSE i2c_packet_finish(st)
  BY Zenon DEF i2c_packet_handle_packet
<1>3. ASSUME p.cmd = "START REPEAT"
      PROVE  i2c_packet_recv(st, p) = i2c_packet_handle_packet(st, TRUE)
  <2>1. ~IsData(p) /\ ~IsAddress(p) /\ ~(p.cmd = "STOP") /\ (p.cmd = "START REPEAT") = TRUE
    BY <1>3, Zenon DEF IsData, IsAddress
  <2>2. QED
    BY <1>3, <2>1, Zenon DEF i2c_packet_recv
<1>4. ASSUME p.cmd = "START"
      PROVE  i2c_packet_recv(st, p) = i2c_packet_handle_packet(st, FALSE)
  <2>1. ~IsData(p) /\ ~IsAddress(p) /\ ~(p.cmd = "STOP") /\ (p.cmd = "START REPEAT") = FALSE
    BY <1>4, Zenon DEF IsData, IsAddress
  <2>2. QED
    BY <1>4, <2>1, Zenon DEF i2c_packet_recv
<1>5. ASSUME p.cmd = "STOP"
      PROVE  i2c_packet_recv(st, p) = i2c_packet_handle_packet(st, FALSE)
  <2>1. ~IsData(p) /\ ~IsAddress(p) /\ ~(p.cmd \in {"START", "START REPEAT"})
    BY <1>5, Zenon DEF IsData, IsAddress
  <2>2. QED
    BY <1>5, <2>1, Zenon DEF i2c_packet_recv
<1>6. QED
  BY <1>1, <1>2, <1>3, <1>4, <1>5, Zenon

LEMMA i2c_packet_Becomes ==
  ASSUME NEW a \in SevenBit, NEW r \in Signs, NEW data \in Seq(Byte), NEW str \in Seq(PacketTypes),
         NEW sent, NEW rep, s' = Packeter(a, r, data, str, sent, rep),
         ~Within' => data = Nothing,
         phase' = "stopped" => str = Nothing,
         phase' = "address" /\ Fits(xfer') => ListsUpTo(str, xfer', Len(xfer')),
         Within' => a = Here'.a /\ Fills(data, Here'.bytes, 0, 4096),
         Within' /\ Fits(xfer') => ListsUpTo(str, xfer', Len(xfer') - 1)
  PROVE  i2c_packet_OK' /\ s'.sent = sent /\ s'.rep = rep
<1>1. /\ s' = Packeter(s'.address, s'.read_sign, s'.packet_data, s'.packet_str, s'.sent, s'.rep)
      /\ s'.address = a /\ s'.read_sign = r /\ s'.packet_data = data /\ s'.packet_str = str
      /\ s'.sent = sent /\ s'.rep = rep
  BY PacketerFields
<1>2. Fits(xfer') <=> Fits(xfer)'
  OBVIOUS
<1>3. /\ ListsUpTo(str, xfer', Len(xfer')) <=> ListsUpTo(s.packet_str, xfer, Len(xfer))'
      /\ ListsUpTo(str, xfer', Len(xfer') - 1) <=> ListsUpTo(s.packet_str, xfer, Len(xfer) - 1)'
      /\ Fills(data, Here'.bytes, 0, 4096) <=> Fills(s.packet_data, Here.bytes, 0, 4096)'
  BY <1>1
<1>4. QED
  BY <1>1, <1>2, <1>3 DEF i2c_packet_OK, Nothing

\* Nothing is sent.
LEMMA NothingRelayed ==
  ASSUME s'.sent = <<>>, s'.rep = <<>>
  PROVE  PacketRelayed'
<1>1. DOMAIN <<>> = {}
  OBVIOUS
<1>2. QED
  BY <1>1, Zenon DEF PacketRelayed

\* A part is sent.
LEMMA PartRelayed ==
  ASSUME NEW part, s'.sent = <<part>>, s'.rep = <<>>,
         Fits(xfer)' => part.bytes = Last(xfer').bytes /\ part.val = Last(xfer').a
  PROVE  PacketRelayed'
<1>1. DOMAIN <<>> = {}
  OBVIOUS
<1>2. \A i \in DOMAIN <<part>> : <<part>>[i] = part
  OBVIOUS
<1>3. QED
  BY <1>1, <1>2, Zenon DEF PacketRelayed

\* The last part, and the transfer.
LEMMA EndRelayed ==
  ASSUME NEW part, NEW all, s'.sent = <<part, i2c_packet_END>>, s'.rep = <<Report(-1, all)>>,
         Fits(xfer)' => /\ part.bytes = Last(xfer').bytes /\ part.val = Last(xfer').a
                        /\ Lists(all, xfer')
  PROVE  PacketRelayed'
<1>1. \A i \in DOMAIN <<part, i2c_packet_END>> :
        <<part, i2c_packet_END>>[i] = part \/ <<part, i2c_packet_END>>[i] = i2c_packet_END
  OBVIOUS
<1>2. \A i \in DOMAIN <<Report(-1, all)>> : <<Report(-1, all)>>[i].bytes = all
  BY DEF Report
<1>3. i2c_packet_END.cmd = "TRANSACTION END"
  BY Zenon DEF i2c_packet_END
<1>4. QED
  BY <1>1, <1>2, <1>3, Zenon DEF PacketRelayed

\* What is in the buffer when the part is over is the part.
LEMMA PartKept ==
  ASSUME BusOK, Within, Fits(xfer), NEW data \in Seq(Byte), Fills(data, Here.bytes, 0, 4096)
  PROVE  data = Here.bytes
<1>1. Here.bytes \in Seq(Byte) /\ Len(Here.bytes) - 0 <= 4096
  <2>1. Here.bytes \in Seq(Byte) /\ Len(Here.bytes) <= 4096
    BY HereTyped, FitsData
  <2> DEFINE have == Len(Here.bytes)
  <2>2. have \in Nat /\ have <= 4096
    BY <2>1
  <2> HIDE DEF have
  <2>3. have - 0 <= 4096
    BY <2>2
  <2>4. QED
    BY <2>1, <2>3 DEF have
<1>2. 0 \in Nat /\ 4096 \in Nat
  OBVIOUS
<1>3. QED
  BY <1>1, <1>2, FillsAll

\* The part that is over joins the others, if it has data.
LEMMA PartListed ==
  ASSUME BusOK, Within, Fits(xfer), NEW str \in Seq(PacketTypes), NEW part \in PacketTypes,
         ListsUpTo(str, xfer, Len(xfer) - 1), part.bytes = Here.bytes, part.val = Here.a
  PROVE  /\ Here.bytes = <<>> => ListsUpTo(str, xfer, Len(xfer))
         /\ Here.bytes # <<>> => ListsUpTo(Append(str, part), xfer, Len(xfer))
<1> DEFINE n == Len(xfer) - 1
<1>1. xfer \in Seq(PartTypes) /\ xfer # <<>>
  BY HereTyped
<1>2. n \in Nat /\ n + 1 = Len(xfer) /\ Here = xfer[n + 1]
  BY <1>1 DEF Here, Last
<1> HIDE DEF n
<1>3. ListsUpTo(str, xfer, n)
  BY DEF n
<1>4. ASSUME Here.bytes = <<>>
      PROVE  ListsUpTo(str, xfer, n + 1)
  BY <1>2, <1>3, <1>4, ListsSkip
<1>5. ASSUME Here.bytes # <<>>
      PROVE  ListsUpTo(Append(str, part), xfer, n + 1)
  BY <1>2, <1>3, <1>5, ListsAdd
<1>6. QED
  BY <1>2, <1>4, <1>5

\* Every event of the bus keeps its invariant, and what it sends is right.
LEMMA i2c_packet_Step ==
  ASSUME upper = "i2c_packet", upper' = upper, BusOK, BusOK', i2c_packet_OK, Steps
  PROVE  i2c_packet_OK' /\ PacketRelayed'
<1> DEFINE none == <<>>
           a == s.address  r == s.read_sign  data == s.packet_data  str == s.packet_str
           t == Packeter(a, r, data, str, none, none)
           part == PacketOf(r, a, data)
<1>1. /\ a \in SevenBit /\ r \in Signs /\ data \in Seq(Byte) /\ str \in Seq(PacketTypes)
  BY DEF i2c_packet_OK
<1>2. Hushed = t
  <2>1. s = Packeter(a, r, data, str, s.sent, s.rep)
    BY DEF i2c_packet_OK
  <2>2. Hushed = [s EXCEPT !.rep = <<>>, !.sent = <<>>]
    BY i2c_packet_Receives DEF Hushed
  <2>3. PICK y : y = [s EXCEPT !.rep = <<>>, !.sent = <<>>]
    OBVIOUS
  <2> HIDE DEF a, r, data, str
  <2>4. /\ y.state = "none" /\ y.address = a /\ y.read_sign = r /\ y.packet_data = data
        /\ y.packet_str = str /\ y.sent = <<>> /\ y.rep = <<>>
    BY <2>1, <2>3 DEF Packeter
  <2>5. y = Packeter(a, r, data, str, <<>>, <<>>)
    BY <2>1, <2>3, <2>4 DEF Packeter
  <2>6. QED
    BY <2>2, <2>3, <2>5 DEF a, r, data, str
<1>3. /\ ~Within => data = none
      /\ phase = "stopped" => str = none
      /\ phase = "address" /\ Fits(xfer) => ListsUpTo(str, xfer, Len(xfer))
      /\ Within => a = Here.a /\ Fills(data, Here.bytes, 0, 4096)
      /\ Within /\ Fits(xfer) => ListsUpTo(str, xfer, Len(xfer) - 1)
  BY DEF i2c_packet_OK
<1>4. t.packet_data = data
  BY DEF Packeter
<1>5. \A st, p : Recv(upper, st, p) = i2c_packet_recv(st, p)
  BY i2c_packet_Receives
<1>6. none = <<>>
  OBVIOUS
<1>19. none \in Seq(Byte) /\ none \in Seq(PacketTypes) /\ none = Nothing
  BY DEF Nothing
<1>7. part \in PacketTypes /\ part.val = a /\ part.bytes = data
  <2> HIDE DEF a, r, data
  <2>1. QED
    BY <1>1, PacketFields
<1>8. Packeter(a, r, data, str, <<>>, <<>>) = t
  OBVIOUS
<1> HIDE DEF a, r, data, str, none, t, part
<1>9. ASSUME s'.sent = none, s'.rep = none
      PROVE  PacketRelayed'
  BY <1>6, <1>9, NothingRelayed
<1>10. ASSUME Within, Fits(xfer)
       PROVE  /\ data = Here.bytes /\ a = Here.a
              /\ data = none => ListsUpTo(str, xfer, Len(xfer))
              /\ data # none => ListsUpTo(Append(str, part), xfer, Len(xfer))
  <2>1. data = Here.bytes /\ a = Here.a /\ ListsUpTo(str, xfer, Len(xfer) - 1)
    BY <1>1, <1>3, <1>10, PartKept
  <2>2. part.bytes = Here.bytes /\ part.val = Here.a
    BY <1>7, <2>1
  <2>3. /\ Here.bytes = <<>> => ListsUpTo(str, xfer, Len(xfer))
        /\ Here.bytes # <<>> => ListsUpTo(Append(str, part), xfer, Len(xfer))
    BY <1>1, <1>7, <1>10, <2>1, <2>2, PartListed
  <2>4. QED
    BY <1>6, <2>1, <2>3
<1>11. ASSUME NEW p \in Sent, Starts(p)
       PROVE  i2c_packet_OK' /\ PacketRelayed'
  <2>1. /\ s' = i2c_packet_recv(t, p) /\ p.cmd = "START" /\ phase' = "address" /\ ~Within'
        /\ xfer' = <<>> /\ data = none
    BY <1>2, <1>3, <1>5, <1>11 DEF Starts, Within
  <2>2. s' = i2c_packet_reset_state(t)
    BY <1>4, <1>6, <2>1, i2c_packet_Handles, Zenon
  <2>3. s' = Packeter(0, 0, none, none, none, none)
    BY <2>2, i2c_packet_Clears DEF none, t
  <2>4. ListsUpTo(none, xfer', Len(xfer'))
    <3>1. ListsUpTo(none, xfer', 0)
      BY ListsNone DEF none
    <3>2. Len(xfer') = 0
      BY <2>1
    <3>3. QED
      BY <3>1, <3>2
  <2>5. i2c_packet_OK' /\ s'.sent = none /\ s'.rep = none
    <3> DEFINE z == 0
    <3>1. z \in SevenBit /\ z \in Signs /\ s' = Packeter(z, z, none, none, none, none)
      BY <2>3 DEF SevenBit, Signs
    <3> HIDE DEF z
    <3>2. QED
      BY <1>19, <2>1, <2>4, <3>1, i2c_packet_Becomes
  <2>6. QED
    BY <1>9, <2>5
<1>12. ASSUME NEW p \in Sent, Acknowledges(p)
       PROVE  i2c_packet_OK' /\ PacketRelayed'
  <2>1. /\ s' = i2c_packet_recv(t, p) /\ p.cmd \in {"ACK", "NACK"}
        /\ Within /\ phase' = "data" /\ xfer' = xfer
    BY <1>2, <1>5, <1>12 DEF Acknowledges, Within
  <2>2. s' = t
    BY <2>1, i2c_packet_Ignores
  <2>3. Here' = Here
    BY <2>1, HereTyped
  <2>4. i2c_packet_OK' /\ s'.sent = none /\ s'.rep = none
    <3>1. s' = Packeter(a, r, data, str, none, none)
      BY <2>2 DEF t
    <3>2. /\ Within' /\ phase' # "stopped" /\ phase' # "address"
          /\ a = Here'.a /\ Fills(data, Here'.bytes, 0, 4096)
          /\ Fits(xfer') => ListsUpTo(str, xfer', Len(xfer') - 1)
      BY <1>3, <2>1, <2>3 DEF Within
    <3>3. QED
      BY <1>1, <3>1, <3>2, <1>19, i2c_packet_Becomes
  <2>5. QED
    BY <1>9, <2>4
<1>13. ASSUME NEW p \in Sent, Repeats(p)
       PROVE  i2c_packet_OK' /\ PacketRelayed'
  <2>1. s' = i2c_packet_recv(t, p) /\ phase' = "address" /\ xfer' = xfer
        /\ Within /\ ~Within' /\ phase' # "stopped"
    BY <1>2, <1>5, <1>13 DEF Repeats, Within
  <2>2. p.cmd = "START REPEAT"
    BY <1>13, Zenon DEF Repeats
  <2>3. CASE data = none
    <3>1. s' = t
      BY <1>4, <1>6, <2>1, <2>2, <2>3, i2c_packet_Handles, Zenon
    <3>2. s' = Packeter(a, r, none, str, none, none)
      BY <2>3, <3>1 DEF t
    <3>3. Fits(xfer') => ListsUpTo(str, xfer', Len(xfer'))
      BY <1>10, <2>1, <2>3
    <3>4. i2c_packet_OK' /\ s'.sent = none /\ s'.rep = none
      BY <1>1, <1>19, <2>1, <3>2, <3>3, i2c_packet_Becomes
    <3>5. QED
      BY <1>9, <3>4
  <2>4. CASE data # none
    <3> DEFINE all == Append(str, part)  one == <<part>>
    <3>1. s' = i2c_packet_merge(t)
      BY <1>4, <1>6, <2>1, <2>2, <2>4, i2c_packet_Handles, Zenon
    <3>2. s' = Packeter(a, r, none, all, one, none)
      BY <3>1, i2c_packet_Merges DEF t, part, none
    <3>3. all \in Seq(PacketTypes)
      BY <1>1, <1>7, AppendProperties
    <3>4. Fits(xfer') => ListsUpTo(all, xfer', Len(xfer'))
      BY <1>10, <2>1, <2>4
    <3> HIDE DEF all, one
    <3>5. i2c_packet_OK' /\ s'.sent = one /\ s'.rep = none
      BY <1>1, <1>19, <2>1, <3>2, <3>3, <3>4, i2c_packet_Becomes
    <3>6. Fits(xfer)' => part.bytes = Last(xfer').bytes /\ part.val = Last(xfer').a
      BY <1>7, <1>10, <2>1 DEF Here
    <3>7. s'.sent = <<part>> /\ s'.rep = <<>>
      BY <1>6, <3>5 DEF one
    <3>8. PacketRelayed'
      BY <3>6, <3>7, PartRelayed
    <3>9. QED
      BY <3>5, <3>8
  <2>5. QED
    BY <2>3, <2>4
<1>14. ASSUME NEW p \in Sent, Stops(p)
       PROVE  i2c_packet_OK' /\ PacketRelayed'
  <2>1. s' = i2c_packet_recv(t, p) /\ p.cmd = "STOP" /\ phase' = "stopped" /\ xfer' = xfer
        /\ Within /\ ~Within' /\ phase' # "address"
    BY <1>2, <1>5, <1>14 DEF Stops, Within
  <2> DEFINE z == 0
  <2>2. z \in SevenBit /\ z \in Signs
    BY DEF SevenBit, Signs
  <2>3. CASE data = none
    <3>1. s' = i2c_packet_reset_state(t)
      BY <1>4, <1>6, <2>1, <2>3, i2c_packet_Handles, Zenon
    <3>2. s' = Packeter(z, z, none, none, none, none)
      BY <3>1, i2c_packet_Clears DEF none, t
    <3> HIDE DEF z
    <3>3. i2c_packet_OK' /\ s'.sent = none /\ s'.rep = none
      BY <1>19, <2>1, <2>2, <3>2, i2c_packet_Becomes
    <3>4. QED
      BY <1>9, <3>3
  <2>4. CASE data # none
    <3> DEFINE all == Append(str, part)  both == <<part, i2c_packet_END>>  shown == <<Report(-1, all)>>
    <3>1. s' = i2c_packet_finish(t)
      BY <1>4, <1>6, <2>1, <2>4, i2c_packet_Handles, Zenon
    <3>2. s' = Packeter(z, z, none, none, both, shown)
      BY <3>1, i2c_packet_Finishes DEF t, part, none
    <3> HIDE DEF both, shown, z
    <3>3. i2c_packet_OK' /\ s'.sent = both /\ s'.rep = shown
      BY <1>19, <2>1, <2>2, <3>2, i2c_packet_Becomes
    <3> HIDE DEF all
    <3>4. Fits(xfer) => ListsUpTo(all, xfer, Len(xfer)) /\ data = Here.bytes /\ a = Here.a
      BY <1>10, <2>1, <2>4 DEF all
    <3>5. Fits(xfer)' => /\ part.bytes = Last(xfer').bytes /\ part.val = Last(xfer').a
                         /\ Lists(all, xfer')
      BY <1>7, <2>1, <3>4, ListsAll DEF Here
    <3>6. s'.sent = <<part, i2c_packet_END>> /\ s'.rep = <<Report(-1, all)>>
      BY <3>3 DEF both, shown
    <3>7. PacketRelayed'
      BY <3>5, <3>6, EndRelayed
    <3>8. QED
      BY <3>3, <3>7
  <2>5. QED
    BY <2>3, <2>4
<1>15. ASSUME NEW w \in {0, 1}, NEW b \in 0 .. 127, NEW q \in Sent, NEW p \in Sent, Addresses(w, b, q, p)
       PROVE  i2c_packet_OK' /\ PacketRelayed'
  <2>1. /\ s' = i2c_packet_recv(i2c_packet_recv(t, q), p)
        /\ q.cmd = "BITS" /\ p.val = b /\ phase = "address" /\ phase' = "address_ack" /\ ~Within /\ Within'
    BY <1>2, <1>5, <1>15 DEF Addresses, Within
  <2>2. IsAddress(p)
    BY <1>15, Zenon DEF Addresses, IsAddress
  <2>3. i2c_packet_recv(t, q) = t
    BY <2>1, i2c_packet_Ignores
  <2>4. PICK sign \in Signs : s' = Packeter(b, sign, data, str, none, none)
    <3>1. \E sign \in Signs : i2c_packet_recv(t, p) = Packeter(p.val, sign, data, str, none, none)
      BY <2>2, i2c_packet_Turns DEF t
    <3>2. QED
      BY <2>1, <2>3, <3>1
  <2>10. b \in SevenBit
    BY DEF SevenBit
  <2>5. /\ Here'.a = b /\ Here'.bytes = none /\ Len(xfer') = Len(xfer) + 1 /\ xfer \in Seq(PartTypes)
        /\ \A i \in 1 .. Len(xfer) : xfer'[i] = xfer[i]
    BY <1>6, <1>15, AddressesPart DEF BusOK
  <2>6. data = none /\ Fills(none, none, 0, 4096)
    <3>1. Fills(<<>>, <<>>, 0, 4096)
      BY DEF Fills, Window
    <3>2. QED
      BY <1>3, <1>6, <2>1, <3>1
  <2>7. Fits(xfer') => ListsUpTo(str, xfer', Len(xfer') - 1)
    <3>1. ASSUME Fits(xfer')
          PROVE  Fits(xfer)
      BY <1>15, <3>1, FitsBefore
    <3>2. Len(xfer) \in Nat /\ Len(xfer') - 1 = Len(xfer)
      BY <2>5
    <3>3. ASSUME Fits(xfer)
          PROVE  ListsUpTo(str, xfer', Len(xfer))
      <4>1. ListsUpTo(str, xfer, Len(xfer))
        BY <1>3, <2>1, <3>3
      <4>2. QED
        BY <1>1, <2>5, <3>2, <4>1, ListsSame
    <3>4. QED
      BY <3>1, <3>2, <3>3
  <2>8. i2c_packet_OK' /\ s'.sent = none /\ s'.rep = none
    BY <1>1, <1>19, <2>1, <2>4, <2>5, <2>6, <2>7, <2>10, i2c_packet_Becomes
  <2>9. QED
    BY <1>9, <2>8
<1>16. ASSUME NEW d \in Byte, NEW q \in Sent, NEW p \in Sent, Transfers(d, q, p)
       PROVE  i2c_packet_OK' /\ PacketRelayed'
  <2> DEFINE kept == Keep(data, d, 4096)
  <2>1. /\ s' = i2c_packet_recv(i2c_packet_recv(t, q), p)
        /\ q.cmd = "BITS" /\ p.val = d /\ phase' = "data_ack" /\ Within /\ Within'
    BY <1>2, <1>5, <1>16 DEF Transfers, Within
  <2>2. IsData(p)
    BY <1>16, Zenon DEF Transfers, IsData
  <2>3. i2c_packet_recv(t, q) = t
    BY <2>1, i2c_packet_Ignores
  <2>4. s' = Packeter(a, r, kept, str, none, none)
    <3>1. i2c_packet_recv(t, p) = Packeter(a, r, Keep(data, p.val, 4096), str, none, none)
      BY <2>2, i2c_packet_Keeps DEF t
    <3>2. QED
      BY <2>1, <2>3, <3>1
  <2>5. /\ Here'.a = Here.a /\ Here'.bytes = Append(Here.bytes, d) /\ Len(xfer') = Len(xfer)
        /\ \A i \in 1 .. Len(xfer) - 1 : xfer'[i] = xfer[i]
        /\ Here.bytes \in Seq(Byte) /\ xfer \in Seq(PartTypes) /\ xfer # <<>>
    BY <1>16, <2>1, TransfersPart, HereTyped
  <2>6. kept \in Seq(Byte) /\ Fills(kept, Here'.bytes, 0, 4096)
    <3>1. Fills(data, Here.bytes, 0, 4096) /\ 0 \in Nat /\ 4096 \in Nat
      BY <1>3, <2>1
    <3>2. kept \in Seq(Byte) /\ Fills(kept, Append(Here.bytes, d), 0, 4096)
      BY <1>1, <2>5, <3>1, FillsKeep
    <3>3. QED
      BY <2>5, <3>2
  <2>7. Fits(xfer') => ListsUpTo(str, xfer', Len(xfer') - 1)
    <3>1. ASSUME Fits(xfer')
          PROVE  Fits(xfer)
      BY <1>16, <3>1, FitsBefore
    <3> DEFINE n == Len(xfer) - 1
    <3>2. n \in Nat /\ Len(xfer') - 1 = n
      BY <2>5
    <3>3. ASSUME Fits(xfer)
          PROVE  ListsUpTo(str, xfer', n)
      <4>1. ListsUpTo(str, xfer, n) /\ \A i \in 1 .. n : xfer'[i] = xfer[i]
        BY <1>3, <2>1, <2>5, <3>3
      <4> HIDE DEF n
      <4>2. QED
        BY <1>1, <3>2, <4>1, ListsSame
    <3>4. QED
      BY <3>1, <3>2, <3>3
  <2> HIDE DEF kept
  <2>8. i2c_packet_OK' /\ s'.sent = none /\ s'.rep = none
    <3>1. a = Here'.a /\ phase' # "stopped" /\ phase' # "address"
      BY <1>3, <2>1, <2>5
    <3>2. QED
      BY <1>1, <2>1, <2>4, <2>6, <2>7, <3>1, <1>19, i2c_packet_Becomes
  <2>9. QED
    BY <1>9, <2>8
<1>17. CASE Resets
  <2> DEFINE z == 0
  <2>1. z \in SevenBit /\ z \in Signs
    BY DEF SevenBit, Signs
  <2>2. s' = Packeter(z, z, none, none, none, none) /\ phase' = "stopped" /\ ~Within' /\ phase' # "address"
    BY <1>17, i2c_packet_Receives DEF Resets, none, Within
  <2> HIDE DEF z
  <2>3. i2c_packet_OK' /\ s'.sent = none /\ s'.rep = none
    BY <1>19, <2>1, <2>2, i2c_packet_Becomes
  <2>4. QED
    BY <1>9, <2>3
<1>18. QED
  BY <1>11, <1>12, <1>13, <1>14, <1>15, <1>16, <1>17 DEF Steps

LEMMA i2c_packet_Begin ==
  ASSUME upper = "i2c_packet", phase = "stopped", s = ResetOf(upper)
  PROVE  i2c_packet_OK /\ PacketRelayed
<1>1. s = Packeter(0, 0, <<>>, <<>>, <<>>, <<>>)
  BY i2c_packet_Receives
<1>2. /\ s = Packeter(s.address, s.read_sign, s.packet_data, s.packet_str, s.sent, s.rep)
      /\ s.address \in SevenBit /\ s.read_sign \in Signs /\ s.packet_data = <<>> /\ s.packet_str = <<>>
      /\ s.sent = <<>> /\ s.rep = <<>>
  BY <1>1, PacketerFields DEF SevenBit, Signs
<1>3. ~Within
  BY DEF Within
<1>4. i2c_packet_OK
  <2>1. <<>> \in Seq(Byte) /\ <<>> \in Seq(PacketTypes) /\ phase # "address"
    OBVIOUS
  <2>2. s.packet_data \in Seq(Byte) /\ s.packet_str \in Seq(PacketTypes)
    BY <1>2, <2>1
  <2>3. QED
    BY <1>2, <1>3, <2>1, <2>2, Zenon DEF i2c_packet_OK
<1>5. DOMAIN <<>> = {}
  OBVIOUS
<1>6. PacketRelayed
  BY <1>2, <1>5, Zenon DEF PacketRelayed
<1>7. QED
  BY <1>4, <1>6

-----------------------------------------------------------------------------
(* All relays.                                                             *)

\* The inductive invariant: the bus keeps its rules, and the relay that is
\* stacked on it holds of the transfer what its own invariant says.
RelayOK ==
    /\ upper = "i2cdemux" => i2cdemux_OK
    /\ upper \in Filters => i2cfilter_OK
    /\ upper = "i2c_packet" => i2c_packet_OK

RelaysInv == BusOK /\ RelayOK /\ Relayed

\* Each part of Relayed is about one of them.
LEMMA OnlyDemux == upper # "i2cdemux" => TransferRelayed
BY Zenon DEF TransferRelayed

LEMMA OnlyFilters == upper \notin Filters => FilterRelayed
BY Zenon DEF FilterRelayed, Filters

LEMMA OnlyPackets == upper # "i2c_packet" => PacketRelayed
BY Zenon DEF PacketRelayed

LEMMA StillOnlyDemux == ASSUME upper' # "i2cdemux" PROVE TransferRelayed'
BY Zenon DEF TransferRelayed

LEMMA StillOnlyFilters == ASSUME upper' \notin Filters PROVE FilterRelayed'
BY Zenon DEF FilterRelayed, Filters

LEMMA StillOnlyPackets == ASSUME upper' # "i2c_packet" PROVE PacketRelayed'
BY Zenon DEF PacketRelayed

\* FilterRelayed, by the state that it looks at.
Handed(u, got, sent, passes) ==
    u \in {"i2cfilter", "i2cfilter_read"} /\ got # <<>> =>
        IF Last(got).cmd \in {"STOP", "START REPEAT"} /\ passes THEN Whole(sent, got) ELSE sent = <<>>

LEMMA FilterHands ==
  /\ FilterRelayed <=> Handed(upper, seen, s.sent, Passes(Last(xfer)))
  /\ FilterRelayed' <=> Handed(upper', seen', s'.sent, Passes(Last(xfer))')
BY Zenon DEF FilterRelayed, Handed, Whole, Restarts

LEMMA RelaysInit ==
  ASSUME Init
  PROVE  RelaysInv
<1>1. phase = "stopped" /\ wr = -1 /\ xfer = <<>> /\ seen = <<>> /\ s = ResetOf(upper)
  BY DEF Init, Events!Init
<1>2. BusOK
  BY <1>1 DEF BusOK, Events!Phases
<1>3. upper = "i2cdemux" => i2cdemux_OK /\ TransferRelayed
  BY <1>1, i2cdemux_Begin
<1>4. upper \in Filters => i2cfilter_OK /\ FilterRelayed
  BY <1>1, i2cfilter_Begin
<1>5. upper = "i2c_packet" => i2c_packet_OK /\ PacketRelayed
  BY <1>1, i2c_packet_Begin
<1>6. QED
  BY <1>2, <1>3, <1>4, <1>5, OnlyDemux, OnlyFilters, OnlyPackets DEF RelaysInv, RelayOK, Relayed

LEMMA RelaysStep ==
  ASSUME RelaysInv, Next
  PROVE  RelaysInv'
<1>1. BusOK /\ BusOK' /\ RelayOK
  BY BusHolds DEF RelaysInv
<1>2. Steps /\ upper' = upper
  BY <1>1, NextSteps
<1>3. upper = "i2cdemux" => i2cdemux_OK' /\ TransferRelayed'
  BY <1>1, <1>2, i2cdemux_Step DEF RelayOK
<1>4. upper \in Filters => i2cfilter_OK' /\ FilterRelayed'
  BY <1>1, <1>2, i2cfilter_Step DEF RelayOK
<1>5. upper = "i2c_packet" => i2c_packet_OK' /\ PacketRelayed'
  BY <1>1, <1>2, i2c_packet_Step DEF RelayOK
<1>6. TransferRelayed' /\ PacketRelayed'
  BY <1>2, <1>3, <1>5, StillOnlyDemux, StillOnlyPackets
<1>7. FilterRelayed'
  <2>1. CASE upper \in Filters
    BY <1>4, <2>1
  <2>2. CASE upper \notin Filters
    BY <1>2, <2>2, StillOnlyFilters
  <2>3. QED
    BY <2>1, <2>2
<1>8. RelayOK'
  BY <1>2, <1>3, <1>4, <1>5 DEF RelayOK
<1>9. QED
  BY <1>1, <1>6, <1>7, <1>8 DEF RelaysInv, Relayed

LEMMA RelaysIdle ==
  ASSUME RelaysInv, UNCHANGED vars
  PROVE  RelaysInv'
<1>1. /\ phase' = phase /\ wr' = wr /\ upper' = upper
      /\ s' = s /\ xfer' = xfer /\ seen' = seen
  BY DEF vars
<1>2. BusOK'
  BY <1>1 DEF RelaysInv, BusOK
<1>6. Within' = Within /\ Here' = Here
  BY <1>1 DEF Within, Here
<1>3. RelayOK'
  <2>1. i2cdemux_OK => i2cdemux_OK'
    BY <1>1, <1>6 DEF i2cdemux_OK
  <2>2. i2cfilter_OK => i2cfilter_OK'
    <3>1. WantedAddress' = WantedAddress /\ WantedDirection' = WantedDirection
      BY <1>1 DEF WantedAddress, WantedDirection
    <3>2. QED
      BY <1>1, <1>6, <3>1 DEF i2cfilter_OK
  <2>3. i2c_packet_OK => i2c_packet_OK'
    BY <1>1, <1>6 DEF i2c_packet_OK
  <2>4. QED
    BY <1>1, <2>1, <2>2, <2>3 DEF RelaysInv, RelayOK
<1>4. Relayed'
  <2>1. TransferRelayed => TransferRelayed'
    BY <1>1, Zenon DEF TransferRelayed
  <2>2. FilterRelayed => FilterRelayed'
    <3>1. Passes(Last(xfer))' = Passes(Last(xfer))
      BY <1>1 DEF Passes
    <3>2. QED
      BY <1>1, <3>1, FilterHands
  <2>3. PacketRelayed => PacketRelayed'
    BY <1>1, Zenon DEF PacketRelayed
  <2>4. QED
    BY <2>1, <2>2, <2>3 DEF RelaysInv, Relayed
<1>5. QED
  BY <1>2, <1>3, <1>4 DEF RelaysInv

\* The invariant holds in every reachable state.
THEOREM RelaysHold == Spec => []RelaysInv
<1>1. RelaysInv /\ [Next]_vars => RelaysInv'
  BY RelaysStep, RelaysIdle
<1>2. QED
  BY <1>1, RelaysInit, PTL DEF Spec

\* What the decoders above a relay get of a transfer is what was on the bus,
\* for any addresses, bytes and length of it: i2cdemux_c.c sends the whole
\* transfer on, and its table of slaves never runs out; i2cfilter_c.c passes
\* the part for its address, or of its direction, as a whole or not at all,
\* both with the data of a packet in a C_BYTES field; i2c_packet_c.c lists the
\* parts that have data, each with its own bytes and address.
THEOREM WhatWasOnTheBus == Spec => []Relayed
<1>1. RelaysInv => Relayed
  BY DEF RelaysInv
<1>2. QED
  BY <1>1, RelaysHold, PTL
=============================================================================
