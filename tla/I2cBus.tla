------------------------------- MODULE I2cBus -------------------------------
(***************************************************************************)
(* The I2C decoder (c_decoders/i2c_c.c) listening to a two-wire bus.  One  *)
(* step is one change of the lines as the capture shows it, together with  *)
(* the pass of i2c_decode()'s loop that the change triggers, if any.       *)
(*                                                                         *)
(* The lines behave as on a real bus: a START or STOP condition may come   *)
(* anywhere, in the middle of a byte too, and the capture may begin in the *)
(* middle of a transfer.  The variable bus is the reading of the lines by  *)
(* the bus's own rules; the properties compare the decoder with it.        *)
(*                                                                         *)
(* Assumed of the capture: it never shows SCL rise and SDA change in the   *)
(* same sample.  SDA may change together with a fall of SCL.               *)
(***************************************************************************)
EXTENDS Integers, Sequences, FiniteSets, FiniteSetsExt, SequencesExt

CONSTANTS
    Bytes,            \* the bytes that are put on the bus
    Options,          \* values of the options address_format, packets_format
    DataStr,          \* size of the buffer data_str, 128 in the code
    PacketStr,        \* size of the buffer packet_str, 2048 in the code
    MaxData,          \* bound: data bytes in one transfer, 1 until settled
    MaxParts,         \* bound: addresses in one transfer
    MaxKept           \* bound: data bytes kept if packets_format is "none"

Formats == {"none", "hex", "ascii", "dec", "bin", "oct"}

ASSUME I2cBusConstants ==
    /\ Bytes \subseteq 0 .. 255
    /\ Options \subseteq BOOLEAN \X Formats
    /\ DataStr \in Nat /\ PacketStr \in Nat
    /\ MaxData \in Nat /\ MaxParts \in Nat \ {0} /\ MaxKept \in Nat

VARIABLES
    shifted,   \* s->address_shifted
    format,    \* s->packets_format
    scl, sda,  \* the lines
    dec,       \* i2c_s
    out,       \* protocol packets sent in this step
    packets,   \* PACKET annotations put in this step
    \* The bus's own rules.
    bus,       \* the transfer on the bus
    said,      \* what happened on the bus in this step
    calm       \* transfers since a condition came where none belongs

options == <<shifted, format>>
decoder == <<dec, out, packets>>
lines   == <<scl, sda>>
ideal   == <<bus, said, calm>>
vars    == <<options, lines, decoder, ideal>>

Events == INSTANCE I2cEvents WITH
    AddrBytes <- 0 .. 255, DataBytes <- 0 .. 255, BitsBytes <- {0}, wr <- dec.wr,
    phase <- CASE dec.state = "FIND_START" -> "stopped"
               [] dec.state = "FIND_ADDRESS" -> "address"
               [] dec.state = "FIND_DATA" -> "data"
               [] dec.state = "FIND_ACK" /\ dec.byte = "address" -> "address_ack"
               [] OTHER -> "data_ack"

(***************************************************************************)
(* The decoder                                                             *)
(***************************************************************************)
\* i2c_reset_impl() and i2c_start().  packet_str lists the parts whose text was
\* put into it; Text says how much of that the buffers hold.  The byte field
\* names the byte that is being acknowledged; the code does not keep it, nor does
\* it need it.
ResetState ==
    [state |-> "FIND_START", bitcount |-> 0, databyte |-> 0, wr |-> -1,
     is_repeat_start |-> 0, address |-> 0, packet_data |-> <<>>,
     packet_str |-> <<>>, byte |-> "address"]

Part(d) == [address |-> d.address, wr |-> d.wr, data |-> d.packet_data]

\* Characters of a byte in i2c_data_array_to_str(), and of the first n bytes
\* with the spaces between them.
Width(v) ==
    CASE format = "bin" -> 8
      [] format = "oct" -> 3
      [] format = "dec" -> IF v < 10 THEN 1 ELSE IF v < 100 THEN 2 ELSE 3
      [] format = "ascii" -> IF v \in 32 .. 126 THEN 1 ELSE 4
      [] OTHER -> 2

Chars(data, n) ==
    MapThenSumSet(LAMBDA i : Width(data[i]), 1 .. n) + (IF n = 0 THEN 0 ELSE n - 1)

\* The bytes it shows: it stops where fewer than eight characters are free; in
\* 128 characters its second test, whether the next byte fits, never fails.
DataText(data) ==
    SubSeq(data, 1,
           Cardinality({i \in 1 .. Len(data) : Chars(data, i - 1) < DataStr - 8}))

\* "0x50 WR: " and the data; " [SR] " between two parts.
PartChars(part) == 9 + Chars(DataText(part.data), Len(DataText(part.data)))
EndOf(list, n) == MapThenSumSet(LAMBDA i : PartChars(list[i]), 1 .. n) + 6 * (n - 1)

\* i2c_format_packet() of a list of parts: the ones before the last come from
\* packet_str, which is cut when its buffer is full, in the middle of a part too.
Text(list) ==
    LET n == Len(list)
        kept == Cardinality({i \in 1 .. n - 1 : EndOf(list, i) < PacketStr})
        Shown(part) == [part EXCEPT !.data = DataText(@)]
    IN  [parts |-> [i \in 1 .. kept + 1 |->
                      Shown(list[IF i <= kept THEN i ELSE n])],
         cut |-> kept < n - 1]

ResetPacket(d) == [d EXCEPT !.packet_data = <<>>, !.packet_str = <<>>, !.address = 0]

\* i2c_handle_packet(): the decoder state afterwards, and the annotations.
\* Without packets it returns at once, and the data bytes of all transfers are
\* kept until the next reset.
PacketStateBug(d, repeat) ==
    CASE format = "none" -> d
      [] format # "none" /\ d.packet_data = <<>> /\ repeat -> d
      [] format # "none" /\ d.packet_data # <<>> /\ repeat ->
            [d EXCEPT !.packet_str = Append(@, Part(d))]
      [] OTHER -> ResetPacket(d)

PacketState(d, repeat) ==
    CASE format = "none" -> d
      [] format # "none" /\ d.packet_data = <<>> /\ repeat -> d
      [] format # "none" /\ d.packet_data # <<>> /\ repeat ->
            [d EXCEPT !.packet_str = Append(@, Part(d)), !.packet_data = <<>>]
      [] OTHER -> ResetPacket(d)

PacketAnnotations(d, repeat) ==
    IF format # "none" /\ d.packet_data # <<>> /\ ~repeat
    THEN <<Text(Append(d.packet_str, Part(d)))>> ELSE <<>>

HandleStartBug(d) ==
    LET repeat == d.is_repeat_start = 1 IN
    /\ out' = <<IF repeat THEN Events!START_REPEAT ELSE Events!START>>
    /\ packets' = PacketAnnotations(d, repeat)
    /\ dec' = [PacketState(d, repeat) EXCEPT
                  !.state = "FIND_ADDRESS", !.is_repeat_start = 1, !.wr = -1]

HandleStart(d) ==
    LET repeat == d.is_repeat_start = 1 IN
    /\ out' = <<IF repeat THEN Events!START_REPEAT ELSE Events!START>>
    /\ packets' = PacketAnnotations(d, repeat)
    /\ dec' = [PacketState(d, repeat) EXCEPT
                  !.state = "FIND_ADDRESS", !.bitcount = 0, !.databyte = 0,
                  !.is_repeat_start = 1, !.wr = -1]

\* i2c_handle_address_or_data() with b on SDA.
HandleAddressOrData(d, b) ==
    LET byte == (2 * d.databyte + b) % 256
        more == [d EXCEPT !.databyte = byte, !.bitcount = @ + 1]
        done == [d EXCEPT !.databyte = 0, !.bitcount = 0, !.state = "FIND_ACK"]
        w == IF byte % 2 = 1 THEN 0 ELSE 1
        a == IF shifted THEN byte \div 2 ELSE byte
    IN  /\ packets' = <<>>
        /\ \/ /\ d.bitcount < 7
              /\ dec' = more /\ out' = <<>>
           \/ /\ d.bitcount = 7 /\ d.state = "FIND_ADDRESS"
              /\ dec' = [done EXCEPT !.wr = w, !.address = a, !.byte = "address"]
              /\ out' = <<Events!BITS(0), Events!ADDRESS(w, a)>>
           \/ /\ d.bitcount = 7 /\ d.state = "FIND_DATA"
              /\ dec' = [done EXCEPT !.packet_data = Append(@, byte), !.byte = "data"]
              /\ out' = <<Events!BITS(0), Events!DATA(d.wr, byte)>>

GetAck(d, b) ==
    /\ out' = <<IF b = 0 THEN Events!ACK ELSE Events!NACK>>
    /\ dec' = [d EXCEPT !.state = "FIND_DATA"]
    /\ packets' = <<>>

HandleStopBug(d) ==
    /\ out' = <<Events!STOP>>
    /\ packets' = PacketAnnotations(d, FALSE)
    /\ dec' = [PacketState(d, FALSE) EXCEPT !.state = "FIND_START", !.wr = -1]

HandleStop(d) ==
    /\ out' = <<Events!STOP>>
    /\ packets' = PacketAnnotations(d, FALSE)
    /\ dec' = [PacketState(d, FALSE) EXCEPT
                  !.state = "FIND_START", !.is_repeat_start = 0, !.wr = -1]

Listen == out' = <<>> /\ packets' = <<>> /\ UNCHANGED dec

\* i2c_decode(): the conditions c_wait() is given in each state, on this sample.
Decode ==
    LET rise  == scl = 0 /\ scl' = 1
        start == scl' = 1 /\ sda = 1 /\ sda' = 0
        stop  == scl' = 1 /\ sda = 0 /\ sda' = 1
    IN  CASE dec.state = "FIND_START" /\ start -> HandleStart(dec)
          [] dec.state = "FIND_ADDRESS" /\ rise -> HandleAddressOrData(dec, sda')
          [] dec.state = "FIND_DATA" /\ rise -> HandleAddressOrData(dec, sda')
          [] dec.state = "FIND_DATA" /\ start /\ ~rise -> HandleStart(dec)
          [] dec.state = "FIND_DATA" /\ stop /\ ~start /\ ~rise -> HandleStop(dec)
          [] dec.state = "FIND_ACK" /\ rise -> GetAck(dec, sda')
          [] OTHER -> Listen

(***************************************************************************)
(* The bus                                                                 *)
(***************************************************************************)
\* The transfer by the bus's own rules: n of the nine clocks of a byte are
\* over; parts holds one record per address, the data bytes after it.
Settled == 2
Idle == [active |-> FALSE, phase |-> "address", n |-> 0, byte |-> 0, parts |-> <<>>]

\* A condition belongs between two bytes; the clock pulse that prepares the
\* lines for it makes it come after one clock of the byte that does not follow.
\* Elsewhere in a data byte it does no harm to a decoder that is in step.
Misplaced == bus.active /\ (bus.phase = "address" \/ bus.n = 8)
Orderly == ~Misplaced /\ (bus.active => bus.n = 1)
Disturbs == ~Orderly /\ (calm = Settled => Misplaced)

\* Bound: the next disturbance comes when the decoder has settled.
Rare == Disturbs => calm = Settled

\* Both lines stay high between two transfers.
Fall ==
    /\ bus.active
    /\ scl = 1 /\ scl' = 0 /\ sda' \in {0, 1}
    /\ said' = <<>> /\ UNCHANGED <<bus, calm>>

\* The bits on the bus are those of the bytes in Bytes.
Weight == <<128, 64, 32, 16, 8, 4, 2, 1>>
Sent(n, prefix) == \E x \in Bytes : x \div Weight[n] = prefix

LastPart(data) == [bus.parts EXCEPT ![Len(bus.parts)].data = Append(@, data)]

TransferBytes == MapThenSumSet(LAMBDA p : Len(bus.parts[p].data), DOMAIN bus.parts)

ClockBit ==
    LET byte == 2 * bus.byte + sda
        w == IF byte % 2 = 1 THEN 0 ELSE 1
        a == IF shifted THEN byte \div 2 ELSE byte
    IN  /\ bus.n < 8
        /\ Sent(bus.n + 1, byte)
        /\ bus.phase = "address" => Len(bus.parts) < MaxParts
        /\ bus.phase = "data" /\ bus.n > 0 => TransferBytes < IF calm = Settled THEN MaxData ELSE 1
        /\ bus' = [bus EXCEPT !.n = @ + 1, !.byte = byte,
                     !.parts = IF bus.n < 7 THEN @
                               ELSE IF bus.phase = "data" THEN LastPart(byte)
                               ELSE Append(@, [address |-> a, wr |-> w, data |-> <<>>])]
        /\ said' = IF bus.n < 7 THEN <<>>
                   ELSE <<Events!BITS(0),
                          IF bus.phase = "address" THEN Events!ADDRESS(w, a)
                          ELSE Events!DATA(Last(bus.parts).wr, byte)>>

ClockAck ==
    /\ bus.n = 8
    /\ bus' = [bus EXCEPT !.n = 0, !.byte = 0, !.phase = "data"]
    /\ said' = <<IF sda = 0 THEN Events!ACK ELSE Events!NACK>>

Rise ==
    /\ scl = 0 /\ scl' = 1
    /\ ClockBit \/ ClockAck
    /\ UNCHANGED <<sda, calm>>

StartCondition ==
    /\ scl = 1 /\ sda = 1 /\ sda' = 0
    /\ bus' = [Idle EXCEPT !.active = TRUE, !.parts = bus.parts]
    /\ said' = <<IF bus.active THEN Events!START_REPEAT ELSE Events!START>>
    /\ calm' = IF Disturbs THEN 0 ELSE calm
    /\ Rare
    /\ UNCHANGED scl

StopCondition ==
    /\ scl = 1 /\ sda = 0 /\ sda' = 1
    /\ bus' = Idle
    /\ said' = <<Events!STOP>>
    /\ calm' = IF Disturbs THEN 0 ELSE IF calm = Settled THEN calm ELSE calm + 1
    /\ Rare
    /\ UNCHANGED scl

\* The capture begins between two transfers, or inside one whose address the
\* decoder has not seen.
Capture ==
    \/ bus = Idle /\ calm = Settled /\ scl = 1 /\ sda = 1
    \/ /\ \E n \in 0 .. 8 :
             bus = [Idle EXCEPT !.active = TRUE, !.phase = "data", !.n = n,
                      !.parts = <<[address |-> 0, wr |-> 0, data |-> <<>>]>>]
       /\ calm = Settled - 1 /\ scl = 0 /\ sda \in {0, 1}

Init ==
    /\ \E o \in Options : shifted = o[1] /\ format = o[2]
    /\ Capture
    /\ dec = ResetState /\ out = <<>> /\ packets = <<>> /\ said = <<>>

\* srd_inst_terminate_reset() and a new capture.
Restart ==
    /\ dec' = ResetState /\ out' = <<>> /\ packets' = <<>> /\ said' = <<>>
    /\ bus' = Idle /\ calm' = Settled /\ scl' = 1 /\ sda' = 1
    /\ UNCHANGED options

\* Bound: how many data bytes are kept that no packet shows.
Hoards == format = "none" => Len(dec'.packet_data) <= MaxKept

Next ==
    \/ /\ Fall \/ Rise \/ StartCondition \/ StopCondition
       /\ Decode /\ Hoards /\ UNCHANGED options
    \/ Restart

Spec == Init /\ [][Next]_vars

(***************************************************************************)
(* Properties                                                              *)
(***************************************************************************)
Directions == {-1, 0, 1}
Parts == [address : 0 .. 255, wr : Directions, data : Seq(0 .. 255)]

DecoderTypes(d) ==
    /\ DOMAIN d = DOMAIN ResetState
    /\ d.state \in {"FIND_START", "FIND_ADDRESS", "FIND_DATA", "FIND_ACK"}
    /\ d.bitcount \in 0 .. 7 /\ d.databyte \in 0 .. 255
    /\ d.wr \in Directions /\ d.is_repeat_start \in {0, 1}
    /\ d.address \in 0 .. 255 /\ d.byte \in {"address", "data"}
    /\ d.packet_data \in Seq(0 .. 255) /\ d.packet_str \in Seq(Parts)

BusTypes(b) ==
    /\ DOMAIN b = DOMAIN Idle
    /\ b.active \in BOOLEAN /\ b.phase \in {"address", "data"}
    /\ b.n \in 0 .. 8 /\ b.byte \in 0 .. 255 /\ b.parts \in Seq(Parts)

\* Decoder and bus have their types: a byte never holds more than 8 bits.
TypeOK ==
    /\ shifted \in BOOLEAN /\ format \in Formats /\ scl \in {0, 1} /\ sda \in {0, 1}
    /\ DecoderTypes(dec) /\ BusTypes(bus) /\ calm \in 0 .. Settled

\* Whatever the lines do, the packets sent to the stacked decoders come in the
\* order the I2cEvents specification allows.
ImplementsEvents == Events!Spec

\* i2c_decode() does not look for START and STOP while it reads an address or
\* an acknowledge bit, so a condition there puts it out of step with the bus.
\* Two transfers later it is in step again: it sends exactly what happened on
\* the bus, no more, no less and no later.
Transcript == [][calm = Settled /\ calm' = Settled => out' = said']_vars

\* The list is made of those of the first m parts that carried data, in order:
\* f tells where each comes from.
Selects(f, parts, m) ==
    /\ \A i, j \in DOMAIN f : i < j => f[i] < f[j]
    /\ \A p \in 1 .. m : parts[p].data # <<>> <=> \E i \in DOMAIN f : f[i] = p

\* The text of the parts that carried data.
IsTextOf(packet, parts) ==
    \E l \in 0 .. Len(parts) : \E f \in [1 .. l -> 1 .. Len(parts)] :
        /\ Selects(f, parts, Len(parts))
        /\ packet = Text([i \in 1 .. l |-> parts[f[i]]])

\* A PACKET annotation put at the STOP lists the parts of the transfer that
\* carried data, in order, each under its own address and direction, as far as
\* the buffers have room for their text.
PacketIsTransfer ==
    [][\A i \in 1 .. Len(packets') :
          calm = Settled /\ calm' = Settled =>
              said' = <<Events!STOP>> /\ IsTextOf(packets'[i], bus.parts)]_vars
=============================================================================
