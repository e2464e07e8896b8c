----------------------------- MODULE I2cDevices -----------------------------
(***************************************************************************)
(* One decoder stacked on the I2C decoder, fed with everything I2cEvents   *)
(* allows.  c_proto() calls decode_upper of the next instance for every    *)
(* packet before it returns (c_decoder_api.c), so a pass of the lower      *)
(* decoder and what the upper one makes of it are one step.                *)
(*                                                                         *)
(* The variable xfer is the transfer on the bus, part by part; it stays    *)
(* after the STOP until the next START.  seen are its packets, noted for   *)
(* the decoders that hand them on.  ptr is the register pointer of a       *)
(* DS1307 on the bus, and carried are the bytes that the bus has carried   *)
(* for its registers 0 to 6 since the stack was reset.                     *)
(***************************************************************************)
EXTENDS I2cSensors, I2cChips, I2cHosts, FiniteSets

CONSTANTS
    Uppers,       \* the decoders that are stacked
    AddrOf(_),    \* addresses put on the bus, for each of them
    DataOf(_, _), \* data bytes put on the bus, by the place in the part
    PointerBytes, \* see I2cEvents!BITS
    MaxPartsOf(_),   \* bound: parts of a transfer, for each of them
    MaxDataOf(_, _), \* bound: data bytes in the last part of the transfer
    MaxCounter    \* bound: counters and buffers that go on over a STOP

VARIABLES phase, wr, out,   \* of I2cEvents
          upper, s,         \* the stacked decoder and its private data
          xfer, seen, ptr, carried

Events == INSTANCE I2cEvents WITH
    AddrBytes <- 0 .. 127, DataBytes <- 0 .. 255, BitsBytes <- PointerBytes

vars == <<phase, wr, out, upper, s, xfer, seen, ptr, carried>>

\* What an upper decoder is: its reset() and its decode_upper().
ResetOf(u) ==
    CASE u = "lm75" -> lm75_reset             [] u = "mlx90614" -> mlx90614_reset
      [] u = "tmp102" -> tmp102_reset         [] u = "bh1750" -> bh1750_reset
      [] u = "tcs3472x" -> tcs3472x_reset     [] u = "mpu6050" -> mpu6050_reset
      [] u = "nunchuk" -> nunchuk_reset       [] u = "mxc6225xu" -> mxc6225xu_reset
      [] u = "ds1307" -> ds1307_reset         [] u = "ds3231" -> ds3231_reset
      [] u = "rtc8564" -> rtc8564_reset       [] u = "pca9571" -> pca9571_reset
      [] u = "tca6408a" -> tca6408a_reset     [] u = "ad5593r" -> ad5593r_reset
      [] u = "ltc26x7" -> ltc26x7_reset       [] u = "hdcp" -> hdcp_reset
      [] u = "hdmi_scdc" -> hdmi_scdc_reset   [] u = "tpm_tis_i2c" -> tpm_tis_i2c_reset
      [] u = "st25dv" -> st25dv_reset         [] u = "atsha204a" -> atsha204a_reset
      [] u = "ssd1306" -> ssd1306_reset       [] u = "eeprom24xx" -> eeprom24xx_reset
      [] u = "i2c_packet" -> i2c_packet_reset [] u = "i2cdemux" -> i2cdemux_reset
      [] u = "xfp" -> xfp_reset               [] u = "edid" -> edid_reset
      [] u = "i2cfilter" -> i2cfilter_reset(\h68, "both")
      [] u = "i2cfilter_read" -> i2cfilter_reset(0, "read")

Recv(u, st, p) ==
    CASE u = "lm75" -> lm75_recv(st, p)             [] u = "mlx90614" -> mlx90614_recv(st, p)
      [] u = "tmp102" -> tmp102_recv(st, p)         [] u = "bh1750" -> bh1750_recv(st, p)
      [] u = "tcs3472x" -> tcs3472x_recv(st, p)     [] u = "mpu6050" -> mpu6050_recv(st, p)
      [] u = "nunchuk" -> nunchuk_recv(st, p)       [] u = "mxc6225xu" -> mxc6225xu_recv(st, p)
      [] u = "ds1307" -> ds1307_recv(st, p)         [] u = "ds3231" -> ds3231_recv(st, p)
      [] u = "rtc8564" -> rtc8564_recv(st, p)       [] u = "pca9571" -> pca9571_recv(st, p)
      [] u = "tca6408a" -> tca6408a_recv(st, p)     [] u = "ad5593r" -> ad5593r_recv(st, p)
      [] u = "ltc26x7" -> ltc26x7_recv(st, p)       [] u = "hdcp" -> hdcp_recv(st, p)
      [] u = "hdmi_scdc" -> hdmi_scdc_recv(st, p)   [] u = "tpm_tis_i2c" -> tpm_tis_i2c_recv(st, p)
      [] u = "st25dv" -> st25dv_recv(st, p)         [] u = "atsha204a" -> atsha204a_recv(st, p)
      [] u = "ssd1306" -> ssd1306_recv(st, p)       [] u = "eeprom24xx" -> eeprom24xx_recv(st, p)
      [] u = "i2c_packet" -> i2c_packet_recv(st, p) [] u = "i2cdemux" -> i2cdemux_recv(st, p)
      [] u = "xfp" -> xfp_recv(st, p)               [] u = "edid" -> edid_recv(st, p)
      [] u \in {"i2cfilter", "i2cfilter_read"} -> i2cfilter_recv(st, p)

Forwarders == {"i2cdemux", "i2cfilter", "i2cfilter_read"}
Relays == {"i2c_packet"} \cup Forwarders

\* What was put out belongs to one step.
Silenced(u, st) ==
    IF u \in Relays THEN [st EXCEPT !.rep = <<>>, !.sent = <<>>] ELSE [st EXCEPT !.rep = <<>>]

\* One packet after the other; no event of the bus sends more than two.
Received(st, packets) ==
    IF Len(packets) = 1 THEN Recv(upper, st, packets[1])
    ELSE Recv(upper, Recv(upper, st, packets[1]), packets[2])

\* Packets in the form in which they are handed on.
Noting(packets) == [i \in DOMAIN packets |-> Resent(packets[i])]

Deliver ==
    /\ s' = Received(Silenced(upper, s), out')
    /\ seen' = IF upper \notin Forwarders THEN <<>>
               ELSE IF out' = <<Events!START>> THEN Noting(out') ELSE seen \o Noting(out')
    /\ UNCHANGED upper

(***************************************************************************)
(* The bus                                                                 *)
(***************************************************************************)
Init ==
    /\ Events!Init
    /\ upper \in Uppers
    /\ s = ResetOf(upper)
    /\ xfer = <<>> /\ seen = <<>> /\ ptr = 0 /\ carried = {}

\* What some decoders carry on with in the next transfer.
Bounded ==
    CASE upper = "eeprom24xx" -> s.addr_counter <= MaxCounter
      [] upper = "hdcp" -> Len(s.stack) <= MaxCounter
      [] upper = "tcs3472x" -> Len(s.byte_values) <= MaxCounter
      [] upper = "st25dv" -> Len(s.data) <= MaxCounter
      [] upper \in {"xfp", "edid"} -> s.cnt <= MaxCounter
      [] upper = "ds1307" ->
            /\ ptr <= MaxCounter \/ ptr = 7 \/ ptr > \h3f - MaxCounter
            /\ Cardinality(carried) \in {0, MaxCounter, 7}
      [] OTHER -> TRUE

Start ==
    /\ Bounded
    /\ Events!Start /\ Deliver
    /\ xfer' = <<>> /\ UNCHANGED <<ptr, carried>>

StartRepeat ==
    /\ Len(xfer) < MaxPartsOf(upper)
    /\ Events!StartRepeat /\ Deliver
    /\ UNCHANGED <<xfer, ptr, carried>>

Address(w, a, b) ==
    /\ Events!Address(w, a, b) /\ Deliver
    /\ xfer' = Append(xfer, [w |-> w, a |-> a, bytes |-> <<>>])
    /\ UNCHANGED <<ptr, carried>>

\* The addresses of the chip, from the comments and tables of its decoder.
Own(u) ==
    CASE u = "tmp102" -> {0} \cup (\h48 .. \h4B)  [] u = "bh1750" -> {\h23, \h5C}
      [] u = "tcs3472x" -> {\h29}          [] u = "mpu6050" -> {\h68}
      [] u = "ds1307" -> {\h68}            [] u = "ds3231" -> {\h68}
      [] u = "pca9571" -> {\h25}           [] u = "hdcp" -> {\h3a}
      [] u = "hdmi_scdc" -> {\h54}         [] u = "mxc6225xu" -> {\h2A}
      [] u = "tca6408a" -> tca6408a_addresses  [] u = "edid" -> {\h50}
      [] u = "ssd1306" -> ssd1306_addresses
      [] OTHER -> 0 .. 127

\* The first byte of a write sets the pointer of the chip that is addressed;
\* every other byte advances it.
Pointed(part, d) ==
    CASE upper # "ds1307" \/ part.a \notin Own(upper) -> ptr
      [] part.w = 1 /\ part.bytes = <<>> -> d
      [] OTHER -> IF ptr >= \h3f THEN 0 ELSE ptr + 1

\* Where that other byte goes.
Carries(part, d) ==
    IF upper # "ds1307" \/ part.a \notin Own(upper) \/ (part.w = 1 /\ part.bytes = <<>>) \/ ptr > 6
    THEN {} ELSE {<<ptr, d>>}

Data(d, b) ==
    /\ Events!Data(d, b)
    /\ Len(Last(xfer).bytes) < MaxDataOf(upper, xfer)
    /\ Deliver
    /\ xfer' = [xfer EXCEPT ![Len(xfer)].bytes = Append(@, d)]
    /\ ptr' = Pointed(Last(xfer), d)
    /\ carried' = carried \cup Carries(Last(xfer), d)

Acknowledge == Events!Acknowledge /\ Deliver /\ UNCHANGED <<xfer, ptr, carried>>

Stop == Events!Stop /\ Deliver /\ UNCHANGED <<xfer, ptr, carried>>

\* srd_inst_terminate_reset() resets every instance of the stack.
ResetStack ==
    /\ Events!Reset
    /\ s' = ResetOf(upper)
    /\ xfer' = <<>> /\ seen' = <<>> /\ carried' = {}
    /\ UNCHANGED <<upper, ptr>>

Next ==
    \/ Start \/ StartRepeat \/ Acknowledge \/ Stop \/ ResetStack
    \/ \E w \in {0, 1}, a \in AddrOf(upper) \cap (0 .. 127), b \in PointerBytes : Address(w, a, b)
    \/ /\ phase = "data"
       /\ \E d \in DataOf(upper, Len(Last(xfer).bytes)) \cap (0 .. 255), b \in PointerBytes :
            Data(d, b)

Spec == Init /\ [][Next]_vars

(***************************************************************************)
(* Properties                                                              *)
(***************************************************************************)
\* Decoders that look at every STOP.
Tidy ==
    {"tmp102", "bh1750", "mpu6050", "ds1307", "ds3231", "pca9571", "ad5593r",
     "hdmi_scdc", "atsha204a", "eeprom24xx", "tcs3472x"}

\* Once the bus is free the decoder is at rest: nothing of a transfer, however
\* it was cut short, is carried into the next one.
AtRest == upper \in Tidy /\ phase = "stopped" => s.state = ResetOf(upper).state

\* Decoders that know the addresses of their chip, and look at it in every
\* part; and one that may lose sight of it after a repeated START.
Choosy == {"tmp102", "bh1750", "tcs3472x", "mpu6050", "ds1307", "ds3231", "pca9571"}
Choosing == Choosy \cup {"hdmi_scdc"}

\* Decoders whose warning shows the address that they have kept.
Forgetful == {"tmp102", "bh1750"}

\* In a part for another chip a careful decoder puts out a warning and nothing
\* else, and in a part for its own chip no warning; the warning names the
\* address on the bus, but for the forgetful ones.  The other decoder that
\* knows its chip's address puts nothing out while the host has only talked to
\* other chips.
OnlyItsOwn ==
    /\ upper \in Choosy =>
          \A i \in DOMAIN s.rep :
              /\ s.rep[i].reg = Warning <=> Last(xfer).a \notin Own(upper)
              /\ s.rep[i].reg = Warning /\ upper \notin Forgetful => s.rep[i].bytes = <<Last(xfer).a>>
    /\ upper \in Choosing /\ s.rep # <<>> =>
          upper \in Choosy \/ \E i \in DOMAIN xfer : xfer[i].a \in Own(upper)

\* Decoders whose reports show bytes of the part that is being transferred.
Quoting ==
    {"tmp102", "bh1750", "mpu6050", "mxc6225xu", "ds1307",
     "ds3231", "rtc8564", "hdmi_scdc", "tpm_tis_i2c"}

\* One after the other in a part.
Piece(shown, bytes) ==
    \E j \in 0 .. Len(bytes) - Len(shown) : shown = SubSeq(bytes, j + 1, j + Len(shown))

\* The bytes of a report that is not put together from kept values came one
\* after the other in the part that is on the bus: no byte is taken twice,
\* left out, or left over from another part.
PieceOfPart ==
    upper \in Quoting =>
        \A i \in DOMAIN s.rep :
            s.rep[i].reg \in {Warning, Summary}
            \/ Piece(s.rep[i].bytes, IF xfer = <<>> THEN <<>> ELSE Last(xfer).bytes)

\* The date that the DS1307's decoder puts together from kept values: each of
\* its bytes was on the bus for that register of the chip, in this transfer or
\* in an earlier one since the reset.
DateOfClock ==
    upper = "ds1307" =>
        \A i \in DOMAIN s.rep : s.rep[i].reg = Summary =>
            \A k \in 0 .. 6 : <<k, s.rep[i].bytes[k + 1]>> \in carried

BytesOfPart == PieceOfPart /\ DateOfClock

\* The register that a byte is reported for is the register that the chip
\* reads or writes it at: where its pointer stood before the byte.
RegisterIsDevices ==
    [][upper = "ds1307" /\ s'.rep # <<>> => Last(s'.rep).reg \in {ptr, Warning, Summary}]_vars

\* A field that the EDID decoder shows lies in the block that it has read.
FieldsInCache ==
    upper = "edid" =>
        \A i \in DOMAIN s.rep : s.rep[i].reg >= 0 /\ s.rep[i].bytes[1] \in s.rep[i].reg .. 127

\* A byte read from or written to a chip whose decoder knows it is reported
\* for the register.
ClockReported ==
    upper = "ds3231" /\ phase = "data_ack" /\ Last(xfer).a = \h68 /\ Last(xfer).w = 0 => s.rep # <<>>

\* The parts of a transfer that have data, in their order.
Lists(shown, parts) ==
    \E f \in [1 .. Len(shown) -> 1 .. Len(parts)] :
        /\ \A i, j \in 1 .. Len(shown) : i < j => f[i] < f[j]
        /\ \A i \in 1 .. Len(shown) :
              shown[i].bytes = parts[f[i]].bytes /\ shown[i].val = parts[f[i]].a
        /\ \A k \in 1 .. Len(parts) :
              parts[k].bytes # <<>> <=> \E i \in 1 .. Len(shown) : f[i] = k

\* The text of a transfer, three characters for a byte in the default format
\* and up to twelve more for a part, fits into packet_str_short.  i2c_packet_c.c
\* does not check this.
MaxText == 4096

Fits(parts) ==
    \E n \in 0 .. MaxText :
        /\ \A i \in DOMAIN parts : Len(parts[i].bytes) <= n
        /\ Len(parts) * (3 * n + 12) <= MaxText

\* A PACKET has the data of the part that is over, and the annotation of the
\* transfer all parts with data.
PacketRelayed ==
    upper = "i2c_packet" /\ Fits(xfer) =>
        /\ \A i \in DOMAIN s.sent : s.sent[i].cmd # "TRANSACTION END" =>
              s.sent[i].bytes = Last(xfer).bytes /\ s.sent[i].val = Last(xfer).a
        /\ \A i \in DOMAIN s.rep : Lists(s.rep[i].bytes, xfer)

\* The whole transfer goes on when it is over, whichever addresses it had: the
\* table of slaves has room for every address.
TransferRelayed ==
    upper = "i2cdemux" /\ seen # <<>> =>
        IF Last(seen).cmd = "STOP" THEN Len(seen) <= 1024 => s.sent = seen ELSE s.sent = <<>>

\* A part goes on as a whole, when it is over, or not at all: with its START
\* before it, or from behind the repeated START, up to what ended it.
Passes(part) == IF upper = "i2cfilter" THEN part.a = \h68 ELSE part.w = 0

FilterRelayed ==
    upper \in {"i2cfilter", "i2cfilter_read"} /\ seen # <<>> =>
        IF Last(seen).cmd \in {"STOP", "START REPEAT"} /\ Passes(Last(xfer))
        THEN \E j \in 0 .. Len(seen) :
                /\ j > 0 => seen[j].cmd = "START REPEAT"
                /\ \A k \in j + 1 .. Len(seen) - 1 : seen[k].cmd # "START REPEAT"
                /\ Len(seen) - j <= 1024 => s.sent = SubSeq(seen, j + 1, Len(seen))
        ELSE s.sent = <<>>

\* A relay hands on the packets of what it lets through, all of them, once and
\* in their order; i2cfilter and i2cdemux with their data in a C_BYTES field,
\* i2c_packet the data of a part in one packet.
Relayed == PacketRelayed /\ TransferRelayed /\ FilterRelayed
=============================================================================
