--------------------------- MODULE MCBusDecoders ----------------------------
(***************************************************************************)
(* Captures for every bus and line decoder: what the idle line looks like, *)
(* which events belong to no frame, correct frames and what is to be       *)
(* reported for them.                                                      *)
(***************************************************************************)
EXTENDS Captures, CardBuses, DeviceBuses, LineBuses, SequenceBuses, HostBuses,
        SerialLines


-----------------------------------------------------------------------------
(* Memory cards                                                            *)
CardReset(d) ==
    CASE d = "sdcard_sd" -> sdcard_sd_reset
      [] d = "emmc_sd" -> emmc_reset
      [] d = "sdio" -> [sdio_reset EXCEPT !.io_block_len = 2]

CardStep(d, st, e) ==
    CASE d = "sdcard_sd" -> sdcard_sd_step(st, e)
      [] d = "emmc_sd" -> emmc_step(st, e)
      [] d = "sdio" -> sdio_step(st, e)

CardAtRest(d, st) ==
    CASE d = "sdcard_sd" ->
            st.token = <<>> /\ ~st.is_acmd /\ st.state \in {"GET_COMMAND_TOKEN", "R1", "R6", "R7"}
      [] d = "emmc_sd" -> st.token = <<>> /\ st.state = "GET_COMMAND_TOKEN"
      [] d = "sdio" -> st.token = <<>> /\ ~st.is_acmd /\ st.state = "GET_COMMAND_TOKEN"
                       /\ st.data_state = "IDLE" /\ st.recv = <<>>

Token(host, cmd, b1, b4) ==
    LET bits == <<0, host>> \o BitsOf(cmd, 6) \o BitsOf(b1, 8) \o BitsOf(0, 16) \o BitsOf(b4, 8)
    IN  bits \o BitsOf(crc7(bits, 0), 7) \o <<1>>

Sd(bits) == [i \in DOMAIN bits |-> [cmd |-> bits[i]]] \o <<>>
Sdio(bits) == [i \in DOMAIN bits |-> [cmd |-> bits[i], dat |-> 15]] \o <<>>

CardCases == [
    sdcard_sd |-> Case([cmd |-> 1], 0, {[cmd |-> 0], [cmd |-> 1]},
        <<Frame(Sd(Token(1, 8, 1, 170) \o Ones(2) \o Token(0, 8, 1, 170)),
                <<Report("CMD", <<8, 1, 0, 0, 170>>), Report("R7", <<1, 0, 0, 170>>)>>),
          Frame(Sd(Token(1, 55, 0, 0) \o Ones(2) \o Token(0, 55, 0, 32) \o Ones(1)
                   \o Token(1, 41, 64, 0) \o Ones(2) \o Token(0, 63, 128, 0)),
                <<Report("CMD", <<55, 0, 0, 0, 0>>), Report("R1", <<0, 0, 0, 32>>),
                  Report("ACMD", <<41, 64, 0, 0, 0>>), Report("R3", <<128, 0, 0, 0>>)>>),
          Frame(Sd(Token(1, 9, 1, 0) \o Ones(2) \o <<0, 0>> \o Ones(134)),
                <<Report("CMD", <<9, 1, 0, 0, 0>>), Report("CSD", [i \in 1 .. 16 |-> 255])>>)>>),
    emmc_sd |-> Case([cmd |-> 1], 0, {[cmd |-> 0], [cmd |-> 1]},
        <<Frame(Sd(Token(1, 1, 64, 0) \o Ones(2) \o Token(0, 63, 128, 0)),
                <<Report("CMD", <<1, 64, 0, 0, 0>>), Report("R3", <<128, 0, 0, 0>>)>>)>>),
    sdio |-> Case([cmd |-> 1, dat |-> 15], 0,
        {[cmd |-> 1, dat |-> 15], [cmd |-> 0, dat |-> 15], [cmd |-> 1, dat |-> 0]},
        <<Frame(Sdio(Token(1, 52, 128, 7) \o Ones(2) \o Token(0, 52, 16, 7)),
                <<Report("CMD", <<52, 128, 0, 0, 7>>), Report("R5", <<16, 0, 0, 7>>)>>)>>)]

-----------------------------------------------------------------------------
(* Buses of boards and cards                                               *)
DeviceReset(d) ==
    CASE d = "iso7816" -> iso7816_reset
      [] d = "mdio" -> mdio_reset
      [] d = "lpc" -> lpc_reset
      [] d = "ac97" -> ac97_reset

DeviceStep(d, st, e) ==
    CASE d = "iso7816" -> iso7816_step(st, e)
      [] d = "mdio" -> mdio_step(st, e)
      [] d = "lpc" -> lpc_step(st, e)
      [] d = "ac97" -> ac97_step(st, e)

DeviceAtRest(d, st) ==
    CASE d = "iso7816" -> st.state = "DATA" /\ st.protocols = {0}
      [] d = "mdio" -> st.state = "PRE" /\ ~st.illegal_bus
      [] d = "lpc" -> st.state = "IDLE" /\ st.oldlframe # 0
      [] d = "ac97" -> st.count \in {-1, 256} /\ st.prev_sync[3] = 0

Char(b) == [byte |-> b, odd |-> FALSE]
Chars(bytes) == [i \in DOMAIN bytes |-> Char(bytes[i])] \o <<>>

C22(op, phy, reg, ta, data) == Ones(32) \o <<0, 1>> \o op \o BitsOf(phy, 5) \o BitsOf(reg, 5) \o ta \o BitsOf(data, 16)
C45(op, port, dev, ta, data) == Ones(32) \o <<0, 0>> \o op \o BitsOf(port, 5) \o BitsOf(dev, 5) \o ta \o BitsOf(data, 16)

Lclk(lframe, lad) == [clk |-> TRUE, lframe |-> lframe, lad |-> lad]
Lads(nibbles) == [i \in DOMAIN nibbles |-> Lclk(1, nibbles[i])] \o <<>>

Ac97(sync, out, in) == [sync |-> sync, out |-> out, in |-> in]
Ac97Bits(out, in) == <<Ac97(1, 0, 0)>> \o [i \in DOMAIN out |-> Ac97(IF i < 16 THEN 1 ELSE 0, out[i], in[i])]

DeviceCases == [
    iso7816 |-> Case(Char(0), 0, {Char(0), Char(59), Char(255), Char(144), [byte |-> 7, odd |-> TRUE]},
        <<Frame(Chars(<<0, 176, 1, 2, 2, 176, 10, 11, 144, 0>>),
                <<Report("T=0", <<0, 176, 1, 2, 2, 10, 11, 144, 0>>)>>),
          Frame(Chars(<<0, 164, 0, 0, 2, 106, 130>>), <<Report("T=0", <<0, 164, 0, 0, 2, 106, 130>>)>>),
          Frame(Chars(<<255, 16, 19, 252, 255, 16, 19, 252>>), <<Report("PPS", <<93>>)>>)>>),
    mdio |-> Case(1, 32, {0, 1},
        <<Frame(C22(<<1, 0>>, 5, 9, <<1, 0>>, 4660), <<Report("CLAUSE 22", <<1, 5, 9, 4660>>)>>),
          Frame(C45(<<0, 0>>, 5, 1, <<1, 0>>, 4660) \o C45(<<1, 0>>, 5, 1, <<1, 0>>, 7)
                \o C45(<<1, 1>>, 5, 1, <<1, 0>>, 8),
                <<Report("CLAUSE 45", <<4660, 1, 5, 1, 7>>), Report("CLAUSE 45", <<4661, 1, 5, 1, 8>>)>>)>>),
    lpc |-> Case(Lclk(1, 15), 0, {Lclk(0, 0), Lclk(0, 5), Lclk(1, 0), [clk |-> FALSE, lframe |-> 0, lad |-> 0]},
        <<Frame(<<Lclk(0, 0)>> \o Lads(<<2, 0, 0, 8, 0, 12, 3, 15, 15, 15>>),
                <<Report("START", <<0>>), Report("CT_DR", <<2>>), Report("ADDR", <<0, 0, 8, 0>>), Report("DATA", <<60>>)>>),
          Frame(<<Lclk(0, 0)>> \o Lads(<<0, 0, 0, 8, 0, 15, 15, 5, 0, 12, 3, 15, 15, 15>>),
                <<Report("START", <<0>>), Report("CT_DR", <<0>>), Report("ADDR", <<0, 0, 8, 0>>),
                  Report("SYNC", <<5>>), Report("SYNC", <<0>>), Report("DATA", <<60>>)>>),
          Frame(<<Lclk(0, 13)>> \o Lads(<<0, 0, 0, 0, 0, 1, 2, 3, 1, 15, 15, 0, 1, 2, 3, 4, 15, 15, 15>>),
                <<Report("START", <<13>>), Report("IDSEL", <<0>>), Report("ADDR", <<0, 0, 0, 0, 1, 2, 3>>),
                  Report("MSIZE", <<1>>), Report("SYNC", <<0>>), Report("DATA", <<33, 67>>)>>)>>),
    ac97 |-> Case(Ac97(0, 0, 0), 0, {Ac97(0, 0, 0), Ac97(1, 1, 0)},
        <<Frame(Ac97Bits(BitsOf(57344, 16) \o BitsOf(26, 8) \o Times(12, 0) \o BitsOf(4660, 16) \o Times(204, 0),
                         BitsOf(32768, 16) \o Times(240, 0)),
                <<Report("OUT", <<0, 1, 3072, 0>>), Report("IN", <<0, 1, 0, 0>>),
                  Report("OUT", <<1, 0, 26>>), Report("OUT", <<2, 4660>>)>>)>>)]

-----------------------------------------------------------------------------
(* Railway                                                                 *)
RailReset(d) ==
    CASE d = "dcc" -> [dcc_reset EXCEPT !.ignoreInterferingPulse = TRUE]

RailStep(d, st, e) ==
    CASE d = "dcc" -> dcc_step(st, e)

RailAtRest(d, st) ==
    CASE d = "dcc" -> st.state # "ADDRESSDATABYTE" /\ st.halves = 1 /\ st.part1 = 58 /\ st.part2 = 58

\* Two half-waves for each bit.
RECURSIVE Halves(_)
Halves(bits) ==
    IF bits = <<>> THEN <<>>
    ELSE (IF Head(bits) = 1 THEN <<58, 58>> ELSE <<100, 100>>) \o Halves(Tail(bits))

RECURSIVE DccBytes(_)
DccBytes(bytes) == IF bytes = <<>> THEN <<1>> ELSE <<0>> \o BitsOf(Head(bytes), 8) \o DccBytes(Tail(bytes))

\* A decoder looks at the third half-wave after a bit.
Dcc(bytes) == Halves(Ones(12) \o DccBytes(bytes \o <<XorOf(bytes)>>)) \o <<58, 58>>

RailCases == [
    dcc |-> Case(58, 0, {58, 3, 2, 100, 480},
        <<Frame(Dcc(<<3, 63, 133>>),
                <<Report("Decoder", <<3>>), Report("speed 128", <<>>), Report("Checksum", <<>>)>>),
          Frame(Dcc(<<196, 210, 222, 5>>),
                <<Report("Decoder", <<1234>>), Report("functions", <<>>), Report("Checksum", <<>>)>>),
          Frame(Dcc(<<129, 249>>),
                <<Report("Accessory", <<1>>), Report("basic", <<>>), Report("Checksum", <<>>)>>)>>)]

-----------------------------------------------------------------------------
(* Clocked buses                                                           *)
SampledReset(d) ==
    CASE d = "ieee488" -> [ieee488_reset EXCEPT !.iec_periph = TRUE]
      [] d = "ps2" -> ps2_reset
      [] d = "swd" -> swd_reset
      [] d = "mipi_rffe" -> mipi_rffe_reset
      [] d = "sle44xx" -> sle44xx_reset
      [] d = "avr_pdi" -> avr_pdi_reset

SampledStep(d, st, e) ==
    CASE d = "ieee488" -> ieee488_step(st, e)
      [] d = "ps2" -> ps2_step(st, e)
      [] d = "swd" -> swd_step(st, e)
      [] d = "mipi_rffe" -> mipi_rffe_step(st, e)
      [] d = "sle44xx" -> sle44xx_step(st, e)
      [] d = "avr_pdi" -> avr_pdi_step(st, e)

SampledAtRest(d, st) ==
    CASE d = "ieee488" -> st.state = "WAIT_READY_TO_SEND" /\ st.accu = <<>> /\ st.curr_eoi = 0
      [] d = "ps2" -> st.state = "IDLE" /\ ~st.htd_next
      [] d = "swd" -> st.state = "REQ" /\ st.turnaround = 0 /\ Len(st.bits) <= 120 /\ 1 \notin Range(st.bits)
      [] d = "mipi_rffe" -> st.wait = "SSC1" /\ st.was.sdata = 0
      [] d = "sle44xx" -> st.state \in {"NONE", "ATR", "CMD", "DATA", "OUT"} /\ ~st.in_reset /\ st.bits = <<>>
                          /\ st.atr = <<>> /\ st.cmd = <<>> /\ st.out = <<>>
      [] d = "avr_pdi" -> st.state = "BITS" /\ st.bits = <<>> /\ ~st.broken /\ st.insn.op = "none" /\ st.rep_count = 0

\* One byte on the IEC bus, the lowest bit first.
Iec(atn, clk, data) == [atn |-> atn, clk |-> clk, data |-> data]
RECURSIVE IecBits(_, _)
IecBits(atn, bits) ==
    IF bits = <<>> THEN <<>> ELSE <<Iec(atn, 1, Head(bits)), Iec(atn, 0, Head(bits))>> \o IecBits(atn, Tail(bits))
IecByte(atn, b) ==
    <<Iec(atn, 0, 0), Iec(atn, 1, 0), Iec(atn, 1, 1), Iec(atn, 0, 1)>> \o IecBits(atn, BitsLsb(b, 8)) \o <<Iec(atn, 0, 0)>>
IecLast(b) ==
    <<Iec(1, 0, 0), Iec(1, 1, 0), Iec(1, 1, 1), Iec(1, 1, 0), Iec(1, 1, 1), Iec(1, 0, 1)>> \o IecBits(1, BitsLsb(b, 8)) \o <<Iec(1, 0, 0)>>

Ps2(clk, data) == [clk |-> clk, data |-> data]
Word(b, parity) == <<0>> \o BitsLsb(b, 8) \o <<parity, 1>>
RECURSIVE DtoH(_)
DtoH(bits) == IF bits = <<>> THEN <<>> ELSE <<Ps2(1, Head(bits)), Ps2(0, Head(bits)), Ps2(1, Head(bits))>> \o DtoH(Tail(bits))
RECURSIVE HtoD(_)
HtoD(bits) == IF bits = <<>> THEN <<>> ELSE <<Ps2(0, Head(bits)), Ps2(1, Head(bits))>> \o HtoD(Tail(bits))

Both(bits) == [i \in DOMAIN bits |-> <<bits[i], bits[i]>>] \o <<>>

Rffe(sclk, sdata) == [sclk |-> sclk, sdata |-> sdata]
RECURSIVE RffeBits(_)
RffeBits(bits) ==
    IF bits = <<>> THEN <<>>
    ELSE <<Rffe(1, Head(bits)), Rffe(0, Head(bits))>> \o RffeBits(Tail(bits))
RffeFrame(bits) == <<Rffe(0, 1), Rffe(0, 0)>> \o RffeBits(bits) \o <<Rffe(1, 0), Rffe(0, 0), Rffe(0, 0)>>

Sle(rst, clk, io) == [rst |-> rst, clk |-> clk, io |-> io]
RECURSIVE SleBits(_)
SleBits(bits) == IF bits = <<>> THEN <<>> ELSE <<Sle(0, 0, Head(bits)), Sle(0, 1, Head(bits)), Sle(0, 0, Head(bits))>> \o SleBits(Tail(bits))
RECURSIVE SleBytes(_)
SleBytes(bytes) == IF bytes = <<>> THEN <<>> ELSE SleBits(BitsLsb(Head(bytes), 8)) \o SleBytes(Tail(bytes))

PdiByte(b) == LET bits == BitsLsb(b, 8) IN <<0>> \o bits \o <<SumOf(bits) % 2, 1>>
RECURSIVE PdiBytes(_)
PdiBytes(bytes) == IF bytes = <<>> THEN <<>> ELSE PdiByte(Head(bytes)) \o PdiBytes(Tail(bytes))

SampledCases == [
    ieee488 |-> Case(Iec(1, 1, 1), 0, {Iec(1, 1, 0), Iec(1, 1, 1), Iec(0, 0, 0)},
        <<Frame(IecByte(0, 63) \o IecByte(0, 41) \o IecByte(0, 40) \o IecByte(0, 111) \o IecByte(1, 65) \o IecLast(66),
                <<Report("COMMAND", <<63>>), Report("TALK_LISTEN", <<0>>),
                  Report("Disk", <<1>>), Report("LISTEN", <<9>>), Report("TALK_LISTEN", <<0, 9>>),
                  Report("Disk", <<0>>), Report("LISTEN", <<8>>), Report("TALK_LISTEN", <<0, 8, 9>>),
                  Report("Channel", <<6, 15>>), Report("SECONDARY", <<15>>),
                  Report("DATA_BYTE", <<0, 65>>), Report("DATA_BYTE", <<0, 66>>), Report("EOI", <<>>),
                  Report("TALKER_BYTES", <<65, 66>>)>>)>>),
    ps2 |-> Case(Ps2(1, 1), 0, {Ps2(0, 0), Ps2(0, 1), Ps2(1, 0), Ps2(1, 1)},
        <<Frame(<<Ps2(1, 1)>> \o DtoH(Word(28, 0)) \o <<Ps2(1, 1)>>, <<Report("DEVICE", <<28, 1>>)>>),
          Frame(<<Ps2(1, 1)>> \o SubSeq(DtoH(Word(250, 1)), 1, 32) \o <<Ps2(0, 0), Ps2(1, 0)>>
                \o HtoD(Tail(Word(237, 1))) \o <<Ps2(0, 0), Ps2(1, 1)>>,
                <<Report("DEVICE", <<250, 1>>), Report("HOST", <<237, 1>>), Report("ACK", <<>>)>>)>>),
    swd |-> Case(<<0, 0>>, 0, {<<1, 1>>, <<0, 0>>, <<0, 1>>},
        <<Frame(Both(<<1, 0, 1, 0, 0, 1, 0, 1, 1, 0, 0>> \o BitsLsb(4663, 16) \o BitsLsb(43981, 16) \o <<1, 0>>),
                <<Report("REQ", <<1, 0, 0>>), Report("ACK", <<0>>), Report("DATA", <<55, 18, 205, 171>>),
                  Report("READ", <<0, 0, 55, 18, 205, 171, 0>>)>>),
          Frame(Both(<<1, 0, 0, 0, 1, 1, 0, 1, 1, 0, 0, 0, 0>> \o BitsLsb(1, 31) \o <<0>> \o <<1>>),
                <<Report("REQ", <<0, 0, 8>>), Report("ACK", <<0>>), Report("DATA", <<1, 0, 0, 0>>),
                  Report("WRITE", <<0, 8, 1, 0, 0, 0, 0>>)>>),
          Frame(Both(<<1, 1, 1, 0, 0, 0, 0, 1, 0, 1, 0, 0>>), <<Report("REQ", <<1, 1, 0>>), Report("ACK", <<2>>)>>)>>),
    mipi_rffe |-> Case(Rffe(0, 0), 0, {Rffe(0, 1), Rffe(1, 0), Rffe(1, 1)},
        <<Frame(RffeFrame(<<0, 1, 0, 1>> \o <<0, 1, 0>> \o BitsOf(3, 5) \o <<0>> \o BitsOf(165, 8) \o <<1>>),
                <<Report("SSC", <<>>), Report("SA", <<5>>), Report("RW", <<>>), Report("ADDRESS", <<3>>),
                  Report("DATA", <<165>>), Report("BP", <<>>)>>),
          Frame(RffeFrame(<<0, 1, 0, 1>> \o <<0, 0, 0, 0>> \o BitsOf(1, 4) \o <<0>> \o BitsOf(7, 8) \o <<0>>
                          \o BitsOf(1, 8) \o <<0>> \o BitsOf(255, 8) \o <<1>>),
                <<Report("SSC", <<>>), Report("SA", <<5>>), Report("ERW", <<>>), Report("BC", <<1>>),
                  Report("ADDRESS", <<7>>), Report("DATA", <<1>>), Report("DATA", <<255>>), Report("BP", <<>>)>>)>>),
    sle44xx |-> Case(Sle(0, 0, 1), 0, {Sle(0, 1, 1), Sle(0, 1, 0), Sle(1, 0, 1), Sle(0, 0, 1)},
        <<Frame(<<Sle(0, 0, 1), Sle(1, 0, 1), Sle(1, 1, 1), Sle(1, 0, 1), Sle(0, 0, 1)>> \o SleBytes(<<162, 19, 16, 145>>),
                <<Report("Reset", <<>>), Report("ATR", <<162, 19, 16, 145>>)>>),
          Frame(<<Sle(0, 0, 1), Sle(1, 0, 1), Sle(0, 0, 1), Sle(0, 1, 1), Sle(0, 1, 0)>> \o SleBytes(<<49, 0, 0>>)
                \o <<Sle(0, 0, 0), Sle(0, 1, 0), Sle(0, 1, 1), Sle(0, 0, 1)>> \o SleBytes(<<7, 1, 2, 3>>),
                <<Report("Interrupt", <<>>), Report("Start", <<>>), Report("CMD", <<49, 0, 0>>), Report("Stop", <<>>),
                  Report("OUT", <<7, 1, 2, 3>>)>>)>>),
    avr_pdi |-> Case(1, 0, {0, 1},
        <<Frame(PdiBytes(<<69, 34, 17, 170, 85>>),
                <<Report("STS", <<>>), Report("Program", <<34, 17>>), Report("Program", <<170, 85>>), Report("Command", <<>>)>>),
          Frame(PdiBytes(<<160, 2, 36, 9, 8>>),
                <<Report("REPEAT", <<>>), Report("Program", <<2>>), Report("Command", <<>>),
                  Report("LD", <<>>), Report("Device", <<9>>), Report("Device", <<8>>), Report("Command", <<>>)>>)>>)]

-----------------------------------------------------------------------------
(* CAN                                                                     *)
LineReset(d) ==
    CASE d = "can" -> can_reset
      [] d = "can_fd" -> canfd_reset

LineStep(d, st, e) ==
    CASE d = "can" -> can_step(st, e)
      [] d = "can_fd" -> canfd_step(st, e)

LineAtRest(d, st) ==
    CASE d \in {"can", "can_fd"} -> st.state = "IDLE" /\ st.was = 1

\* A bit of the other value after five equal ones.
RECURSIVE StuffFrom(_, _, _)
StuffFrom(bits, out, n) ==
    IF n = 5 THEN StuffFrom(bits, Append(out, 1 - out[Len(out)]), 1)
    ELSE IF bits = <<>> THEN out
    ELSE StuffFrom(Tail(bits), Append(out, Head(bits)), IF out # <<>> /\ out[Len(out)] = Head(bits) THEN n + 1 ELSE 1)
Stuffed(bits) == StuffFrom(bits, <<>>, 0)
StuffBits(bits) == Len(Stuffed(bits)) - Len(bits)

CanEnd == <<1, 0, 1>> \o Ones(7)
CanFrame(bits, crc) == Stuffed(<<0>> \o bits \o BitsOf(crc, 15)) \o CanEnd

\* The number of stuff bits in Gray code, its parity, and the CRC of 17 bits
\* with a fixed stuff bit before each four bits.
Gray(n) == n ^^ (n \div 2)
RECURSIVE FixedStuff(_)
FixedStuff(bits) ==
    IF Len(bits) <= 4 THEN <<1 - bits[1]>> \o bits
    ELSE <<1 - bits[1]>> \o SubSeq(bits, 1, 4) \o FixedStuff(SubSeq(bits, 5, Len(bits)))
FdFrame(bits, crc) ==
    LET body == <<0>> \o bits
        count == BitsOf(Gray(StuffBits(body) % 8), 3)
        checked == Append(count, SumOf(count) % 2)
    IN  Stuffed(body) \o FixedStuff(checked \o BitsOf(crc, 17)) \o CanEnd

CanShows(list, id, dlc, data, crc, ext, full, rtr) ==
    <<Report("SOF", <<>>), Report("ID", <<id>>)>> \o list \o <<Report("DLC", <<dlc>>)>> \o data
    \o <<Report("CRC", <<crc>>), Report("ACK", <<0>>), Report("EOF", <<>>), Report("FRAME", <<ext, full, rtr, dlc>>)>>

LineCases == [
    can |-> Case(1, 0, {0, 1},
        <<Frame(CanFrame(BitsOf(1312, 11) \o <<0, 0, 0>> \o BitsOf(2, 4) \o BitsOf(0, 8) \o BitsOf(171, 8), 4660),
                CanShows(<<>>, 1312, 2, <<Report("DATA", <<0, 171>>)>>, 4660, 0, 1312, 0)),
          Frame(CanFrame(BitsOf(291, 11) \o <<1, 1>> \o BitsOf(66051, 18) \o <<1, 0, 0>> \o BitsOf(0, 4), 21845),
                CanShows(<<Report("FULL ID", <<262144 * 291 + 66051>>)>>, 291, 0, <<>>, 21845, 1, 262144 * 291 + 66051, 1))>>),
    can_fd |-> Case(1, 0, {0, 1},
        <<Frame(CanFrame(BitsOf(1312, 11) \o <<0, 0, 0>> \o BitsOf(1, 4) \o BitsOf(31, 8), 4660),
                CanShows(<<>>, 1312, 1, <<Report("DATA", <<31>>)>>, 4660, 0, 1312, 0)),
          Frame(FdFrame(BitsOf(1312, 11) \o <<0, 0, 1, 0, 1, 0>> \o BitsOf(3, 4) \o BytesMsb(<<255, 0, 7>>), 74565),
                CanShows(<<>>, 1312, 3, <<Report("DATA", <<255, 0, 7>>)>>, 74565, 0, 1312, 0)),
          Frame(FdFrame(BitsOf(291, 11) \o <<1, 1>> \o BitsOf(66051, 18) \o <<0, 1, 0, 1, 0>> \o BitsOf(1, 4) \o BitsOf(9, 8), 3),
                CanShows(<<Report("FULL ID", <<262144 * 291 + 66051>>)>>, 291, 1, <<Report("DATA", <<9>>)>>, 3,
                         1, 262144 * 291 + 66051, 0))>>)]

-----------------------------------------------------------------------------
(* Hosts and processors                                                    *)
HostReset(d) ==
    CASE d = "fsi" -> fsi_reset
      [] d = "usb_power_delivery" -> usb_pd_reset
      [] d = "z80" -> z80_reset

HostStep(d, st, e) ==
    CASE d = "fsi" -> fsi_step(st, e)
      [] d = "usb_power_delivery" -> usb_pd_step(st, e)
      [] d = "z80" -> z80_step(st, e)

HostAtRest(d, st) ==
    CASE d = "fsi" -> st.state = "IDLE" /\ st.prev = 0 /\ st.break_counter <= FsiLimit
      [] d = "usb_power_delivery" -> st.started /\ st.bits = <<>> /\ ~st.half_one
      [] d = "z80" -> st.op_state = "IDLE" /\ st.prev_cycle = "NONE"

\* The master changes its data at falling edges.
RECURSIVE Master(_)
Master(bits) ==
    IF bits = <<>> THEN <<>>
    ELSE <<<<bits[1], IF Len(bits) > 1 THEN bits[2] ELSE 0>>>> \o Master(Tail(bits))
RECURSIVE Slave(_)
Slave(bits) == IF bits = <<>> THEN <<>> ELSE <<<<bits[1], bits[1]>>>> \o Slave(Tail(bits))
RECURSIVE Crc4(_, _)
Crc4(bits, crc) ==
    IF bits = <<>> THEN crc
    ELSE Crc4(Tail(bits), IF (crc >= 8) = (bits[1] = 1) THEN (2 * crc) % 16 ELSE ((2 * crc) % 16) ^^ 7)
Checked(bits) == bits \o BitsOf(Crc4(bits, 0), 4)
Turn(n) == Times(n, <<0, 0>>)
FsiWrite == <<1>> \o BitsLsb(0, 2) \o <<1, 0, 0, 0>> \o BitsOf(4660, 21) \o <<1>> \o BitsOf(43981, 16)
FsiRead == <<1>> \o BitsLsb(0, 2) \o <<1, 1, 1>> \o <<0, 1>> \o <<0>>
FsiReply(bits) == <<1>> \o BitsLsb(0, 2) \o bits

Symbols == <<30, 9, 20, 21, 10, 11, 14, 15, 18, 19, 22, 23, 26, 27, 28, 29>>
Sym(n) == BitsLsb(n, 5)
Half(x) == Sym(Symbols[(x % 16) + 1]) \o Sym(Symbols[((x \div 16) % 16) + 1]) \o Sym(Symbols[((x \div 256) % 16) + 1])
           \o Sym(Symbols[(x \div 4096) + 1])
RECURSIVE PdHalves(_)
PdHalves(xs) == IF xs = <<>> THEN <<>> ELSE Half(Head(xs)) \o PdHalves(Tail(xs))
RECURSIVE Bmc(_)
Bmc(bits) == IF bits = <<>> THEN <<>> ELSE (IF bits[1] = 1 THEN <<"half", "half">> ELSE <<"bit">>) \o Bmc(Tail(bits))
Preamble == <<0, 1, 0, 1, 0, 1, 0, 1>>
Sop == Sym(24) \o Sym(24) \o Sym(24) \o Sym(17)
PdPacket(halves) == Bmc(Preamble \o Sop \o PdHalves(halves) \o PdHalves(compute_crc32(halves)) \o Sym(13)) \o <<"gap">>

Pins(m1, rd, wr, mreq, iorq, byte) == [m1 |-> m1, rd |-> rd, wr |-> wr, mreq |-> mreq, iorq |-> iorq, data |-> byte]
NoCycle == Pins(1, 1, 1, 1, 1, 255)
Fetch(b) == <<Pins(0, 0, 1, 0, 1, b), NoCycle>>
MemRd(b) == <<Pins(1, 0, 1, 0, 1, b), NoCycle>>
MemWr(b) == <<Pins(1, 1, 0, 0, 1, b), NoCycle>>
IoWr(b) == <<Pins(1, 1, 0, 1, 0, b), NoCycle>>

HostCases == [
    fsi |-> Case(<<0, 0>>, FsiLimit + 50, {<<1, 1>>, <<0, 0>>},
        <<Frame(Master(Checked(FsiWrite)) \o Turn(4) \o Slave(Checked(FsiReply(<<0, 0>>))) \o Turn(6)
                \o Master(Checked(FsiRead)) \o Turn(4) \o Slave(Checked(FsiReply(<<0, 0>> \o BitsOf(90, 8)))) \o Turn(5),
                <<Report("START", <<>>), Report("TX ID", <<0>>), Report("ABS_ADR", <<>>), Report("ADDRESS", <<4660>>),
                  Report("SIZE", <<16>>), Report("DATA", <<171, 205>>), Report("CRC", <<Crc4(FsiWrite, 0)>>),
                  Report("TAR", <<>>), Report("START", <<>>), Report("RX ID", <<0>>), Report("ACK", <<>>),
                  Report("CRC", <<Crc4(FsiReply(<<0, 0>>), 0)>>), Report("TAR", <<>>),
                  Report("START", <<>>), Report("TX ID", <<0>>), Report("SAME_ADR", <<>>), Report("ADDRESS", <<4661>>),
                  Report("SIZE", <<8>>), Report("CRC", <<Crc4(FsiRead, 0)>>),
                  Report("TAR", <<>>), Report("START", <<>>), Report("RX ID", <<0>>), Report("ACK_D", <<>>),
                  Report("DATA", <<90>>), Report("CRC", <<Crc4(FsiReply(<<0, 0>> \o BitsOf(90, 8)), 0)>>),
                  Report("TAR", <<>>)>>),
          Frame(Times(FsiLimit, <<1, 1>>) \o Turn(6),
                <<Report("START", <<>>), Report("TX ID", <<3>>), Report("SAME_ADR", <<>>), Report("ADDRESS", <<3>>),
                  Report("Base address unknown", <<>>), Report("TERM", <<>>), Report("CRC", <<15>>), Report("Bad CRC", <<>>),
                  Report("BREAK", <<>>), Report("TAR", <<>>)>>)>>),
    usb_power_delivery |-> Case("gap", 2, {"gap", "half", "bit"},
        <<Frame(PdPacket(<<4449, 256, 4096>>),
                <<Report("SOP", <<>>), Report("HEADER", <<4449>>), Report("DATA", <<256, 4096>>),
                  Report("CAPABILITY", <<1, 0>>), Report("CRC", compute_crc32(<<4449, 256, 4096>>)), Report("EOP", <<>>)>>),
          Frame(PdPacket(<<353>>),
                <<Report("SOP", <<>>), Report("HEADER", <<353>>), Report("CRC", compute_crc32(<<353>>)), Report("EOP", <<>>)>>)>>),
    z80 |-> Case(NoCycle, 0, {NoCycle, Pins(0, 0, 1, 0, 1, 203), Pins(1, 0, 1, 0, 1, 7), Pins(1, 1, 0, 1, 0, 9)},
        <<Frame(<<NoCycle>> \o Fetch(62) \o MemRd(18) \o Fetch(0), <<Report("INSTR", <<62, 0, 18, 2>>)>>),
          Frame(<<NoCycle>> \o Fetch(221) \o Fetch(203) \o MemRd(254) \o MemRd(198) \o MemRd(5) \o MemWr(6) \o Fetch(0),
                <<Report("INSTR", <<221, 203, 198, -2, 0, 4>>), Report("ROP", <<5>>), Report("WOP", <<6>>)>>),
          Frame(<<NoCycle>> \o Fetch(205) \o MemRd(52) \o MemRd(18) \o MemWr(1) \o MemWr(2) \o Fetch(0),
                <<Report("INSTR", <<205, 0, 4660, 3>>), Report("WOP", <<258>>)>>)>>)]

-----------------------------------------------------------------------------
(* UART and SPI                                                            *)
\* Five data bits, even parity and one and a half stop bits of four samples.
UartOptions == [rxtx |-> 0, width |-> 4, data_bits |-> 5, parity |-> "even", halves |-> 3, msb_first |-> FALSE,
                invert |-> FALSE, delim |-> 10, plen |-> 2, idle |-> 50, samplerate |-> 200]

SpiOptions == [cs |-> 0, cpol |-> 0, cpha |-> 0, lsb |-> FALSE, wordsize |-> 8, invalid |-> "both", have_io3 |-> TRUE,
               frame |-> TRUE, protocol |-> "SPI"]
QuadOptions == [SpiOptions EXCEPT !.protocol = "QUAD"]
DualOptions == [SpiOptions EXCEPT !.protocol = "DUAL", !.cpha = 1, !.cs = 1]

WireReset(d) ==
    CASE d = "uart" -> uart_reset(UartOptions)
      [] d = "uart_fast" -> uart_fast_reset(UartOptions)
      [] d = "spi" -> spi_reset(SpiOptions)
      [] d = "spi_fast" -> spi_fast_reset(SpiOptions)
      [] d = "qspi" -> qspi_reset(SpiOptions)
      [] d = "spi_dual" -> spi_dq_reset(DualOptions)
      [] d = "spi_quad" -> spi_dq_reset(QuadOptions)

WireStep(d, st, e) ==
    CASE d = "uart" -> uart_step(st, e)
      [] d = "uart_fast" -> uart_fast_step(st, e)
      [] d = "spi" -> spi_step(st, e)
      [] d = "spi_fast" -> spi_fast_step(st, e)
      [] d = "qspi" -> qspi_step(st, e)
      [] d \in {"spi_dual", "spi_quad"} -> spi_dq_step(st, e)

WireAtRest(d, st) ==
    CASE d = "uart" -> st.num = 0 /\ st.was = 1 /\ st.packet_data = <<>>
      [] d = "uart_fast" -> st.state = "WAIT_FOR_START_BIT" /\ st.was = 1 /\ st.packet_data = <<>>
      [] d \in {"spi", "spi_fast", "qspi", "spi_dual", "spi_quad"} ->
            st.started /\ st.was = [clk |-> 0, cs |-> 1 - st.o.cs]

RECURSIVE Held(_, _)
Held(bits, n) == IF bits = <<>> THEN <<>> ELSE Times(n, bits[1]) \o Held(Tail(bits), n)
UartChar(x, parity) == Held(<<0>> \o BitsLsb(x, 5) \o <<parity>>, 4) \o Ones(6)
CharShows(x, parity) ==
    <<Report("STARTBIT", <<0>>), Report("DATA", <<x, 0>>), Report("PARITYBIT", <<parity>>), Report("STOPBIT", <<1>>),
      Report("STOPBIT", <<1>>), Report("FRAME", <<0, x, 1>>)>>
FastShows(x, parity) ==
    [i \in 1 .. 6 |-> IF i = 6 THEN Report("FRAME", <<x, 0, 1>>) ELSE CharShows(x, parity)[i]] \o <<>>

SpiPins(clk, cs, io) == [clk |-> clk, cs |-> cs, io |-> io]
RECURSIVE SpiClocks(_, _)
SpiClocks(list, cs) ==
    IF list = <<>> THEN <<>>
    ELSE <<SpiPins(0, cs, list[1]), SpiPins(1, cs, list[1])>> \o SpiClocks(Tail(list), cs)
SpiFrame(list) == <<SpiPins(0, 0, list[1])>> \o SpiClocks(list, 0) \o <<SpiPins(0, 0, list[1]), SpiPins(0, 1, list[1])>>
DualFrame(list) == <<SpiPins(0, 1, list[1])>> \o [i \in 1 .. 2 * Len(list) |->
                       SpiPins(i % 2, 1, list[(i + 1) \div 2])] \o <<SpiPins(0, 0, list[1])>>
Pairs(x, y) == [i \in 1 .. 8 |-> <<BitsOf(x, 8)[i], BitsOf(y, 8)[i], 1, 1>>] \o <<>>
Reverse4(b) == <<b[4], b[3], b[2], b[1]>>
Nibbles(x) == <<Reverse4(BitsOf(x \div 16, 4)), Reverse4(BitsOf(x % 16, 4))>>
Crumbs(x) == [i \in 1 .. 4 |-> <<Bit(x, 8 - 2 * i), Bit(x, 9 - 2 * i), 1, 1>>] \o <<>>
SpiShows(x, y) == <<Report("BITS", BitsOf(x, 8) \o BitsOf(y, 8)), Report("DATA", <<x, y>>)>>
QspiShows(x, y, list) ==
    <<Report("DUAL", <<x, y>>)>> \o list \o <<Report("BITS", <<Bit(x, 7), Bit(y, 7)>>), Report("DATA", <<x, y>>)>>
InTransfer(from, list, end) == <<Report("CS-CHANGE", <<1 - from, from>>)>> \o list
                               \o <<Report("CS-CHANGE", <<from, 1 - from>>)>> \o end
SpiNoise == {SpiPins(0, 0, <<0, 1, 1, 0>>), SpiPins(1, 0, <<0, 1, 1, 0>>), SpiPins(1, 1, <<0, 1, 1, 0>>), SpiPins(0, 1, <<0, 0, 0, 0>>)}
QuadBits(x, y) == <<Bit(y, 0), Bit(x, 0), Bit(y, 1), Bit(x, 1), Bit(y, 2), Bit(x, 2), Bit(y, 3), Bit(x, 3)>>
DualBits(x) == [i \in 1 .. 4 |-> Bit(x, 2 * i - 2)] \o [i \in 1 .. 4 |-> Bit(x, 2 * i - 1)]

WireCases == [
    spi |-> Case(SpiPins(0, 1, <<0, 0, 0, 0>>), 2, SpiNoise,
        <<Frame(SpiFrame(Pairs(165, 60) \o Pairs(0, 129)),
                InTransfer(0, SpiShows(165, 60) \o SpiShows(0, 129), <<Report("TRANSFER", <<165, 0, 60, 129>>)>>))>>),
    spi_fast |-> Case(SpiPins(0, 1, <<0, 0, 0, 0>>), 2, SpiNoise,
        <<Frame(SpiFrame(Pairs(165, 60) \o Pairs(0, 129)),
                InTransfer(0, SpiShows(165, 60) \o SpiShows(0, 129), <<Report("TRANSFER", <<>>)>>))>>),
    qspi |-> Case(SpiPins(0, 1, <<0, 0, 0, 0>>), 2, SpiNoise,
        <<Frame(SpiFrame(Pairs(1, 0) \o Pairs(66, 0)),
                InTransfer(0, QspiShows(1, 0, <<Report("COMMAND", <<1>>)>>) \o QspiShows(66, 0, <<Report("WRITE", <<66>>)>>),
                           <<Report("BYTES", <<1, 66>>), Report("TRANSFER", <<>>)>>)),
          Frame(SpiFrame(Pairs(33, 0) \o Pairs(1, 0) \o Pairs(0, 0) \o Pairs(3, 0) \o Pairs(4, 0)),
                InTransfer(0, QspiShows(33, 0, <<Report("COMMAND", <<33>>)>>) \o QspiShows(1, 0, <<>>) \o QspiShows(0, 0, <<>>)
                              \o QspiShows(3, 0, <<>>) \o QspiShows(4, 0, <<Report("ADDRESS", <<1, 0, 3, 4>>)>>),
                           <<Report("BYTES", <<33, 1, 0, 3, 4>>), Report("TRANSFER", <<>>)>>))>>),
    spi_dual |-> Case(SpiPins(0, 0, <<0, 0, 0, 0>>), 2, SpiNoise,
        <<Frame(DualFrame(Crumbs(165) \o Crumbs(17)),
                InTransfer(1, <<Report("BITS", DualBits(165)), Report("DATA", <<165, 165>>),
                                Report("BITS", DualBits(17)), Report("DATA", <<17, 17>>)>>,
                           <<Report("BYTES", <<165, 17>>), Report("TRANSFER", <<>>)>>))>>),
    spi_quad |-> Case(SpiPins(0, 1, <<0, 0, 0, 0>>), 2, SpiNoise,
        <<Frame(SpiFrame(Nibbles(165) \o Nibbles(18)),
                InTransfer(0, <<Report("BITS", QuadBits(10, 5)), Report("DATA", <<165, 165>>),
                                Report("BITS", QuadBits(1, 2)), Report("DATA", <<18, 18>>)>>,
                           <<Report("BYTES", <<165, 18>>), Report("TRANSFER", <<>>)>>))>>),
    uart |-> Case(1, 110, {0, 1},
        <<Frame(UartChar(21, 1), CharShows(21, 1)),
          Frame(UartChar(31, 1) \o UartChar(0, 0),
                CharShows(31, 1) \o CharShows(0, 0) \o <<Report("PACKET", <<1, 31, 0>>)>>),
          Frame(UartChar(10, 1),
                <<Report("STARTBIT", <<0>>), Report("DATA", <<10, 0>>), Report("PARITY ERROR", <<0, 1>>),
                  Report("STOPBIT", <<1>>), Report("STOPBIT", <<1>>), Report("FRAME", <<0, 10, 0>>),
                  Report("PACKET", <<0, 10>>)>>),
          Frame(Times(40, 0) \o Ones(4),
                <<Report("STARTBIT", <<0>>), Report("DATA", <<0, 0>>), Report("PARITYBIT", <<0>>),
                  Report("INVALID STOPBIT", <<0>>), Report("STOPBIT", <<0>>), Report("FRAME", <<0, 0, 0>>),
                  Report("BREAK", <<0>>)>>)>>),
    uart_fast |-> Case(1, 0, {0, 1}, <<Frame(UartChar(21, 1), FastShows(21, 1))>>)]

-----------------------------------------------------------------------------
(* All of them                                                             *)
AllDecoders == (DOMAIN CardCases \cup DOMAIN DeviceCases \cup DOMAIN RailCases \cup DOMAIN SampledCases
               \cup DOMAIN LineCases \cup DOMAIN HostCases \cup DOMAIN WireCases) \ {"uart_fast"}

FastDecoder == {"uart_fast"}

CaseFor(d) ==
    CASE d \in DOMAIN CardCases -> CardCases[d]
      [] d \in DOMAIN DeviceCases -> DeviceCases[d]
      [] d \in DOMAIN RailCases -> RailCases[d]
      [] d \in DOMAIN SampledCases -> SampledCases[d]
      [] d \in DOMAIN LineCases -> LineCases[d]
      [] d \in DOMAIN HostCases -> HostCases[d]
      [] d \in DOMAIN WireCases -> WireCases[d]

Reset(d) ==
    CASE d \in DOMAIN CardCases -> CardReset(d)
      [] d \in DOMAIN DeviceCases -> DeviceReset(d)
      [] d \in DOMAIN RailCases -> RailReset(d)
      [] d \in DOMAIN SampledCases -> SampledReset(d)
      [] d \in DOMAIN LineCases -> LineReset(d)
      [] d \in DOMAIN HostCases -> HostReset(d)
      [] d \in DOMAIN WireCases -> WireReset(d)

Step(d, st, e) ==
    CASE d \in DOMAIN CardCases -> CardStep(d, st, e)
      [] d \in DOMAIN DeviceCases -> DeviceStep(d, st, e)
      [] d \in DOMAIN RailCases -> RailStep(d, st, e)
      [] d \in DOMAIN SampledCases -> SampledStep(d, st, e)
      [] d \in DOMAIN LineCases -> LineStep(d, st, e)
      [] d \in DOMAIN HostCases -> HostStep(d, st, e)
      [] d \in DOMAIN WireCases -> WireStep(d, st, e)

AtRest(d, st) ==
    CASE d \in DOMAIN CardCases -> CardAtRest(d, st)
      [] d \in DOMAIN DeviceCases -> DeviceAtRest(d, st)
      [] d \in DOMAIN RailCases -> RailAtRest(d, st)
      [] d \in DOMAIN SampledCases -> SampledAtRest(d, st)
      [] d \in DOMAIN LineCases -> LineAtRest(d, st)
      [] d \in DOMAIN HostCases -> HostAtRest(d, st)
      [] d \in DOMAIN WireCases -> WireAtRest(d, st)

NoiseEvents(d) == 1
FrameCount(d) == 2
=============================================================================
