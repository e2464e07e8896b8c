----------------------------- MODULE LineBuses ------------------------------
(***************************************************************************)
(* Buses of one line on which many devices talk: can, can_fd and dcc of    *)
(* c_decoders/.                                                            *)
(***************************************************************************)
EXTENDS Wires, FiniteSetsExt, TLC

-----------------------------------------------------------------------------
(***************************************************************************)
(* can and can_fd of c_decoders/.  An event is the level of the bus at the *)
(* sample point of a bit.  Falling edges resynchronise the sample point,   *)
(* so a bit is read once however long it lasts; an idle decoder starts     *)
(* with the first one.                                                     *)
(*                                                                         *)
(* raw holds the last seven bits as they come, bits the frame so far       *)
(* without stuff bits, bits[1] the start of frame; bit n of the code is    *)
(* bits[n + 1].                                                            *)
(***************************************************************************)
dlc2len == <<0, 1, 2, 3, 4, 5, 6, 7, 8, 12, 16, 20, 24, 32, 48, 64>>

can_variables ==
    [state |-> "IDLE", raw |-> <<>>, bits |-> <<>>, frame_type |-> "none", ident |-> 0, fullid |-> 0, rtr |-> 0,
     dlc |-> 0, dlc_start |-> 0, last_databit |-> 999, crc_len |-> 15]
can_reset == can_variables @@ [was |-> 1, rep |-> <<>>]
can_reset_variables(s) == can_variables @@ s

\* Five equal bits and another one, up to the CRC delimiter.
can_is_stuff_pattern(raw) ==
    LET n == Len(raw) IN
    n >= 6 /\ raw[n] # raw[n - 1] /\ \A i \in 2 .. 5 : raw[n - i] = raw[n - 1]
can_is_stuff_bit(s) == Len(s.bits) <= s.last_databit + 17 /\ can_is_stuff_pattern(s.raw)

\* Bits from to to of the frame as a number.
can_field(s, from, to) == Num(SubSeq(s.bits, from + 1, to + 1))

can_warn(s, b) == IF b THEN Say(s, "WARNING", <<>>) ELSE s

\* Seven ones end a frame.
can_eof(s) ==
    LET t == can_warn(Say(s, "EOF", <<>>), s.raw # <<1, 1, 1, 1, 1, 1, 1>>)
    IN  can_reset_variables(Say(t, "FRAME", <<IF s.frame_type = "extended" THEN 1 ELSE 0, s.fullid, s.rtr, s.dlc>>))

can_decode_frame_end(s, rx, bitnum) ==
    LET n == bitnum - s.last_databit IN
    CASE n = s.crc_len -> Say(s, "CRC", <<can_field(s, bitnum - s.crc_len + 1, bitnum)>>)
      [] n \in {s.crc_len + 1, s.crc_len + 3} -> can_warn(s, rx # 1)
      [] n = s.crc_len + 2 -> Say(s, "ACK", <<rx>>)
      [] n = s.crc_len + 10 -> can_eof(s)
      [] OTHER -> s

\* The data bytes, once the last of them is complete.
can_decode_data_field(s, bitnum, max) ==
    LET x(i) == s.dlc_start + 4 + 8 * (i - 1) IN
    IF bitnum # s.last_databit \/ s.dlc = 0 THEN s
    ELSE Say(s, "DATA", [i \in 1 .. Min({dlc2len[s.dlc + 1], max}) |-> can_field(s, x(i), x(i) + 7)] \o <<>>)

\* A remote frame has no data, whatever its length field says.
can_decode_dlc(s, bitnum) ==
    LET dlc == can_field(s, s.dlc_start, bitnum)
        t == Say(s, "DLC", <<dlc>>)
        wrong == (dlc # 0 /\ s.rtr = 1) \/ dlc > 8
        used == IF dlc # 0 /\ s.rtr = 1 THEN 0 ELSE IF dlc > 8 THEN 8 ELSE dlc
    IN  [can_warn(t, wrong /\ s.frame_type = "standard")
            EXCEPT !.dlc = used, !.last_databit = bitnum + 8 * dlc2len[used + 1]]

can_decode_rest(s, rx, bitnum) ==
    LET t == IF bitnum = s.dlc_start + 3 THEN can_decode_dlc(s, bitnum) ELSE s
        u == can_decode_data_field(t, bitnum, 8)
    IN  IF bitnum > u.last_databit THEN can_decode_frame_end(u, rx, bitnum) ELSE u

can_decode_standard_frame(s, rx, bitnum) ==
    LET t == IF bitnum = 14 THEN [s EXCEPT !.rtr = s.bits[13], !.dlc_start = 15] ELSE s
    IN  can_decode_rest(t, rx, bitnum)

can_extended_id(s) ==
    LET full == 262144 * s.ident + can_field(s, 14, 31)
    IN  [Say(s, "FULL ID", <<full>>) EXCEPT !.fullid = full]

can_decode_extended_frame(s, rx, bitnum) ==
    LET t == CASE bitnum = 14 -> [s EXCEPT !.dlc_start = 35]
               [] bitnum = 31 -> can_extended_id(s)
               [] bitnum = 32 -> [s EXCEPT !.rtr = rx]
               [] OTHER -> s
    IN  can_decode_rest(t, rx, bitnum)

can_decode_header(s, rx, bitnum) ==
    CASE bitnum = 0 -> can_warn(Say(s, "SOF", <<>>), rx # 0)
      [] bitnum = 11 ->
            LET ident == can_field(s, 1, 11)
            IN  can_warn(Say([s EXCEPT !.ident = ident, !.fullid = ident], "ID", <<ident>>), ident >= 2032)
      [] bitnum = 13 -> [s EXCEPT !.frame_type = IF rx = 0 THEN "standard" ELSE "extended"]
      [] OTHER -> s

can_take(s, rx) ==
    [s EXCEPT !.raw = IF Len(@) = 7 THEN Append(Tail(@), rx) ELSE Append(@, rx), !.bits = Append(@, rx)]

can_handle_bit(s, rx) ==
    LET t == can_take(s, rx)
        bitnum == Len(s.bits)
    IN  CASE can_is_stuff_bit(t) -> [t EXCEPT !.bits = s.bits]
          [] ~can_is_stuff_bit(t) /\ bitnum < 14 -> can_decode_header(t, rx, bitnum)
          [] ~can_is_stuff_bit(t) /\ bitnum >= 14 ->
                IF t.frame_type = "standard" THEN can_decode_standard_frame(t, rx, bitnum)
                ELSE can_decode_extended_frame(t, rx, bitnum)

can_step(s, rx) ==
    LET t == IF s.state = "GET_BITS" THEN can_handle_bit(s, rx)
             ELSE IF s.was = 1 /\ rx = 0 THEN can_handle_bit(To(can_reset_variables(s), "GET_BITS"), rx)
             ELSE s
    IN  [t EXCEPT !.was = rx]

(***************************************************************************)
(* can_fd_c.c.  A recessive FDF bit makes a frame an FD frame: its length  *)
(* field counts up to 64 bytes, the number of stuff bits is sent in Gray   *)
(* code and the CRC has fixed stuff bits.                                  *)
(***************************************************************************)
canfd_variables == can_variables @@ [fd |-> 0, stuff_count |-> 0, crc_data |-> <<>>, rate |-> "nominal"]
canfd_reset == canfd_variables @@ [was |-> 1, rep |-> <<>>]

\* The bit rate outlives a frame.
canfd_reset_variables(s) == [canfd_variables @@ s EXCEPT !.rate = s.rate]

canfd_is_stuff_bit(s) == can_is_stuff_bit(s) /\ ~(s.fd = 1 /\ Len(s.bits) > s.last_databit + 1)

gray_to_binary(bits) == Num(<<bits[1], (bits[1] + bits[2]) % 2, SumOf(bits) % 2>>)
ParityCheck(bits) == SumOf(bits) % 2 = 0

\* n counts the bits after the data: a fixed stuff bit, three bits of the
\* stuff count, their parity, and the CRC with a fixed stuff bit before each
\* four bits.
canfd_decode_fd_crc(s, rx, n) ==
    LET last(k) == SubSeq(s.bits, Len(s.bits) - k + 1, Len(s.bits))
        index == n - 5
    IN  CASE n = 1 -> [s EXCEPT !.crc_len = IF dlc2len[s.dlc + 1] <= 16 THEN 27 ELSE 32]
          [] n = 4 -> [can_warn(s, s.stuff_count % 8 # gray_to_binary(last(3))) EXCEPT !.stuff_count = 0]
          [] n = 5 -> can_warn(s, ~ParityCheck(last(4)))
          [] n > 5 /\ n < s.crc_len /\ index % 5 = 0 -> [s EXCEPT !.crc_data = @ \o last(4)]
          [] n > 5 /\ n = s.crc_len -> Say(s, "CRC", <<Num(Append(s.crc_data, rx))>>)
          [] OTHER -> s

canfd_decode_frame_end(s, rx, bitnum) ==
    LET n == bitnum - s.last_databit
        end == can_decode_frame_end(s, rx, bitnum)
    IN  CASE s.fd = 1 /\ n <= s.crc_len -> canfd_decode_fd_crc(s, rx, n)
          [] s.fd = 1 /\ n = s.crc_len + 1 -> [end EXCEPT !.rate = "nominal"]
          [] n = s.crc_len + 10 -> canfd_reset_variables(end)
          [] OTHER -> end

canfd_decode_dlc(s, bitnum) ==
    IF s.fd = 0 \/ s.rtr = 1 THEN can_decode_dlc(s, bitnum)
    ELSE LET dlc == can_field(s, s.dlc_start, bitnum)
         IN  [Say(s, "DLC", <<dlc>>) EXCEPT !.dlc = dlc, !.last_databit = bitnum + 8 * dlc2len[dlc + 1]]

canfd_decode_rest(s, rx, bitnum) ==
    LET t == IF bitnum = s.dlc_start + 3 THEN canfd_decode_dlc(s, bitnum) ELSE s
        u == can_decode_data_field(t, bitnum, 64)
    IN  IF bitnum > u.last_databit THEN canfd_decode_frame_end(u, rx, bitnum) ELSE u

canfd_decode_standard_frame(s, rx, bitnum) ==
    LET t == CASE bitnum = 14 /\ rx = 1 -> [s EXCEPT !.fd = 1, !.dlc_start = 18]
               [] bitnum = 14 /\ rx = 0 -> [s EXCEPT !.fd = 0, !.dlc_start = 15, !.rtr = s.bits[13]]
               [] OTHER -> s
    IN  canfd_decode_rest(t, rx, bitnum)

canfd_decode_extended_frame(s, rx, bitnum) ==
    LET t == CASE bitnum = 14 -> [s EXCEPT !.dlc_start = 35]
               [] bitnum = 31 -> can_extended_id(s)
               [] bitnum = 33 /\ rx = 1 -> [s EXCEPT !.fd = 1, !.dlc_start = 37]
               [] bitnum = 33 /\ rx = 0 -> [s EXCEPT !.fd = 0, !.dlc_start = 35, !.rtr = s.bits[33]]
               [] OTHER -> s
    IN  canfd_decode_rest(t, rx, bitnum)

\* The bit that switches the bit rate of the data.
canfd_is_brs(s, bitnum) ==
    s.fd = 1 /\ <<s.frame_type, bitnum>> \in {<<"standard", 16>>, <<"extended", 35>>}

canfd_handle_bit(s, rx) ==
    LET bitnum == Len(s.bits)
        t == can_take([s EXCEPT !.rate = IF rx = 1 /\ canfd_is_brs(s, bitnum) THEN "fast" ELSE @], rx)
    IN  CASE canfd_is_stuff_bit(t) -> [t EXCEPT !.bits = s.bits, !.stuff_count = @ + 1]
          [] ~canfd_is_stuff_bit(t) /\ bitnum < 14 -> can_decode_header(t, rx, bitnum)
          [] ~canfd_is_stuff_bit(t) /\ bitnum >= 14 ->
                IF t.frame_type = "standard" THEN canfd_decode_standard_frame(t, rx, bitnum)
                ELSE canfd_decode_extended_frame(t, rx, bitnum)

canfd_step(s, rx) ==
    LET t == IF s.state = "GET_BITS" THEN canfd_handle_bit(s, rx)
             ELSE IF s.was = 1 /\ rx = 0 THEN canfd_handle_bit(To(canfd_reset_variables(s), "GET_BITS"), rx)
             ELSE s
    IN  [t EXCEPT !.was = rx]

-----------------------------------------------------------------------------
(***************************************************************************)
(* Decoders of railway buses: dcc of c_decoders/.                          *)
(*                                                                         *)
(* dcc_c.c, sampled at 1 MHz.  An event is the time in microseconds        *)
(* between two edges of the track signal, a half-wave.  The bytes of a     *)
(* packet are explained one after the other; what matters here is which of *)
(* them an explanation takes, those left over are reported as unknown.     *)
(***************************************************************************)
dcc_MAX_PACKET_BYTES == 16
dcc_MAX_INTERFERING_PULSE_WIDTH == 4
dcc_accuracy == 1

\* halves: edges seen of the four that are looked at, less the first two.
dcc_reset ==
    [state |-> "WAITINGFORPREAMBLE", bits |-> 0, value |-> 0, bytes |-> <<>>, sync |-> TRUE,
     halves |-> -2, part1 |-> 0, part2 |-> 0, gap |-> 0,
     serviceMode |-> FALSE, ignoreInterferingPulse |-> FALSE, rep |-> <<>>]

dcc_setNextStatus(s, status) == [s EXCEPT !.state = status, !.bits = 0, !.bytes = <<>>]

(***************************************************************************)
(* Explanations.  Each gives the number of bytes it takes after the one at *)
(* position pos (counted from 0), and a name.                              *)
(***************************************************************************)
dcc_takes(name, n) == [name |-> name, n |-> n, valid |-> FALSE]
dcc_takes_all(name, n) == [name |-> name, n |-> n, valid |-> TRUE]

\* Service mode packets for the addresses 112 to 127.
dcc_service(b) ==
    CASE Len(b) = 3 -> dcc_takes_all("register", 1)
      [] Len(b) = 4 /\ (b[1] \div 4) \in {1, 2, 3} -> dcc_takes_all("cv", 2)
      [] Len(b) = 4 /\ (b[1] \div 4) \notin {1, 2, 3} -> dcc_takes_all("reserved", 0)
      [] OTHER -> dcc_takes("", 0)

dcc_control(subcmd) ==       \* 000
    CASE subcmd \in {2, 3} -> dcc_takes_all("factory test", 0)
      [] subcmd >= 16 -> dcc_takes("consist", 1)
      [] OTHER -> dcc_takes("control", 0)

\* 001: speed and functions take as many bytes as there are, up to four.
dcc_advanced(subcmd, left) ==
    CASE subcmd \in {30, 31} -> dcc_takes("speed 128", 1)
      [] subcmd = 29 -> dcc_takes("analog", 2)
      [] subcmd = 28 -> dcc_takes("speed and functions", 1 + Min({Max({left - 2, 0}), 4}))
      [] OTHER -> dcc_takes("reserved", 0)

dcc_speed(subcmd) == dcc_takes("speed", 0)            \* 010 and 011
dcc_function_group_1(subcmd) == dcc_takes("FG1", 0)   \* 100
dcc_function_group_2(subcmd) == dcc_takes("FG2", 0)   \* 101

dcc_future(subcmd, next) ==  \* 110
    CASE subcmd = 0 -> dcc_takes("binary state", 2)
      [] subcmd = 1 -> dcc_takes("time", IF next \div 64 \in {0, 1} THEN 3 ELSE 1)
      [] subcmd = 2 -> dcc_takes("system time", 4)
      [] OTHER -> dcc_takes("functions", 1)

dcc_cv_short(subcmd) ==
    CASE subcmd % 16 \in {2, 3, 9} -> dcc_takes("cv short", 1)
      [] subcmd % 16 \in {4, 5} -> dcc_takes("cv short", 2)
      [] OTHER -> dcc_takes("cv short", 0)

dcc_cv_long(subcmd) == dcc_takes("cv long", IF subcmd \div 4 \in {1, 2, 3} THEN 2 ELSE 0)

dcc_xpom(subcmd, left) ==
    CASE subcmd \div 4 = 1 -> dcc_takes("xpom", 3)
      [] subcmd \div 4 = 3 -> dcc_takes("xpom", 4 + Min({Max({left - 5, 0}), 3}))
      [] subcmd \div 4 = 2 -> dcc_takes("xpom", 4)
      [] OTHER -> dcc_takes("xpom", 0)

\* left is the number of bytes after this one, the checksum among them.
dcc_instruction(b, pos) ==
    LET cmd == b[pos + 1] \div 32
        subcmd == b[pos + 1] % 32
        left == Len(b) - pos - 1
    IN  CASE cmd = 0 -> dcc_control(subcmd)
          [] cmd = 1 -> dcc_advanced(subcmd, left)
          [] cmd \in {2, 3} -> dcc_speed(subcmd)
          [] cmd = 4 -> dcc_function_group_1(subcmd)
          [] cmd = 5 -> dcc_function_group_2(subcmd)
          [] cmd = 6 -> dcc_future(subcmd, IF left > 0 THEN b[pos + 2] ELSE b[pos + 1])
          [] cmd = 7 /\ subcmd >= 16 -> dcc_cv_short(subcmd)
          [] cmd = 7 /\ subcmd < 16 /\ left = 3 -> dcc_cv_long(subcmd)
          [] cmd = 7 /\ subcmd < 16 /\ left > 3 -> dcc_xpom(subcmd, left)
          [] OTHER -> dcc_takes("", 0)

\* A POM instruction in an accessory packet takes the CV and its value.
dcc_pom(b, pos) == IF (b[pos + 1] % 32) \div 4 \in {1, 2, 3} THEN 2 ELSE 0

\* Packets for accessory decoders, from their first byte.
dcc_accessory(b) ==
    LET nop == Bit(b[2], 7) = 0 /\ Bit(b[2], 3) = 1
        basic == Bit(b[2], 7) = 1
        a2 == 7 - ((b[2] \div 16) % 8)
        address == 256 * a2 + 4 * (b[1] % 64) + ((b[2] % 8) \div 2) - 3
        broadcast == address + 3 = 2047
        pom == Len(b) = 6 /\ b[3] \div 16 = 14
    IN  [takes |->
            CASE nop -> dcc_takes("nop", 1)
              [] ~nop /\ basic /\ Len(b) = 4 /\ ~broadcast /\ Bit(b[2], 3) = 0 /\ Bit(b[2], 0) = 0 ->
                    dcc_takes("basic", 2)
              [] ~nop /\ ~basic /\ Len(b) = 4 -> dcc_takes("extended", 2)
              [] ~nop /\ Len(b) = 6 -> dcc_takes("pom", 2 + (IF pom THEN dcc_pom(b, 2) ELSE 0))
              [] OTHER -> dcc_takes(IF basic THEN "basic" ELSE "extended", 1),
         address |-> address]

\* 255: idle, or a manufacturer's packet, which is shown as a whole.
dcc_system(b) ==
    IF b[2] = 0 THEN dcc_takes("idle", 1) ELSE dcc_takes_all("system", 0)

(***************************************************************************)
(* The whole packet.  An explanation that takes more bytes than there are  *)
(* stops at the last one, with an error for each missing byte.             *)
(***************************************************************************)
dcc_incPos(s, pos, n) ==
    LET last == Len(s.bytes) - 1
        missing == Max({pos + n - last, 0})
    IN  [pos |-> pos + n - missing,
         s |-> [s EXCEPT !.rep = @ \o [i \in 1 .. missing |-> Report("Missing", <<>>)]]]

\* Bytes after pos that nothing explains, and the checksum.
dcc_finish(s, pos, valid) ==
    LET n == Len(s.bytes)
        rest == SubSeq(s.bytes, pos + 2, n - 1)
        t == IF rest = <<>> THEN s ELSE Say(s, IF valid THEN "Data" ELSE "Unknown", rest)
        sum == XorOf(SubSeq(s.bytes, 1, n - 1))
    IN  IF pos + 1 >= n THEN Say(t, "No checksum", <<>>)
        ELSE Say(t, IF sum = s.bytes[n] THEN "Checksum" ELSE "Checksum error", <<>>)

dcc_explained(s, pos, takes) ==
    LET w == dcc_incPos(s, pos, takes.n) IN dcc_finish(Say(w.s, takes.name, <<>>), w.pos, takes.valid)

dcc_decoder_address(s, n, address) ==
    LET w == dcc_incPos(Say(s, "Decoder", <<address>>), 0, n)
    IN  dcc_explained(w.s, w.pos, dcc_instruction(s.bytes, w.pos))

dcc_handleDecodedBytes(s) ==
    LET b == s.bytes
        id == b[1]
        acc == dcc_accessory(b)
    IN  CASE Len(b) < 3 -> Say(s, "Too short", b)
          [] Len(b) >= 3 /\ s.serviceMode /\ id \in 112 .. 127 ->
                LET takes == dcc_service(b) IN dcc_incPos(Say(s, takes.name, <<>>), 0, takes.n).s
          [] Len(b) >= 3 /\ ~(s.serviceMode /\ id \in 112 .. 127) ->
                CASE id \in 0 .. 127 -> dcc_decoder_address(s, 1, id)
                  [] id \in 192 .. 231 -> dcc_decoder_address(s, 2, 256 * (id % 64) + b[2])
                  [] id \in 128 .. 191 ->
                        dcc_explained(Say(s, "Accessory", <<acc.address>>), 0, acc.takes)
                  [] id \in 232 .. 254 -> dcc_finish(Say(s, "Reserved", <<>>), -1, FALSE)
                  [] id = 255 ->
                        IF b[2] = 0 THEN dcc_explained(s, 0, dcc_system(b))
                        ELSE dcc_finish(Say(s, "System", <<>>), 0, TRUE)

\* A bit of the packet: "1", "0" or neither.
dcc_collectDataBytes(s, bit) ==
    CASE bit \notin {0, 1} -> dcc_setNextStatus(s, "WAITINGFORPREAMBLE")
      [] s.state = "WAITINGFORPREAMBLE" -> IF bit = 1 THEN dcc_setNextStatus(s, "PREAMBLE") ELSE s
      [] s.state = "PREAMBLE" /\ bit = 1 -> [s EXCEPT !.bits = IF @ < 8 THEN @ + 1 ELSE @]
      [] s.state = "PREAMBLE" /\ bit = 0 ->
            IF s.bits + 2 >= 10 THEN dcc_setNextStatus([s EXCEPT !.sync = FALSE], "ADDRESSDATABYTE")
            ELSE LET t == IF s.sync THEN s ELSE Say(s, "Invalid preamble", <<>>)
                 IN  dcc_setNextStatus([t EXCEPT !.sync = TRUE], "WAITINGFORPREAMBLE")
      [] s.state = "ADDRESSDATABYTE" /\ s.bits < 8 ->
            LET v == 2 * (IF s.bits = 0 THEN 0 ELSE s.value) + bit IN
            [s EXCEPT !.bits = @ + 1, !.value = v,
                      !.bytes = IF s.bits = 7 THEN Keep(@, v, dcc_MAX_PACKET_BYTES) ELSE @]
      [] s.state = "ADDRESSDATABYTE" /\ s.bits = 8 /\ bit = 0 -> [s EXCEPT !.bits = 0, !.value = 0]
      [] s.state = "ADDRESSDATABYTE" /\ s.bits = 8 /\ bit = 1 ->
            dcc_setNextStatus(dcc_handleDecodedBytes(s), "WAITINGFORPREAMBLE")

\* What two half-waves are: a bit, a one half and a zero half ("swap"), or
\* neither.
dcc_class(part1, part2) ==
    LET a == dcc_accuracy
        one(p) == 52 - a <= p /\ p <= 64 + a
        zero(p) == 90 - a <= p /\ p <= 119 + a
        long(p) == 90 - a <= p /\ p <= 10000 + a
        difference == IF part1 > part2 THEN part1 - part2 ELSE part2 - part1
    IN  CASE one(part1) /\ one(part2) /\ difference <= Max({6, 2 * a}) -> "1"
          [] (long(part1) /\ zero(part2)) \/ (long(part2) /\ zero(part1)) -> "0"
          [] 142 - a <= part1 + part2 /\ part1 + part2 <= 183 + a -> "swap"
          [] OTHER -> "unknown"

dcc_is_cutout(total) == 454 - dcc_accuracy <= total /\ total <= 613 + dcc_accuracy

dcc_resync(s) == [dcc_setNextStatus(s, "WAITINGFORPREAMBLE") EXCEPT !.sync = TRUE]

\* The next bit begins with the third edge.
dcc_advance(s, p34) == [s EXCEPT !.halves = 0, !.part1 = p34, !.gap = 0]

\* Short pulses are taken out of the half-wave they are in; one after a
\* bit of unknown timing is not, since value is NULL then.
dcc_pulse(s, p34) ==
    LET short(p) == s.ignoreInterferingPulse /\ p <= dcc_MAX_INTERFERING_PULSE_WIDTH
        sum == s.part2 + p34
    IN  CASE short(p34) /\ short(s.part2) ->
                [s EXCEPT !.halves = 0, !.part1 = @ + sum \div 2, !.gap = sum - sum \div 2]
          [] ~short(p34) /\ short(s.part2) -> [s EXCEPT !.halves = 0, !.part1 = @ + sum, !.gap = 0]
          [] OTHER -> s

dcc_four_edges(s, p34) ==
    LET class == dcc_class(s.part1, s.part2)
        pulse == dcc_pulse(s, p34)
        unknown == IF dcc_is_cutout(s.part1 + s.part2) THEN s ELSE dcc_resync(s)
    IN  CASE class = "swap" -> [dcc_resync(s) EXCEPT !.halves = -1]
          [] class # "swap" /\ pulse # s -> pulse
          [] class = "unknown" /\ pulse = s -> dcc_advance(dcc_collectDataBytes(unknown, -1), p34)
          [] class \in {"0", "1"} /\ pulse = s -> dcc_advance(dcc_collectDataBytes(s, IF class = "1" THEN 1 ELSE 0), p34)

\* The first edge and, while edges are told apart by their direction, the
\* second one are waited for before the first bit.
dcc_step(s, half) ==
    CASE s.halves = -2 -> [s EXCEPT !.halves = -1]
      [] s.halves = -1 -> dcc_advance(s, half)
      [] s.halves = 0 -> [s EXCEPT !.halves = 1, !.part2 = s.gap + half]
      [] s.halves = 1 -> dcc_four_edges(s, half)
=============================================================================
