----------------------------- MODULE HostBuses -----------------------------
(***************************************************************************)
(* fsi, usb_power_delivery and z80 of c_decoders/.                         *)
(***************************************************************************)
EXTENDS Wires, FiniteSetsExt

CONSTANT FsiLimit       \* cycles of a break, and without an answer: 256 in the code

(***************************************************************************)
(* fsi_c.c.  An event is one clock cycle: the data at its rising and at    *)
(* its falling edge.  What the master sends is sampled at rising edges,    *)
(* what a slave sends at falling ones; a bit is used one sample later.     *)
(***************************************************************************)
fsi_slaves == 0 .. 3

fsi_reset ==
    [state |-> "IDLE", bits |-> <<>>, prev |-> 0, break_counter |-> 0, break_prev |-> 0, crc_internal |-> 0,
     crc_calculating |-> FALSE, computed_crc |-> 0, received |-> FALSE, valid_response |-> FALSE,
     prev_address |-> [i \in fsi_slaves |-> -1], tx_slave_id |-> 0, rx_slave_id |-> 0, command |-> "NONE",
     direction |-> 0, negative |-> 0, address |-> 0, raw |-> 0, data_size |-> 8, length |-> 0, tar_timer |-> 0, timeout |-> 0,
     response |-> "NONE", rep |-> <<>>]

fsi_command_name(bits) ==
    CASE bits = <<1, 0, 0>> -> "ABS_ADR"
      [] bits = <<1, 0, 1>> -> "REL_ADR"
      [] bits = <<1, 1>> -> "SAME_ADR"
      [] bits = <<0, 1, 0>> -> "D_POLL"
      [] bits = <<0, 1, 1>> -> "E_POLL"
      [] bits = <<0, 0, 1>> -> "I_POLL"
      [] OTHER -> "NONE"

fsi_response_name(s, bits) ==
    CASE s.command = "I_POLL" /\ s.rx_slave_id = s.tx_slave_id /\ bits = <<0>> -> "I_POLL_RSP"
      [] bits = <<0, 0>> -> IF s.direction = 1 THEN "ACK_D" ELSE "ACK"
      [] bits = <<0, 1>> -> "BUSY"
      [] bits = <<1, 0>> -> "ERR_A"
      [] bits = <<1, 1>> -> "ERR_C"
      [] OTHER -> "NONE"

fsi_address_length(command) == CASE command = "ABS_ADR" -> 21 [] command = "REL_ADR" -> 8 [] OTHER -> 2

\* A field begins, and a field of n bits that goes on or is complete.
fsi_field(s, state) == [To(s, state) EXCEPT !.bits = <<>>]
fsi_more(s) == [s EXCEPT !.bits = Append(@, s.prev), !.crc_calculating = TRUE]
fsi_full(s, n) == Len(s.bits) + 1 >= n

fsi_idle(s) ==
    LET t == [s EXCEPT !.crc_internal = 0, !.received = FALSE] IN
    IF s.prev = 0 THEN t
    ELSE [fsi_field(Say(t, "START", <<>>), "TX_SLAVE_ID") EXCEPT !.crc_calculating = TRUE]

fsi_tx_slave_id(s) ==
    LET t == fsi_more(s)
        id == NumLsb(t.bits)
    IN  IF ~fsi_full(s, 2) THEN t
        ELSE fsi_field(Say([t EXCEPT !.tx_slave_id = id, !.command = "NONE"], "TX ID", <<id>>), "COMMAND")

fsi_command(s) ==
    LET t == fsi_more(s)
        c == fsi_command_name(t.bits)
        u == [t EXCEPT !.command = c]
    IN  CASE c = "NONE" /\ Len(t.bits) < 8 -> u
          [] c = "NONE" /\ Len(t.bits) >= 8 -> To(Say(u, "Invalid command", <<>>), "IDLE")
          [] c \in {"ABS_ADR", "REL_ADR", "SAME_ADR"} -> fsi_field(Say(u, c, <<>>), "DIRECTION")
          [] c \in {"D_POLL", "E_POLL", "I_POLL"} -> fsi_field(Say(u, c, <<>>), "CRC")

fsi_direction(s) ==
    [fsi_field(s, IF s.command = "REL_ADR" THEN "SIGN" ELSE "ADDRESS")
        EXCEPT !.direction = s.prev, !.crc_calculating = TRUE]

fsi_sign(s) == [fsi_field(s, "ADDRESS") EXCEPT !.negative = s.prev, !.crc_calculating = TRUE]

\* Short addresses build on the last address the slave acknowledged.
fsi_address(s) ==
    LET t == fsi_more(s)
        raw == Num(t.bits)
        base == s.prev_address[s.tx_slave_id]
        address == CASE s.command = "SAME_ADR" /\ base >= 0 -> (base - (base % 4)) + raw
                     [] s.command = "REL_ADR" /\ base >= 0 -> base + (IF s.negative = 1 THEN raw - 256 ELSE raw)
                     [] OTHER -> raw
        u == Say([t EXCEPT !.raw = raw, !.address = address], "ADDRESS", <<address>>)
    IN  IF ~fsi_full(s, fsi_address_length(s.command)) THEN t
        ELSE fsi_field(IF s.command # "ABS_ADR" /\ base < 0 THEN Say(u, "Base address unknown", <<>>) ELSE u, "DATA_SIZE")

fsi_aligned(address, size) ==
    CASE size = 32 -> (address - (address % 4)) + 1 [] size = 16 -> address - (address % 2) [] OTHER -> address

\* The size bit and the low bits of the address tell the size.
fsi_data_size(s) ==
    LET t == [s EXCEPT !.crc_calculating = TRUE]
        size == CASE s.prev = 0 -> 8 [] s.prev = 1 /\ s.raw % 4 = 1 -> 32 [] s.prev = 1 /\ s.raw % 2 = 0 -> 16 [] OTHER -> 0
    IN  CASE s.direction = 1 /\ s.raw % 4 = 3 /\ s.prev = 1 ->
                fsi_field(Say([t EXCEPT !.command = "TERM", !.direction = 0], "TERM", <<>>), "CRC")
          [] ~(s.direction = 1 /\ s.raw % 4 = 3 /\ s.prev = 1) /\ size = 0 ->
                To(Say([t EXCEPT !.data_size = 0], "Data size unknown", <<>>), "IDLE")
          [] OTHER -> fsi_field(Say([t EXCEPT !.data_size = size, !.length = IF s.direction = 1 THEN @ ELSE size,
                                              !.address = fsi_aligned(@, size)], "SIZE", <<size>>),
                                IF s.direction = 1 THEN "CRC" ELSE "TX_DATA")

\* Thirty-two bits, in octets.
fsi_data(s) ==
    LET t == fsi_more(s) IN
    IF fsi_full(s, s.length) THEN fsi_field(Say(t, "DATA", Octets(t.bits)), "CRC") ELSE t

\* The last address counts once the slave has acknowledged it.
fsi_crc_complete(s, t) ==
    LET crc == Num(t.bits)
        u == Say(t, "CRC", <<crc>>)
        acknowledged == s.received /\ s.command \in {"ABS_ADR", "REL_ADR", "SAME_ADR"} /\ s.response \in {"ACK_D", "ACK"}
        v == IF crc # t.computed_crc THEN Say(u, "Bad CRC", <<>>)
             ELSE IF acknowledged THEN [u EXCEPT !.prev_address[s.tx_slave_id] = s.address] ELSE u
    IN  [To(v, "TAR") EXCEPT !.tar_timer = 0, !.timeout = 0]

fsi_crc(s) ==
    LET t == [fsi_more(s) EXCEPT !.computed_crc = IF s.bits = <<>> THEN s.crc_internal ELSE @]
    IN  IF fsi_full(s, 4) THEN fsi_crc_complete(s, t) ELSE t

fsi_break_tar(s) ==
    LET t == [s EXCEPT !.tar_timer = @ + 1] IN
    IF t.tar_timer <= 3 THEN t
    ELSE To(Say([t EXCEPT !.crc_calculating = FALSE, !.crc_internal = 0], "TAR", <<>>), "IDLE")

\* After the turnaround the slave answers; after its answer the master may
\* begin at once.
fsi_tar(s) ==
    LET t == [s EXCEPT !.crc_calculating = FALSE, !.crc_internal = 0, !.tar_timer = @ + 1]
        done == s.received /\ s.rx_slave_id = s.tx_slave_id
        u == [To(t, IF done THEN "IDLE" ELSE "TAR") EXCEPT !.received = FALSE]
        v == IF s.timeout = 0 THEN Say(u, "TAR", <<>>) ELSE u
        started == [fsi_field(Say(v, "START", <<>>), IF done THEN "TX_SLAVE_ID" ELSE "RX_SLAVE_ID")
                        EXCEPT !.crc_calculating = TRUE]
        later == [v EXCEPT !.timeout = @ + 1]
    IN  CASE t.tar_timer <= 3 -> t
          [] t.tar_timer > 3 /\ s.prev = 1 -> started
          [] t.tar_timer > 3 /\ s.prev = 0 ->
                IF later.timeout >= FsiLimit THEN To(Say(later, "Response timeout", <<>>), "IDLE") ELSE later

fsi_rx_slave_id(s) ==
    LET t == [fsi_more(s) EXCEPT !.received = TRUE]
        id == NumLsb(t.bits)
        u == Say([t EXCEPT !.rx_slave_id = id, !.response = "NONE", !.valid_response = FALSE], "RX ID", <<id>>)
    IN  IF ~fsi_full(s, 2) THEN t
        ELSE fsi_field(IF id # s.tx_slave_id THEN Say(u, "Slave ID mismatch", <<>>) ELSE u, "RESPONSE")

\* Two bits always make an answer.
fsi_response(s) ==
    LET t == fsi_more(s)
        r == fsi_response_name(s, t.bits)
        u == Say([t EXCEPT !.response = r, !.valid_response = TRUE], r, <<>>)
    IN  CASE r = "NONE" -> t
          [] r = "ACK_D" -> [fsi_field(u, "RX_DATA") EXCEPT !.length = IF s.data_size = 0 THEN @ ELSE s.data_size]
          [] r = "I_POLL_RSP" -> [fsi_field(u, "RX_INTERRUPT") EXCEPT !.length = 2]
          [] r \in {"ACK", "BUSY", "ERR_A", "ERR_C"} -> fsi_field(u, "CRC")

fsi_rx_interrupt(s) ==
    LET t == fsi_more(s) IN
    IF fsi_full(s, s.length) THEN [fsi_field(Say(t, "INTERRUPT", <<Num(t.bits)>>), "RX_DMA") EXCEPT !.length = 3] ELSE t
fsi_rx_dma(s) ==
    LET t == fsi_more(s) IN
    IF fsi_full(s, s.length) THEN fsi_field(Say(t, "DMA", <<Num(t.bits)>>), "CRC") ELSE t

fsi_state(s) ==
    CASE s.state = "IDLE" -> fsi_idle(s)
      [] s.state = "TX_SLAVE_ID" -> fsi_tx_slave_id(s)
      [] s.state = "COMMAND" -> fsi_command(s)
      [] s.state = "DIRECTION" -> fsi_direction(s)
      [] s.state = "SIGN" -> fsi_sign(s)
      [] s.state = "ADDRESS" -> fsi_address(s)
      [] s.state = "DATA_SIZE" -> fsi_data_size(s)
      [] s.state \in {"TX_DATA", "RX_DATA"} -> fsi_data(s)
      [] s.state = "CRC" -> fsi_crc(s)
      [] s.state = "BREAK_TAR_QUEUED" -> [To(s, "BREAK_TAR") EXCEPT !.tar_timer = 0]
      [] s.state = "BREAK_TAR" -> fsi_break_tar(s)
      [] s.state = "TAR" -> fsi_tar(s)
      [] s.state = "RX_SLAVE_ID" -> fsi_rx_slave_id(s)
      [] s.state = "RESPONSE" -> fsi_response(s)
      [] s.state = "RX_INTERRUPT" -> fsi_rx_interrupt(s)
      [] s.state = "RX_DMA" -> fsi_rx_dma(s)

\* Polynomial x^4 + x^2 + x + 1, the most significant bit first.
fsi_crc4(crc, bit) == ((2 * crc) % 16) ^^ (IF Bit(crc, 3) # bit THEN 7 ELSE 0)

fsi_sample(s, d) ==
    LET t == fsi_state(s)
    IN  [t EXCEPT !.crc_internal = IF t.crc_calculating THEN fsi_crc4(@, s.prev) ELSE @, !.prev = d]

\* The master may break in at any time.
fsi_break(s, d) ==
    LET n == IF s.break_prev = 1 THEN s.break_counter + 1 ELSE 0
        t == [s EXCEPT !.break_counter = n, !.break_prev = d]
    IN  CASE n = FsiLimit ->
                [To(Say(t, "BREAK", <<>>), "BREAK_TAR_QUEUED")
                    EXCEPT !.valid_response = FALSE, !.prev_address = [i \in fsi_slaves |-> -1]]
          [] s.break_prev = 0 /\ s.break_counter > FsiLimit -> Say(t, "BREAK too long", <<>>)
          [] OTHER -> t

fsi_slave_sends(s) ==
    \/ s.state \in {"TAR", "RX_SLAVE_ID", "RESPONSE", "RX_DATA", "RX_INTERRUPT", "RX_DMA"}
    \/ s.state = "CRC" /\ s.valid_response

fsi_rising(s, d) == LET t == fsi_break(s, d) IN IF fsi_slave_sends(t) THEN t ELSE fsi_sample(t, d)
fsi_falling(s, d) == IF fsi_slave_sends(s) THEN fsi_sample(s, d) ELSE s
fsi_step(s, e) == fsi_falling(fsi_rising(s, e[1]), e[2])

(***************************************************************************)
(* usb_power_delivery_c.c.  An event is the time since the last edge:      *)
(* "half" a bit, a whole "bit" or a "gap" (also the tick of every          *)
(* millisecond without an edge).  Two halves are a one, a whole bit is a   *)
(* zero; a gap ends the packet, which is then decoded at once.  Words of   *)
(* 32 bits are pairs of 16, the low one first.                             *)
(***************************************************************************)
usb_pd_reset == [started |-> FALSE, half_one |-> FALSE, bits |-> <<>>, cap_mark |-> [i \in 0 .. 16 |-> 0], rep |-> <<>>]

DEC4B5B ==
    <<16, 16, 16, 16, 16, 16, 19, 20, 16, 1, 4, 5, 16, 22, 6, 7, 16, 18, 8, 9, 2, 3, 10, 11, 17, 21, 12, 13, 14, 15, 0, 16>>
SOP_SEQUENCES ==
    <<<<17, 17, 17, 18>>, <<17, 17, 19, 19>>, <<17, 19, 17, 19>>, <<17, 21, 21, 19>>, <<17, 21, 19, 18>>,
      <<20, 17, 20, 19>>, <<20, 20, 20, 21>>>>
SOP_NAMES == <<"SOP", "SOP'", "SOP''", "SOP' Debug", "SOP'' Debug", "Cable Reset", "Hard Reset">>
EOP_SYM == 22

\* Positions count from 0, as in the code.
get_sym(bits, i) == IF i + 4 >= Len(bits) THEN 16 ELSE DEC4B5B[NumLsb(SubSeq(bits, i + 1, i + 5)) + 1]

\* A symbol that is no digit disturbs the next one.
get_short(bits, i) ==
    LET k(j) == get_sym(bits, i + 5 * j) IN
    IF Len(bits) - i <= 20 THEN [val |-> 2989, idx |-> i, cut |-> 1]
    ELSE [val |-> (k(0) | (k(1) * 16) | (k(2) * 256) | (k(3) * 4096)) % 65536, idx |-> i + 20, cut |-> 0]
get_word(bits, i) ==
    LET lo == get_short(bits, i)
        hi == get_short(bits, lo.idx)
    IN  [val |-> <<lo.val, hi.val>>, idx |-> hi.idx, cut |-> lo.cut + hi.cut]

\* The ordered set that symbols k make, three of the four being enough.
usb_pd_sop(k) ==
    LET hits(q) == Cardinality({j \in 1 .. 4 : k[j] = SOP_SEQUENCES[q][j]})
        exact == {q \in 1 .. 7 : k = SOP_SEQUENCES[q]}
        near == {q \in 1 .. 7 : hits(q) >= 3}
    IN  IF exact # {} THEN Min(exact) ELSE IF near # {} THEN Min(near) ELSE 0

\* The first ordered set from position i on.
RECURSIVE scan_eop(_, _)
scan_eop(bits, i) ==
    LET name == usb_pd_sop(<<get_sym(bits, i), get_sym(bits, i + 5), get_sym(bits, i + 10), get_sym(bits, i + 15)>>)
    IN  IF i > Len(bits) - 20 THEN [name |-> 0, idx |-> -1]
        ELSE IF name # 0 THEN [name |-> name, idx |-> i + 20] ELSE scan_eop(bits, i + 1)

usb_pd_warn(s, n) == IF n > 0 THEN Say(s, "Truncated", <<>>) ELSE s

head_count(head) == Bits(head, 12, 14)
head_ext(head) == Bit(head, 15)
head_type(head) == Bits(head, 0, 4)

\* Capabilities are remembered: a request refers to them by their position.
get_request(s, word) ==
    LET pos == word[2] \div 4096 IN Say(s, "REQUEST", <<pos, s.cap_mark[pos]>>)
get_source_sink_cap(s, word, idx) ==
    LET t1 == word[2] \div 16384 IN Say([s EXCEPT !.cap_mark[idx] = t1], "CAPABILITY", <<idx, t1>>)

putpayload(s, head, word, i) ==
    LET t == head_type(head) IN
    CASE head_ext(head) = 1 -> s
      [] head_ext(head) = 0 /\ (t = 2 \/ (t = 9 /\ i = 0)) -> get_request(s, word)
      [] head_ext(head) = 0 /\ (t \in {1, 4} \/ (t = 9 /\ i > 0)) -> get_source_sink_cap(s, word, i + 1)
      [] OTHER -> s

\* The data objects: their words, where they end, and what was said of them.
RECURSIVE usb_pd_objects(_, _, _, _)
usb_pd_objects(s, head, idx, data) ==
    LET w == get_word(s.bits, idx)
        t == Say(usb_pd_warn(s, w.cut), "DATA", w.val)
    IN  IF Len(data) = head_count(head) THEN [s |-> s, idx |-> idx, data |-> data]
        ELSE usb_pd_objects(putpayload(t, head, w.val, Len(data)), head, w.idx, Append(data, w.val))

\* CRC-32 of the 16-bit halves, the low byte of each first.
RECURSIVE crc32_bits(_, _)
crc32_bits(crc, n) ==
    LET next == <<(crc[1] \div 2) + 32768 * (crc[2] % 2), crc[2] \div 2>>
    IN  IF n = 0 THEN crc
        ELSE crc32_bits(IF crc[1] % 2 = 1 THEN <<next[1] ^^ 33568, next[2] ^^ 60856>> ELSE next, n - 1)
RECURSIVE crc32_from(_, _)
crc32_from(crc, halves) ==
    IF halves = <<>> THEN <<crc[1] ^^ 65535, crc[2] ^^ 65535>>
    ELSE crc32_from(crc32_bits(<<crc[1] ^^ Head(halves), crc[2]>>, 16), Tail(halves))
compute_crc32(halves) == crc32_from(<<65535, 65535>>, halves)

usb_pd_end(s, head, objects) ==
    LET w == get_word(s.bits, objects.idx)
        t == usb_pd_warn(s, w.cut)
        u == IF w.val # compute_crc32(<<head>> \o FlattenSeq(objects.data)) THEN Say(t, "CRC!", <<>>) ELSE t
        v == Say(u, "CRC", w.val)
    IN  IF Len(s.bits) >= w.idx + 5 /\ get_sym(s.bits, w.idx) = EOP_SYM THEN Say(v, "EOP", <<>>) ELSE Say(v, "EOP!", <<>>)

\* An extended message has a second header.
usb_pd_message(s, idx) ==
    LET h == get_short(s.bits, idx)
        x == get_short(s.bits, h.idx)
        t == Say(usb_pd_warn(s, h.cut), "HEADER", <<h.val>>)
        ext == head_ext(h.val) = 1
        u == IF ext THEN Say(usb_pd_warn(t, x.cut), "EXTENDED", <<x.val>>) ELSE t
        objects == usb_pd_objects(u, h.val, IF ext THEN x.idx ELSE h.idx, <<>>)
    IN  usb_pd_end(objects.s, h.val, objects)

decode_packet(s) ==
    LET start == scan_eop(s.bits, 0) IN
    CASE Len(s.bits) < 49 -> s
      [] Len(s.bits) >= 49 /\ start.name = 0 -> Say(s, "No start of packet", <<>>)
      [] Len(s.bits) >= 49 /\ start.name \in {6, 7} -> Say(s, SOP_NAMES[start.name], <<>>)
      [] Len(s.bits) >= 49 /\ start.name \in 1 .. 5 -> usb_pd_message(Say(s, SOP_NAMES[start.name], <<>>), start.idx)

\* bits[4096] drops what does not fit.
usb_pd_step(s, e) ==
    CASE ~s.started -> [s EXCEPT !.started = TRUE]
      [] s.started /\ e = "gap" -> [decode_packet(s) EXCEPT !.bits = <<>>, !.half_one = FALSE]
      [] s.started /\ e = "bit" -> [s EXCEPT !.bits = Keep(@, 0, 4096), !.half_one = FALSE]
      [] s.started /\ e = "half" -> [s EXCEPT !.bits = IF s.half_one THEN Keep(@, 1, 4096) ELSE @, !.half_one = ~@]

-----------------------------------------------------------------------------
(***************************************************************************)
(* z80_c.c: bus cycles and disassembly.  An event is the state of the      *)
(* control pins after one of them has changed, with the data bus.  The     *)
(* address and data rows, which only repeat the bus, are left out.         *)
(***************************************************************************)
Instr(dis, imm, read, write, repeat) == [dis |-> dis, imm |-> imm, read |-> read, write |-> write, repeat |-> repeat]
NoInstr == Instr(-1, 0, 0, 0, 0)

\* What an opcode is followed by: displacement, immediate bytes, operands
\* read and written (below 0: the high byte first), and whether it repeats.
main_instr_table(op) ==
    CASE op \in {203, 221, 237, 253} -> NoInstr
      [] op \in {197, 199, 207, 213, 215, 223, 229, 231, 239, 245, 247, 255} -> Instr(0, 0, 0, -2, 0)
      [] op \in {2, 18} \cup (112 .. 117) \cup {119} -> Instr(0, 0, 0, 1, 0)
      [] op \in {10, 26, 70, 78, 86, 94, 102, 110, 126, 134, 142, 150, 158, 166, 174, 182, 190} -> Instr(0, 0, 1, 0, 0)
      [] op \in {52, 53} -> Instr(0, 0, 1, 1, 0)
      [] op \in {192, 193, 200, 201, 208, 209, 216, 224, 225, 232, 240, 241, 248} -> Instr(0, 0, 2, 0, 0)
      [] op = 227 -> Instr(0, 0, 2, 2, 0)
      [] op \in {6, 14, 22, 30, 38, 46, 62, 198, 206, 214, 222, 230, 238, 246, 254} -> Instr(0, 1, 0, 0, 0)
      [] op \in {54, 211} -> Instr(0, 1, 0, 1, 0)
      [] op = 219 -> Instr(0, 1, 1, 0, 0)
      [] op \in {196, 204, 205, 212, 220, 228, 236, 244, 252} -> Instr(0, 2, 0, -2, 0)
      [] op \in {1, 17, 33, 49, 194, 195, 202, 210, 218, 226, 234, 242, 250} -> Instr(0, 2, 0, 0, 0)
      [] op = 50 -> Instr(0, 2, 0, 1, 0)
      [] op = 34 -> Instr(0, 2, 0, 2, 0)
      [] op = 58 -> Instr(0, 2, 1, 0, 0)
      [] op = 42 -> Instr(0, 2, 2, 0, 0)
      [] op \in {16, 24, 32, 40, 48, 56} -> Instr(1, 0, 0, 0, 0)
      [] OTHER -> Instr(0, 0, 0, 0, 0)

ed_instr_table(op) ==
    CASE op \in 64 .. 127 /\ op % 8 = 0 -> Instr(0, 0, 1, 0, 0)
      [] op \in 64 .. 127 /\ op % 8 = 1 -> Instr(0, 0, 0, 1, 0)
      [] op \in 64 .. 127 /\ op % 8 = 5 -> Instr(0, 0, 2, 0, 0)
      [] op \in 64 .. 127 /\ op % 16 = 3 -> Instr(0, 2, 0, 2, 0)
      [] op \in 64 .. 127 /\ op % 16 = 11 -> Instr(0, 2, 2, 0, 0)
      [] op \in {103, 111, 160, 162, 163, 168, 170, 171} -> Instr(0, 0, 1, 1, 0)
      [] op \in {161, 169} -> Instr(0, 0, 1, 0, 0)
      [] op \in {177, 185} -> Instr(0, 0, 1, 0, 1)
      [] op \in {176, 178, 179, 184, 186, 187} -> Instr(0, 0, 1, 1, 1)
      [] op \in 64 .. 127 /\ op % 8 \in {2, 4, 6} -> Instr(0, 0, 0, 0, 0)
      [] op \in {71, 79, 87, 95} -> Instr(0, 0, 0, 0, 0)
      [] OTHER -> NoInstr

\* The operand is at (HL) in every eighth opcode; BIT only reads it.
cb_instr_table(op) ==
    IF op % 8 # 6 THEN Instr(0, 0, 0, 0, 0) ELSE Instr(0, 0, 1, IF op \in 64 .. 127 THEN 0 ELSE 1, 0)

idx_instr_table(op) ==
    CASE op = 229 -> Instr(0, 0, 0, -2, 0)
      [] op = 225 -> Instr(0, 0, 2, 0, 0)
      [] op = 227 -> Instr(0, 0, 2, 2, 0)
      [] op \in {38, 46} -> Instr(0, 1, 0, 0, 0)
      [] op = 33 -> Instr(0, 2, 0, 0, 0)
      [] op = 34 -> Instr(0, 2, 0, 2, 0)
      [] op = 42 -> Instr(0, 2, 2, 0, 0)
      [] op \in (112 .. 117) \cup {119} -> Instr(1, 0, 0, 1, 0)
      [] op \in {70, 78, 86, 94, 102, 110, 126, 134, 142, 150, 158, 166, 174, 182, 190} -> Instr(1, 0, 1, 0, 0)
      [] op \in {52, 53} -> Instr(1, 0, 1, 1, 0)
      [] op = 54 -> Instr(1, 1, 0, 1, 0)
      [] op \in {9, 25, 41, 57, 233, 249} \cup (35 .. 37) \cup (43 .. 45) \cup (96 .. 101) \cup (103 .. 109) \cup {111}
             \cup {x \in 68 .. 189 : x % 8 \in {4, 5} /\ (x < 96 \/ x > 123)} -> Instr(0, 0, 0, 0, 0)
      [] OTHER -> NoInstr

idx_bit_instr_table(op) == Instr(0, 0, 1, IF op \in 64 .. 127 THEN 0 ELSE 1, 0)

instr_table_by_prefix(prefix, op) ==
    CASE prefix = <<237>> -> ed_instr_table(op)
      [] prefix = <<203>> -> cb_instr_table(op)
      [] prefix \in {<<221>>, <<253>>} -> idx_instr_table(op)
      [] prefix \in {<<221, 203>>, <<253, 203>>} -> idx_bit_instr_table(op)
      [] OTHER -> main_instr_table(op)

z80_reset ==
    [op_state |-> "IDLE", first |-> TRUE, was |-> [m1 |-> 1, rd |-> 1, wr |-> 1, mreq |-> 1, iorq |-> 1],
     prev_cycle |-> "NONE", bus_data |-> -1, pend_data |-> 0, len |-> 0, prefix |-> <<>>, op |-> <<>>,
     want |-> Instr(0, 0, 0, 0, 0), dis |-> 0, imm |-> 0, read |-> 0, write |-> 0, rep |-> <<>>]

z80_detect_cycle(pins) ==
    CASE pins.mreq = 0 -> IF pins.rd = 0 THEN (IF pins.m1 = 0 THEN "FETCH" ELSE "MEMRD")
                          ELSE IF pins.wr = 0 THEN "MEMWR" ELSE "NONE"
      [] pins.mreq = 1 /\ pins.iorq = 0 -> IF pins.m1 = 0 THEN "INTACK" ELSE IF pins.rd = 0 THEN "IORD"
                                           ELSE IF pins.wr = 0 THEN "IOWR" ELSE "NONE"
      [] OTHER -> "NONE"

signed_byte(b) == IF b < 128 THEN b ELSE b - 256
Reading(cycle) == cycle \in {"MEMRD", "IORD"}
Writing(cycle) == cycle \in {"MEMWR", "IOWR"}

\* put_disasm() prints the instruction, or the operand it read or wrote.
z80_warn(s) == [Say(s, "WARN", <<>>) EXCEPT !.op_state = "RESTART"]
z80_instruction(s) ==
    [Say(s, "INSTR", s.op \o <<s.dis, s.imm, s.len>>)
        EXCEPT !.op_state = IF s.want.read > 0 /\ Reading(s.prev_cycle) THEN "ROP1"
                            ELSE IF s.want.write # 0 /\ Writing(s.prev_cycle) THEN "WOP1" ELSE "RESTART"]

z80_idle(s) ==
    IF s.prev_cycle # "FETCH" THEN s
    ELSE [s EXCEPT !.want = Instr(0, 0, 0, 0, 0), !.dis = 0, !.imm = 0, !.read = 0, !.write = 0, !.prefix = <<>>, !.len = 0,
                   !.op_state = IF s.bus_data \in {203, 237, 221, 253} THEN "PRE1" ELSE "OPCODE"]

z80_pre1(s) ==
    IF s.prev_cycle # "FETCH" THEN z80_warn(s)
    ELSE [s EXCEPT !.prefix = <<s.pend_data>>,
                   !.op_state = IF s.pend_data \notin {221, 253} THEN "OPCODE"
                                ELSE IF s.bus_data = 203 THEN "PRE2"
                                ELSE IF s.bus_data \in {221, 237, 253} THEN "PRE1" ELSE "OPCODE"]

z80_pre2(s) ==
    IF s.prev_cycle # "MEMRD" THEN z80_warn(s) ELSE [s EXCEPT !.prefix = Append(@, s.pend_data), !.op_state = "PREDIS"]
z80_predis(s) ==
    IF s.prev_cycle # "MEMRD" THEN z80_warn(s) ELSE [s EXCEPT !.dis = signed_byte(s.pend_data), !.op_state = "OPCODE"]

z80_opcode(s) ==
    LET instr == instr_table_by_prefix(s.prefix, s.pend_data)
        t == [s EXCEPT !.prefix = <<>>, !.op = s.prefix \o <<s.pend_data>>, !.want = instr]
    IN  CASE instr = NoInstr -> z80_warn([s EXCEPT !.prefix = <<>>])
          [] instr # NoInstr /\ instr.dis > 0 -> [t EXCEPT !.op_state = "POSTDIS"]
          [] instr # NoInstr /\ instr.dis = 0 /\ instr.imm > 0 -> [t EXCEPT !.op_state = "IMM1"]
          [] OTHER -> z80_instruction(t)

z80_postdis(s) ==
    LET t == [s EXCEPT !.dis = signed_byte(s.pend_data)] IN
    IF s.want.imm > 0 THEN [t EXCEPT !.op_state = "IMM1"] ELSE z80_instruction(t)
z80_imm1(s) ==
    LET t == [s EXCEPT !.imm = s.pend_data] IN
    IF s.want.imm > 1 THEN [t EXCEPT !.op_state = "IMM2"] ELSE z80_instruction(t)
z80_imm2(s) == z80_instruction([s EXCEPT !.imm = @ + 256 * s.pend_data])

z80_rop1(s) ==
    LET t == [s EXCEPT !.read = s.pend_data]
        u == IF s.want.read < 2 THEN Say(t, "ROP", <<t.read>>) ELSE t
    IN  [u EXCEPT !.op_state = IF s.want.write # 0 THEN "WOP1" ELSE IF s.want.read > 1 THEN "ROP2"
                               ELSE IF s.want.repeat = 1 /\ Reading(s.prev_cycle) THEN "ROP1" ELSE "RESTART"]
z80_rop2(s) ==
    LET t == [s EXCEPT !.read = @ + 256 * s.pend_data] IN
    [Say(t, "ROP", <<t.read>>) EXCEPT !.op_state = IF s.want.write # 0 /\ Writing(s.prev_cycle) THEN "WOP1" ELSE "RESTART"]
z80_wop1(s) ==
    LET t == [s EXCEPT !.write = s.pend_data] IN
    IF s.want.read > 1 THEN [t EXCEPT !.op_state = "ROP2"]
    ELSE IF s.want.write \in {2, -2} THEN [t EXCEPT !.op_state = "WOP2"]
    ELSE [Say(t, "WOP", <<t.write>>)
            EXCEPT !.op_state = IF s.want.read > 0 /\ s.want.repeat = 1 /\ Reading(s.prev_cycle) THEN "ROP1" ELSE "RESTART"]
z80_wop2(s) ==
    LET t == [s EXCEPT !.write = IF s.want.write < 0 THEN 256 * @ + s.pend_data ELSE @ + 256 * s.pend_data]
    IN  [Say(t, "WOP", <<t.write>>) EXCEPT !.op_state = "RESTART"]

z80_state(s) ==
    CASE s.op_state = "IDLE" -> z80_idle(s)
      [] s.op_state = "PRE1" -> z80_pre1(s)
      [] s.op_state = "PRE2" -> z80_pre2(s)
      [] s.op_state = "PREDIS" -> z80_predis(s)
      [] s.op_state = "OPCODE" -> z80_opcode(s)
      [] s.op_state = "POSTDIS" -> z80_postdis(s)
      [] s.op_state = "IMM1" -> z80_imm1(s)
      [] s.op_state = "IMM2" -> z80_imm2(s)
      [] s.op_state = "ROP1" -> z80_rop1(s)
      [] s.op_state = "ROP2" -> z80_rop2(s)
      [] s.op_state = "WOP1" -> z80_wop1(s)
      [] s.op_state = "WOP2" -> z80_wop2(s)

\* The end of a bus cycle: what it read or wrote is looked at one cycle
\* later.  An instruction that is complete leaves the decoder idle, so the
\* cycle that completed it, the fetch of the next opcode, is not looked at.
z80_cycle_end(s) ==
    LET t == z80_state([s EXCEPT !.len = @ + 1])
    IN  [t EXCEPT !.op_state = IF @ = "RESTART" THEN "IDLE" ELSE @, !.pend_data = s.bus_data]

\* The data bus is read while a cycle lasts.
z80_step(s, e) ==
    LET pins == [m1 |-> e.m1, rd |-> e.rd, wr |-> e.wr, mreq |-> e.mreq, iorq |-> e.iorq]
        cycle == z80_detect_cycle(e)
        t == [s EXCEPT !.was = pins, !.bus_data = IF cycle # "NONE" THEN e.data ELSE @, !.first = FALSE]
        u == CASE s.first \/ cycle = s.prev_cycle \/ s.prev_cycle = "NONE" -> t
               [] ~s.first /\ s.prev_cycle # "NONE" /\ cycle = "NONE" -> z80_cycle_end(t)
               [] OTHER -> Say(t, "WARN", <<>>)
    IN  IF ~s.first /\ pins = s.was THEN s ELSE [u EXCEPT !.prev_cycle = cycle]
=============================================================================
