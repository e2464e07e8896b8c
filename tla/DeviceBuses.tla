---------------------------- MODULE DeviceBuses ----------------------------
(***************************************************************************)
(* Decoders of buses between a host and its devices: iso7816, mdio, lpc    *)
(* and ac97 of c_decoders/.                                                *)
(***************************************************************************)
EXTENDS Wires

(***************************************************************************)
(* iso7816_c.c.  An event is a character: its byte, and whether the number *)
(* of ones of start bit, data and parity is odd.  The functions that read  *)
(* a whole unit (ATR, PPS, T=0 command, T=1 block) one byte after the      *)
(* other are a state that collects bytes until the unit is complete.       *)
(***************************************************************************)
iso7816_reset ==
    [state |-> "ATR", bytes |-> <<>>, protocols |-> {0}, clock_skip |-> 372,
     first |-> <<>>, chain |-> <<>>, rep |-> <<>>]

get_clock_rate(i) ==
    CASE i \in {2} -> 558 [] i = 3 -> 744 [] i = 4 -> 1116 [] i = 5 -> 1488 [] i = 6 -> 1860
      [] i = 9 -> 512 [] i = 10 -> 768 [] i = 11 -> 1024 [] i = 12 -> 1536 [] i = 13 -> 2048
      [] OTHER -> 372

get_baud_rate(i) ==
    CASE i \in 2 .. 7 -> 2^(i - 1) [] i = 8 -> 12 [] i = 9 -> 20 [] OTHER -> 1

iso7816_read_byte(s, e) ==
    LET t == [s EXCEPT !.bytes = Append(@, e.byte)] IN
    IF e.odd THEN Say(t, "Parity", <<e.byte>>) ELSE t

\* A unit is over: the next byte decides what comes.
iso7816_done(s) == [s EXCEPT !.state = "DATA", !.bytes = <<>>]

\* The interface bytes that begin at position i, announced by byte td: the
\* position after them (or after what is known of them) and the places of the
\* bytes TDi, which name a protocol and announce the next ones.
RECURSIVE atr_interface(_, _, _, _)
atr_interface(bytes, i, td, tds) ==
    LET n == Bit(td, 4) + Bit(td, 5) + Bit(td, 6) IN
    CASE td < 128 -> [next |-> i + n, tds |-> tds]
      [] td >= 128 /\ Len(bytes) < i + n -> [next |-> i + n + 1, tds |-> tds]
      [] OTHER -> atr_interface(bytes, i + n + 1, bytes[i + n], tds \cup {i + n})

\* Places of the array of the ATR.  The bytes are written without a test
\* while one TDi announces another: the 65th overwrites the counter behind
\* the array, and nothing is said of what the decoder does from then on.
atr_bytes_SIZE == 64

handle_atr(s) ==
    LET t0 == s.bytes[2]
        in == atr_interface(s.bytes, 3, t0, {})
        known == {s.bytes[i] % 16 : i \in in.tds} \cap {0, 1, 15}
        length == in.next - 1 + (t0 % 16) + Flag(known \cap {1, 15} # {})
        used == IF known \cap {0, 1} = {} THEN known \cup {0} ELSE known
        protocol == Last(s.bytes) % 16
        w == IF Len(s.bytes) \in in.tds /\ protocol \notin {0, 1, 15}
             THEN Say(s, "Invalid Protocol", <<protocol>>) ELSE s
        t == [w EXCEPT !.protocols = used]
        u == IF known \cap {1, 15} # {} /\ XorOf(Tail(s.bytes)) # 0 THEN Say(t, "TCK", <<>>) ELSE t
    IN  CASE Len(s.bytes) < 2 -> s
          [] Len(s.bytes) > atr_bytes_SIZE -> To(s, "OVERRUN")
          [] Len(s.bytes) \in 2 .. atr_bytes_SIZE /\ Len(s.bytes) < length -> w
          [] OTHER -> iso7816_done(Say(u, "ATR", s.bytes))

\* A request and a response; each has as many parameters as its PPS0 says.
pps_length(bytes, i) ==
    IF Len(bytes) < i + 1 THEN 3
    ELSE 3 + Bit(bytes[i + 1], 4) + Bit(bytes[i + 1], 5) + Bit(bytes[i + 1], 6)

pps_parameter(unit, k) ==      \* PPSk, 0 when it is not there
    LET before == SumOf([j \in 1 .. k - 1 |-> Bit(unit[2], 3 + j)]) IN
    IF Bit(unit[2], 3 + k) = 1 THEN unit[3 + before] ELSE 0

handle_pps(s) ==
    LET n == pps_length(s.bytes, 1)
        m == pps_length(s.bytes, n + 1)
        request == SubSeq(s.bytes, 1, n)
        response == SubSeq(s.bytes, n + 1, n + m)
        agreed == request[2] = response[2]
                  /\ \A k \in 1 .. 3 : pps_parameter(request, k) = pps_parameter(response, k)
        pps1 == pps_parameter(request, 1)
        warned == IF XorOf(request) # 0 \/ XorOf(response) # 0 \/ response[1] # 255 THEN Say(s, "PPS check", <<>>) ELSE s
        skip == get_clock_rate(pps1 \div 16) \div get_baud_rate(pps1 % 16)
    IN  IF Len(s.bytes) < n \/ Len(s.bytes) < n + m THEN s
        ELSE IF agreed THEN iso7816_done([Say(warned, "PPS", <<skip>>) EXCEPT !.clock_skip = skip])
        ELSE iso7816_done(Say(Say(warned, "PPS refused", <<>>), "PPS", <<s.clock_skip>>))

\* CLA INS P1 P2 P3, the procedure byte, data and SW1 SW2.
handle_t0_packet(s) ==
    LET b == s.bytes
        procedure == b[6]
        all == SubSeq(b, 1, 5) \o SubSeq(b, 7, Len(b))
    IN  IF Len(b) < 6 THEN s
        ELSE IF procedure = b[2]
             THEN IF Len(b) < 6 + b[5] + 2 THEN s ELSE iso7816_done(Say(s, "T=0", all))
        ELSE IF procedure \div 16 \in {6, 9}
             THEN IF Len(b) < 7 THEN s ELSE iso7816_done(Say(s, "T=0", b))
        ELSE iso7816_done(Say(Say(s, "Procedure", <<procedure>>), "T=0", SubSeq(b, 1, 5)))

\* An I-block ends a chain unless its more-data bit is set.
t1_iblock(s, data) ==
    LET whole == SubSeq(s.chain \o data, 1, 4096) IN
    IF Bit(s.bytes[2], 5) = 1 THEN [Say(s, "I-Block", data) EXCEPT !.chain = whole]
    ELSE [Say(Say(s, "I-Block", data), "T=1", whole) EXCEPT !.chain = <<>>]

\* NAD PCB LEN, LEN bytes and the LRC.  The block after an I-block with data
\* is read at once, as its answer.
handle_t1_block(s) ==
    LET b == s.bytes
        data == SubSeq(b, 4, 3 + b[3])
        iblock == b[2] < 128
        checked == IF XorOf(b) = 0 THEN s ELSE Say(s, "LRC", <<>>)
        t == IF iblock THEN t1_iblock(checked, data)
             ELSE Say(checked, IF b[2] >= 192 THEN "S-Block" ELSE "R-Block", SubSeq(b, 1, Len(b) - 1))
        with_data == iblock /\ b[3] > 0
    IN  IF Len(b) < 4 \/ Len(b) < 4 + b[3] THEN s
        ELSE IF s.first = <<>> /\ with_data THEN [t EXCEPT !.first = data, !.bytes = <<>>]
        ELSE IF s.first # <<>> /\ with_data
             THEN [iso7816_done(Say(t, "T=1 pair", s.first \o data)) EXCEPT !.first = <<>>]
        ELSE [iso7816_done(t) EXCEPT !.first = <<>>]

\* The first byte of a unit: 0xFF is a PPS, 0x3B an ATR, which is read from
\* the byte after it.
iso7816_data(s) ==
    CASE s.bytes[1] = 255 -> To(s, "PPS")
      [] s.bytes[1] = 59 -> [s EXCEPT !.state = "ATR", !.bytes = <<>>]
      [] OTHER -> To(s, IF 0 \in s.protocols THEN "T0" ELSE "T1")

iso7816_step(s, e) ==
    LET t == iso7816_read_byte(s, e) IN
    CASE s.state = "ATR" -> handle_atr(t)
      [] s.state = "DATA" -> iso7816_data(t)
      [] s.state = "PPS" -> handle_pps(t)
      [] s.state = "T0" -> handle_t0_packet(t)
      [] s.state = "T1" -> handle_t1_block(t)
      [] s.state = "OVERRUN" -> s

(***************************************************************************)
(* mdio_c.c.  An event is a bit.  The length of the preamble counts up to  *)
(* 33: longer ones only add an annotation of the idle time before it.      *)
(***************************************************************************)
mdio_reset_state(s) ==
    [s EXCEPT !.state = "PRE", !.preamble_len = 0, !.clause45 = 0, !.opcode = -1,
              !.op_invalid = FALSE, !.portad = <<>>, !.devad = <<>>, !.ta = <<>>, !.data = <<>>]

mdio_reset ==
    [state |-> "PRE", preamble_len |-> 0, illegal_bus |-> FALSE, clause45 |-> 0, opcode |-> -1,
     op_invalid |-> FALSE, portad |-> <<>>, devad |-> <<>>, ta |-> <<>>, data |-> <<>>,
     clause45_addr |-> -1, rep |-> <<>>]

\* Wrong on purpose: the bus stays illegal for ever.
mdio_state_PREBug(s, b) ==
    IF s.illegal_bus THEN s
    ELSE IF b = 1 THEN [s EXCEPT !.preamble_len = IF @ < 33 THEN @ + 1 ELSE @]
    ELSE IF s.preamble_len > 16 THEN To(s, "ST") ELSE [s EXCEPT !.illegal_bus = TRUE]

mdio_state_PRE(s, b) ==
    LET legal == [Say(s, "ILLEGAL", <<>>) EXCEPT !.illegal_bus = FALSE]
        t == IF s.illegal_bus THEN legal ELSE s
    IN  CASE s.illegal_bus /\ b = 0 -> s
          [] b = 1 -> [t EXCEPT !.preamble_len = IF @ < 33 THEN @ + 1 ELSE @]
          [] b = 0 /\ ~s.illegal_bus /\ s.preamble_len > 16 ->
                To(IF s.preamble_len < 32 THEN Say(s, "SHORT PREAMBLE", <<>>) ELSE s, "ST")
          [] OTHER -> [s EXCEPT !.illegal_bus = TRUE]

mdio_state_ST(s, b) == [s EXCEPT !.clause45 = 1 - b, !.state = "OP"]

mdio_state_OP(s, b) ==
    IF s.opcode = -1 THEN [s EXCEPT !.opcode = 2 * b]
    ELSE IF s.clause45 = 1 THEN [s EXCEPT !.opcode = @ + b, !.state = "PRTAD"]
    ELSE [s EXCEPT !.op_invalid = b = s.opcode, !.state = "PRTAD"]

mdio_state_PRTAD(s, b) ==
    LET t == IF s.portad = <<>> /\ s.op_invalid THEN Say(s, "OP", <<>>) ELSE s
    IN  [t EXCEPT !.portad = Append(@, b), !.state = IF Len(s.portad) = 4 THEN "DEVAD" ELSE @]

mdio_state_DEVAD(s, b) ==
    [s EXCEPT !.devad = Append(@, b), !.state = IF Len(s.devad) = 4 THEN "TA" ELSE @]

mdio_is_read(s) == IF s.clause45 = 1 THEN s.opcode > 1 ELSE s.opcode # 0

mdio_state_TA(s, b) ==
    [s EXCEPT !.ta = Append(@, b), !.state = IF Len(s.ta) = 1 THEN "DATA" ELSE @]

\* A write drives the turnaround to 10; a read only its second bit, to 0.
mdio_ta_invalid(s) == s.ta[2] = 1 \/ (s.ta[1] = 0 /\ ~mdio_is_read(s))

mdio_putdata(s) ==
    LET data == Num(s.data)
        address == IF s.clause45 = 1 /\ s.opcode = 0 THEN data ELSE s.clause45_addr
        shown == <<Flag(mdio_is_read(s)), Num(s.portad), Num(s.devad), data>>
        t == CASE s.clause45 = 0 -> Say(s, "CLAUSE 22", shown)
               [] s.clause45 = 1 /\ s.opcode > 0 -> Say(s, "CLAUSE 45", <<address>> \o shown)
               [] s.clause45 = 1 /\ s.opcode = 0 -> s
    IN  [t EXCEPT !.clause45_addr =
            IF s.clause45 = 1 /\ s.opcode = 2 /\ address # -1 THEN address + 1 ELSE address]

mdio_state_DATA(s, b) ==
    LET t == [IF s.data = <<>> /\ mdio_ta_invalid(s) THEN Say(s, "TA", s.ta) ELSE s EXCEPT !.data = Append(@, b)]
    IN  IF Len(t.data) = 16 THEN mdio_reset_state(mdio_putdata(t)) ELSE t

mdio_step(s, b) ==
    CASE s.state = "PRE" -> mdio_state_PRE(s, b)
      [] s.state = "ST" -> mdio_state_ST(s, b)
      [] s.state = "OP" -> mdio_state_OP(s, b)
      [] s.state = "PRTAD" -> mdio_state_PRTAD(s, b)
      [] s.state = "DEVAD" -> mdio_state_DEVAD(s, b)
      [] s.state = "TA" -> mdio_state_TA(s, b)
      [] s.state = "DATA" -> mdio_state_DATA(s, b)

(***************************************************************************)
(* lpc_c.c.  An event is a rising edge of LCLK (e.clk), or a fall of       *)
(* LFRAME# between two of them, with the levels of LFRAME# and LAD.  Each  *)
(* handler looks at the LAD value of the edge before (oldlad).             *)
(***************************************************************************)
lpc_reset ==
    [state |-> "IDLE", oldlframe |-> -1, oldlad |-> -1, addr |-> <<>>, direction |-> 0, cycle_type |-> 0,
     nibbles |-> <<>>, start_field |-> 0, msize |-> 0, tarcount |-> 0, timeoutcount |-> 0, rep |-> <<>>]

lpc_handle_get_start(s, lframe) ==
    LET t == IF s.oldlad >= 0 THEN Say(s, "START", <<s.oldlad>>) ELSE s IN
    CASE lframe # 1 -> t
      [] lframe = 1 /\ s.oldlad \in {0, 5} -> [t EXCEPT !.start_field = s.oldlad, !.state = "GET_CT_DR"]
      [] lframe = 1 /\ s.oldlad \in {13, 14} ->
            [t EXCEPT !.start_field = s.oldlad, !.direction = s.oldlad - 13, !.state = "GET_FW_IDSEL"]
      [] OTHER -> To(t, "IDLE")

lpc_ct_dr_wr == {2, 3, 6, 7, 10, 11}

lpc_handle_get_ct_dr(s) ==
    [Say(s, "CT_DR", <<s.oldlad>>) EXCEPT
        !.cycle_type = s.oldlad, !.direction = Flag(s.oldlad \in lpc_ct_dr_wr),
        !.state = "GET_ADDR", !.addr = <<>>]

lpc_handle_get_fw_idsel(s) == [Say(s, "IDSEL", <<s.oldlad>>) EXCEPT !.state = "GET_FW_ADDR", !.addr = <<>>]

lpc_to_data(s, state) == [s EXCEPT !.state = state, !.nibbles = <<>>]
lpc_to_tar(s) == [s EXCEPT !.state = "GET_TAR", !.tarcount = 0]

lpc_handle_get_fw_addr(s) ==
    LET t == [s EXCEPT !.addr = Append(@, s.oldlad)] IN
    IF Len(t.addr) < 7 THEN t ELSE To(Say(t, "ADDR", t.addr), "GET_FW_MSIZE")

lpc_handle_get_fw_msize(s) ==
    LET t == [Say(s, "MSIZE", <<s.oldlad>>) EXCEPT !.msize = s.oldlad] IN
    IF s.direction = 1 THEN lpc_to_data(t, "GET_FW_DATA") ELSE lpc_to_tar(t)

lpc_address_nibbles(cycle_type) == CASE cycle_type \in 0 .. 3 -> 4 [] cycle_type \in 4 .. 7 -> 8 [] OTHER -> 0

lpc_handle_get_addr(s) ==
    LET n == lpc_address_nibbles(s.cycle_type)
        t == IF n = 0 THEN s ELSE [s EXCEPT !.addr = Append(@, s.oldlad)]
        u == IF n = 0 THEN t ELSE Say(t, "ADDR", t.addr)
    IN  CASE Len(t.addr) < n -> t
          [] Len(t.addr) >= n /\ s.direction = 1 -> lpc_to_data(u, "GET_DATA")
          [] OTHER -> lpc_to_tar(u)

\* Two cycles of turnaround, the lines should be high.
lpc_turnaround(s, next) ==
    LET t == IF s.oldlad = 15 THEN s ELSE Say(s, "TAR", <<s.oldlad>>) IN
    IF s.tarcount # 1 THEN [t EXCEPT !.tarcount = @ + 1] ELSE [t EXCEPT !.tarcount = 0, !.state = next]

lpc_handle_get_tar(s) == lpc_turnaround(s, "GET_SYNC")
lpc_handle_get_tar2(s) == lpc_turnaround(s, "IDLE")

lpc_wait_sync == {5, 6}

lpc_handle_get_sync(s, lframe) ==
    LET t == Say(s, "SYNC", <<s.oldlad>>) IN
    CASE s.oldlad \in lpc_wait_sync -> t
      [] s.oldlad \notin lpc_wait_sync /\ lframe = 0 -> To(t, "GET_TIMEOUT")
      [] s.oldlad \notin lpc_wait_sync /\ lframe = 1 ->
            lpc_to_data(t, IF s.start_field \in {13, 14} THEN "GET_FW_DATA" ELSE "GET_DATA")

\* LFRAME# low for four cycles aborts.
lpc_handle_get_timeout(s) ==
    LET t == Say(s, "TIMEOUT", <<s.timeoutcount>>) IN
    IF s.oldlframe # 0 THEN [Say(s, "NO TIMEOUT", <<>>) EXCEPT !.timeoutcount = 0, !.state = "IDLE"]
    ELSE IF s.timeoutcount # 3 THEN [t EXCEPT !.timeoutcount = @ + 1]
    ELSE [t EXCEPT !.timeoutcount = 0, !.state = "IDLE"]

\* The bytes come low nibble first.
lpc_bytes(nibbles) == [i \in 1 .. Len(nibbles) \div 2 |-> nibbles[2 * i - 1] + 16 * nibbles[2 * i]] \o <<>>

lpc_data_nibbles(msize) ==
    CASE msize = 0 -> 2 [] msize = 1 -> 4 [] msize = 2 -> 8 [] msize = 4 -> 32 [] msize = 7 -> 256 [] OTHER -> 0

\* More than 16 nibbles do not fit the word they are shifted into: what is
\* shown then is left open.
lpc_handle_get_fw_data(s) ==
    LET n == lpc_data_nibbles(s.msize)
        t == [s EXCEPT !.nibbles = Append(@, s.oldlad)]
    IN  IF n = 0 THEN To(Say(s, "BAD MSIZE", <<s.msize>>), "IDLE")
        ELSE IF Len(t.nibbles) < n THEN t
        ELSE To(Say(t, "DATA", IF n <= 16 THEN lpc_bytes(t.nibbles) ELSE <<>>), "GET_TAR2")

lpc_handle_get_data(s) ==
    LET t == [s EXCEPT !.nibbles = Append(@, s.oldlad)] IN
    IF Len(t.nibbles) < 2 THEN t ELSE To(Say(t, "DATA", lpc_bytes(t.nibbles)), "GET_TAR2")

lpc_at_clock(s, e) ==
    LET t == IF e.lframe = 0 /\ s.oldlframe = 0 THEN To(s, "GET_TIMEOUT") ELSE s
        u == CASE t.state = "IDLE" -> IF e.lframe = 0 THEN To(t, "GET_START") ELSE t
               [] t.state = "GET_START" -> lpc_handle_get_start(t, e.lframe)
               [] t.state = "GET_CT_DR" -> lpc_handle_get_ct_dr(t)
               [] t.state = "GET_ADDR" -> lpc_handle_get_addr(t)
               [] t.state = "GET_FW_IDSEL" -> lpc_handle_get_fw_idsel(t)
               [] t.state = "GET_FW_ADDR" -> lpc_handle_get_fw_addr(t)
               [] t.state = "GET_FW_MSIZE" -> lpc_handle_get_fw_msize(t)
               [] t.state = "GET_TAR" -> lpc_handle_get_tar(t)
               [] t.state = "GET_SYNC" -> lpc_handle_get_sync(t, e.lframe)
               [] t.state = "GET_TIMEOUT" -> lpc_handle_get_timeout(t)
               [] t.state = "GET_FW_DATA" -> lpc_handle_get_fw_data(t)
               [] t.state = "GET_DATA" -> lpc_handle_get_data(t)
               [] t.state = "GET_TAR2" -> lpc_handle_get_tar2(t)
    IN  [u EXCEPT !.oldlframe = e.lframe, !.oldlad = e.lad]

\* A fall of LFRAME# is only waited for in IDLE, while it was not low before.
lpc_step(s, e) ==
    CASE e.clk -> lpc_at_clock(s, e)
      [] ~e.clk /\ s.state = "IDLE" /\ s.oldlframe # 0 -> [s EXCEPT !.oldlframe = e.lframe]
      [] OTHER -> s

(***************************************************************************)
(* ac97_c.c with both data lines.  An event is a cycle of the bit clock    *)
(* with the levels of SYNC and of the lines.  count is the number of bits  *)
(* of the frame up to here (-1: none has begun), out and in the bits of    *)
(* its slot.                                                               *)
(***************************************************************************)
ac97_reset ==
    [count |-> -1, prev_sync |-> <<-1, -1, -1>>, out |-> <<>>, in |-> <<>>, slot |-> 0,
     have_out |-> {}, have_in |-> {}, state |-> "", rep |-> <<>>]

ac97_start_frame(s) ==
    [s EXCEPT !.count = 0, !.out = <<>>, !.in = <<>>, !.slot = 0, !.have_out = {}, !.have_in = {}]

frame_slot_lens(slot) == IF slot = 0 THEN 0 ELSE 20 * slot - 4

\* The tag says which of the slots 1 to 12 are valid.
handle_slot_00(bits) == {0} \cup {i \in 1 .. 12 : bits[i + 1] = 1}

handle_slot_01(s, dir, bits, have) ==
    IF 1 \in have THEN Say(s, dir, <<1, bits[1], Num(SubSeq(bits, 2, 8))>>) ELSE s

handle_slot_02(s, dir, bits, have) ==
    IF 2 \in have THEN Say(s, dir, <<2, Num(SubSeq(bits, 1, 16))>>) ELSE s

handle_slot_dummy(s, dir, bits, have) ==
    IF s.slot \in have THEN Say(s, dir, <<s.slot, Num(bits)>>) ELSE s

ac97_handle_slot(s, dir, bits, have) ==
    CASE s.slot = 0 -> Say(s, dir, <<0, bits[1], Num(SubSeq(bits, 2, 13)), Num(SubSeq(bits, 15, 16))>>)
      [] s.slot = 1 -> handle_slot_01(s, dir, bits, have)
      [] s.slot = 2 -> handle_slot_02(s, dir, bits, have)
      [] OTHER -> handle_slot_dummy(s, dir, bits, have)

ac97_slot_done(s) ==
    LET t == IF s.slot = 0 THEN [s EXCEPT !.have_out = handle_slot_00(s.out), !.have_in = handle_slot_00(s.in)] ELSE s
        u == ac97_handle_slot(ac97_handle_slot(t, "OUT", s.out, t.have_out), "IN", s.in, t.have_in)
    IN  [u EXCEPT !.slot = @ + 1, !.out = <<>>, !.in = <<>>]

ac97_handle_bits(s, e) ==
    LET t == [s EXCEPT !.count = @ + 1, !.out = Append(@, e.out), !.in = Append(@, e.in)] IN
    CASE s.count = -1 \/ s.count >= 256 -> s
      [] s.count \in 0 .. 255 /\ t.count = frame_slot_lens(s.slot + 1) -> ac97_slot_done(t)
      [] OTHER -> t

ac97_step(s, e) ==
    LET sync == <<s.prev_sync[2], s.prev_sync[3], e.sync>>
        t == [s EXCEPT !.prev_sync = sync]
    IN  ac97_handle_bits(IF sync[1] = 0 /\ sync[2] = 1 THEN ac97_start_frame(t) ELSE t, e)
=============================================================================
