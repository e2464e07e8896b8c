----------------------------- MODULE SerialLines -----------------------------
(***************************************************************************)
(* Decoders of serial lines.  First those of the UART, then those of SPI.  *)
(*                                                                         *)
(* uart and uart_fast of c_decoders/, on the level of the line at every    *)
(* sample.  RX and TX have each their own copy of the whole state and are  *)
(* handled one after the other: one of them, number rxtx, is modelled.     *)
(*                                                                         *)
(* An option record o holds what start() and metadata() compute: width is  *)
(* the number of samples of a bit (a multiple of four, so that nothing is  *)
(* rounded), halves twice the number of stop bits, idle the samples that   *)
(* end a packet (0: none), delim and plen the byte and the length that end *)
(* one (-1: none).  Times are kept as ages in samples, -1 where the code   *)
(* marks them invalid, and counted no further than a comparison needs.     *)
(***************************************************************************)
EXTENDS Wires, FiniteSetsExt, TLC

HasParity(o) == o.parity # "none"
FrameSamples(o) == o.width * (1 + o.data_bits + Flag(HasParity(o))) + (o.width * o.halves) \div 2

parity_ok(o, bit, data) ==
    LET ones == SumOf([i \in 1 .. o.data_bits |-> Bit(data, i - 1)]) + bit IN
    CASE o.parity = "zero" -> bit = 0
      [] o.parity = "one" -> bit = 1
      [] o.parity = "odd" -> ones % 2 = 1
      [] o.parity = "even" -> ones % 2 = 0
      [] OTHER -> TRUE

\* The steps of a frame: what is sampled, and how long after its start.
uart_get_bit_bounds(o, bit, half) == o.width * bit + o.width \div (IF half THEN 4 ELSE 2)
uart_init_state_machine(o) ==
    LET bits == 1 + o.data_bits
        first == bits + Flag(HasParity(o))
        step(state, bit, half) == <<[state |-> state, at |-> uart_get_bit_bounds(o, bit, half)]>>
    IN  step("GET_START_BIT", 0, FALSE)
        \o [i \in 1 .. o.data_bits |-> step("GET_DATA_BITS", i, FALSE)[1]]
        \o (IF HasParity(o) THEN step("GET_PARITY_BIT", bits, FALSE) ELSE <<>>)
        \o [i \in 1 .. o.halves \div 2 |-> step("GET_STOP_BITS", first + i - 1, FALSE)[1]]
        \o (IF o.halves % 2 = 1 THEN step("GET_STOP_BITS", first + o.halves \div 2, TRUE) ELSE <<>>)

\* num is 0 while a start bit is waited for, else the step that comes next.
uart_reset(o) ==
    [o |-> o, machine |-> uart_init_state_machine(o), was |-> 1, num |-> 0, since |-> 0, databits |-> <<>>,
     datavalue |-> 0, frame_valid |-> 1, packet_data |-> <<>>, packet_valid |-> 0, es_packet |-> 0,
     break_start |-> -1, idle_valid |-> FALSE, idle_start |-> 0, idle_num |-> 0, rep |-> <<>>]

uart_handle_frame(s) == Say(s, "FRAME", <<s.o.rxtx, s.datavalue, s.frame_valid>>)
uart_handle_packet(s) ==
    IF s.packet_data = <<>> THEN s
    ELSE [Say(s, "PACKET", <<s.packet_valid>> \o s.packet_data) EXCEPT !.packet_data = <<>>, !.es_packet = 0]
uart_handle_packet_idle(s) ==
    IF s.packet_data = <<>> \/ s.o.idle = 0 \/ s.es_packet < s.o.idle THEN s ELSE uart_handle_packet(s)

\* The frame ended later samples from now.
uart_get_packet_data(s, later) ==
    LET t == [s EXCEPT !.packet_valid = IF s.packet_data = <<>> THEN s.frame_valid ELSE Min({@, s.frame_valid}),
                       !.packet_data = Append(@, s.datavalue), !.es_packet = -later]
        full == s.datavalue = s.o.delim \/ (s.o.plen > 0 /\ Len(t.packet_data) >= s.o.plen)
    IN  CASE s.o.delim < 0 /\ s.o.plen < 0 /\ s.o.idle = 0 -> s
          [] OTHER -> IF full THEN uart_handle_packet(t) ELSE t

uart_reset_data_receive(s) == [s EXCEPT !.databits = <<>>, !.datavalue = 0]

uart_handle_data(s) ==
    LET b == IF s.o.msb_first THEN Num(s.databits) ELSE NumLsb(s.databits)
    IN  [Say(s, "DATA", <<b, s.o.rxtx>>) EXCEPT !.datavalue = b, !.databits = <<>>]

\* A frame that ends with its last stop bit is idle from its nominal end on,
\* one whose stop bit is wrong ends here.
uart_end_of_frame(s, stop_error) ==
    LET later == IF stop_error THEN 0 ELSE FrameSamples(s.o) - s.since
        t == [s EXCEPT !.num = 0, !.since = 0, !.idle_valid = ~stop_error, !.idle_start = -later]
    IN  uart_get_packet_data(uart_handle_frame(t), later)

uart_advance_state_machine(s, start_error, stop_error) ==
    CASE start_error -> [s EXCEPT !.num = 0, !.since = 0, !.idle_valid = TRUE, !.idle_start = 0]
      [] ~start_error /\ (stop_error \/ s.num = Len(s.machine)) -> uart_end_of_frame(s, stop_error)
      [] OTHER -> [s EXCEPT !.num = @ + 1]

uart_wait_for_start_bit(s) == uart_advance_state_machine([s EXCEPT !.since = 0, !.frame_valid = 1], FALSE, FALSE)

uart_get_start_bit(s, signal) ==
    IF signal = 1
    THEN LET t == [Say(s, "INVALID STARTBIT", <<signal>>) EXCEPT !.frame_valid = 0]
         IN  uart_advance_state_machine(uart_handle_frame(t), TRUE, FALSE)
    ELSE uart_reset_data_receive(uart_advance_state_machine(Say(s, "STARTBIT", <<signal>>), FALSE, FALSE))

uart_get_data_bits(s, signal) ==
    LET t == [s EXCEPT !.databits = Append(@, signal)]
    IN  uart_advance_state_machine(IF Len(t.databits) = s.o.data_bits THEN uart_handle_data(t) ELSE t, FALSE, FALSE)

uart_get_parity_bit(s, signal) ==
    uart_advance_state_machine(
        IF parity_ok(s.o, signal, s.datavalue) THEN Say(s, "PARITYBIT", <<signal>>)
        ELSE [Say(s, "PARITY ERROR", <<1 - signal, signal>>) EXCEPT !.frame_valid = 0], FALSE, FALSE)

uart_get_stop_bits(s, signal) ==
    LET t == IF signal = 1 THEN s ELSE [Say(s, "INVALID STOPBIT", <<signal>>) EXCEPT !.frame_valid = 0]
    IN  uart_advance_state_machine(Say(t, "STOPBIT", <<signal>>), FALSE, signal # 1)

uart_inspect_sample(s, signal) ==
    CASE s.num = 0 -> uart_wait_for_start_bit(uart_handle_packet_idle(s))
      [] s.num > 0 /\ s.machine[s.num].state = "GET_START_BIT" -> uart_get_start_bit(s, signal)
      [] s.num > 0 /\ s.machine[s.num].state = "GET_DATA_BITS" -> uart_get_data_bits(s, signal)
      [] s.num > 0 /\ s.machine[s.num].state = "GET_PARITY_BIT" -> uart_get_parity_bit(s, signal)
      [] s.num > 0 /\ s.machine[s.num].state = "GET_STOP_BITS" -> uart_get_stop_bits(s, signal)

uart_handle_break(s) == Say(s, "BREAK", <<s.o.rxtx>>)
uart_inspect_edge(s, signal) ==
    CASE signal = 0 -> [s EXCEPT !.break_start = 0]
      [] signal = 1 /\ s.break_start < 0 -> s
      [] OTHER -> [IF s.break_start > FrameSamples(s.o) THEN uart_handle_break(s) ELSE s EXCEPT !.break_start = -1]

uart_handle_idle(s) == uart_handle_packet_idle([Say(s, "IDLE", <<s.o.rxtx>>) EXCEPT !.idle_num = @ + 1])
uart_inspect_idle(s, signal) ==
    LET t == IF s.idle_valid THEN s ELSE [s EXCEPT !.idle_valid = TRUE, !.idle_start = 0] IN
    CASE signal = 0 -> [s EXCEPT !.idle_valid = FALSE, !.idle_start = 0, !.idle_num = 0]
      [] signal = 1 /\ t.idle_start < FrameSamples(s.o) -> t
      [] OTHER -> [uart_handle_packet_idle(uart_handle_idle(t)) EXCEPT !.idle_start = 0]

\* The second idle report and all after it come at growing distances.
uart_idle_wait(s) ==
    LET grown == FrameSamples(s.o) * 2^(s.idle_num - 1) IN
    IF s.idle_num < 2 THEN FrameSamples(s.o) ELSE Min({grown, s.o.samplerate})

\* One sample later.
uart_tick(s) ==
    [s EXCEPT !.since = IF s.num = 0 THEN 0 ELSE @ + 1,
              !.break_start = IF @ < 0 THEN @ ELSE Min({@ + 1, FrameSamples(s.o) + 1}),
              !.idle_start = IF s.idle_valid THEN @ + 1 ELSE 0,
              !.es_packet = IF s.packet_data = <<>> THEN 0 ELSE Min({@ + 1, s.o.idle})]

\* The conditions are those of the state before: a data sample or a start
\* edge, either edge, and the end of an idle time.
uart_decode(s, signal) ==
    LET now == uart_tick(s)
        edge == s.was # signal
        data == IF s.num = 0 THEN s.was = 1 /\ signal = 0 ELSE now.since = s.machine[s.num].at
        idle == s.idle_valid /\ now.idle_start = uart_idle_wait(s)
        t == IF data THEN uart_inspect_sample(now, signal) ELSE now
        u == IF edge THEN uart_inspect_idle(uart_inspect_edge(t, signal), signal) ELSE t
    IN  IF idle THEN uart_inspect_idle(u, signal) ELSE u

uart_step(s, e) == [uart_decode(s, IF s.o.invert THEN 1 - e ELSE e) EXCEPT !.was = IF s.o.invert THEN 1 - e ELSE e]

(***************************************************************************)
(* uart_fast_c.c.  decode() waits for nothing but falling edges, and each  *)
(* state samples the pin where decode() stands.                            *)
(***************************************************************************)
uart_fast_reset(o) ==
    [o |-> o, was |-> 1, state |-> "WAIT_FOR_START_BIT", since |-> 0, databit_count |-> 0, stopbit_count |-> 0,
     datavalue |-> 0, frame_valid |-> 1, break_valid |-> FALSE, packet_data |-> <<>>, packet_valid |-> 0,
     rep |-> <<>>]

uart_fast_handle_frame(s) == Say(s, "FRAME", <<s.datavalue, s.o.rxtx, s.frame_valid>>)
uart_fast_handle_packet(s) ==
    [Say(s, "PACKET", <<s.packet_valid>> \o s.packet_data) EXCEPT !.packet_data = <<>>]
uart_fast_get_packet_data(s) ==
    [s EXCEPT !.packet_valid = IF s.packet_data = <<>> THEN s.frame_valid ELSE Min({@, s.frame_valid}),
              !.packet_data = Keep(@, s.datavalue, 4096)]

uart_fast_get_bit_sample_point(o, bit) == o.width * bit + o.width \div 2
uart_fast_stop_bit(o) == 1 + o.data_bits + Flag(HasParity(o))

uart_fast_sample_point(s) ==
    LET o == s.o
        half == o.halves - 2 * s.stopbit_count = 1
        bit == uart_fast_stop_bit(o) + s.stopbit_count
    IN  CASE s.state = "WAIT_FOR_START_BIT" -> 0
          [] s.state = "GET_START_BIT" -> uart_fast_get_bit_sample_point(o, 0)
          [] s.state = "GET_DATA_BITS" -> uart_fast_get_bit_sample_point(o, s.databit_count + 1)
          [] s.state = "GET_PARITY_BIT" -> uart_fast_get_bit_sample_point(o, 1 + o.data_bits)
          [] s.state = "GET_STOP_BITS" -> o.width * bit + o.width \div (IF half THEN 4 ELSE 2)

uart_fast_start(s) ==
    [To(s, "GET_START_BIT") EXCEPT !.break_valid = TRUE, !.since = 0, !.frame_valid = 1, !.datavalue = 0,
                                   !.databit_count = 0, !.stopbit_count = 0]

uart_fast_start_bit(s, signal) ==
    IF signal # 0
    THEN To(uart_fast_handle_frame([Say(s, "INVALID STARTBIT", <<signal>>) EXCEPT !.frame_valid = 0]),
            "WAIT_FOR_START_BIT")
    ELSE [To(Say(s, "STARTBIT", <<signal>>), "GET_DATA_BITS") EXCEPT !.databit_count = 0]

uart_fast_data_bit(s, signal) ==
    LET at == IF s.o.msb_first THEN s.o.data_bits - 1 - s.databit_count ELSE s.databit_count
        t == [s EXCEPT !.datavalue = @ + signal * 2^at, !.databit_count = @ + 1]
    IN  IF t.databit_count < s.o.data_bits THEN t
        ELSE [To(Say(t, "DATA", <<t.datavalue, s.o.rxtx>>), IF HasParity(s.o) THEN "GET_PARITY_BIT" ELSE "GET_STOP_BITS")
                EXCEPT !.stopbit_count = 0]

uart_fast_parity_bit(s, signal) ==
    LET t == To(Say(s, "PARITYBIT", <<signal>>), "GET_STOP_BITS")
    IN  IF parity_ok(s.o, signal, s.datavalue) THEN t
        ELSE [Say(t, "PARITY ERROR", <<1 - signal, signal>>) EXCEPT !.frame_valid = 0]

uart_fast_end(s, signal) ==
    LET break == s.break_valid /\ s.frame_valid = 0 /\ s.datavalue = 0 /\ signal = 0 /\ s.since > FrameSamples(s.o)
        t == IF break THEN [Say(s, "BREAK", <<s.o.rxtx>>) EXCEPT !.break_valid = FALSE] ELSE s
        u == uart_fast_get_packet_data(uart_fast_handle_frame(t))
        gone == s.o.idle > 0 /\ s.since >= FrameSamples(s.o) + s.o.idle
    IN  To(IF gone THEN uart_fast_handle_packet(u) ELSE u, "WAIT_FOR_START_BIT")

uart_fast_stop_bits(s, signal) ==
    LET t == IF signal = 1 THEN s ELSE [Say(s, "INVALID STOPBIT", <<signal>>) EXCEPT !.frame_valid = 0]
        u == [Say(t, "STOPBIT", <<signal>>) EXCEPT !.stopbit_count = @ + 1]
    IN  IF 2 * u.stopbit_count >= s.o.halves THEN uart_fast_end(u, signal) ELSE u

uart_fast_process_rxtx(s, signal) ==
    CASE s.state # "WAIT_FOR_START_BIT" /\ s.since < uart_fast_sample_point(s) -> s
      [] s.state = "WAIT_FOR_START_BIT" -> IF signal = 0 THEN uart_fast_start(s) ELSE s
      [] s.state = "GET_START_BIT" -> uart_fast_start_bit(s, signal)
      [] s.state = "GET_DATA_BITS" -> uart_fast_data_bit(s, signal)
      [] s.state = "GET_PARITY_BIT" -> uart_fast_parity_bit(s, signal)
      [] OTHER -> uart_fast_stop_bits(s, signal)

uart_fast_step(s, e) ==
    LET signal == IF s.o.invert THEN 1 - e ELSE e
        t == [s EXCEPT !.since = Min({@ + 1, FrameSamples(s.o) + s.o.idle + 1})]
        u == IF s.was = 1 /\ signal = 0 THEN uart_fast_process_rxtx(t, signal) ELSE t
    IN  [u EXCEPT !.was = signal]

-----------------------------------------------------------------------------
(***************************************************************************)
(* spi, spi_fast, qspi and spi_dual_quad of c_decoders/.  An event holds   *)
(* the levels of all channels: clk, cs and io, the data lines (MOSI and    *)
(* MISO, or IO0 to IO3).  An option record o holds the mode of the clock,  *)
(* which level selects the chip (cs, or -1 where CS is not connected), the *)
(* size and the order of the bits of a word.                               *)
(*                                                                         *)
(* transfer says that a transfer has begun (ss_transfer of the code), word *)
(* holds what the data lines had at the edges so far, bytes the words of   *)
(* the transfer.  The warning that CS was deasserted during a word is left *)
(* out: the code tests CS where it has just been found asserted.           *)
(***************************************************************************)

MAX_TRANSFER_BYTES == 1024

SampleLevel(o) == IF o.cpol = o.cpha THEN 1 ELSE 0
Selected(o, e) == o.cs = -1 \/ e.cs = o.cs
ClkEdge(s, e) == s.was.clk # e.clk
CsEdge(s, e) == s.o.cs # -1 /\ s.was.cs # e.cs
WordOf(o, bits) == IF o.lsb THEN NumLsb(bits) ELSE Num(bits)
Line(s, n) == [i \in 1 .. Len(s.word) |-> s.word[i][n]] \o <<>>

SpiStart(o) ==
    [o |-> o, started |-> FALSE, was |-> [clk |-> 0, cs |-> 0], transfer |-> FALSE, word |-> <<>>, bytes |-> <<>>,
     rep |-> <<>>]

(***************************************************************************)
(* spi_c.c                                                                 *)
(***************************************************************************)
spi_reset(o) == SpiStart(o)
spi_cs_asserted(s, e) == e.cs = s.o.cs
spi_reset_word(s) == [s EXCEPT !.word = <<>>]

spi_put_data(s) ==
    LET mosi == WordOf(s.o, Line(s, 1))
        miso == WordOf(s.o, Line(s, 2))
        t == Say(Say(s, "BITS", Line(s, 1) \o Line(s, 2)), "DATA", <<mosi, miso>>)
    IN  [t EXCEPT !.bytes = Keep(@, <<mosi, miso>>, MAX_TRANSFER_BYTES)]

spi_put_transfer(s) ==
    Say(s, "TRANSFER", [i \in 1 .. Len(s.bytes) |-> s.bytes[i][1]] \o [i \in 1 .. Len(s.bytes) |-> s.bytes[i][2]])

\* Before the first wait nothing is known of CS; without CS the first edge of
\* the clock is waited for, and lost.
spi_first(s, e) ==
    CASE s.o.cs = -1 -> [s EXCEPT !.started = ClkEdge(s, e)]
      [] OTHER -> [Say(s, "CS-CHANGE", <<-1, e.cs>>) EXCEPT !.started = TRUE, !.transfer = spi_cs_asserted(s, e),
                                                            !.bytes = <<>>, !.word = <<>>]

\* Wrong on purpose: the bits of a word that was cut off are kept.
spi_cs_changeBug(s, e) ==
    LET t == Say(s, "CS-CHANGE", <<1 - e.cs, e.cs>>)
    IN  IF spi_cs_asserted(s, e) THEN [t EXCEPT !.transfer = TRUE, !.bytes = <<>>]
        ELSE IF s.transfer THEN spi_put_transfer(t) ELSE t

spi_cs_change(s, e) ==
    LET t == Say(s, "CS-CHANGE", <<1 - e.cs, e.cs>>)
    IN  spi_reset_word(IF spi_cs_asserted(s, e) THEN [t EXCEPT !.transfer = TRUE, !.bytes = <<>>]
                       ELSE IF s.transfer THEN spi_put_transfer(t) ELSE t)

spi_take_bit(s, e) ==
    LET t == [s EXCEPT !.word = Append(@, e.io)]
    IN  IF Len(t.word) = s.o.wordsize THEN spi_reset_word(spi_put_data(t)) ELSE t

spi_decode(s, e) ==
    LET t == IF CsEdge(s, e) THEN spi_cs_change(s, e) ELSE s
    IN  CASE ~s.started -> spi_first(s, e)
          [] s.started /\ ClkEdge(s, e) /\ Selected(s.o, e) /\ e.clk = SampleLevel(s.o) -> spi_take_bit(t, e)
          [] OTHER -> t
spi_step(s, e) == [spi_decode(s, e) EXCEPT !.was = [clk |-> e.clk, cs |-> e.cs]]

(***************************************************************************)
(* spi_fast_c.c: it waits for the sampling edge only, and says only that a *)
(* transfer ended.                                                         *)
(***************************************************************************)
spi_fast_reset(o) == SpiStart(o)
spi_fast_cs_asserted(s, e) == e.cs = s.o.cs
spi_fast_reset_word(s) == [s EXCEPT !.word = <<>>]

spi_fast_put_data(s) ==
    LET mosi == WordOf(s.o, Line(s, 1))
        miso == WordOf(s.o, Line(s, 2))
        t == Say(Say(s, "BITS", Line(s, 1) \o Line(s, 2)), "DATA", <<mosi, miso>>)
    IN  [t EXCEPT !.bytes = Keep(@, <<mosi, miso>>, MAX_TRANSFER_BYTES)]

spi_fast_first(s, e) ==
    CASE s.o.cs = -1 -> [s EXCEPT !.started = TRUE]
      [] OTHER -> [Say(s, "CS-CHANGE", <<255, e.cs>>) EXCEPT !.started = TRUE, !.transfer = spi_fast_cs_asserted(s, e),
                                                             !.bytes = <<>>]

spi_fast_cs_change(s, e) ==
    LET t == Say(s, "CS-CHANGE", <<1 - e.cs, e.cs>>)
    IN  spi_fast_reset_word(
            IF spi_fast_cs_asserted(s, e) THEN [t EXCEPT !.transfer = TRUE, !.bytes = <<>>]
            ELSE IF s.transfer THEN Say(t, "TRANSFER", <<>>) ELSE t)

spi_fast_take_bit(s, e) ==
    LET t == [s EXCEPT !.word = Append(@, e.io)]
    IN  IF Len(t.word) = s.o.wordsize THEN spi_fast_reset_word(spi_fast_put_data(t)) ELSE t

spi_fast_decode(s, e) ==
    LET t == IF CsEdge(s, e) THEN spi_fast_cs_change(s, e) ELSE s
    IN  CASE ~s.started -> spi_fast_first(s, e)
          [] s.started /\ ClkEdge(s, e) /\ Selected(s.o, e) /\ e.clk = SampleLevel(s.o) -> spi_fast_take_bit(t, e)
          [] OTHER -> t
spi_fast_step(s, e) == [spi_fast_decode(s, e) EXCEPT !.was = [clk |-> e.clk, cs |-> e.cs]]

(***************************************************************************)
(* qspi_c.c: the commands of serial flash memories.  command is 0 between  *)
(* commands, state_count the entry of the table the next byte belongs to.  *)
(***************************************************************************)
ByMode == <<"ADDRESS", "DUMMY">>
Read24 == <<"ADDRESS", "DUMMY", "READ_CONTINUOUS">>
Read32 == <<"ADDRESS", "DUMMY_32BIT", "READ_CONTINUOUS">>
ReadQuad == <<"ADDRESS", "DUMMY", "MODE_BITS", "DUMMY", "READ_CONTINUOUS">>

qspi_cmd_table ==
    [c \in {\h06, \h04, \h71, \hB7, \hE9} |-> <<>>]
    @@ [c \in {\h05, \h5A, \h35, \h15} |-> <<"READ">>]
    @@ [c \in {\h01, \h85, \h65} |-> <<"WRITE">>]
    @@ [c \in {\h02, \h32, \h2C} |-> Append(ByMode, "WRITE")]
    @@ [c \in {\h03, \h0B, \h3B, \h6B, \hBB, \hBC} |-> Read24]
    @@ [c \in {\h0C, \h3C, \h6C} |-> Read32]
    @@ [c \in {\hEB, \hEC} |-> ReadQuad]
    @@ [c \in {\h20, \hD8} |-> <<"ADDRESS">>]
    @@ [c \in {\h21} |-> <<"ADDRESS_32BIT">>]
    @@ [c \in {\h38} |-> <<"READ_CONTINUOUS">>]

find_command(byte) == byte \in DOMAIN qspi_cmd_table

qspi_reset(o) == SpiStart(o) @@ [ads |-> 0, command |-> 0, state_count |-> 0, count |-> 0, bits_data |-> <<>>]
qspi_cs_asserted(s, e) == e.cs = s.o.cs
qspi_reset_word(s) == [s EXCEPT !.word = <<>>]

\* The memory is in quad mode when neither IO2 nor IO3 stays at one level.
qspi_mode(s) ==
    LET invalid(n) ==
            \/ s.o.invalid \in {"both", "low"} /\ \A i \in DOMAIN s.word : s.word[i][n] = 0
            \/ s.o.invalid \in {"both", "high"} /\ \A i \in DOMAIN s.word : s.word[i][n] = 1
    IN  IF s.o.have_io3 /\ ~invalid(3) /\ ~invalid(4) THEN "QUAD" ELSE "DUAL"

qspi_show(s) ==
    LET quad == qspi_mode(s) = "QUAD"
        d(n) == WordOf(s.o, Line(s, n))
        shown == <<d(1), d(2)>> \o (IF quad THEN <<d(3), d(4)>> ELSE <<>>)
    IN  Say(s, qspi_mode(s), shown)

qspi_command(s, byte) ==
    LET t == [Say(s, "COMMAND", <<byte>>) EXCEPT !.ads = CASE byte = \hB7 -> 1 [] byte = \hE9 -> 0 [] OTHER -> @]
    IN  CASE ~find_command(byte) -> Say(s, "BYTE", <<byte>>)
          [] find_command(byte) /\ qspi_cmd_table[byte] = <<>> -> t
          [] OTHER -> [t EXCEPT !.command = byte, !.state_count = 0, !.count = 0, !.bits_data = <<>>]

qspi_next(s) == [s EXCEPT !.state_count = @ + 1, !.count = 0]

qspi_address(s, kind, byte) ==
    LET size == IF kind = "ADDRESS_32BIT" \/ s.ads = 1 THEN 4 ELSE 3
        t == [s EXCEPT !.bits_data = Append(@, byte), !.count = @ + 1]
    IN  IF t.count < size THEN t ELSE qspi_next([Say(t, "ADDRESS", t.bits_data) EXCEPT !.bits_data = <<>>])

qspi_dummy(s, kind) ==
    LET t == [s EXCEPT !.count = @ + 1]
    IN  IF t.count < (IF kind = "DUMMY_32BIT" THEN 4 ELSE 1) THEN t ELSE qspi_next(Say(t, "DUMMY", <<>>))

\* What follows a command; bytes after the last entry are not shown.
qspi_data_after(s, byte) ==
    LET list == qspi_cmd_table[s.command]
        kind == list[s.state_count + 1]
    IN  CASE s.state_count >= Len(list) -> s
          [] s.state_count < Len(list) /\ kind \in {"ADDRESS", "ADDRESS_32BIT"} -> qspi_address(s, kind, byte)
          [] s.state_count < Len(list) /\ kind \in {"DUMMY", "DUMMY_32BIT"} -> qspi_dummy(s, kind)
          [] s.state_count < Len(list) /\ kind \in {"WRITE", "READ"} ->
                [Say(s, kind, <<byte>>) EXCEPT !.state_count = @ + 1]
          [] s.state_count < Len(list) /\ kind = "READ_CONTINUOUS" -> Say(s, "READ", <<byte>>)
          [] s.state_count < Len(list) /\ kind = "MODE_BITS" -> [Say(s, kind, <<>>) EXCEPT !.state_count = @ + 1]

qspi_putdata(s) ==
    LET byte == WordOf(s.o, Line(s, 1))
        t == qspi_show(s)
        u == IF s.command = 0 THEN qspi_command(t, byte) ELSE qspi_data_after(t, byte)
        v == [u EXCEPT !.bytes = Keep(@, byte, MAX_TRANSFER_BYTES)]
    IN  Say(Say(v, "BITS", <<s.word[1][1], s.word[1][2]>>), "DATA", <<byte, WordOf(s.o, Line(s, 2))>>)

qspi_first(s, e) ==
    [Say(s, "CS-CHANGE", <<255, e.cs>>) EXCEPT !.started = TRUE, !.transfer = qspi_cs_asserted(s, e), !.bytes = <<>>]

qspi_cs_change(s, e) ==
    LET t == Say(s, "CS-CHANGE", <<1 - e.cs, e.cs>>)
        u == IF qspi_cs_asserted(s, e) THEN [t EXCEPT !.transfer = TRUE, !.bytes = <<>>]
             ELSE IF s.transfer
             THEN [Say(IF s.o.frame /\ s.bytes # <<>> THEN Say(t, "BYTES", s.bytes) ELSE t, "TRANSFER", <<>>)
                     EXCEPT !.transfer = FALSE]
             ELSE t
    IN  qspi_reset_word([u EXCEPT !.command = 0, !.state_count = 0, !.count = 0, !.bits_data = <<>>])

qspi_take_bit(s, e) ==
    LET t == [s EXCEPT !.word = Append(@, e.io)]
    IN  IF Len(t.word) = 8 THEN qspi_reset_word(qspi_putdata(t)) ELSE t

qspi_decode(s, e) ==
    LET t == IF CsEdge(s, e) THEN qspi_cs_change(s, e) ELSE s
    IN  CASE ~s.started -> qspi_first(s, e)
          [] s.started /\ ClkEdge(s, e) /\ Selected(s.o, e) /\ e.clk = SampleLevel(s.o) -> qspi_take_bit(t, e)
          [] OTHER -> t
qspi_step(s, e) == [qspi_decode(s, e) EXCEPT !.was = [clk |-> e.clk, cs |-> e.cs]]

(***************************************************************************)
(* spi_dual_quad_c.c: one, two or four data lines carry the bits of one    *)
(* word.  In the protocol SQI a command is sent on one line.               *)
(***************************************************************************)
spi_dq_mode(o) ==
    CASE o.protocol = "DUAL" -> "DUAL" [] o.protocol = "QUAD" -> "QUAD" [] OTHER -> "SPI"
spi_dq_reset(o) == SpiStart(o) @@ [current_mode |-> spi_dq_mode(o), command_phase |-> TRUE, bitcount |-> 0]
spi_dq_cs_asserted(s, e) == e.cs = s.o.cs
spi_dq_reset_word(s) == [s EXCEPT !.bitcount = 0, !.word = <<>>]
spi_dq_reset_decoder_state(s) ==
    LET t == spi_dq_reset_word(s)
    IN  IF s.o.protocol = "SQI" THEN [t EXCEPT !.command_phase = TRUE, !.current_mode = "SPI"] ELSE t

\* The bits of a word, the most significant first, from each edge's lines.
RECURSIVE spi_dq_bits(_, _, _)
spi_dq_bits(s, i, out) ==
    LET io == s.word[i] IN
    IF i > Len(s.word) THEN out
    ELSE spi_dq_bits(s, i + 1, out \o
            CASE s.current_mode = "QUAD" /\ ~s.o.lsb -> <<io[4], io[3], io[2], io[1]>>
              [] s.current_mode = "QUAD" /\ s.o.lsb -> <<io[1], io[2], io[3], io[4]>>
              [] s.current_mode = "DUAL" -> <<io[2], io[1]>>
              [] OTHER -> <<io[1]>>)

\* The bits of each line are reported from the last to the first.
spi_dq_putdata(s) ==
    LET data == WordOf(s.o, spi_dq_bits(s, 1, <<>>))
        quad == s.current_mode = "QUAD"
        bits == Reverse(Line(s, 1)) \o Reverse(Line(s, 2))
                \o (IF quad THEN Reverse(Line(s, 3)) \o Reverse(Line(s, 4)) ELSE <<>>)
    IN  [Say(Say(s, "BITS", bits), "DATA", <<data, data>>) EXCEPT !.bytes = Keep(@, data, MAX_TRANSFER_BYTES)]

spi_dq_first(s, e) ==
    [Say(s, "CS-CHANGE", <<-1, e.cs>>) EXCEPT !.started = TRUE, !.transfer = spi_dq_cs_asserted(s, e), !.bytes = <<>>]

spi_dq_cs_change(s, e) ==
    LET t == Say(s, "CS-CHANGE", <<1 - e.cs, e.cs>>)
        u == IF spi_dq_cs_asserted(s, e) THEN [t EXCEPT !.transfer = TRUE, !.bytes = <<>>]
             ELSE IF s.transfer
             THEN [Say(IF s.bytes = <<>> THEN t ELSE Say(t, "BYTES", s.bytes), "TRANSFER", <<>>)
                     EXCEPT !.transfer = FALSE]
             ELSE t
    IN  spi_dq_reset_decoder_state(u)

\* A command is over once eight of its bits are counted.
spi_dq_phase(s) ==
    IF s.o.protocol = "SQI" /\ s.command_phase /\ s.bitcount >= 8
    THEN [spi_dq_reset_word(s) EXCEPT !.command_phase = FALSE, !.current_mode = "QUAD"]
    ELSE s

spi_dq_take_bits(s, e) ==
    LET t == spi_dq_phase(s)
        width == CASE t.current_mode = "QUAD" -> 4 [] t.current_mode = "DUAL" -> 2 [] OTHER -> 1
        u == [t EXCEPT !.word = Append(@, e.io), !.bitcount = @ + width]
    IN  IF u.bitcount >= s.o.wordsize THEN spi_dq_reset_word(spi_dq_putdata(u)) ELSE u

spi_dq_decode(s, e) ==
    LET t == IF CsEdge(s, e) THEN spi_dq_cs_change(s, e) ELSE s
    IN  CASE ~s.started -> spi_dq_first(s, e)
          [] s.started /\ ClkEdge(s, e) /\ Selected(s.o, e) /\ e.clk = SampleLevel(s.o) -> spi_dq_take_bits(t, e)
          [] OTHER -> t
spi_dq_step(s, e) == [spi_dq_decode(s, e) EXCEPT !.was = [clk |-> e.clk, cs |-> e.cs]]
=============================================================================
