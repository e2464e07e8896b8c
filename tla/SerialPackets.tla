--------------------------- MODULE SerialPackets ---------------------------
(***************************************************************************)
(* More decoders stacked on the UART decoder that assemble packets: boost, *)
(* lin, j1708, scs, streletz, bluetooth_h4, pn532, ufcs, crsf and pan1321. *)
(***************************************************************************)
EXTENDS SerialFrames

(***************************************************************************)
(* boost_c.c: the length of a message follows from its first byte.         *)
(***************************************************************************)
boost_reset == [state |-> "MESSAGE", message |-> [l \in Lines |-> <<>>], rep |-> <<>>]

valid_checksum(bytes) == XorAll(bytes) = \hFF

boost_length(b) ==
    CASE b \in {\h46, \hC1, \hC0} -> 3 [] b = \h43 -> 4
      [] b \in {\hD0, \h54, \hD1} -> 6 [] b \in {\hD8, \hDE} -> 10 [] OTHER -> 0

boost_handle_message(s, l) ==
    LET msg == s.message[l]
        length == boost_length(msg[1])
        good == IF msg[1] = \h54 THEN msg = <<\h54, \h22, \h00, \h10, \h20, \hB9>> ELSE valid_checksum(msg)
        over == [s EXCEPT !.message[l] = <<>>]
    IN  CASE length = 0 -> over
          [] length > 0 /\ Len(msg) < length -> s
          [] OTHER -> Say(over, IF good THEN "frame" ELSE "error", msg)

boost_recv(s, p) ==
    IF p.cmd = "DATA"
    THEN boost_handle_message([s EXCEPT !.message[LineOf(p)] = Keep(@, Byte(p), 256)], LineOf(p))
    ELSE s

(***************************************************************************)
(* lin_c.c                                                                 *)
(***************************************************************************)
lin_reset ==
    [state |-> "FIND_BREAK", header |-> <<>>, rsp |-> <<>>, done_break |-> FALSE, rep |-> <<>>]

pid_to_data_len(pid) == LET id == pid % 64 IN IF id >= 48 THEN 8 ELSE IF id >= 32 THEN 4 ELSE 2

calc_parity(pid) ==
    LET id(i) == (pid \div 2^i) % 2
        p0 == (id(0) + id(1) + id(2) + id(4)) % 2
        p1 == 1 - ((id(1) + id(3) + id(4) + id(5)) % 2)
    IN  p0 + 2 * p1

\* A sum with end-around carry, inverted.  In version 2 the protected
\* identifier is part of it, but for diagnostic frames.
lin_checksum_compute(pid, data, enhanced) ==
    LET sum == SumAll(data) + (IF enhanced THEN pid ELSE 0)
    IN  255 - (IF sum = 0 THEN 0 ELSE ((sum - 1) % 255) + 1)

lin_output_checksum(s) ==
    LET pid == s.header[2]
        data == Front(s.rsp)
        good == /\ pid \div 64 = calc_parity(pid)
                /\ Last(s.rsp) = lin_checksum_compute(pid, data, pid % 64 \notin {60, 61})
    IN  IF Len(s.header) < 2 \/ s.rsp = <<>> THEN s
        ELSE Say(s, IF good /\ data # <<>> THEN "frame" ELSE "error", s.header \o s.rsp)

lin_reset_state(s) == [s EXCEPT !.state = "FIND_BREAK", !.header = <<>>, !.rsp = <<>>]

\* The UART decoder sends the break as a byte, too: the last byte is dropped.
lin_break(s) ==
    LET t == IF s.rsp # <<>> THEN [s EXCEPT !.rsp = Front(@)]
             ELSE IF s.header # <<>> THEN [s EXCEPT !.header = Front(@)] ELSE s
        u == IF s.state # "FIND_BREAK" THEN lin_output_checksum(t) ELSE s
    IN  [lin_reset_state(u) EXCEPT !.state = "SYNC", !.done_break = TRUE]

lin_recv(s, p) ==
    CASE p.cmd = "BREAK" -> lin_break(s)
      [] p.cmd = "DATA" /\ s.state = "SYNC" -> [s EXCEPT !.header = Append(@, Byte(p)), !.state = "PID"]
      [] p.cmd = "DATA" /\ s.state = "PID" -> [s EXCEPT !.header = Append(@, Byte(p)), !.state = "DATA"]
      [] p.cmd = "DATA" /\ s.state = "DATA" ->
            [s EXCEPT !.rsp = Append(@, Byte(p)),
               !.state = IF Len(s.rsp) + 1 >= pid_to_data_len(s.header[2]) THEN "CHECKSUM" ELSE @]
      [] p.cmd = "DATA" /\ s.state = "CHECKSUM" ->
            lin_reset_state(lin_output_checksum([s EXCEPT !.rsp = Append(@, Byte(p))]))
      [] OTHER -> s

lin_end(s) == IF s.done_break /\ s.rsp # <<>> THEN lin_output_checksum(s) ELSE s

(***************************************************************************)
(* j1708_c.c, with a known samplerate.  Sample numbers are 0 while unset:  *)
(* started, stopped and valid say which are set.  Only DATA packets are    *)
(* filtered by line.                                                       *)
(***************************************************************************)
j1708_reset ==
    [state |-> "WAIT_STARTBIT", data |-> <<>>, started |-> FALSE, stopped |-> FALSE,
     valid |-> FALSE, rep |-> <<>>]

j1708_checksum(bytes) == (256 - (SumAll(bytes) % 256)) % 256

j1708_flush_message(s) ==
    LET good == Len(s.data) >= 2 /\ j1708_checksum(Front(s.data)) = Last(s.data) IN
    IF s.data = <<>> THEN s
    ELSE [Say(s, IF good THEN "frame" ELSE "error", s.data) EXCEPT !.data = <<>>, !.valid = s.stopped]

j1708_message_ready(s) ==
    [s EXCEPT !.state = "WAIT_STARTBIT", !.started = FALSE, !.stopped = FALSE, !.data = <<>>]

j1708_maybe_flush_message(s, gap) ==
    IF s.stopped /\ gap THEN j1708_message_ready(j1708_flush_message(s)) ELSE s

j1708_startbit(s, gap) ==
    LET t == To(IF s.started THEN j1708_maybe_flush_message(s, gap) ELSE [s EXCEPT !.started = TRUE],
                "WAIT_DATA")
    IN  IF t.valid /\ gap
        THEN [Say(t, "delay", <<>>) EXCEPT !.valid = FALSE, !.started = TRUE] ELSE t

j1708_recv(s, p) ==
    CASE s.state = "WAIT_STARTBIT" /\ p.cmd = "STARTBIT" -> j1708_startbit(s, p.gap)
      [] s.state = "WAIT_STARTBIT" /\ p.cmd = "IDLE" -> j1708_maybe_flush_message(s, p.gap)
      [] s.state = "WAIT_DATA" /\ p.cmd = "DATA" /\ LineOf(p) = 0 ->
            [s EXCEPT !.data = Keep(@, Byte(p), 256), !.state = "WAIT_STOPBIT"]
      [] s.state = "WAIT_STOPBIT" /\ p.cmd \in {"STOPBIT", "INVALID STOPBIT"} ->
            [s EXCEPT !.stopped = TRUE, !.state = "WAIT_STARTBIT"]
      [] OTHER -> s

j1708_end(s) == IF s.data # <<>> THEN j1708_message_ready(j1708_flush_message(s)) ELSE s

(***************************************************************************)
(* scs_c.c: seven bytes counted from the very first one.                   *)
(***************************************************************************)
scs_reset == [state |-> "TELEGRAM", idx |-> 0, crc |-> 0, rep |-> <<>>]

scs_recv(s, p) ==
    LET b == Byte(p)
        shown == IF s.idx = 0 /\ b # \hA8 THEN s
                 ELSE Say(s, IF s.idx = 5 /\ s.crc = b THEN "frame" ELSE "field", <<b>>)
    IN  IF p.cmd # "DATA" THEN s
        ELSE [shown EXCEPT !.idx = (@ + 1) % 7,
                !.crc = IF s.idx = 1 THEN b ELSE IF s.idx \in 2 .. 4 THEN @ ^^ b ELSE @]

(***************************************************************************)
(* streletz_c.c, on the FRAME packets of uart_fast: the byte, the line.    *)
(***************************************************************************)
streletz_MAX_PKT == 64
streletz_MIN_PKT == 4
streletz_header == [l \in Lines |-> IF l = 0 THEN \h9D ELSE \hD9]

streletz_reset ==
    [state |-> "PACKET", buf_pos |-> 0, rxtx |-> 0, packet_size |-> 0, accum |-> <<>>, rep |-> <<>>]

streletz_reset_state(s) == [s EXCEPT !.buf_pos = 0, !.rxtx = 0, !.packet_size = 0, !.accum = <<>>]

streletz_too_longBug(size) == size > 256

streletz_too_long(size) == size > streletz_MAX_PKT

streletz_handle_byte(old, b, l) ==
    LET s == CASE old.buf_pos = 0 -> old
               [] old.buf_pos > 0 /\ old.rxtx # l -> streletz_reset_state(old)
               [] OTHER -> [old EXCEPT !.buf_pos = @ + 1, !.accum = Keep(@, b, streletz_MAX_PKT)]
        size == streletz_MIN_PKT + b
        t == IF s.buf_pos = 2 THEN [s EXCEPT !.packet_size = size] ELSE s
        good == XorAll(t.accum) = 0
    IN  CASE s.buf_pos = 0 /\ b = streletz_header[l] ->
                [s EXCEPT !.buf_pos = 1, !.rxtx = l, !.accum = <<b>>]
          [] s.buf_pos = 2 /\ streletz_too_long(size) ->
                streletz_reset_state(Say(s, "error", s.accum))
          [] s.buf_pos >= 2 /\ t.buf_pos = t.packet_size ->
                streletz_reset_state(Say(t, IF good THEN "frame" ELSE "error", t.accum))
          [] OTHER -> t

streletz_recv(s, p) == IF p.cmd = "FRAME" THEN streletz_handle_byte(s, p.f[1], p.f[2]) ELSE s

(***************************************************************************)
(* bluetooth_h4_c.c                                                        *)
(***************************************************************************)
bluetooth_h4_idle == [state |-> "WAIT_PKT_TYPE", data |-> <<>>, length |-> -1]

bluetooth_h4_reset == [state |-> "LINES", line |-> [l \in Lines |-> bluetooth_h4_idle], rep |-> <<>>]

bluetooth_h4_header == <<4, 5, 4, 3>>      \* bytes up to the length, by type

bluetooth_h4_output_packet(s, l) ==
    [Say(s, "packet", s.line[l].data) EXCEPT !.line[l] = bluetooth_h4_idle]

bluetooth_h4_take(s, l, b) ==
    LET h == s.line[l]
        data == Keep(h.data, b, 1024)
        left == IF h.length > 0 THEN h.length - 1 ELSE h.length
        paid == [s EXCEPT !.line[l].data = data, !.line[l].length = left]
        length == CASE data[1] = 2 -> data[4] + 256 * data[5] [] data[1] = 4 -> data[3] [] OTHER -> data[4]
    IN  CASE h.state = "WAIT_PKT_TYPE" /\ b \notin 1 .. 4 -> Say(s, "junk", <<b>>)
          [] h.state = "WAIT_PKT_TYPE" /\ b \in 1 .. 4 ->
                [s EXCEPT !.line[l] = [state |-> "WAIT_HEADER", data |-> <<b>>, length |-> -1]]
          [] h.state = "WAIT_HEADER" /\ Len(data) < bluetooth_h4_header[data[1]] ->
                [s EXCEPT !.line[l].data = data]
          [] h.state = "WAIT_HEADER" /\ Len(data) >= bluetooth_h4_header[data[1]] ->
                [s EXCEPT !.line[l] = [state |-> "WAIT_PAYLOAD", data |-> data, length |-> length]]
          [] h.state = "WAIT_PAYLOAD" /\ left = 0 -> bluetooth_h4_output_packet(paid, l)
          [] OTHER -> paid

bluetooth_h4_recv(s, p) == IF p.cmd = "DATA" THEN bluetooth_h4_take(s, LineOf(p), Byte(p)) ELSE s

(***************************************************************************)
(* pn532_c.c                                                               *)
(***************************************************************************)
pn532_reset_state ==
    [state |-> "START_FRAME", start_frame |-> <<>>, length |-> <<>>, data_size |-> 0,
     tfi |-> 0, data_packet |-> <<>>, rep |-> <<>>]

pn532_reset == pn532_reset_state

\* A window of three bytes until it holds the start of a frame.
pn532_handle_start_frame(s, b) ==
    LET w == Append(s.start_frame, b) IN
    CASE w = <<0, 0, \hFF>> -> [s EXCEPT !.start_frame = w, !.state = "LENGTH", !.length = <<>>]
      [] Len(w) = 3 /\ w # <<0, 0, \hFF>> -> [s EXCEPT !.start_frame = Tail(w)]
      [] OTHER -> [s EXCEPT !.start_frame = w]

\* ACK, NACK and error frames have no length.
pn532_handle_length(s, b) ==
    LET w == Append(s.length, b)
        t == [s EXCEPT !.length = w]
    IN  CASE Len(w) < 2 -> t
          [] w \in {<<0, \hFF>>, <<\hFF, 0>>, <<\hFF, \hFF>>} -> To(t, "END_FRAME")
          [] OTHER -> [t EXCEPT !.data_size = w[1] - 1,
                         !.state = IF (w[1] + b) % 256 = 0 THEN "TFI" ELSE "END_FRAME"]

pn532_handle_tfi(s, b) ==
    [s EXCEPT !.tfi = b,
       !.state = IF b \in {\hD4, \hD5} THEN "DATA" ELSE IF b = \h7F THEN "CHECKSUM" ELSE @]

pn532_handle_data(s, b) ==
    LET data == Keep(s.data_packet, b, 256) IN
    IF Len(data) < s.data_size THEN [s EXCEPT !.data_packet = data]
    ELSE Say([s EXCEPT !.data_packet = data, !.state = "CHECKSUM"], "field", data)

pn532_handle_checksum(s, b) ==
    LET good == (s.tfi + SumAll(s.data_packet) + b) % 256 = 0 IN
    Say(To(s, "END_FRAME"), IF good THEN "checksum" ELSE "error", <<b>>)

\* tfi keeps its value.
pn532_handle_end_frame(s, b) ==
    [pn532_reset_state EXCEPT !.tfi = s.tfi, !.rep = Append(s.rep, Report("end", <<b>>))]

pn532_recv(s, p) ==
    LET b == Byte(p) IN
    CASE p.cmd # "DATA" -> s
      [] p.cmd = "DATA" /\ s.state = "START_FRAME" -> pn532_handle_start_frame(s, b)
      [] p.cmd = "DATA" /\ s.state = "LENGTH"      -> pn532_handle_length(s, b)
      [] p.cmd = "DATA" /\ s.state = "TFI"         -> pn532_handle_tfi(s, b)
      [] p.cmd = "DATA" /\ s.state = "DATA"        -> pn532_handle_data(s, b)
      [] p.cmd = "DATA" /\ s.state = "CHECKSUM"    -> pn532_handle_checksum(s, b)
      [] p.cmd = "DATA" /\ s.state = "END_FRAME"   -> pn532_handle_end_frame(s, b)

(***************************************************************************)
(* ufcs_c.c.  datapkt has 136 places, but a packet may have up to 260      *)
(* bytes and the index goes on.  A reset does not clear it: places that    *)
(* this packet has not written hold bytes of earlier ones, or zero.        *)
(***************************************************************************)
ufcs_MAX_PKT == 136

ufcs_reset == [state |-> "PACKET", dataidx |-> 0, plen |-> 0, datapkt |-> <<>>, rep |-> <<>>]

ufcs_reset_state(s) == [s EXCEPT !.dataidx = 0, !.plen = 0]

\* The array after the byte has been written, and n bytes of it from place 0.
ufcs_append(s, b) ==
    IF s.dataidx < Len(s.datapkt) THEN [s.datapkt EXCEPT ![s.dataidx + 1] = b]
    ELSE Keep(s.datapkt, b, ufcs_MAX_PKT)

ufcs_bytes(s, n) == [i \in 1 .. n |-> IF i <= Len(s.datapkt) THEN s.datapkt[i] ELSE 0] \o <<>>

RECURSIVE ufcs_crc8_bits(_, _)
ufcs_crc8_bits(c, n) ==
    IF n = 0 THEN c ELSE ufcs_crc8_bits(IF c >= \h80 THEN ((2 * c) % 256) ^^ \h29 ELSE 2 * c, n - 1)

ufcs_compute_crc8(bytes) == FoldLeft(LAMBDA crc, b : ufcs_crc8_bits(crc ^^ b, 8), 0, bytes)

ufcs_data_len(s) == IF s.datapkt[2] % 8 = 1 THEN s.datapkt[4] ELSE 0

\* Bytes shown before the checksum: the header, the length, and as many from
\* place 4 on as the type of the message has, whatever the length says.
ufcs_puthead == 3
ufcs_decode_data_msg(type, dlen) ==
    CASE dlen = 0 -> 0
      [] dlen # 0 /\ type = 1 -> 8 * Min({dlen \div 8, 16})
      [] dlen \in 1 .. 132 /\ type \in 2 .. 6 -> 8
      [] dlen \in 1 .. 132 /\ type \in {7, 9} -> 4
      [] dlen \in 1 .. 132 /\ type = 8 -> 2
      [] OTHER -> 0

\* The checksum of a packet that is too long is computed over, and compared
\* with, what lies behind the array: nothing is said of the outcome.
ufcs_decode_pkt(s) ==
    LET dlen == ufcs_data_len(s)
        n == ufcs_puthead + Min({dlen, 1}) + ufcs_decode_data_msg(s.datapkt[3], dlen)
        t == Say(s, "field", ufcs_bytes(s, n))
        crc == Last(ufcs_bytes(s, s.plen))
        good == ufcs_compute_crc8(ufcs_bytes(s, s.plen - 1)) = crc
    IN  IF s.plen > ufcs_MAX_PKT THEN Say(t, "overread", <<>>)
        ELSE Say(t, IF good THEN "checksum" ELSE "error", <<crc>>)

ufcs_recv(s, p) ==
    LET b == Byte(p)
        t == [s EXCEPT !.dataidx = @ + 1, !.datapkt = ufcs_append(s, b),
                !.plen = IF s.dataidx # 3 THEN @ ELSE IF s.datapkt[2] % 2 = 1 THEN b + 5 ELSE 4]
    IN  CASE p.cmd # "DATA" -> s
          [] p.cmd = "DATA" /\ b = \hAA -> ufcs_reset_state(s)
          [] p.cmd = "DATA" /\ b # \hAA ->
                IF t.dataidx = t.plen THEN ufcs_decode_pkt(t) ELSE t

(***************************************************************************)
(* crsf_c.c.  The checksum is the last byte of the payload and is not      *)
(* looked at.                                                              *)
(***************************************************************************)
crsf_sync_bytes == {\hEE, \hEA, \hC8, \hEC}
crsf_frame_types ==
    {\h02, \h07, \h08, \h09, \h10, \h14, \h16, \h1E, \h21, \h28, \h29, \h2A, \h2B, \h2C, \h2D, \h32, \h3A}

crsf_reset == [state |-> "WAIT_SYNC", len |-> 0, type |-> 0, payload |-> <<>>, rep |-> <<>>]

\* Payload bytes that each kind of frame needs to be shown.
crsf_needs(type) ==
    CASE type = \h16 -> 22 [] type = \h14 -> 10 [] type = \h02 -> 15
      [] type = \h08 -> 8  [] type = \h1E -> 6  [] OTHER -> 0

crsf_process_frame(s) ==
    IF Len(s.payload) < crsf_needs(s.type) THEN s ELSE Say(s, "frame", s.payload)

crsf_recv(s, p) ==
    LET b == Byte(p)
        t == [s EXCEPT !.payload = Keep(@, b, 256)]
    IN  CASE p.cmd # "DATA" -> s
          [] p.cmd = "DATA" /\ s.state = "WAIT_SYNC" ->
                IF b \in crsf_sync_bytes THEN To(s, "WAIT_LEN") ELSE s
          [] p.cmd = "DATA" /\ s.state = "WAIT_LEN" ->
                IF b \in 2 .. 62 THEN [s EXCEPT !.len = b, !.state = "WAIT_TYPE"] ELSE To(s, "WAIT_SYNC")
          [] p.cmd = "DATA" /\ s.state = "WAIT_TYPE" ->
                [s EXCEPT !.type = b, !.payload = <<>>,
                   !.state = IF b \in crsf_frame_types /\ s.len > 2 THEN "WAIT_PAYLOAD" ELSE "WAIT_SYNC"]
          [] p.cmd = "DATA" /\ s.state = "WAIT_PAYLOAD" ->
                IF Len(t.payload) >= s.len - 1 THEN To(crsf_process_frame(t), "WAIT_SYNC") ELSE t

(***************************************************************************)
(* pan1321_c.c: lines of text that end with CR LF, up to MAX - 2 bytes.    *)
(***************************************************************************)
pan1321_MAX_CMD == 512
pan1321_reset == [state |-> "LINES", cmd |-> [l \in Lines |-> <<>>], rep |-> <<>>]

pan1321_handle_device_reply(s, text) == Say(s, "line", text)
pan1321_handle_host_command(s, text) == Say(s, "line", text)

pan1321_recv(s, p) ==
    LET l == LineOf(p)
        cmd == Keep(s.cmd[l], Byte(p), pan1321_MAX_CMD - 2)
        n == Len(cmd)
    IN  CASE p.cmd # "DATA" -> s
          [] p.cmd = "DATA" /\ n >= 2 /\ SubSeq(cmd, n - 1, n) = <<13, 10>> ->
                LET t == [s EXCEPT !.cmd[l] = <<>>]
                    text == SubSeq(cmd, 1, n - 2)
                IN  IF l = 0 THEN pan1321_handle_device_reply(t, text)
                             ELSE pan1321_handle_host_command(t, text)
          [] OTHER -> [s EXCEPT !.cmd[l] = cmd]
=============================================================================
