---------------------------- MODULE SerialTrace ----------------------------
(***************************************************************************)
(* Decoders stacked on the UART decoder whose packets have no fixed        *)
(* length: arm_itm, arm_etmv3, arm_tpiu, sbus_futaba and amulet_ascii.     *)
(***************************************************************************)
EXTENDS SerialPackets

\* The last n bytes.
Window(bytes, b, n) == IF Len(bytes) < n THEN Append(bytes, b) ELSE Append(Tail(bytes), b)

(***************************************************************************)
(* arm_itm_c.c                                                             *)
(***************************************************************************)
arm_itm_reset == [state |-> "COLLECT", buf |-> <<>>, syncbuf |-> <<>>, mode |-> FALSE, rep |-> <<>>]

arm_itm_get_packet_type(b) ==
    CASE b % 128 = 0 -> "sync"
      [] b = \h70 -> "overflow"
      [] b % 16 = 0 /\ b \notin {0, \h80, \h70} -> "timestamp"
      [] b % 16 = 8 -> "sw_extension"
      [] b % 16 = 12 -> "hw_extension"
      [] b % 16 = 4 -> "reserved"
      [] b % 16 \in {1, 2, 3, 9, 10, 11} -> "software"
      [] OTHER -> "hardware"

arm_itm_get_payload_len(b) == <<0, 1, 2, 4>>[(b % 4) + 1]

\* Exception entry and return open a mode, exit closes it.
arm_itm_mode_change(s, on) ==
    [(IF s.mode THEN Say(s, "mode", <<>>) ELSE s) EXCEPT !.mode = on]

arm_itm_handle_packet(s) ==
    LET type == arm_itm_get_packet_type(s.buf[1])
        exception == type = "hardware" /\ s.buf[1] \div 8 = 1 /\ Len(s.buf) >= 3
        event == s.buf[3] \div 16
        t == IF exception /\ event \in 1 .. 3 THEN arm_itm_mode_change(s, event # 2) ELSE s
    IN  Say(t, type, s.buf)

arm_itm_packet_complete(buf) ==
    LET type == arm_itm_get_packet_type(buf[1]) IN
    CASE type = "timestamp" -> buf[1] < \h80 \/ \E i \in 2 .. Len(buf) : buf[i] < \h80
      [] type \in {"software", "hardware"} -> Len(buf) >= arm_itm_get_payload_len(buf[1]) + 1
      [] OTHER -> TRUE

arm_itm_sync == <<0, 0, 0, 0, 0, \h80>>

arm_itm_keptBug(s, p) == s.buf

\* A gap drops what was collected.
arm_itm_kept(s, p) == IF p.gap THEN <<>> ELSE s.buf

\* The synchronization pattern overrides what was collected and is shown
\* whole, although each of its bytes may have been shown already.
arm_itm_recv(s, p) ==
    LET t == [s EXCEPT !.buf = Keep(arm_itm_kept(s, p), Byte(p), 8), !.syncbuf = Window(@, Byte(p), 6)]
    IN  CASE p.cmd # "DATA" -> s
          [] p.cmd = "DATA" /\ t.syncbuf = arm_itm_sync ->
                [arm_itm_handle_packet([t EXCEPT !.buf = t.syncbuf]) EXCEPT !.buf = <<>>]
          [] p.cmd = "DATA" /\ t.syncbuf # arm_itm_sync ->
                IF arm_itm_packet_complete(t.buf)
                THEN [arm_itm_handle_packet(t) EXCEPT !.buf = <<>>] ELSE t

(***************************************************************************)
(* arm_etmv3_c.c.  Of the addresses only the mode of the CPU is kept.      *)
(***************************************************************************)
arm_etmv3_reset == [state |-> "COLLECT", buf |-> <<>>, syncbuf |-> <<>>, cpu |-> "ARM", rep |-> <<>>]

arm_etmv3_get_packet_type(b) ==
    CASE b % 2 = 1 -> "branch"
      [] b = 0 -> "a_sync"
      [] b \in {\h08, \h70} -> "i_sync"
      [] b % 2 = 0 /\ b >= \h80 -> "p_header"
      [] OTHER -> "short"

\* Bytes up to the first one without a continuation bit.
arm_etmv3_parse_varint(bytes) ==
    LET ends == {i \in DOMAIN bytes : bytes[i] < \h80}
    IN  IF ends = {} THEN Len(bytes) ELSE Min(ends)

arm_etmv3_done(s, kind) == [Say(s, kind, s.buf) EXCEPT !.buf = <<>>]

arm_etmv3_handle_a_sync(s) == IF Last(s.buf) = \h80 THEN arm_etmv3_done(s, "a_sync") ELSE s

\* Header, cycle count (after 0x70 only), information byte and address.
arm_etmv3_handle_i_sync(s) ==
    LET cyclen == IF s.buf[1] = \h08 THEN 0 ELSE arm_etmv3_parse_varint(Tail(s.buf))
        thumb == s.buf[cyclen + 3] % 2 = 1
    IN  IF Len(s.buf) < 6 \/ Len(s.buf) <= cyclen + 5 THEN s
        ELSE [arm_etmv3_done(s, "i_sync") EXCEPT !.cpu = IF thumb THEN "THUMB" ELSE "ARM"]

arm_etmv3_handle_branch(s) ==
    LET b == s.buf[5]
        cpu == CASE b < \h80 /\ (b \div 8) % 8 = 1 -> "ARM"
                 [] b < \h80 /\ (b \div 16) % 4 = 1 -> "THUMB"
                 [] b < \h80 /\ (b \div 32) % 2 = 1 -> "JAZELLE"
                 [] OTHER -> s.cpu
    IN  IF Last(s.buf) >= \h80 THEN s
        ELSE [arm_etmv3_done(s, "branch") EXCEPT
                !.cpu = IF arm_etmv3_parse_varint(s.buf) = 5 THEN cpu ELSE @]

arm_etmv3_handle_p_header(s) == arm_etmv3_done(s, "p_header")
arm_etmv3_handle_short(s) == arm_etmv3_done(s, "short")      \* the eleven others

arm_etmv3_process_buffer(s) ==
    LET type == arm_etmv3_get_packet_type(s.buf[1]) IN
    CASE type = "a_sync"   -> arm_etmv3_handle_a_sync(s)
      [] type = "branch"   -> arm_etmv3_handle_branch(s)
      [] type = "i_sync"   -> arm_etmv3_handle_i_sync(s)
      [] type = "p_header" -> arm_etmv3_handle_p_header(s)
      [] type = "short"    -> arm_etmv3_handle_short(s)

arm_etmv3_sync == <<0, 0, 0, 0, \h80>>

arm_etmv3_recv(s, p) ==
    LET kept == IF p.gap THEN <<>> ELSE s.buf
        sync == Window(s.syncbuf, Byte(p), 5)
        t == [s EXCEPT !.syncbuf = sync,
                !.buf = IF sync = arm_etmv3_sync THEN sync ELSE Keep(kept, Byte(p), 64)]
    IN  IF p.cmd = "DATA" THEN arm_etmv3_process_buffer(t) ELSE s

(***************************************************************************)
(* arm_tpiu_c.c: frames of 16 bytes; the last one holds the lowest bits of *)
(* the bytes at even places, which are data (0) or a change of stream (1). *)
(***************************************************************************)
arm_tpiu_reset == [state |-> "FRAME", stream |-> 0, frame |-> <<>>, syncbuf |-> <<>>, rep |-> <<>>]

arm_tpiu_opt_stream == 1

arm_tpiu_stream_changed(s, stream) ==
    IF s.stream = stream THEN s
    ELSE [(IF s.stream # 0 THEN Say(s, "stream", <<>>) ELSE s) EXCEPT !.stream = stream]

\* Bytes of the stream that was chosen go to the next decoder.
arm_tpiu_emit_byte(s, b) == IF s.stream = arm_tpiu_opt_stream THEN Say(s, "data", <<b>>) ELSE s

arm_tpiu_process_frame(s) ==
    LET pair(t, i) ==      \* places i and i + 1, counted from 0
            LET b == s.frame[i + 1]
                lowbit == (s.frame[16] \div 2^(i \div 2)) % 2
                first == CASE b % 2 = 0 -> arm_tpiu_emit_byte(t, b + lowbit)
                           [] b % 2 = 1 /\ lowbit = 0 -> arm_tpiu_stream_changed(t, b \div 2)
                           [] OTHER -> t
                second == IF i < 14 THEN arm_tpiu_emit_byte(first, s.frame[i + 2]) ELSE first
            IN  IF b % 2 = 1 /\ lowbit = 1 THEN arm_tpiu_stream_changed(second, b \div 2) ELSE second
    IN  FoldLeft(pair, s, <<0, 2, 4, 6, 8, 10, 12, 14>>)

arm_tpiu_sync == <<\hFF, \hFF, \hFF, \h7F>>

arm_tpiu_recv(s, p) ==
    LET kept == IF p.gap THEN <<>> ELSE s.frame
        t == [s EXCEPT !.frame = Keep(kept, Byte(p), 16), !.syncbuf = Window(@, Byte(p), 4)]
    IN  CASE p.cmd # "DATA" -> s
          [] p.cmd = "DATA" /\ t.syncbuf = arm_tpiu_sync -> [t EXCEPT !.frame = <<>>, !.syncbuf = <<>>]
          [] p.cmd = "DATA" /\ t.syncbuf # arm_tpiu_sync ->
                IF Len(t.frame) = 16 THEN [arm_tpiu_process_frame(t) EXCEPT !.frame = <<>>] ELSE t

(***************************************************************************)
(* sbus_futaba_c.c: bits are counted, their values only shown.  A message  *)
(* is a header, 16 channels, 2 + 2 flags, padding and a footer.            *)
(***************************************************************************)
sbus_reset == [state |-> "MESSAGE", num_bits |-> 0, sent_fields |-> 0, failed |-> FALSE, rep |-> <<>>]

sbus_reset_state(s) == [s EXCEPT !.num_bits = 0, !.sent_fields = 0, !.failed = FALSE]

sbus_width(field) ==      \* of the field after sent_fields others
    CASE field = 0 -> 8 [] field \in 1 .. 16 -> 11 [] field \in 17 .. 20 -> 1 [] field = 21 -> 4 [] OTHER -> 8

sbus_FIELDS == 23

RECURSIVE sbus_flush(_)
sbus_flush(s) ==
    LET width == sbus_width(s.sent_fields) IN
    IF s.sent_fields = sbus_FIELDS \/ s.num_bits < width THEN s
    ELSE LET kind == IF s.sent_fields = sbus_FIELDS - 1 THEN "frame" ELSE "field" IN
         sbus_flush([Say(s, kind, <<>>) EXCEPT !.num_bits = @ - width, !.sent_fields = @ + 1])

sbus_flush_accum_bits(s) ==
    LET t == sbus_flush(s) IN
    IF s.failed THEN s
    ELSE [t EXCEPT !.failed = t.sent_fields = sbus_FIELDS /\ t.num_bits > 0]

sbus_handle_idle(s) ==
    sbus_reset_state(IF s.num_bits > 0 THEN Say(s, "error", <<>>) ELSE s)

sbus_handle_break(s) == sbus_reset_state(Say(sbus_handle_idle([s EXCEPT !.failed = TRUE]), "error", <<>>))

\* Fields 2 and 3 of a FRAME are taken for flags of a valid frame.
sbus_recv(s, p) ==
    CASE p.cmd = "DATA"  -> [s EXCEPT !.num_bits = IF @ + 8 <= 256 THEN @ + 8 ELSE 256]
      [] p.cmd = "FRAME" ->
            sbus_flush_accum_bits(IF p.f[2] = 0 \/ p.f[3] = 0 THEN [s EXCEPT !.failed = TRUE] ELSE s)
      [] p.cmd = "IDLE"  -> sbus_handle_idle(s)
      [] p.cmd = "BREAK" -> sbus_handle_break(s)
      [] OTHER -> s

(***************************************************************************)
(* amulet_ascii_c.c.  state is the command (0: none), cmdstate the number  *)
(* of the byte after it and cmd what lies between ss_cmd and here.         *)
(***************************************************************************)
amulet_reset == [state |-> 0, cmdstate |-> 0, cmd |-> <<>>, rep |-> <<>>]

amulet_is_command(b) == b = \hA0 \/ b \in \hD0 .. \hF7
amulet_is_high_byte_cmd(c) == c \in {\hA0, \hD7, \hE7, \hE2, \hE3}

amulet_emit_cmd_byte(s, b) == Say([s EXCEPT !.state = b, !.cmdstate = 1, !.cmd = <<b>>], "command", <<>>)
amulet_emit_cmd_end(s) == [Say(s, "frame", s.cmd) EXCEPT !.state = 0]

\* Which byte ends the command in its handler.
amulet_handle_read == 1
amulet_handle_grpc == 3
amulet_handle_page == 5
amulet_handle_sbv  == 5
amulet_handle_gbvr == 5
amulet_handle_sbvr == 5
amulet_handle_gwvr == 6
amulet_handle_swv  == 7
amulet_handle_swvr == 7
amulet_handle_not_implemented == 8
amulet_handle_drawing == 18

amulet_last_byte(c) ==
    CASE c \in {\hD0, \hD1, \hD2, \hD3, \hD8, \hDD, \hDE, \hE8} -> amulet_handle_read
      [] c \in {\hDC, \hEC, \hF0, \hF1} -> 1
      [] c = \hD4 -> amulet_handle_grpc
      [] c = \hA0 -> amulet_handle_page
      [] c = \hD5 -> amulet_handle_sbv
      [] c = \hE0 -> amulet_handle_gbvr
      [] c = \hE5 -> amulet_handle_sbvr
      [] c = \hE1 -> amulet_handle_gwvr
      [] c = \hD6 -> amulet_handle_swv
      [] c = \hE6 -> amulet_handle_swvr
      [] c \in \hF4 .. \hF7 -> amulet_handle_not_implemented
      [] OTHER -> amulet_handle_drawing

\* Strings end with a zero, arrays of bytes and words with a zero where a
\* value begins.
amulet_handle_string(c) == c \in {\hD7, \hE2, \hE3, \hE7}
amulet_handle_sbva(n) == n \notin {2, 3} /\ n % 2 = 1
amulet_handle_swva(n) == n > 3 /\ n % 4 = 3
amulet_handle_grpcr(n) == n > 3 /\ n % 2 = 1
amulet_handle_array_reply(c, n) ==
    IF c \in {\hED, \hEF} THEN amulet_handle_sbva(n) ELSE amulet_handle_swva(n)

amulet_arrays == {\hDF, \hED, \hEF, \hF2, \hEE, \hF3, \hE4}
amulet_value_begins(c, n) ==
    CASE c = \hDF -> amulet_handle_sbva(n)
      [] c = \hF2 -> amulet_handle_swva(n)
      [] c = \hE4 -> amulet_handle_grpcr(n)
      [] c \in {\hED, \hEF, \hEE, \hF3} -> amulet_handle_array_reply(c, n)
      [] OTHER -> FALSE

amulet_handle_command(s, b) ==
    LET c == s.state
        n == s.cmdstate
        zero == b = 0 /\ (amulet_handle_string(c) \/ amulet_value_begins(c, n))
        fixed == ~amulet_handle_string(c) /\ c \notin amulet_arrays /\ n = amulet_last_byte(c)
        page == c = \hA0 /\ n = 2 /\ b # 2
    IN  CASE page \/ (fixed /\ c \in {\hDC, \hEC, \hF0, \hF1}) -> [Say(s, "warn", <<>>) EXCEPT !.state = 0]
          [] zero \/ (fixed /\ c \notin {\hDC, \hEC, \hF0, \hF1}) -> amulet_emit_cmd_end(s)
          [] OTHER -> [s EXCEPT !.cmdstate = @ + 1]

\* A command byte that cuts another command short is handled as its own first
\* byte, too.
amulet_recv(s, p) ==
    LET b == Byte(p)
        abort == b \in \hD0 .. \hF7 /\ ~amulet_is_high_byte_cmd(s.state) /\ s.state # 0
    IN  CASE p.cmd # "DATA" -> s
          [] p.cmd = "DATA" /\ s.state = 0 ->
                IF amulet_is_command(b) THEN amulet_emit_cmd_byte(s, b) ELSE Say(s, "warn", <<>>)
          [] p.cmd = "DATA" /\ s.state # 0 ->
                amulet_handle_command(IF abort THEN amulet_emit_cmd_byte(s, b) ELSE [s EXCEPT !.cmd = Append(@, b)], b)
=============================================================================
