---------------------------- MODULE SerialFrames ----------------------------
(***************************************************************************)
(* Decoders stacked on the UART decoder that put the bytes of a line       *)
(* together to frames: modbus, midi, boost, lin, j1708, scs, streletz,     *)
(* bluetooth_h4, pn532, ufcs, crsf and pan1321 of c_decoders/.             *)
(*                                                                         *)
(* A packet p of the UART decoder has its command in p.cmd and its fields  *)
(* in p.f; p.gap says whether the line was idle before it for longer than  *)
(* the decoder's limit.  The kind of a report (field reg) is "frame" where *)
(* a whole frame is shown as good.                                         *)
(***************************************************************************)
EXTENDS Stacked, Bitwise, FiniteSetsExt

Byte(p) == p.f[1]      \* of a DATA packet
LineOf(p) == p.f[2]

Lines == 0 .. 1        \* RX, TX
XorAll(bytes) == FoldLeft(LAMBDA x, b : x ^^ b, 0, bytes)
SumAll(bytes) == FoldLeft(LAMBDA x, b : x + b, 0, bytes)

(***************************************************************************)
(* modbus_c.c.  An ADU is parsed again with every byte; last is the index  *)
(* of the last byte shown.  Indexes of data count from 0, as in the code.  *)
(***************************************************************************)
\* A checksum that shifts to the right, n bits or all of the bytes.
RECURSIVE CrcBits(_, _, _)
CrcBits(poly, c, n) ==
    IF n = 0 THEN c
    ELSE CrcBits(poly, IF c % 2 = 1 THEN (c \div 2) ^^ poly ELSE c \div 2, n - 1)

RECURSIVE Crc(_, _, _)
Crc(poly, c, bytes) ==
    IF bytes = <<>> THEN c ELSE Crc(poly, CrcBits(poly, c ^^ Head(bytes), 8), Tail(bytes))

modbus_crc(bytes) == Crc(\hA001, \hFFFF, bytes)

modbus_adu_reset == [data |-> <<>>, last |-> -1, minimum |-> 4, error |-> FALSE, rep |-> <<>>]

modbus_reset == [state |-> "no bitlength", adu |-> [l \in Lines |-> modbus_adu_reset], rep |-> <<>>]

modbus_at(a, n) == IF n < Len(a.data) THEN a.data[n + 1] ELSE 0
modbus_put(n) == [n |-> n, kind |-> "field"]
modbus_puts(places) == [i \in DOMAIN places |-> modbus_put(places[i])]
modbus_fields(n, first, step) == [i \in 1 .. Max({n, 0}) |-> modbus_put(first + step * (i - 1))]

modbus_adu_putiBug(a, put) ==
    IF put.n > Len(a.data) - 1 THEN a
    ELSE LET e == [a EXCEPT !.error = @ \/ put.kind = "error"] IN
         [e EXCEPT !.last = put.n, !.rep = Append(@, Report(put.kind, SubSeq(a.data, a.last + 2, put.n + 1)))]

modbus_adu_puti(a, put) ==
    IF put.n > Len(a.data) - 1 THEN a
    ELSE LET e == [a EXCEPT !.error = @ \/ put.kind = "error"] IN
         IF put.n <= a.last THEN e
         ELSE [e EXCEPT !.last = put.n,
                  !.rep = Append(@, Report(put.kind, SubSeq(a.data, a.last + 2, put.n + 1)))]

\* The CRC of the bytes before place n - 1, against the last two there are.
modbus_adu_check_crc(a, n) ==
    LET len == Len(a.data) IN
    IF n < 3 \/ n > len - 1 THEN <<>>
    ELSE LET crc == modbus_crc(SubSeq(a.data, 1, n - 1)) IN
         <<[n |-> n, kind |-> IF SubSeq(a.data, len - 1, len) = <<crc % 256, crc \div 256>>
                              THEN "frame" ELSE "error"]>>

\* A parse sets the minimum length and puts out fields up to given places.
modbus_sc_parse_read_bits(a) ==
    LET bytecount == modbus_at(a, 2)
        upto == Min({Len(a.data) - 2, bytecount + 3})
    IN  [minimum |-> 5 + bytecount,
         puts |-> modbus_puts(<<1, 2>>) \o modbus_fields(upto - 3, 3, 1)
                  \o modbus_adu_check_crc(a, bytecount + 4)]

modbus_sc_parse_read_registers(a) ==
    LET bytecount == modbus_at(a, 2)
        upto == Min({Len(a.data) - 3, bytecount + 3})
    IN  [minimum |-> 5 + bytecount,
         puts |-> <<modbus_put(1), [n |-> 2, kind |-> IF bytecount % 2 = 0 THEN "field" ELSE "error"]>>
                  \o modbus_fields((upto - 2) \div 2, 4, 2)
                  \o modbus_adu_check_crc(a, bytecount + 4)]

\* Requests and answers of a fixed length, with a CRC at place n - 1.
modbus_parse_fixed(a, places, n) ==
    [minimum |-> n, puts |-> modbus_puts(places) \o modbus_adu_check_crc(a, n - 1)]

modbus_sc_parse_write(a) == modbus_parse_fixed(a, <<1, 3, 5>>, 8)
modbus_sc_parse_error(a) == modbus_parse_fixed(a, <<1, 2>>, 5)
modbus_cs_parse_read_data_command(a) == modbus_parse_fixed(a, <<1, 3, 5>>, 8)
modbus_cs_parse_single_byte_request(a) ==
    [modbus_parse_fixed(a, <<1>>, 4) EXCEPT !.minimum = a.minimum]
modbus_cs_parse_mask_write_register(a) == modbus_parse_fixed(a, <<1, 3, 5, 7>>, 10)

modbus_cs_parse_write_multiple(a) ==
    LET bytecount == modbus_at(a, 6)
        upto == Min({Len(a.data) - 2, bytecount + 7})
    IN  IF Len(a.data) <= 6 THEN [minimum |-> 9, puts |-> modbus_puts(<<1, 3, 5>>)]
        ELSE [minimum |-> bytecount + 9,
              puts |-> modbus_puts(<<1, 3, 5, 6>>) \o modbus_fields(upto - 7, 7, 1)
                       \o modbus_adu_check_crc(a, bytecount + 8)]

modbus_cs_parse_read_write_registers(a) ==
    LET bytecount == modbus_at(a, 10) IN
    IF Len(a.data) <= 10 THEN [minimum |-> 13, puts |-> modbus_puts(<<1, 3, 5, 7, 9>>)]
    ELSE [minimum |-> bytecount + 13,
          puts |-> modbus_puts(<<1, 3, 5, 7, 9, 10>>) \o modbus_adu_check_crc(a, bytecount + 12)]

modbus_unknown(a) ==
    [minimum |-> a.minimum,
     puts |-> <<[n |-> 1, kind |-> "error"], [n |-> Len(a.data) - 1, kind |-> "error"]>>]

modbus_sc_parse(a) ==
    LET function == modbus_at(a, 1) IN
    CASE function \in {1, 2}      -> modbus_sc_parse_read_bits(a)
      [] function \in {3, 4, 23}  -> modbus_sc_parse_read_registers(a)
      [] function \in {5, 6, 15, 16} -> modbus_sc_parse_write(a)
      [] function > \h80          -> modbus_sc_parse_error(a)
      [] OTHER                    -> modbus_unknown(a)

modbus_cs_parse(a) ==
    LET function == modbus_at(a, 1) IN
    CASE function \in (1 .. 4) \cup {5, 6}  -> modbus_cs_parse_read_data_command(a)
      [] function \in {7, 11, 12, 17} -> modbus_cs_parse_single_byte_request(a)
      [] function \in {15, 16}        -> modbus_cs_parse_write_multiple(a)
      [] function = 22                -> modbus_cs_parse_mask_write_register(a)
      [] function = 23                -> modbus_cs_parse_read_write_registers(a)
      [] OTHER                        -> modbus_unknown(a)

\* A frame that is over: too short, or with a fault somewhere in it.
modbus_adu_close(a) ==
    LET short == Len(a.data) < a.minimum IN
    (IF short /\ a.last >= 0 THEN <<Report("too short", <<>>)>> ELSE <<>>)
    \o (IF short \/ a.error THEN <<Report("faulty", <<>>)>> ELSE <<>>)

RECURSIVE modbus_put_all(_, _)
modbus_put_all(a, puts) ==
    IF puts = <<>> THEN a ELSE modbus_put_all(modbus_adu_puti(a, Head(puts)), Tail(puts))

modbus_decode_adu(s, l, b, gap) ==
    LET old == s.adu[l]
        over == old.data # <<>> /\ gap
        a == [(IF over THEN modbus_adu_reset ELSE old) EXCEPT !.data = Keep(@, b, 256)]
        named == modbus_adu_puti(a, modbus_put(0))
        parse == IF Len(a.data) < 2 THEN [minimum |-> a.minimum, puts |-> <<>>]
                 ELSE IF l = 0 THEN modbus_sc_parse(a) ELSE modbus_cs_parse(a)
        done == modbus_put_all([named EXCEPT !.minimum = parse.minimum], parse.puts)
    IN  [s EXCEPT !.adu[l] = [done EXCEPT !.rep = <<>>],
                  !.rep = @ \o (IF over THEN modbus_adu_close(old) ELSE <<>>) \o done.rep]

\* The server answers on RX and the client asks on TX, by default.
modbus_recv(s, p) ==
    CASE s.state = "no bitlength" /\ p.cmd \in {"STARTBIT", "STOPBIT"} -> To(s, "bitlength")
      [] s.state = "bitlength" /\ p.cmd = "DATA" -> modbus_decode_adu(s, LineOf(p), Byte(p), p.gap)
      [] OTHER -> s

(***************************************************************************)
(* midi_c.c.  The state is the handler that the byte goes to.  A new       *)
(* status byte flushes what is there; realtime messages come in between.   *)
(***************************************************************************)
midi_reset == [state |-> "IDLE", status |-> 0, explicit |-> FALSE, cmd |-> <<>>, rep |-> <<>>]

midi_get_next_state(s, b) ==
    LET x == IF b >= \h80 THEN b ELSE s.status IN
    CASE x \in \h80 .. \hEF -> "CHANNEL"
      [] x = \hF0           -> "SYSEX"
      [] x \in \hF1 .. \hF6 -> "SYSCOMMON"
      [] x >= \hF8          -> "SYSREALTIME"
      [] OTHER              -> "GARBAGE"

midi_done(s, kind) == [Say(s, kind, s.cmd) EXCEPT !.cmd = <<>>, !.state = "IDLE"]

\* With a byte, the flag that there is one is stored, not the byte.
midi_handle_garbage_msg(s, none) ==
    IF ~none THEN [s EXCEPT !.cmd = Keep(@, 0, 512)]
    ELSE [midi_done(s, "unhandled") EXCEPT !.status = 0, !.explicit = FALSE]

\* b is -1 when the message is cut short by another one.
midi_handle_channel_msg(s, b) ==
    LET t == CASE b < 0 -> s
               [] b >= \h80 -> [s EXCEPT !.status = b, !.explicit = TRUE]
               [] OTHER -> [s EXCEPT !.cmd = Keep(@, b, 512)]
        type == t.status \div 16
        need == CASE type \in {\hC, \hD} -> 1 [] type \in \h8 .. \hE -> 2 [] OTHER -> 0
        cut == IF t.explicit THEN [t EXCEPT !.cmd = <<t.status>> \o @] ELSE t
    IN  CASE Len(t.cmd) < need /\ b >= 0 -> t
          [] Len(t.cmd) < need /\ b < 0 -> midi_handle_garbage_msg(cut, TRUE)
          [] need = 0 -> [midi_done(t, "unknown") EXCEPT !.explicit = FALSE]
          [] OTHER -> [midi_done(t, "message") EXCEPT !.explicit = FALSE]

midi_handle_sysex_msg(s, b) ==
    LET t == [s EXCEPT !.status = 0, !.explicit = FALSE]
        truncated == Len(t.cmd) < 2 \/ (t.cmd[2] = 0 /\ Len(t.cmd) < 4)
    IN  IF b >= 0 /\ b # \hF7 THEN [t EXCEPT !.cmd = Keep(@, b, 512)]
        ELSE midi_done(t, IF truncated THEN "truncated" ELSE "message")

midi_handle_syscommon_msg(s, b) ==
    LET c == IF b >= 0 THEN Keep(s.cmd, b, 512) ELSE s.cmd
        t == [s EXCEPT !.status = 0, !.explicit = FALSE, !.cmd = c]
        need == CASE c[1] = \hF2 -> 3 [] c[1] \in {\hF1, \hF3} -> 2 [] OTHER -> 1
    IN  CASE c = <<>> -> t
          [] c # <<>> /\ Len(c) < need /\ b >= 0 -> t
          [] c # <<>> /\ Len(c) < need /\ b < 0 -> midi_handle_garbage_msg(t, TRUE)
          [] OTHER -> midi_done(t, "message")

midi_handle_sysrealtime_msg(s, b) == Say(s, "realtime", <<>>)

midi_handle_state(s, state, b) ==
    CASE state = "CHANNEL"     -> midi_handle_channel_msg(s, b)
      [] state = "SYSEX"       -> midi_handle_sysex_msg(s, b)
      [] state = "SYSCOMMON"   -> midi_handle_syscommon_msg(s, b)
      [] state = "SYSREALTIME" -> midi_handle_sysrealtime_msg(s, b)
      [] state = "GARBAGE"     -> midi_handle_garbage_msg(s, b < 0)
      [] OTHER                 -> s

midi_recv(s, p) ==
    LET b == Byte(p)
        status == b >= \h80 /\ b # \hF7
        next == IF status \/ s.state \in {"IDLE", "GARBAGE"} THEN midi_get_next_state(s, b) ELSE s.state
        flushed == IF status /\ next # "SYSREALTIME" /\ s.state # "IDLE"
                   THEN midi_handle_state(s, s.state, -1) ELSE s
        t == IF next # "SYSREALTIME" THEN To(flushed, next) ELSE flushed
        u == IF next = "GARBAGE" THEN [t EXCEPT !.status = 0, !.explicit = FALSE] ELSE t
    IN  IF p.cmd = "DATA" THEN midi_handle_state(u, next, b) ELSE s
=============================================================================
