--------------------------- MODULE SequenceBuses ---------------------------
(***************************************************************************)
(* Decoders of clocked command sequences: mipi_rffe, sle44xx and avr_pdi   *)
(* of c_decoders/; and decoders that wait for levels and edges of several  *)
(* channels: ieee488, ps2 and swd.                                         *)
(*                                                                         *)
(* mipi_rffe_c.c.  An event is a sample; wait names the place in the code  *)
(* at which c_wait() was called.  A bit is read at a falling clock edge    *)
(* and taken after the next rising one.                                    *)
(***************************************************************************)
EXTENDS Wires, FiniteSetsExt

mipi_rffe_reset ==
    [state |-> "FIND_SSC", wait |-> "SSC1", was |-> [sclk |-> 0, sdata |-> 0], cmdkey |-> "NONE",
     bits |-> <<>>, sdata |-> 0, BC |-> 0, Pcount |-> 0, BPcount |-> 0, Pdata |-> <<>>,
     display |-> TRUE, rep |-> <<>>]

rffe_init(s) ==
    [s EXCEPT !.state = "FIND_SSC", !.wait = "SSC1", !.cmdkey = "NONE", !.bits = <<>>, !.BC = 0,
              !.Pcount = 0, !.BPcount = 0, !.Pdata = <<>>]

\* The first parity bit covers the command as well.
rffe_command_bits ==
    [NONE |-> <<>>, ERW |-> <<>>, ERR |-> <<1, 0>>, ERWL |-> <<1, 1, 0>>, ERRL |-> <<1, 1, 1>>,
     RW |-> <<1, 0>>, RR |-> <<1, 1>>, R0W |-> <<1>>]

rffe_Parity(s) ==
    (1 + SumOf(s.Pdata) + (IF s.Pcount = 1 THEN SumOf(rffe_command_bits[s.cmdkey]) ELSE 0)) % 2

rffe_cmdset(s, cmd, state) == [Say(s, cmd, <<>>) EXCEPT !.state = state, !.bits = <<>>, !.cmdkey = cmd]

\* The bits a state reads.
rffe_width(s) ==
    CASE s.state = "FIND_SLAVE_ADDRESS" -> 4
      [] s.state = "FIND_BYTE_COUNT" -> IF s.cmdkey \in {"ERW", "ERR"} THEN 4 ELSE 3
      [] s.state = "FIND_ADDRESS" -> IF s.cmdkey \in {"RW", "RR"} THEN 5 ELSE 8
      [] s.state = "FIND_DATA" -> IF s.cmdkey = "R0W" THEN 7 ELSE 8
      [] s.state = "FIND_PARITY" -> 1

\* What follows a parity bit.
rffe_after_parity(s) ==
    LET long == s.cmdkey \in {"ERWL", "ERRL"}
        header == IF long THEN 3 ELSE 2          \* byte count and address
        n == s.Pcount
        park(count) == [s EXCEPT !.state = "FIND_BUS_PARK", !.BPcount = count]
    IN  CASE s.cmdkey = "R0W" -> park(s.BPcount)
          [] s.cmdkey \in {"ERW", "ERR", "ERWL", "ERRL"} /\ n < header -> To(s, "FIND_ADDRESS")
          [] s.cmdkey \in {"ERW", "ERWL"} /\ n = s.BC + header -> park(s.BPcount)
          [] s.cmdkey \in {"ERR", "ERRL"} /\ n = header -> park(1)
          [] s.cmdkey \in {"ERR", "ERRL"} /\ n > header /\ n = s.BC + header -> park(2)
          [] s.cmdkey = "RW" /\ n = 2 -> park(1)
          [] s.cmdkey = "RR" -> park(IF n = 1 THEN 1 ELSE 2)
          [] OTHER -> To(s, "FIND_DATA")

\* A wrong parity bit is only shown on request.  A byte count of that many
\* bits is never too large.
rffe_handle(s, d) ==
    LET t == [s EXCEPT !.bits = <<>>, !.Pdata = s.bits]
        n == [s EXCEPT !.bits = <<>>, !.Pdata = <<>>, !.Pcount = @ + 1]
    IN  CASE s.state = "FIND_SLAVE_ADDRESS" -> To(Say(t, "SA", <<d>>), "FIND_COMMAND")
          [] s.state = "FIND_BYTE_COUNT" -> To([Say(t, "BC", <<d>>) EXCEPT !.BC = d + 1], "FIND_PARITY")
          [] s.state = "FIND_ADDRESS" -> To(Say(t, "ADDRESS", <<d>>), "FIND_PARITY")
          [] s.state = "FIND_DATA" -> To(Say(t, "DATA", <<d>>), "FIND_PARITY")
          [] s.state = "FIND_PARITY" ->
                rffe_after_parity(
                    IF s.display /\ rffe_Parity([s EXCEPT !.Pcount = @ + 1]) # d
                    THEN Say(n, "PARITY ERROR", <<>>) ELSE n)

\* 1: register 0 write; 011 and 010: register read and write; 0010, 0000,
\* 00111 and 00110: the extended ones.
rffe_handle_CMD(s) ==
    CASE s.bits = <<1>> -> rffe_cmdset(s, "R0W", "FIND_DATA")
      [] s.bits = <<0, 1, 1>> -> rffe_cmdset(s, "RR", "FIND_ADDRESS")
      [] s.bits = <<0, 1, 0>> -> rffe_cmdset(s, "RW", "FIND_ADDRESS")
      [] s.bits = <<0, 0, 1, 0>> -> rffe_cmdset(s, "ERR", "FIND_BYTE_COUNT")
      [] s.bits = <<0, 0, 0, 0>> -> rffe_cmdset(s, "ERW", "FIND_BYTE_COUNT")
      [] Len(s.bits) = 5 -> rffe_cmdset(s, IF s.bits[5] = 1 THEN "ERRL" ELSE "ERWL", "FIND_BYTE_COUNT")
      [] OTHER -> s

rffe_taken(s) ==
    LET t == [s EXCEPT !.bits = Append(@, s.sdata)]
        u == IF s.state = "FIND_COMMAND" THEN rffe_handle_CMD(t)
             ELSE IF Len(t.bits) = rffe_width(s) THEN rffe_handle(t, Num(t.bits)) ELSE t
    IN  [u EXCEPT !.wait = IF u.state = "FIND_BUS_PARK" THEN "PARK" ELSE "FALL"]

\* A falling edge gives a bit.  A data line that moves while the clock is
\* low is an interference, shown when the next event has come; at the first
\* bit of a command it is not looked for.  While the other bits of a command
\* are read, one at the falling edge itself makes the decoder read again, and
\* a second one gives up looking: the old bit is taken.
rffe_read_sclk_fall(s, e) ==
    LET fall == Falls(s, e, "sclk")
        moved == s.display /\ e.sclk = 0 /\ Edge(s, e, "sdata")
        command == s.state = "FIND_COMMAND"
        first == command /\ s.bits = <<>>
        read(t) == [t EXCEPT !.sdata = e.sdata, !.wait = IF command /\ s.bits = <<>> /\ e.sdata = 0 THEN "FIRST" ELSE "RISE"]
        error(t) == Say(t, "IJE", <<>>)
    IN  CASE s.wait = "FALL" /\ first -> IF fall THEN read(s) ELSE s
          [] s.wait = "FALL" /\ ~first /\ fall /\ ~(command /\ moved) -> read(s)
          [] s.wait = "FALL" /\ ~first /\ moved /\ (~fall \/ command) ->
                [s EXCEPT !.wait = "FALL2", !.sdata = IF fall THEN e.sdata ELSE @]
          [] s.wait = "FALL2" /\ fall -> read(IF command /\ moved THEN error(error(s)) ELSE error(s))
          [] s.wait = "FALL2" /\ ~fall /\ moved -> [error(s) EXCEPT !.wait = IF command THEN "RISE" ELSE "FALL"]
          [] OTHER -> s

\* A first command bit of 0 is followed by the second one at once.
rffe_second(s, e) ==
    rffe_read_sclk_fall([s EXCEPT !.bits = <<0>>, !.wait = "FALL"], e)

rffe_park(s) ==
    LET t == Say(s, "BP", <<>>) IN
    IF s.cmdkey \in {"ERR", "ERRL", "RR"} /\ s.BPcount = 1 THEN [t EXCEPT !.state = "FIND_DATA", !.wait = "FALL"]
    ELSE rffe_init(t)

mipi_rffe_decode(s, e) ==
    CASE s.wait = "SSC1" -> IF e.sclk = 0 /\ Rises(s, e, "sdata") THEN [s EXCEPT !.wait = "SSC2"] ELSE s
      [] s.wait = "SSC2" ->
            CASE e.sclk = 1 -> [s EXCEPT !.wait = "SSC1"]
              [] e.sclk = 0 /\ Falls(s, e, "sdata") -> [s EXCEPT !.wait = "SSC3"]
              [] OTHER -> s
      [] s.wait = "SSC3" ->
            CASE e.sclk = 0 /\ Edge(s, e, "sdata") -> [s EXCEPT !.wait = "SSC1"]
              [] Rises(s, e, "sclk") -> [Say(s, "SSC", <<>>) EXCEPT !.state = "FIND_SLAVE_ADDRESS", !.wait = "FALL"]
              [] OTHER -> s
      [] s.wait \in {"FALL", "FALL2"} -> rffe_read_sclk_fall(s, e)
      [] s.wait = "FIRST" -> rffe_second(s, e)
      [] s.wait = "RISE" -> IF Rises(s, e, "sclk") THEN rffe_taken(s) ELSE s
      [] s.wait = "PARK" -> IF e.sclk = 0 /\ e.sdata = 0 THEN rffe_park(s) ELSE s

mipi_rffe_step(s, e) == [mipi_rffe_decode(s, e) EXCEPT !.was = e]
(***************************************************************************)
(* sle44xx_c.c.  An event is a sample of RST, CLK and IO.  A reset with a  *)
(* clock pulse in it is answered by four bytes; commands of three bytes    *)
(* stand between a start and a stop condition, and the card then sends     *)
(* data or is busy.                                                        *)
(***************************************************************************)
sle44xx_MAX_BYTES == 256

sle44xx_reset ==
    [state |-> "NONE", was |-> [rst |-> 0, clk |-> 0, io |-> 1], bits |-> <<>>, started |-> FALSE,
     atr |-> <<>>, cmd |-> <<>>, out |-> <<>>, out_len |-> 0, cmd_proc |-> FALSE, busy |-> FALSE,
     in_reset |-> FALSE, rstclk |-> {}, rep |-> <<>>]

\* What has been collected is shown, and the time the card was busy.
sle44xx_flush_queued(s) ==
    LET shown(t, name, bytes) == IF bytes = <<>> THEN t ELSE Say(t, name, bytes)
        t == shown(shown(shown(s, "ATR", s.atr), "CMD", s.cmd), "OUT", s.out)
        u == IF s.busy THEN Say(t, "PROC", <<>>) ELSE t
    IN  [u EXCEPT !.atr = <<>>, !.cmd = <<>>, !.out = <<>>, !.out_len = 0, !.cmd_proc = FALSE, !.busy = FALSE,
                  !.state = "NONE"]

\* How many bytes follow a command (ctrl, addr), and whether the card works.
sle44xx_out_len(ctrl, addr) ==
    CASE ctrl = 48 -> 256 - addr
      [] ctrl \in {49, 52} -> 4
      [] OTHER -> 0
sle44xx_command_check(ctrl) == ctrl \in {51, 56, 57, 60}

sle44xx_handle_data_byte(s, data) ==
    CASE s.state = "ATR" ->
            LET t == [s EXCEPT !.atr = Keep(@, data, 4)] IN IF Len(t.atr) = 4 THEN sle44xx_flush_queued(t) ELSE t
      [] s.state = "CMD" ->
            LET cmd == Append(s.cmd, data) IN
            IF Len(cmd) < 3 THEN [s EXCEPT !.cmd = cmd]
            ELSE [Say(s, "CMD", cmd) EXCEPT !.cmd = <<>>, !.state = "NONE",
                     !.out_len = sle44xx_out_len(cmd[1], cmd[2]), !.cmd_proc = sle44xx_command_check(cmd[1])]
      [] s.state = "OUT" ->
            LET t == [s EXCEPT !.out = Keep(@, data, sle44xx_MAX_BYTES)] IN
            IF s.out_len > 0 /\ Len(t.out) = s.out_len THEN sle44xx_flush_queued(t) ELSE t
      [] OTHER -> s

\* The first clock edge after a stop condition says what the card does now.
sle44xx_after_data(s) ==
    CASE s.state = "DATA" /\ s.out_len = 0 /\ s.cmd_proc -> To(s, "PROC")
      [] s.state = "DATA" /\ ~(s.out_len = 0 /\ s.cmd_proc) -> To(s, "OUT")
      [] OTHER -> s

\* A bit begins at the rising clock edge and ends at the falling one.  While
\* the card is busy the end of a bit carries no level: nothing but a reset
\* ends this state.
sle44xx_handle_data_bit(s, io, is_start_edge) ==
    LET t == sle44xx_after_data(s)
        bits == IF t.started THEN SubSeq(t.bits, 1, Len(t.bits) - 1) ELSE t.bits
        ended == [t EXCEPT !.started = FALSE]
    IN  CASE t.state = "PROC" -> IF is_start_edge \/ s.state = "DATA" THEN t ELSE [t EXCEPT !.busy = TRUE]
          [] t.state # "PROC" /\ is_start_edge -> [t EXCEPT !.bits = Append(bits, io), !.started = TRUE]
          [] t.state # "PROC" /\ ~is_start_edge /\ t.started ->
                IF Len(t.bits) < 8 THEN ended
                ELSE [sle44xx_handle_data_byte(ended, NumLsb(t.bits)) EXCEPT !.bits = <<>>]
          [] OTHER -> t

sle44xx_restart(s, state) == [s EXCEPT !.bits = <<>>, !.started = FALSE, !.state = state]

sle44xx_reset_end(s) ==
    LET t == [sle44xx_flush_queued(s) EXCEPT !.in_reset = FALSE] IN
    CASE ~s.in_reset -> s
      [] s.in_reset /\ s.rstclk = {"rise", "fall"} -> sle44xx_restart(Say(t, "Reset", <<>>), "ATR")
      [] s.in_reset /\ s.rstclk # {"rise", "fall"} -> sle44xx_restart(Say(t, "Interrupt", <<>>), "NONE")

sle44xx_decode(s, e) ==
    CASE Rises(s, e, "rst") -> [sle44xx_flush_queued(s) EXCEPT !.in_reset = TRUE, !.rstclk = {}]
      [] Falls(s, e, "rst") -> sle44xx_reset_end(s)
      [] s.was.rst = e.rst /\ Rises(s, e, "clk") /\ e.rst = 1 -> [s EXCEPT !.rstclk = @ \cup {"rise"}]
      [] s.was.rst = e.rst /\ Falls(s, e, "clk") /\ e.rst = 1 -> [s EXCEPT !.rstclk = @ \cup {"fall"}]
      [] s.was.rst = e.rst /\ Rises(s, e, "clk") /\ e.rst = 0 -> sle44xx_handle_data_bit(s, e.io, TRUE)
      [] s.was.rst = e.rst /\ Falls(s, e, "clk") /\ e.rst = 0 -> sle44xx_handle_data_bit(s, 0, FALSE)
      [] s.was.rst = e.rst /\ ~Edge(s, e, "clk") /\ e.clk = 1 /\ Edge(s, e, "io") /\ s.state \notin {"OUT", "PROC"} ->
            IF e.io = 0 THEN sle44xx_restart(Say(sle44xx_flush_queued(s), "Start", <<>>), "CMD")
            ELSE sle44xx_restart(Say(s, "Stop", <<>>), "DATA")
      [] OTHER -> s

sle44xx_step(s, e) == [sle44xx_decode(s, e) EXCEPT !.was = e]

(***************************************************************************)
(* avr_pdi_c.c.  An event is a clock cycle with the data bit sampled in    *)
(* it.  Frames have a start bit, eight data bits, even parity and a stop   *)
(* bit; eleven zeros or more are a break.                                  *)
(***************************************************************************)
avr_pdi_ops == <<"LDS", "LD", "STS", "ST", "LDCS", "REPEAT", "STCS", "KEY">>
avr_pdi_empty == <<0, 0, 0, 0, 0, 0, 0, 0>>

avr_pdi_insn == [op |-> "none", dat |-> avr_pdi_empty, count |-> 0, writes |-> 0, reads |-> 0, addr |-> 0, width |-> 0]

avr_pdi_reset ==
    [state |-> "FIRST", bits |-> <<>>, zeros |-> 0, broken |-> FALSE, insn |-> avr_pdi_insn, rep_count |-> 0,
     last |-> 0, rep |-> <<>>]

\* Operands of an instruction: bytes written and read, after an address.
avr_pdi_opcode(s, b) ==
    LET op == avr_pdi_ops[(b \div 32) + 1]
        addr == ((b \div 4) % 4) + 1
        width == (b % 4) + 1
        times == IF s.rep_count = 0 THEN 1 ELSE s.rep_count
        insn(writes, reads, a, w) ==
            [avr_pdi_insn EXCEPT !.op = op, !.writes = writes, !.reads = reads, !.addr = a, !.width = w]
        t == [Say(s, op, <<>>) EXCEPT !.rep_count = IF op \in {"LD", "ST"} THEN 0 ELSE @]
    IN  [t EXCEPT !.insn =
            CASE op = "LDS" -> insn(1, 1, addr, width)
              [] op = "LD" -> insn(0, times, 0, width)
              [] op = "STS" -> insn(2, 0, addr, width)
              [] op = "ST" -> insn(times, 0, 0, width)
              [] op = "LDCS" -> insn(0, 1, 0, 1)
              [] op = "STCS" -> insn(1, 0, 0, 1)
              [] op = "REPEAT" -> insn(1, 0, 0, width)
              [] op = "KEY" -> insn(0, 0, 0, 8)]

\* The bytes of the next operand.
avr_pdi_expect(s) ==
    LET i == s.insn
        address == i.writes # 0 /\ (i.op = "LDS" \/ (i.op = "STS" /\ i.writes = 2))
    IN  [s EXCEPT !.insn.count = IF address THEN i.addr ELSE i.width]

\* The end of an instruction; REPEAT keeps its operand as a count.
avr_pdi_end(s) ==
    [Say(s, "Command", <<>>) EXCEPT !.insn = avr_pdi_insn, !.rep_count = IF s.insn.op = "REPEAT" THEN s.last ELSE @]

avr_pdi_done(s) == IF s.insn.writes # 0 \/ s.insn.reads # 0 THEN avr_pdi_expect(s) ELSE avr_pdi_end(s)

\* Little endian; of a repeat count only two bytes, a bound.
avr_pdi_number(bytes) == FoldRight(LAMBDA b, x : 256 * x + b, SubSeq(bytes, 1, Min({2, Len(bytes)})), 0)

\* A byte goes to the first place that holds a zero.
avr_pdi_operand(s, b) ==
    LET i == s.insn
        free == {k \in 1 .. 8 : i.dat[k] = 0}
        idx == CHOOSE k \in free : \A j \in free : k <= j
        dat == [i.dat EXCEPT ![idx] = b]
        shown == SubSeq(dat, 1, idx)
        t == [Say(s, IF i.writes # 0 THEN "Program" ELSE "Device", shown)
                 EXCEPT !.insn.dat = avr_pdi_empty, !.insn.count = 0, !.last = avr_pdi_number(shown),
                        !.insn.writes = IF i.writes # 0 THEN @ - 1 ELSE @,
                        !.insn.reads = IF i.writes # 0 THEN @ ELSE @ - 1]
    IN  IF i.count > 1 THEN [s EXCEPT !.insn.dat = dat, !.insn.count = @ - 1] ELSE avr_pdi_done(t)

avr_pdi_handle_byte(s, b) ==
    CASE s.insn.op = "none" -> avr_pdi_done(avr_pdi_opcode(s, b))
      [] s.insn.op # "none" /\ s.insn.count > 0 -> avr_pdi_operand(s, b)
      [] OTHER -> avr_pdi_end(s)

avr_pdi_handle_break(s) ==
    LET t == [Say(s, "Break", <<>>) EXCEPT !.rep_count = 0]
    IN  IF s.insn.op = "none" THEN t
        ELSE [Say(t, "Command", <<>>) EXCEPT !.insn = avr_pdi_insn]

avr_pdi_frame(s, bits) ==
    LET b == NumLsb(SubSeq(bits, 2, 9))
        parity_ok == SumOf(SubSeq(bits, 2, 10)) % 2 = 0
        t == [s EXCEPT !.bits = <<>>]
        u == IF parity_ok THEN t ELSE Say(t, "Parity error", <<b>>)
    IN  CASE bits[11] = 0 -> Say(u, "Stop bit error", <<b>>)
          [] bits[11] = 1 /\ parity_ok -> avr_pdi_handle_byte(t, b)
          [] OTHER -> u

avr_pdi_handle_bits(s, bit) ==
    LET zeros == IF bit = 1 THEN 0 ELSE Min({s.zeros + 1, 12})
        t == [s EXCEPT !.zeros = zeros, !.broken = @ \/ zeros = 11]
        bits == Append(s.bits, bit)
    IN  CASE t.broken /\ bit = 0 -> t
          [] t.broken /\ bit = 1 -> [avr_pdi_handle_break(t) EXCEPT !.broken = FALSE, !.bits = <<>>]
          [] ~t.broken /\ s.bits = <<>> /\ bit = 1 -> t
          [] OTHER -> IF Len(bits) < 11 THEN [t EXCEPT !.bits = bits] ELSE avr_pdi_frame(t, bits)

\* The first falling edge only marks where a bit begins.
avr_pdi_step(s, bit) == IF s.state = "FIRST" THEN To(s, "BITS") ELSE avr_pdi_handle_bits(s, bit)

-----------------------------------------------------------------------------
(***************************************************************************)
(* Decoders that wait for levels and edges of several channels: ieee488    *)
(* (serial), ps2 and swd of c_decoders/.                                   *)
(*                                                                         *)
(* An event is one sample of the channels.  The state keeps the previous   *)
(* one in was: c_wait() compares the two for its edge conditions.          *)
(***************************************************************************)

(***************************************************************************)
(* ieee488_c.c on the serial IEC bus.  Commands are bytes sent while ATN   *)
(* is low; data bytes are collected until the talker is done.              *)
(***************************************************************************)
ieee488_MAX_ACCU_BYTES == 4096
ieee488_MAX_LISTENERS == 31
ieee488_commands == {1, 4, 5, 8, 9, 17, 20, 21, 24, 25, 63, 95}     \* cmd_table

ieee488_reset ==
    [state |-> "WAIT_READY_TO_SEND", was |-> [atn |-> 1, clk |-> 1, data |-> 1],
     serial_bits |-> <<>>, curr_atn |-> 0, curr_eoi |-> 0, latch_eoi |-> 0, accu |-> <<>>,
     talker |-> -1, listeners |-> <<>>, iec_addr |-> -1, iec_sec |-> -1, iec_periph |-> FALSE,
     delim_eol |-> FALSE, rep |-> <<>>]

ieee488_flush_bytes_text_accu(s) ==
    IF s.accu = <<>> THEN s ELSE [Say(s, "TALKER_BYTES", s.accu) EXCEPT !.accu = <<>>]

ieee488_handle_eoi_change(s, eoi) ==
    IF eoi = 1 THEN [s EXCEPT !.curr_eoi = 1]
    ELSE [ieee488_flush_bytes_text_accu(IF s.latch_eoi = 1 THEN Say(s, "EOI", <<>>) ELSE s)
             EXCEPT !.curr_eoi = 0]

ieee488_handle_atn_change(s, atn) ==
    LET t == [s EXCEPT !.curr_atn = atn] IN IF atn = 1 THEN ieee488_flush_bytes_text_accu(t) ELSE t

\* Disks of a Commodore computer: what an address and a channel mean.
ieee488_handle_iec_periph(s, addr, sec) ==
    LET t == [s EXCEPT !.iec_addr = IF addr >= 0 THEN addr ELSE @, !.iec_sec = IF sec >= 0 THEN sec ELSE @]
        disk == addr \in {8, 9}
        channel == sec \div 16 \in {6, 14, 15} /\ t.iec_addr \in 8 .. 15
        shown == IF disk THEN Say(t, "Disk", <<addr - 8>>) ELSE t
    IN  CASE ~s.iec_periph -> s
          [] s.iec_periph /\ sec >= 0 /\ channel -> Say(shown, "Channel", <<sec \div 16, sec % 16>>)
          [] OTHER -> shown

ieee488_forget_iec_periph(s) ==
    IF s.iec_periph THEN [s EXCEPT !.iec_addr = -1, !.iec_sec = -1] ELSE s

\* The peers, the listeners in ascending order.
ieee488_talk_listen(s) ==
    LET sorted == SortSeq(s.listeners, LAMBDA a, b : a < b)
    IN  Say([s EXCEPT !.listeners = sorted], "TALK_LISTEN",
            <<IF s.talker >= 0 THEN s.talker ELSE 0>> \o sorted)

ieee488_command(s, b) ==
    LET u == [s EXCEPT !.listeners = IF b = 63 THEN <<>> ELSE @, !.talker = IF b = 95 THEN -1 ELSE @]
        t == Say(IF b \in {63, 95} THEN ieee488_forget_iec_periph(u) ELSE u,
                 IF b \in ieee488_commands THEN "COMMAND" ELSE "UNKNOWN", <<b>>)
    IN  IF b \in {63, 95} THEN ieee488_talk_listen(t) ELSE t

\* A listener stops talking; the first entry of a talker stops listening.
ieee488_listen(s, a) ==
    LET t == [s EXCEPT !.talker = IF @ = a THEN -1 ELSE @,
                       !.listeners = Keep(@, a, ieee488_MAX_LISTENERS)]
    IN  ieee488_talk_listen(Say(ieee488_handle_iec_periph(t, a, -1), "LISTEN", <<a>>))

ieee488_talk(s, a) ==
    LET at == {i \in DOMAIN s.listeners : s.listeners[i] = a}
        first == CHOOSE i \in at : \A j \in at : i <= j
        t == [s EXCEPT !.talker = a, !.listeners = IF at = {} THEN @ ELSE RemoveAt(@, first)]
    IN  ieee488_talk_listen(Say(ieee488_handle_iec_periph(t, a, -1), "TALK", <<a>>))

ieee488_data(s, b) ==
    LET eol(x) == x \in {10, 13}
        split == s.delim_eol /\ s.accu # <<>> /\ eol(s.accu[Len(s.accu)]) /\ ~eol(b)
        t == IF split THEN ieee488_flush_bytes_text_accu(s) ELSE s
    IN  Say([t EXCEPT !.accu = Keep(@, b, ieee488_MAX_ACCU_BYTES)], "DATA_BYTE",
            <<IF s.talker >= 0 THEN s.talker ELSE 0, b>>)

ieee488_handle_data_byte(s, b) ==
    CASE s.curr_atn = 1 /\ (b < 32 \/ b \in {63, 95}) -> ieee488_command(s, b)
      [] s.curr_atn = 1 /\ b \in 32 .. 62 -> ieee488_listen(s, b % 32)
      [] s.curr_atn = 1 /\ b \in 64 .. 94 -> ieee488_talk(s, b % 32)
      [] s.curr_atn = 1 /\ b >= 96 ->
            Say(ieee488_handle_iec_periph(s, -1, b), "SECONDARY", <<IF b < 128 THEN b % 32 ELSE b>>)
      [] s.curr_atn = 0 -> ieee488_data(s, b)

ieee488_end_eoi(s) == IF s.curr_eoi = 1 THEN ieee488_handle_eoi_change(s, 0) ELSE s

\* The serial states: the talker is ready, the listeners are, the byte or
\* an EOI begins, and eight bits are clocked, the lowest first.
ieee488_wait(s, e) ==
    CASE s.state = "WAIT_READY_TO_SEND" ->
            IF e.data = 0 /\ e.clk = 1 THEN To(s, "WAIT_READY_FOR_DATA") ELSE s
      [] s.state = "WAIT_READY_FOR_DATA" ->
            CASE Falls(s, e, "atn") \/ e.clk = 0 -> To(s, "WAIT_READY_TO_SEND")
              [] ~Falls(s, e, "atn") /\ e.clk = 1 /\ e.data = 1 ->
                    [ieee488_end_eoi(ieee488_handle_atn_change(s, 1 - e.atn))
                        EXCEPT !.serial_bits = <<>>, !.state = "PREP_DATA_TEST_EOI"]
              [] OTHER -> s
      [] s.state = "PREP_DATA_TEST_EOI" ->
            CASE Falls(s, e, "atn") -> To(s, "WAIT_READY_TO_SEND")
              [] ~Falls(s, e, "atn") /\ e.clk = 0 -> To(s, "CLOCK_DATA_BITS")
              [] ~Falls(s, e, "atn") /\ e.clk = 1 /\ Falls(s, e, "data") -> ieee488_handle_eoi_change(s, 1)
              [] OTHER -> s
      [] s.state = "CLOCK_DATA_BITS" ->
            CASE Falls(s, e, "atn") -> To(s, "WAIT_READY_TO_SEND")
              [] ~Falls(s, e, "atn") /\ Rises(s, e, "clk") -> [s EXCEPT !.serial_bits = Append(@, e.data)]
              [] ~Falls(s, e, "atn") /\ Falls(s, e, "clk") /\ Len(s.serial_bits) = 8 ->
                    To(ieee488_end_eoi(ieee488_handle_data_byte([s EXCEPT !.latch_eoi = s.curr_eoi],
                                                                NumLsb(s.serial_bits))),
                       "WAIT_READY_TO_SEND")
              [] OTHER -> s

ieee488_step(s, e) == [ieee488_wait(s, e) EXCEPT !.was = e]

(***************************************************************************)
(* ps2_c.c.  A device clocks its own bytes and those of the host; the host *)
(* asks for it with a low data line.                                       *)
(***************************************************************************)
ps2_reset ==
    [state |-> "IDLE", was |-> [clk |-> 1, data |-> 1], bits |-> <<>>, htd |-> FALSE, htd_next |-> FALSE,
     rep |-> <<>>]

ps2_handle_byte(s, bits) ==
    LET word == SubSeq(bits, 2, 9)
        parity_ok == SumOf(word \o <<bits[10]>>) % 2
    IN  Say(s, IF s.htd THEN "HOST" ELSE "DEVICE", <<NumLsb(word), parity_ok>>)

ps2_first_bit(s, e, htd) ==
    [s EXCEPT !.htd = htd, !.htd_next = FALSE, !.bits = <<e.data>>,
              !.state = IF htd THEN "HtoD_DATA" ELSE "DtoH_DATA"]

\* The falling edge of an idle clock: with a data line that has just fallen
\* or is high the host sends, with a low one the device does.
ps2_idle(s, e) ==
    CASE s.htd_next -> IF Rises(s, e, "clk") /\ e.data = 0 THEN ps2_first_bit(s, e, TRUE) ELSE s
      [] ~s.htd_next /\ Falls(s, e, "clk") ->
            IF Rises(s, e, "data") THEN s
            ELSE ps2_first_bit(s, e, Falls(s, e, "data") \/ e.data = 1)
      [] OTHER -> s

ps2_decode(s, e) ==
    LET bits == Append(s.bits, e.data) IN
    CASE s.state = "IDLE" -> ps2_idle(s, e)
      [] s.state = "HtoD_DATA" /\ Rises(s, e, "clk") ->
            [s EXCEPT !.bits = bits, !.state = IF Len(bits) = 10 THEN "HtoD_ACK_WAIT" ELSE @]
      [] s.state = "HtoD_ACK_WAIT" /\ Rises(s, e, "clk") ->
            To([ps2_handle_byte(s, bits) EXCEPT !.bits = bits], "HtoD_ACK")
      [] s.state = "HtoD_ACK" /\ Falls(s, e, "clk") -> To(s, "HtoD_ACK_END")
      [] s.state = "HtoD_ACK_END" /\ Rises(s, e, "clk") -> [Say(s, "ACK", <<>>) EXCEPT !.state = "IDLE", !.htd = FALSE]
      [] s.state = "DtoH_DATA" /\ Falls(s, e, "clk") ->
            LET t == [s EXCEPT !.bits = bits] IN
            IF Len(bits) = 11 THEN To(ps2_handle_byte(t, bits), "DtoH_NEXT") ELSE t
      [] s.state = "DtoH_NEXT" /\ Falls(s, e, "data") -> [s EXCEPT !.htd_next = TRUE, !.htd = TRUE, !.state = "IDLE"]
      [] s.state = "DtoH_NEXT" /\ ~Falls(s, e, "data") /\ Rises(s, e, "clk") ->
            [s EXCEPT !.htd_next = FALSE, !.htd = FALSE, !.state = "IDLE"]
      [] OTHER -> s

ps2_step(s, e) == [ps2_decode(s, e) EXCEPT !.was = e]

(***************************************************************************)
(* swd_c.c.  An event is a clock cycle: the data line at its rising and at *)
(* its falling edge.                                                       *)
(***************************************************************************)
swd_MAX_BITS == 128
swd_jtag_swd_pat == <<0, 1, 1, 1, 1, 0, 0, 1, 1, 1, 1, 0, 0, 1, 1, 1>>

swd_reset ==
    [state |-> "REQ", sample_edge |-> 1, turnaround |-> 0, bits |-> <<>>, linereset_count |-> 0,
     rw |-> 0, apdp |-> 0, addr |-> 0, ack |-> 0, data |-> <<>>, ctrlsel |-> 0, orundetect |-> 0, rep |-> <<>>]

swd_reset_state(s) ==
    [s EXCEPT !.bits = <<>>, !.linereset_count = 0, !.turnaround = 0, !.sample_edge = 1, !.state = "REQ"]

swd_next_state(s) ==
    LET next(state, edge, turnaround) ==
            [s EXCEPT !.bits = <<>>, !.linereset_count = 0, !.state = state, !.sample_edge = edge,
                      !.turnaround = turnaround]
    IN  CASE s.state = "REQ" -> next("ACK", 0, 1)
          [] s.state = "ACK" -> IF s.rw = 0 THEN next("DATA", 1, 2) ELSE next("DATA", 0, 0)
          [] s.state = "DATA" -> next("DPARITY", s.sample_edge, s.turnaround)
          [] s.state = "DPARITY" -> next("REQ", 1, s.rw)

\* Writes to the debug port that change how later packets are read.
swd_handle_completed_write(s) ==
    CASE s.apdp = 0 /\ s.addr = 8 -> [s EXCEPT !.ctrlsel = s.data[1]]
      [] s.apdp = 0 /\ s.addr = 4 /\ s.ctrlsel = 0 -> [s EXCEPT !.orundetect = s.data[1]]
      [] OTHER -> s

\* 1, AP or DP, read or write, two address bits, parity, 0, 1: the parity of
\* the request is not looked at.
swd_request(s) ==
    LET b == s.bits
        n == Len(b)
        r == SubSeq(b, n - 7, n)
    IN  CASE n >= 16 /\ SubSeq(b, n - 15, n) = swd_jtag_swd_pat -> swd_reset_state(Say(s, "JTAG->SWD", <<>>))
          [] n >= 8 /\ r[1] = 1 /\ r[7] = 0 /\ r[8] = 1 ->
                LET t == [s EXCEPT !.apdp = r[2], !.rw = r[3], !.addr = 8 * r[5] + 4 * r[4]]
                IN  swd_next_state(Say(t, "REQ", <<t.rw, t.apdp, t.addr>>))
          [] OTHER -> s

swd_retry(s) == [IF s.orundetect = 1 THEN swd_next_state(s) ELSE swd_reset_state(s) EXCEPT !.turnaround = 1]

swd_handle_ack(s) ==
    LET ack(n) == Say([s EXCEPT !.ack = n], "ACK", <<n>>) IN
    CASE Len(s.bits) < 3 -> s
      [] s.bits = <<1, 0, 0>> -> swd_next_state(ack(0))
      [] s.bits = <<0, 0, 1>> -> swd_retry(ack(1))
      [] s.bits = <<0, 1, 0>> -> swd_retry(ack(2))
      [] s.bits = <<1, 1, 1>> -> swd_reset_state(ack(3))
      [] OTHER -> swd_reset_state(ack(4))

swd_bytes(bits) == [i \in 1 .. 4 |-> NumLsb(SubSeq(bits, 8 * i - 7, 8 * i))] \o <<>>

swd_handle_parity(s) ==
    LET name == IF s.rw = 1 THEN "READ" ELSE "WRITE"
        t == Say(s, name, <<s.apdp, s.addr>> \o swd_bytes(s.data) \o <<s.ack>>)
    IN  swd_next_state(
            CASE SumOf(s.data) % 2 # s.bits[1] -> Say(s, "PARITY ERROR", <<>>)
              [] SumOf(s.data) % 2 = s.bits[1] /\ s.rw = 1 -> t
              [] OTHER -> swd_handle_completed_write(t))

swd_bit(s, dio) ==
    LET t == [s EXCEPT !.bits = Keep(@, dio, swd_MAX_BITS)] IN
    CASE t.state = "UNKNOWN" -> t
      [] t.state = "REQ" -> swd_request(t)
      [] t.state = "ACK" -> swd_handle_ack(t)
      [] t.state = "DATA" ->
            IF Len(t.bits) < 32 THEN t
            ELSE swd_next_state([Say(t, "DATA", swd_bytes(t.bits)) EXCEPT !.data = t.bits])
      [] t.state = "DPARITY" -> swd_handle_parity(t)

\* Fifty ones or more, and a zero.
swd_linereset(s, dio) ==
    CASE dio = 1 -> [s EXCEPT !.linereset_count = Min({@ + 1, 50})]
      [] dio = 0 /\ s.linereset_count < 50 -> [s EXCEPT !.linereset_count = 0]
      [] dio = 0 /\ s.linereset_count = 50 -> swd_reset_state(Say(s, "LINE_RESET", <<>>))

swd_edge(s, clk, dio) ==
    LET t == IF clk = 1 THEN swd_linereset(s, dio) ELSE s IN
    CASE clk # t.sample_edge -> t
      [] clk = t.sample_edge /\ t.turnaround > 0 -> [t EXCEPT !.turnaround = @ - 1]
      [] clk = t.sample_edge /\ t.turnaround = 0 -> swd_bit(t, dio)

swd_step(s, e) == swd_edge(swd_edge(s, 1, e[1]), 0, e[2])
=============================================================================
