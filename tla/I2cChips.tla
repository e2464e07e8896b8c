------------------------------ MODULE I2cChips ------------------------------
(***************************************************************************)
(* Clocks, port expanders and converters on the I2C bus: ds1307, ds3231,   *)
(* rtc8564, pca9571, tca6408a, ad5593r and ltc26x7 of c_decoders/; and     *)
(* memories that are read from an offset on: xfp and edid.                 *)
(***************************************************************************)
EXTENDS Stacked

(***************************************************************************)
(* ds1307_c.c.  kept stands for the fields seconds to years: the last byte *)
(* of the registers 0 to 6.  They are kept over a STOP, and shown at the   *)
(* STOP that ends a transfer in which registers were read or written.      *)
(***************************************************************************)
ds1307_reset == [state |-> "IDLE", reg |-> 0, kept |-> [k \in 0 .. 6 |-> Unseen], rep |-> <<>>]

ds1307_keep(s, b) == IF s.reg <= 6 THEN [s EXCEPT !.kept[s.reg] = b] ELSE s

ds1307_handle_regBug(s, b) ==
    [Say(ds1307_keep(s, b), s.reg, <<b>>) EXCEPT !.reg = IF @ + 1 > \h40 THEN 0 ELSE @ + 1]

ds1307_handle_reg(s, b) ==
    [Say(ds1307_keep(s, b), s.reg, <<b>>) EXCEPT !.reg = IF @ + 1 > \h3f THEN 0 ELSE @ + 1]

\* All of them must have been seen, and the day of the week (three bits) not be 0.
ds1307_output_datetime(s) ==
    IF (\A k \in 0 .. 6 : s.kept[k] # Unseen) /\ s.kept[3] % 8 # 0
    THEN Say(s, Summary, [k \in 1 .. 7 |-> s.kept[k - 1]]) ELSE s

\* 0x7F is taken for an empty bus.
ds1307_foreign(s, addr) == To(IF addr = \h7F THEN s ELSE Warn(s, addr), "IDLE")

ds1307_recv(s, p) ==
    CASE p.cmd = "STOP" ->
            To(IF s.state \in {"WRITE_RTC_REGS", "READ_RTC_REGS2"} THEN ds1307_output_datetime(s) ELSE s,
               "IDLE")
      [] p.cmd = "START" -> To(s, "GET_SLAVE_ADDR")
      [] p.cmd = "START REPEAT" ->
            To(s, IF s.state = "WRITE_RTC_REGS" THEN "READ_RTC_REGS" ELSE "GET_SLAVE_ADDR")
      [] s.state = "GET_SLAVE_ADDR" /\ IsAddress(p) ->
            IF p.val # \h68 THEN ds1307_foreign(s, p.val)
            ELSE To(s, IF p.cmd = "ADDRESS WRITE" THEN "GET_REG_ADDR" ELSE "READ_RTC_REGS")
      [] s.state = "GET_REG_ADDR" /\ p.cmd = "DATA WRITE" ->
            [s EXCEPT !.reg = p.val, !.state = "WRITE_RTC_REGS"]
      [] s.state = "READ_RTC_REGS" /\ p.cmd = "ADDRESS READ" ->
            IF p.val = \h68 THEN To(s, "READ_RTC_REGS2") ELSE ds1307_foreign(s, p.val)
      [] \/ s.state = "WRITE_RTC_REGS" /\ p.cmd = "DATA WRITE"
         \/ s.state = "READ_RTC_REGS2" /\ p.cmd = "DATA READ" -> ds1307_handle_reg(s, p.val)
      [] OTHER -> s

(***************************************************************************)
(* ds3231_c.c.  In GET_SLAVE_ADDR the first packet of any kind is compared *)
(* with the address of the chip, the BITS packet before the address too.   *)
(* kept stands for the values of the date, the alarms and the temperature. *)
(* block stands for ss_block # -1: since the last STOP a register was seen *)
(* that begins such a group.                                               *)
(***************************************************************************)
ds3231_reset ==
    [state |-> "IDLE", reg |-> 0, block |-> FALSE, kept |-> [k \in 0 .. \h12 |-> Unseen], rep |-> <<>>]

ds3231_keep(s, b) == IF s.reg < \h13 THEN Say([s EXCEPT !.kept[s.reg] = b], s.reg, <<b>>) ELSE s

ds3231_handle_reg(s, b, begins) ==
    [ds3231_keep(s, b) EXCEPT !.block = @ \/ s.reg \in begins,
                              !.reg = IF @ + 1 > \h12 THEN 0 ELSE @ + 1]

ds3231_output(s, first, last) ==
    Say(s, Summary, [k \in 1 .. last - first + 1 |-> s.kept[first + k - 1]])

\* The group that ends before the register that is next; the temperature only
\* when it was read, and its fraction only with register 0x12.  Without a day
\* of the week (three bits) there is no date.
ds3231_output_group(s, reading) ==
    CASE ~s.block -> s
      [] s.block /\ s.reg = 7 -> IF s.kept[3] % 8 # 0 /\ s.kept[3] # Unseen THEN ds3231_output(s, 0, 6) ELSE s
      [] s.block /\ s.reg = 11 -> ds3231_output(s, 7, 10)
      [] s.block /\ s.reg = 14 -> ds3231_output(s, 11, 13)
      [] s.block /\ s.reg = 18 /\ reading -> ds3231_output(s, 17, 17)
      [] s.block /\ s.reg = 0 /\ reading -> ds3231_output(s, 17, 18)
      [] OTHER -> s

ds3231_recv(s, p) ==
    CASE p.cmd = "STOP" -> [s EXCEPT !.block = FALSE, !.state = "IDLE"]
      [] p.cmd \in {"START", "START REPEAT"} -> To(s, "GET_SLAVE_ADDR")
      [] s.state = "GET_SLAVE_ADDR" /\ p.cmd \notin {"STOP", "START", "START REPEAT"} ->
            IF p.val # \h68 THEN To(s, "IDLE")
            ELSE CASE p.cmd = "ADDRESS WRITE" -> To(s, "SET_REG_ADDR")
                   [] p.cmd = "ADDRESS READ" -> To(s, "READ_RTC_REGS")
                   [] OTHER -> s
      [] s.state = "SET_REG_ADDR" /\ p.cmd = "DATA WRITE" ->
            [Say(s, -1, <<p.val>>) EXCEPT !.reg = p.val, !.state = "WRITE_RTC_REGS"]
      [] s.state = "SET_REG_ADDR" /\ p.cmd = "NACK" -> To(s, "IDLE")
      [] s.state = "WRITE_RTC_REGS" /\ p.cmd = "DATA WRITE" -> ds3231_handle_reg(s, p.val, {0, 7, 11})
      [] s.state = "READ_RTC_REGS" /\ p.cmd = "DATA READ" -> ds3231_handle_reg(s, p.val, {0, 7, 11, 17})
      [] s.state = "WRITE_RTC_REGS" /\ p.cmd = "ACK" -> ds3231_output_group(s, FALSE)
      [] s.state = "READ_RTC_REGS" /\ p.cmd = "NACK" -> ds3231_output_group(s, TRUE)
      [] OTHER -> s

(***************************************************************************)
(* rtc8564_c.c.  kept stands for the fields seconds to years, which are    *)
(* kept over a STOP and shown at the STOP, whether they have been seen or  *)
(* not.  The register that is shown goes on counting; the one that is set  *)
(* is its low byte.                                                        *)
(***************************************************************************)
rtc8564_fields == <<5, 7, 8, 4, 3, 2>>   \* days, months, years, hours, minutes, seconds

rtc8564_reset == [state |-> "IDLE", reg |-> 0, kept |-> [k \in 2 .. 8 |-> Unseen], rep |-> <<>>]

rtc8564_keep(s, b) == IF s.reg % 256 \in 2 .. 8 THEN [s EXCEPT !.kept[s.reg % 256] = b] ELSE s

rtc8564_handle_reg(s, b) == [Say(rtc8564_keep(s, b), s.reg, <<b>>) EXCEPT !.reg = @ + 1]

rtc8564_output_datetime(s) == Say(s, Summary, [i \in DOMAIN rtc8564_fields |-> s.kept[rtc8564_fields[i]]])

rtc8564_recv(s, p) ==
    CASE s.state = "IDLE" /\ p.cmd = "START" -> To(s, "GET_SLAVE_ADDR")
      [] s.state = "GET_SLAVE_ADDR" /\ p.cmd = "ADDRESS WRITE" -> To(s, "GET_REG_ADDR")
      [] s.state = "GET_REG_ADDR" /\ p.cmd = "DATA WRITE" ->
            [s EXCEPT !.reg = p.val, !.state = "WRITE_RTC_REGS"]
      [] s.state = "WRITE_RTC_REGS" /\ p.cmd = "START REPEAT" -> To(s, "READ_RTC_REGS")
      [] s.state = "READ_RTC_REGS" /\ p.cmd = "ADDRESS READ" -> To(s, "READ_RTC_REGS2")
      [] \/ s.state = "WRITE_RTC_REGS" /\ p.cmd = "DATA WRITE"
         \/ s.state = "READ_RTC_REGS2" /\ p.cmd = "DATA READ" -> rtc8564_handle_reg(s, p.val)
      [] s.state \in {"WRITE_RTC_REGS", "READ_RTC_REGS2"} /\ p.cmd = "STOP" ->
            To(rtc8564_output_datetime(s), "IDLE")
      [] OTHER -> s

(***************************************************************************)
(* pca9571_c.c: one port, no register.  A read that differs from the last  *)
(* write is reported as a warning, register 1 of the model.                *)
(***************************************************************************)
pca9571_reset == [state |-> "IDLE", last_write |-> 255, rep |-> <<>>]

pca9571_handle_io(s, b) ==
    CASE s.state = "WRITE_DATA" -> [Say(s, 0, <<b>>) EXCEPT !.last_write = b]
      [] s.state = "READ_DATA" /\ b = s.last_write -> Say(s, 0, <<b>>)
      [] OTHER -> Say(Say(s, 0, <<b>>), 1, <<s.last_write>>)

pca9571_recv(s, p) ==
    CASE p.cmd \in {"ACK", "BITS"} -> s
      [] p.cmd \in {"START", "START REPEAT"} -> To(s, "GET_SLAVE_ADDR")
      [] p.cmd \in {"NACK", "STOP"} -> To(s, "IDLE")
      [] IsAddress(p) /\ s.state = "GET_SLAVE_ADDR" /\ p.val = \h25 ->
            To(s, IF p.cmd = "ADDRESS READ" THEN "READ_DATA" ELSE "WRITE_DATA")
      [] IsAddress(p) /\ s.state = "GET_SLAVE_ADDR" /\ p.val # \h25 -> To(Warn(s, p.val), "IDLE")
      [] IsData(p) /\ s.state \in {"READ_DATA", "WRITE_DATA"} -> pca9571_handle_io(s, p.val)
      [] OTHER -> To(s, "IDLE")

(***************************************************************************)
(* tca6408a_c.c.  The pointer does not advance.                            *)
(***************************************************************************)
tca6408a_addresses == {\h20, \h21}

tca6408a_check_correct_chip(s, addr, state) ==
    IF addr \in tca6408a_addresses THEN To(s, state) ELSE To(Warn(s, addr), "IDLE")

tca6408a_reset == [state |-> "IDLE", chip |-> -1, reg |-> 0, rep |-> <<>>]

tca6408a_handle_reg(s, b) == IF s.reg \in 0 .. 3 THEN Say(s, s.reg, <<b>>) ELSE s

tca6408a_recv(s, p) ==
    CASE s.state = "IDLE" /\ p.cmd = "START" -> To(s, "GET_SLAVE_ADDR")
      [] s.state = "GET_SLAVE_ADDR" /\ IsAddress(p) ->
            [tca6408a_check_correct_chip(s, p.val, "GET_REG_ADDR") EXCEPT !.chip = p.val]
      [] s.state = "GET_REG_ADDR" /\ IsAddress(p) ->
            tca6408a_check_correct_chip(s, p.val, "GET_REG_ADDR")
      [] s.state = "GET_REG_ADDR" /\ p.cmd = "DATA WRITE" ->
            [(IF p.val \in 0 .. 3 THEN Mention(s) ELSE s) EXCEPT !.reg = p.val, !.state = "WRITE_IO_REGS"]
      [] s.state = "WRITE_IO_REGS" /\ p.cmd = "START REPEAT" -> To(s, "READ_IO_REGS")
      [] s.state = "READ_IO_REGS" /\ p.cmd = "ADDRESS READ" ->
            [s EXCEPT !.chip = p.val, !.state = "READ_IO_REGS2"]
      [] \/ s.state = "WRITE_IO_REGS" /\ p.cmd = "DATA WRITE"
         \/ s.state = "READ_IO_REGS2" /\ p.cmd = "DATA READ" -> tca6408a_handle_reg(s, p.val)
      [] s.state = "WRITE_IO_REGS" /\ p.cmd = "STOP" -> [s EXCEPT !.chip = -1, !.state = "IDLE"]
      [] s.state = "READ_IO_REGS2" /\ p.cmd = "STOP" -> To(s, "IDLE")
      [] OTHER -> s

(***************************************************************************)
(* ad5593r_c.c.  A repeated START is not looked at.  reg stands for the    *)
(* name in databyte_register, -1 when it is empty: the number in the       *)
(* tables of configuration registers, or the high nibble of the pointer.   *)
(***************************************************************************)
ad5593r_reset == [state |-> "IDLE", reg |-> -1, data_high |-> 0, rep |-> <<>>]

ad5593r_named == {0} \cup (2 .. 13)   \* reg_sel_rd_map[]

\* For a configuration pointer the table is indexed with the high nibble,
\* which is 0.
ad5593r_handle_pointer_byte(s, b) ==
    LET low == b % 16
        kind == b \div 16
    IN  [s EXCEPT !.reg = CASE kind = 0 -> 0
                            [] kind = 7 -> IF low \in ad5593r_named THEN low ELSE -1
                            [] kind \in {1, 4, 5, 6} -> 16 * kind
                            [] OTHER -> -1]

\* "NOP" is in the tables and "NOOP" is what is compared with.
ad5593r_handle_data_bytes(s, bytes) == IF s.reg \in {-1, 0} THEN s ELSE Say(s, s.reg, bytes)

ad5593r_recv(s, p) ==
    CASE p.cmd = "BITS" -> s
      [] p.cmd = "STOP" -> To(s, "IDLE")
      [] s.state = "IDLE" /\ p.cmd = "START" -> To(s, "GET_SLAVE_ADDR")
      [] s.state = "GET_SLAVE_ADDR" /\ p.cmd = "ADDRESS WRITE" -> To(s, "GET_POINTER_BYTE")
      [] s.state = "GET_SLAVE_ADDR" /\ p.cmd = "ADDRESS READ" -> To(s, "GET_DATA_HIGH")
      [] s.state = "GET_POINTER_BYTE" /\ IsData(p) ->
            To(ad5593r_handle_pointer_byte(s, p.val), "GET_DATA_HIGH")
      [] s.state = "GET_DATA_HIGH" /\ IsData(p) ->
            [s EXCEPT !.data_high = p.val, !.state = "GET_DATA_LOW"]
      [] s.state = "GET_DATA_LOW" /\ IsData(p) ->
            To(ad5593r_handle_data_bytes(s, <<s.data_high, p.val>>), "GET_DATA_HIGH")
      [] OTHER -> s

(***************************************************************************)
(* ltc26x7_c.c.  half stands for s->ss # -1 while data is expected: the    *)
(* first byte of a word is in s->data.                                     *)
(***************************************************************************)
ltc26x7_reset == [state |-> "IDLE", half |-> FALSE, data |-> 0, dac_val |-> 0, rep |-> <<>>]

ltc26x7_handle_slave_addr(s, addr) == Say(s, -1, <<>>)

ltc26x7_handle_cmd_addr(s, b) == [s EXCEPT !.dac_val = b % 16]

ltc26x7_handle_data(s, b) == [Say(s, s.dac_val, <<s.data, b>>) EXCEPT !.data = 0]

ltc26x7_recv(s, p) ==
    CASE s.state = "IDLE" /\ p.cmd = "START" -> To(s, "GET_SLAVE_ADDR")
      [] s.state = "GET_SLAVE_ADDR" /\ p.cmd = "ADDRESS WRITE" ->
            [ltc26x7_handle_slave_addr(s, p.val) EXCEPT !.half = FALSE, !.state = "GET_CMD_ADDR"]
      [] s.state = "GET_CMD_ADDR" /\ p.cmd = "DATA WRITE" ->
            [ltc26x7_handle_cmd_addr(s, p.val) EXCEPT !.half = FALSE, !.state = "WRITE_DATA"]
      [] s.state = "WRITE_DATA" /\ p.cmd = "DATA WRITE" /\ ~s.half ->
            [s EXCEPT !.half = TRUE, !.data = p.val]
      [] s.state = "WRITE_DATA" /\ p.cmd = "DATA WRITE" /\ s.half ->
            [ltc26x7_handle_data(s, p.val) EXCEPT !.half = FALSE]
      [] s.state = "WRITE_DATA" /\ p.cmd = "STOP" -> To(s, "IDLE")
      [] OTHER -> s

-----------------------------------------------------------------------------
(***************************************************************************)
(* xfp_c.c.  cnt is the number of bytes read since the reset, less one:    *)
(* neither a STOP nor the offset that the host writes changes it.  A field *)
(* is reported by the index of its last byte.                              *)
(***************************************************************************)
xfp_reset == [state |-> "IDLE", cnt |-> -1, buf |-> <<>>, cur_highmem_page |-> 0, rep |-> <<>>]

\* The last bytes of the fields.
xfp_map_lower_memory == {0, 1, 57, 59, 69, 71, 75, 79, 95, 109, 111, 117, 118, 122, 126, 127}
xfp_map_high_table_1 ==
    {163, 164, 167, 183, 185, 187, 189, 190, 191, 195, 211, 219, 220, 221, 222, 223, 255}
        \cup (128 .. 130) \cup (138 .. 147)
xfp_handle_single == {0} \cup {128, 129} \cup (140 .. 147) \cup {190, 220, 222}

\* A word at every second byte; eight bytes of thresholds, or two of the
\* readouts, are left out, and a word that is 0.  The thresholds are shown one
\* byte too early: cnt_idx is cnt - buf_len, not cnt - buf_len + 1.
xfp_words(s, first, gap) ==
    LET shown == {i \in 0 .. Len(s.buf) - 2 :
                    i % 2 = 0 /\ i \notin gap /\ s.buf[i + 1] + s.buf[i + 2] > 0}
    IN  FoldLeft(LAMBDA t, i : IF i \in shown THEN Say(t, first + i, SubSeq(s.buf, i + 1, i + 2)) ELSE t,
                 s, [i \in 1 .. Len(s.buf) |-> i - 1])

xfp_handle_alarm_warnings(s) == xfp_words(s, s.cnt - Len(s.buf), 8 .. 15)
xfp_handle_ad_readout(s) == xfp_words(s, s.cnt - Len(s.buf) + 1, 2 .. 3)

\* Control bytes and words are not shown when they are 0.
xfp_handle_control(s) == IF \A i \in DOMAIN s.buf : s.buf[i] = 0 THEN s ELSE Say(s, s.cnt, s.buf)

\* Texts: what cannot be printed is dropped, an empty text is not shown.
xfp_handle_vendor(s) ==
    LET text == SelectSeq(s.buf, LAMBDA b : b \in \h20 .. \h7e) IN
    IF text = <<>> THEN s ELSE Say(s, s.cnt, text)

xfp_connector == (1 .. 11) \cup {\h20, \h21}

xfp_handle_connector(s) == IF Head(s.buf) \in xfp_connector THEN Say(s, s.cnt, s.buf) ELSE s

xfp_dispatch_lower_memory(s) ==
    LET t == CASE s.cnt \in xfp_handle_single \cup {95} -> Say(s, s.cnt, s.buf)
               [] s.cnt = 57 -> xfp_handle_alarm_warnings(s)
               [] s.cnt = 109 -> xfp_handle_ad_readout(s)
               [] s.cnt \in {1, 59, 71, 75, 79, 111} -> xfp_handle_control(s)
               [] s.cnt = 127 -> [s EXCEPT !.cur_highmem_page = Head(s.buf)]
               [] OTHER -> s
    IN  IF s.cnt \in xfp_map_lower_memory THEN [t EXCEPT !.buf = <<>>] ELSE s

xfp_dispatch_high_table_1(s) ==
    LET t == CASE s.cnt \in xfp_handle_single \cup {187, 189, 195, 219} -> Say(s, s.cnt, s.buf)
               [] s.cnt = 130 -> xfp_handle_connector(s)
               [] s.cnt \in {138, 139, 164, 167, 221} -> xfp_handle_control(s)
               [] s.cnt \in {163, 183, 185, 211, 255} -> xfp_handle_vendor(s)
               [] OTHER -> s
    IN  IF s.cnt \in xfp_map_high_table_1 THEN [t EXCEPT !.buf = <<>>] ELSE s

xfp_read(s, b) ==
    LET t == [s EXCEPT !.cnt = @ + 1, !.buf = Keep(@, b, 256)] IN
    CASE t.cnt < 128 -> xfp_dispatch_lower_memory(t)
      [] t.cnt \in 128 .. 255 /\ t.cur_highmem_page = 1 -> xfp_dispatch_high_table_1(t)
      [] OTHER -> t

xfp_recv(s, p) ==
    CASE s.state = "IDLE" /\ p.cmd = "START" -> To(s, "GET_SLAVE_ADDR")
      [] s.state = "GET_SLAVE_ADDR" /\ IsAddress(p) -> To(s, "READ_REGS")
      [] s.state = "READ_REGS" /\ p.cmd = "DATA READ" -> xfp_read(s, p.val)
      [] s.state = "READ_REGS" /\ p.cmd = "STOP" -> To(s, "IDLE")
      [] OTHER -> s

(***************************************************************************)
(* edid_c.c.  cache and ext_cache hold one block each (the offset is a     *)
(* byte, so there is one extension).  A report names the first and the     *)
(* last byte of a field or a section, as indices into the block's cache;   *)
(* fields of one section that are left out for a special value, and the    *)
(* parts of a descriptor, are not told apart.                              *)
(***************************************************************************)
edid_HEADER == <<\h00, \hff, \hff, \hff, \hff, \hff, \hff, \h00>>
edid_BLANK == [i \in 0 .. 127 |-> 0]

edid_reset ==
    [state |-> "IDLE", extension |-> 0, cnt |-> 0, cache |-> <<edid_BLANK, edid_BLANK>>, rep |-> <<>>]

\* edid_get_cache(): the block that is being read, by bytes.
edid_block(s) == s.cache[s.extension + 1]

edid_shows(s, first, last) == Say(s, first, <<last>>)
edid_shows_all(s, spans) == FoldLeft(LAMBDA t, x : edid_shows(t, x[1], x[2]), s, spans)

\* A detailed timing or a descriptor of 18 bytes.
edid_decode_detailed_timing(s, offset) == edid_shows(s, offset, offset + 17)
edid_decode_descriptor(s, offset) == edid_shows(s, offset, offset + 17)

edid_decode_descriptors(s, offset) ==
    edid_shows_all(s, [k \in 1 .. 4 |-> <<offset + 18 * (k - 1), offset + 18 * (k - 1) + 17>>])

\* The offsets of the fields are the ones edid_recv_proto() passes.
edid_decode_vendor(s) == edid_shows_all(s, << <<-10, -9>>, <<-8, -7>>, <<-6, -3>>, <<-2, -1>>, <<8, 17>> >>)
edid_decode_version(s) == edid_shows_all(s, << <<18, 18>>, <<19, 19>> >>)
edid_decode_basicdisplay(s) == edid_shows_all(s, << <<20, 24>>, <<-5, -1>> >>)
edid_decode_chromaticity(s) == edid_shows_all(s, << <<25, 34>>, <<-10, -1>> >>)
edid_decode_est_timing(s) == edid_shows_all(s, << <<35, 37>>, <<-3, -1>> >>)
edid_decode_std_timing(s) == edid_shows_all(s, << <<38, 53>> >>)

edid_block_read(s) ==
    CASE s.cnt = 18 -> edid_decode_vendor(s)
      [] s.cnt = 20 -> edid_decode_version(s)
      [] s.cnt = 25 -> edid_decode_basicdisplay(s)
      [] s.cnt = 35 -> edid_decode_chromaticity(s)
      [] s.cnt = 38 -> edid_decode_est_timing(s)
      [] s.cnt = 54 -> edid_decode_std_timing(s)
      [] s.cnt = 126 -> edid_decode_descriptors(s, -72)
      [] s.cnt = 127 -> edid_shows(s, 126, 126)
      [] s.cnt = 128 -> To(edid_shows(s, 127, 127), "EXTENSIONS")
      [] OTHER -> s

\* The blocks of the collection, each with its length in its first byte.
edid_decode_data_block_collection(s, len) ==
    LET c == edid_block(s)
        walk == FoldLeft(LAMBDA acc, k :
                    IF acc.at # k THEN acc
                    ELSE [at |-> k + 1 + (c[4 + k] % 32),
                          s |-> edid_shows(acc.s, 4 + k, 4 + k + (c[4 + k] % 32))],
                    [at |-> 0, s |-> s], [k \in 1 .. len |-> k - 1])
    IN  walk.s

edid_extension_read(s) ==
    LET c == edid_block(s)
        dtd == (s.cnt - c[2]) \div 18
    IN  CASE s.extension = 0 -> s
          [] s.cnt \in 1 .. 4 -> edid_shows(s, s.cnt - 1, s.cnt - 1)
          [] s.cnt > 4 /\ s.cnt < c[2] -> s
          [] s.cnt > 4 /\ s.cnt = c[2] ->
                edid_decode_data_block_collection(edid_shows(s, 4, s.cnt - 1), c[2] - 4)
          [] s.cnt > 4 /\ s.cnt > c[2] /\ (s.cnt - c[2]) % 18 = 0 ->
                IF dtd <= c[3] % 16 THEN edid_decode_detailed_timing(s, s.cnt - 18) ELSE s
          [] s.cnt = 127 -> edid_shows(s, c[2] + (c[3] % 16) * 18, 126)
          [] s.cnt = 128 -> edid_shows(s, 127, 127)
          [] OTHER -> s

\* Garbage before the header pattern is thrown away, in the first block.
edid_wait_header(s) ==
    LET c == edid_block(s) IN
    IF s.cnt >= 8 /\ s.cnt <= 128 /\ \A i \in 1 .. 8 : c[s.cnt - 9 + i] = edid_HEADER[i]
    THEN edid_shows([s EXCEPT !.cnt = 8, !.state = "EDID",
                        !.cache[1] = [i \in 0 .. 127 |-> IF i < 8 THEN @[s.cnt - 8 + i] ELSE @[i]]],
                    0, 7)
    ELSE s

edid_read(s, b) ==
    LET t == [s EXCEPT !.cnt = @ + 1,
                 !.cache[s.extension + 1] = IF s.cnt < 128 THEN [@ EXCEPT ![s.cnt] = b] ELSE @]
    IN  CASE t.state \in {"IDLE", "HEADER"} -> edid_wait_header(t)
          [] t.state = "EDID" -> edid_block_read(t)
          [] t.state = "EXTENSIONS" /\ t.cnt <= 128 -> edid_extension_read(t)
          [] OTHER -> t

edid_recv(s, p) ==
    CASE p.cmd = "ADDRESS WRITE" /\ p.val = \h50 -> To(s, "OFFSET")
      [] p.cmd = "ADDRESS READ" /\ p.val = \h50 ->
            To(s, IF s.extension > 0 THEN "EXTENSIONS" ELSE "HEADER")
      [] p.cmd = "DATA WRITE" /\ s.state = "OFFSET" ->
            [s EXCEPT !.extension = p.val \div 128, !.cnt = p.val % 128,
               !.cache[p.val \div 128 + 1] = [i \in 0 .. 127 |-> IF i < p.val % 128 THEN @[i] ELSE 0]]
      [] p.cmd = "DATA READ" -> edid_read(s, p.val)
      [] OTHER -> s
=============================================================================
