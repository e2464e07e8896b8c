------------------------------ MODULE I2cHosts ------------------------------
(***************************************************************************)
(* I2C targets that a host talks to with commands and register offsets:    *)
(* hdcp, hdmi_scdc, tpm_tis_i2c, st25dv, atsha204a, ssd1306 and eeprom24xx *)
(* of c_decoders/; and decoders that stack on I2C and serve further        *)
(* decoders: i2c_packet, i2cfilter and i2cdemux.  Their field sent holds   *)
(* the packets that went to the decoders above since c_proto() was called. *)
(***************************************************************************)
EXTENDS Stacked

(***************************************************************************)
(* hdcp_c.c.  type is the item the offset names, -1 for none; a repeated   *)
(* START keeps it.                                                         *)
(***************************************************************************)
hdcp_write_items ==
    {\h00, \h08, \h0a, \h10, \h15, \h18, \h20, \h24, \h28, \h2c, \h30, \h40,
     \h41, \h43, \h50, \h60, \h70, \h80}

hdcp_messages == {\h10, \h15, \h18, \h60}   \* offsets whose data follows at once

hdcp_reset == [state |-> "IDLE", type |-> -1, stack |-> <<>>, rep |-> <<>>]

hdcp_process_buffer(s) == IF s.type = -1 THEN s ELSE Say(s, s.type, s.stack)

hdcp_recv(s, p) ==
    CASE s.state = "IDLE" /\ p.cmd = "START" ->
            [s EXCEPT !.stack = <<>>, !.type = -1, !.state = "GET_SLAVE_ADDR"]
      [] s.state = "IDLE" /\ p.cmd = "START REPEAT" -> To(s, "GET_SLAVE_ADDR")
      [] s.state = "GET_SLAVE_ADDR" /\ IsAddress(p) ->
            To(s, CASE p.val # \h3a -> "IDLE"
                    [] p.cmd = "ADDRESS READ" -> "BUFFER_DATA"
                    [] OTHER -> "WRITE_OFFSET")
      [] s.state = "WRITE_OFFSET" /\ p.cmd = "DATA WRITE" ->
            LET type == IF p.val \in hdcp_write_items THEN p.val ELSE s.type IN
            [s EXCEPT !.type = type,
               !.state = CASE p.val \in hdcp_messages -> "BUFFER_DATA"
                           [] type # -1 -> "IDLE"
                           [] OTHER -> @]
      [] s.state = "BUFFER_DATA" /\ p.cmd \in {"STOP", "NACK"} -> To(hdcp_process_buffer(s), "IDLE")
      [] s.state = "BUFFER_DATA" /\ IsData(p) -> [s EXCEPT !.stack = Keep(@, p.val, 256)]
      [] OTHER -> s

(***************************************************************************)
(* hdmi_scdc_c.c.  databytes_len counts what went into databytes[16], of   *)
(* which only the last byte is used.                                       *)
(***************************************************************************)
hdmi_scdc_reset ==
    [state |-> "IDLE", offset |-> 0, databytes_len |-> 0, err_det_lower |-> 0, rep |-> <<>>]

\* scdc_reg_fields[]: the bytes for which a register has a text.
hdmi_scdc_has_text(offset, b) ==
    CASE offset = 1 -> b = 1
      [] offset = 2 -> b \in {0, 1}
      [] offset \in {\h11, \h41} -> b = 0
      [] OTHER -> offset \in {\h10, \h20, \h21, \h30, \h40}

\* The character error registers advance the offset.  A counter is shown with
\* its high byte; the low byte is the one that was kept.
hdmi_scdc_show(s, b) ==
    CASE s.offset \in {\h50, \h52, \h54} -> [s EXCEPT !.err_det_lower = b]
      [] s.offset \in {\h51, \h53, \h55} -> Say(s, Summary, <<s.err_det_lower, b>>)
      [] s.offset = \h56 -> Mention(s)
      [] OTHER -> IF hdmi_scdc_has_text(s.offset, b) THEN Say(s, s.offset, <<b>>) ELSE s

hdmi_scdc_handle_scdc(s, b) ==
    [hdmi_scdc_show(s, b) EXCEPT
        !.databytes_len = @ + 1,
        !.offset = IF @ \in \h50 .. \h56 THEN @ + 1 ELSE @]

hdmi_scdc_recv(s, p) ==
    CASE \/ p.cmd = "STOP"
         \/ s.state \in {"READ_REGISTER", "WRITE_REGISTER"} /\ p.cmd = "START REPEAT" ->
            [hdmi_scdc_reset EXCEPT !.rep = s.rep]
      [] s.state = "IDLE" /\ p.cmd = "START" -> To(s, "GET_SLAVE_ADDR")
      [] s.state = "GET_SLAVE_ADDR" /\ IsAddress(p) /\ p.val = \h54 ->
            To(Mention(s), IF p.cmd = "ADDRESS WRITE" THEN "GET_OFFSET" ELSE "READ_REGISTER")
      [] s.state = "GET_OFFSET" /\ p.cmd = "DATA WRITE" ->
            [Say(s, -1, <<p.val>>) EXCEPT !.offset = p.val, !.state = "OFFSET_RECEIVED"]
      [] s.state = "OFFSET_RECEIVED" /\ p.cmd = "START REPEAT" -> To(s, "GET_SLAVE_ADDR")
      [] s.state = "OFFSET_RECEIVED" /\ p.cmd = "DATA WRITE" ->
            To(hdmi_scdc_handle_scdc(s, p.val), "WRITE_REGISTER")
      [] s.state \in {"READ_REGISTER", "WRITE_REGISTER"} /\ IsData(p) ->
            hdmi_scdc_handle_scdc(s, p.val)
      [] OTHER -> s

(***************************************************************************)
(* tpm_tis_i2c_c.c: every acknowledge bit has a state of its own, and a    *)
(* packet that does not fit gives up the transaction, most with a warning. *)
(***************************************************************************)
tpm_tis_i2c_reset == [state |-> "IDLE", tis_addr |-> 0, data |-> <<>>, rep |-> <<>>]

tpm_tis_output_transaction(s) == Say(s, s.tis_addr, s.data)

\* The state after the acknowledge bit that the decoder waits for.
tpm_tis_acknowledged ==
    [ADDR_ACK |-> "REG_ADDR", REG_ADDR_ACK |-> "WAIT_OP",
     READ_ADDR_ACK |-> "READ_DATA", WRITE_DATA_ACK |-> "WRITE_DATA"]

tpm_tis_i2c_recv(s, p) ==
    CASE p.cmd = "BITS" -> s
      [] s.state \in DOMAIN tpm_tis_acknowledged ->
            CASE p.cmd = "ACK" -> To(s, tpm_tis_acknowledged[s.state])
              [] p.cmd = "NACK" -> To(s, "IDLE")
              [] OTHER -> s
      [] s.state = "IDLE" ->
            IF p.cmd = "START" THEN [s EXCEPT !.state = "ADDR_WRITE", !.data = <<>>] ELSE s
      [] s.state = "ADDR_WRITE" /\ p.cmd = "ADDRESS WRITE" -> To(s, "ADDR_ACK")
      [] s.state = "REG_ADDR" /\ p.cmd = "DATA WRITE" ->
            [Say(s, -1, <<p.val>>) EXCEPT !.tis_addr = p.val, !.state = "REG_ADDR_ACK"]
      [] s.state = "WAIT_OP" /\ p.cmd = "START REPEAT" ->
            [s EXCEPT !.data = <<>>, !.state = "READ_ADDR_READ"]
      [] s.state = "WAIT_OP" /\ p.cmd = "STOP" -> [s EXCEPT !.data = <<>>, !.state = "IDLE"]
      [] s.state = "WAIT_OP" /\ p.cmd = "DATA WRITE" ->
            [s EXCEPT !.data = <<p.val>>, !.state = "WRITE_DATA_ACK"]
      [] s.state = "READ_ADDR_READ" /\ p.cmd = "ADDRESS READ" ->
            [s EXCEPT !.data = <<>>, !.state = "READ_ADDR_ACK"]
      [] s.state = "READ_DATA" /\ p.cmd = "DATA READ" -> [s EXCEPT !.data = Keep(@, p.val, 256)]
      [] s.state = "READ_DATA" /\ p.cmd \in {"ACK", "NACK"} -> s
      [] s.state = "WRITE_DATA" /\ p.cmd = "DATA WRITE" ->
            [s EXCEPT !.data = Keep(@, p.val, 256), !.state = "WRITE_DATA_ACK"]
      [] s.state \in {"READ_DATA", "WRITE_DATA"} /\ p.cmd = "STOP" ->
            To(tpm_tis_output_transaction(s), "IDLE")
      [] OTHER -> To(IF s.state \in {"ADDR_WRITE", "READ_DATA"} THEN s ELSE Mention(s), "IDLE")

(***************************************************************************)
(* st25dv_c.c.  A register that is not in the table shows every byte by    *)
(* itself.  Only a known register gives its bytes back to data[256].       *)
(***************************************************************************)
st25dv_reset == [state |-> "BEFORE_START", reg_address |-> 0, data |-> <<>>, rep |-> <<>>]

st25dv_acknowledged ==
    [AFTER_ADDR_ACK |-> "BEFORE_REG_MSB", AFTER_REG_MSB_ACK |-> "BEFORE_REG_LSB",
     AFTER_REG_LSB_ACK |-> "BEFORE_FIRST_DATA"]

\* st25dv_regs[] and st25dv_find_reg(): bytes of a register, 0 when unknown.
st25dv_length(addr) ==
    CASE addr \in 0 .. \h14 \cup {\h17, \h18, \h20, \h2000} \cup (\h2002 .. \h2007) -> 1
      [] addr = \h0900 -> 17
      [] addr = \h2008 -> 256
      [] OTHER -> 0

st25dv_annotate_register_value(s, b) ==
    LET t   == [s EXCEPT !.data = Append(@, b)]
        len == st25dv_length(s.reg_address)
    IN  CASE len = 0 -> Say(t, s.reg_address, <<b>>)
          [] len > 0 /\ Len(t.data) = len -> Say([t EXCEPT !.data = <<>>], s.reg_address, t.data)
          [] OTHER -> t

\* A STOP is looked at only once data has been seen.
st25dv_recv(s, p) ==
    CASE p.cmd = "BITS" -> s
      [] s.state \in DOMAIN st25dv_acknowledged ->
            CASE p.cmd = "ACK" -> To(s, st25dv_acknowledged[s.state])
              [] p.cmd = "NACK" -> To(s, "BEFORE_START")
              [] OTHER -> s
      [] s.state = "BEFORE_START" ->
            IF p.cmd \in {"START", "START REPEAT"} THEN To(s, "BEFORE_ADDRESS") ELSE s
      [] s.state = "BEFORE_ADDRESS" ->
            To(s, IF p.cmd = "ADDRESS WRITE" THEN "AFTER_ADDR_ACK" ELSE "BEFORE_START")
      [] s.state = "BEFORE_REG_MSB" /\ p.cmd = "DATA WRITE" ->
            [s EXCEPT !.reg_address = p.val, !.state = "AFTER_REG_MSB_ACK"]
      [] s.state = "BEFORE_REG_LSB" /\ p.cmd = "DATA WRITE" ->
            [s EXCEPT !.reg_address = (@ * 256 + p.val) % 65536, !.state = "AFTER_REG_LSB_ACK"]
      [] s.state = "BEFORE_FIRST_DATA" /\ p.cmd = "DATA WRITE" ->
            To(st25dv_annotate_register_value([s EXCEPT !.data = <<>>], p.val), "BEFORE_SECOND_DATA")
      [] s.state = "BEFORE_FIRST_DATA" /\ p.cmd = "START REPEAT" ->
            [s EXCEPT !.data = <<>>, !.state = "BEFORE_SECOND_DATA"]
      [] s.state = "BEFORE_SECOND_DATA" /\ IsData(p) -> st25dv_annotate_register_value(s, p.val)
      [] s.state = "BEFORE_SECOND_DATA" /\ p.cmd = "STOP" -> To(s, "BEFORE_START")
      [] s.state = "BEFORE_SECOND_DATA" /\ p.cmd = "START REPEAT" -> To(s, "BEFORE_ADDRESS")
      [] OTHER -> s

(***************************************************************************)
(* atsha204a_c.c.  The response that is read belongs to the word address   *)
(* of the last write, for one read.                                        *)
(***************************************************************************)
atsha204a_reset == [state |-> "IDLE", waddr |-> -1, bytes |-> <<>>, rep |-> <<>>]

atsha204a_COMMAND == 3   \* word address of a command; 0 resets

\* A command is taken apart only when its length fits its count byte.
atsha204a_output_tx_bytes(s) ==
    LET n == Len(s.bytes)
        t == [s EXCEPT !.waddr = s.bytes[1]]
    IN  CASE n < 1 -> s
          [] n >= 3 /\ t.waddr = atsha204a_COMMAND /\ n - 1 = s.bytes[2] ->
                Say(t, t.waddr, SubSeq(s.bytes, 3, n))
          [] OTHER -> t

atsha204a_output_rx_bytes(s) ==
    LET n == Len(s.bytes) IN
    CASE n >= 2 /\ (s.waddr = 0 \/ (s.waddr = atsha204a_COMMAND /\ s.bytes[1] = 4)) ->
            Say(s, s.waddr, SubSeq(s.bytes, 2, IF n >= 4 THEN 4 ELSE 2))
      [] n >= 3 /\ s.waddr = atsha204a_COMMAND /\ s.bytes[1] # 4 ->
            Say(s, s.waddr, SubSeq(s.bytes, 2, n))
      [] OTHER -> s

atsha204a_recv(s, p) ==
    CASE p.cmd = "BITS" -> s
      [] s.state = "IDLE" /\ p.cmd = "START" -> [s EXCEPT !.state = "GET_SLAVE_ADDR", !.bytes = <<>>]
      [] s.state = "GET_SLAVE_ADDR" /\ IsAddress(p) ->
            [s EXCEPT !.bytes = <<>>,
               !.state = IF p.cmd = "ADDRESS READ" THEN "READ_REGS" ELSE "WRITE_REGS"]
      [] \/ s.state = "READ_REGS" /\ p.cmd = "DATA READ"
         \/ s.state = "WRITE_REGS" /\ p.cmd = "DATA WRITE" -> [s EXCEPT !.bytes = Keep(@, p.val, 256)]
      [] s.state = "READ_REGS" /\ p.cmd = "STOP" ->
            [atsha204a_output_rx_bytes(s) EXCEPT !.bytes = <<>>, !.waddr = -1, !.state = "IDLE"]
      [] s.state = "WRITE_REGS" /\ p.cmd = "STOP" ->
            [atsha204a_output_tx_bytes(s) EXCEPT !.bytes = <<>>, !.state = "IDLE"]
      [] s.state \notin {"READ_REGS", "WRITE_REGS"} /\ p.cmd = "STOP" -> To(s, "IDLE")
      [] OTHER -> s

(***************************************************************************)
(* ssd1306_c.c.  substate is the number of the parameter that comes next,  *)
(* 0 for a command byte.  block holds the command and the parameters of    *)
(* the block annotation that is being put together.                        *)
(***************************************************************************)
ssd1306_addresses == {\h3C, \h3D}

\* The range commands keep their parameter in the command byte.
ssd1306_normalize(b) ==
    CASE b <= \h0F -> \h00
      [] b \in \h10 .. \h1F -> \h10
      [] b \in \h40 .. \h7F -> \h40
      [] b \in \hB0 .. \hB7 -> \hB0
      [] OTHER -> b

\* ssd1306_cmds[] and the handle_par functions: how many parameters follow.
ssd1306_params(c) ==
    CASE c \in {\h20, \h23, \h81, \h8D, \hA8, \hD3, \hD5, \hD6, \hD9, \hDA, \hDB} -> 1
      [] c \in {\h21, \h22, \hA3} -> 2
      [] c \in {\h29, \h2A} -> 5
      [] c \in {\h26, \h27} -> 6
      [] OTHER -> 0

ssd1306_cmds ==
    {\h00, \h10, \h20, \h21, \h22, \h23, \h26, \h27, \h29, \h2A, \h2E, \h2F, \h40,
     \h81, \h8D, \hA0, \hA1, \hA3, \hA4, \hA5, \hA6, \hA7, \hA8, \hAE, \hAF, \hB0,
     \hC0, \hC8, \hD3, \hD5, \hD6, \hD9, \hDA, \hDB, \hE3}

ssd1306_reset ==
    [state |-> "IDLE", substate |-> 0, prevreg |-> -1, block |-> <<>>, rep |-> <<>>]

\* A multiplex ratio below 16, a precharge phase of 0 or an unknown Vcomh
\* level: a warning takes the place of the block.
ssd1306_invalid(c, b) ==
    \/ c = \hA8 /\ b % 64 < 15
    \/ c = \hD9 /\ (b % 16 = 0 \/ b < 16)
    \/ c = \hDB /\ (b \div 16) % 8 \notin {0, 2, 3}

ssd1306_output_block(s) ==
    IF s.substate = 0 /\ s.block # <<>>
    THEN Say([s EXCEPT !.block = <<>>], s.prevreg, s.block) ELSE s

ssd1306_handle_command(s, b) ==
    LET c == ssd1306_normalize(b) IN
    IF c \notin ssd1306_cmds THEN s
    ELSE ssd1306_output_block(
            [s EXCEPT !.prevreg = c, !.block = <<b>>,
                      !.substate = IF ssd1306_params(c) > 0 THEN 1 ELSE 0])

ssd1306_handle_param(s, b) ==
    ssd1306_output_block(
        [s EXCEPT !.block = IF ssd1306_invalid(s.prevreg, b) THEN <<>> ELSE Append(@, b),
                  !.substate = IF @ = ssd1306_params(s.prevreg) THEN 0 ELSE @ + 1])

\* Neither a STOP before the byte of a command nor a START REPEAT is seen.
ssd1306_recv(s, p) ==
    CASE p.cmd = "BITS" -> s
      [] s.state = "IDLE" /\ p.cmd = "START" -> To(s, "GET_SLAVE_ADDR")
      [] s.state = "GET_SLAVE_ADDR" /\ p.cmd = "ADDRESS WRITE" ->
            IF p.val \in ssd1306_addresses THEN To(Mention(s), "WRITE_CONTROL_BYTE")
            ELSE To(s, "IDLE")
      [] s.state = "WRITE_CONTROL_BYTE" /\ p.cmd = "DATA WRITE" ->
            [s EXCEPT !.substate = 0,
               !.state = CASE p.val = \h80 -> "SSD_COMMAND"
                           [] p.val = \h40 -> "SSD_DATA"
                           [] OTHER -> "IDLE"]
      [] s.state = "SSD_COMMAND" /\ p.cmd = "DATA WRITE" ->
            To(IF s.substate = 0 THEN ssd1306_handle_command(s, p.val)
               ELSE ssd1306_handle_param(s, p.val), "WRITE_CONTROL_BYTE")
      [] s.state = "SSD_DATA" /\ p.cmd = "DATA WRITE" -> Say(s, -1, <<p.val>>)
      [] s.state \in {"WRITE_CONTROL_BYTE", "SSD_DATA"} /\ p.cmd = "STOP" -> To(s, "IDLE")
      [] OTHER -> s

(***************************************************************************)
(* eeprom24xx_c.c with the generic chip: one address byte, pages of eight. *)
(* The control words are packets too, and stand in bytebuf with the rest.  *)
(***************************************************************************)
eeprom24xx_addr_bytes == 1

eeprom24xx_reset ==
    [state |-> "WAIT_FOR_START", packets |-> <<>>, op |-> "none", addr_counter |-> 0, rep |-> <<>>]

eeprom24xx_reset_variablesBug(s) == [s EXCEPT !.packets = <<>>, !.op = "none"]

eeprom24xx_reset_variables(s) ==
    [s EXCEPT !.state = "WAIT_FOR_START", !.packets = <<>>, !.op = "none"]

eeprom24xx_append(s, b, state) == [s EXCEPT !.packets = Append(@, b), !.state = state]

eeprom24xx_put_word_addr(s) ==
    IF Len(s.packets) >= 2 THEN [s EXCEPT !.addr_counter = s.packets[2]] ELSE s

\* One report per data byte; the binary output comes last, as register -1.
eeprom24xx_put_data_bytes(s, idx) ==
    LET n == Len(s.packets)
        bytes == SubSeq(s.packets, idx + 1, n)
        shown == [i \in DOMAIN bytes |-> Report(s.addr_counter + i - 1, <<bytes[i]>>)]
        t == [s EXCEPT !.rep = @ \o shown, !.addr_counter = @ + Len(bytes)]
    IN  IF n > eeprom24xx_addr_bytes
        THEN Say(t, -1, SubSeq(s.packets, eeprom24xx_addr_bytes + 1, n)) ELSE t

eeprom24xx_put_operation(s) ==
    LET idx == 1 + eeprom24xx_addr_bytes IN
    CASE s.op = "write" -> eeprom24xx_put_data_bytes(eeprom24xx_put_word_addr(s), idx)
      [] s.op = "random_read" -> eeprom24xx_put_data_bytes(eeprom24xx_put_word_addr(s), idx + 1)
      [] s.op = "cur_addr_read" /\ Len(s.packets) >= 2 ->
            [Say(Say(s, s.addr_counter, <<s.packets[2]>>), -1, <<s.packets[1]>>)
                EXCEPT !.addr_counter = @ + 1]
      [] OTHER -> s

eeprom24xx_finish(s, op) == eeprom24xx_reset_variables(eeprom24xx_put_operation([s EXCEPT !.op = op]))

\* Any packet that does not fit, a NACK where the chip must answer, and any
\* STOP lead back to WAIT_FOR_START.
eeprom24xx_recv(s, p) ==
    CASE p.cmd = "BITS" -> s
      [] s.state = "WAIT_FOR_START" ->
            IF p.cmd \in {"START", "START REPEAT"} THEN To(s, "GET_CONTROL_WORD") ELSE s
      [] s.state = "GET_CONTROL_WORD" /\ p.cmd = "ADDRESS READ" ->
            eeprom24xx_append(s, p.val, "R_GET_ACK_NACK_AFTER_CW")
      [] s.state = "GET_CONTROL_WORD" /\ p.cmd = "ADDRESS WRITE" ->
            eeprom24xx_append(s, p.val, "W_GET_ACK_NACK_AFTER_CW")
      \* A read from the current address.
      [] s.state = "R_GET_ACK_NACK_AFTER_CW" /\ p.cmd = "ACK" -> To(s, "R_GET_WORD_ADDR_OR_BYTE")
      [] s.state = "R_GET_WORD_ADDR_OR_BYTE" /\ p.cmd = "DATA READ" ->
            eeprom24xx_append(s, p.val, "R_GET_ACK_NACK_AFTER_WORD_ADDR_OR_BYTE")
      [] s.state = "R_GET_ACK_NACK_AFTER_WORD_ADDR_OR_BYTE" /\ p.cmd = "ACK" -> To(s, "R_GET_RESTART")
      [] s.state = "R_GET_ACK_NACK_AFTER_WORD_ADDR_OR_BYTE" /\ p.cmd = "NACK" ->
            [s EXCEPT !.op = "cur_addr_read", !.state = "GET_STOP_AFTER_LAST_BYTE"]
      [] s.state = "R_GET_RESTART" /\ p.cmd = "START REPEAT" -> To(s, "R_READ_BYTE")
      [] s.state = "R_READ_BYTE" /\ p.cmd = "DATA READ" ->
            eeprom24xx_append(s, p.val, "R_GET_ACK_NACK_AFTER_BYTE_READ")
      [] s.state = "R_GET_ACK_NACK_AFTER_BYTE_READ" /\ p.cmd = "ACK" -> To(s, "R_READ_BYTE")
      [] s.state = "R_GET_ACK_NACK_AFTER_BYTE_READ" /\ p.cmd = "NACK" -> To(s, "GET_STOP_AFTER_LAST_BYTE")
      \* A write, or the address of a random read.
      [] s.state = "W_GET_ACK_NACK_AFTER_CW" /\ p.cmd = "ACK" -> To(s, "W_GET_WORD_ADDR")
      [] s.state = "W_GET_WORD_ADDR" /\ p.cmd = "DATA WRITE" ->
            eeprom24xx_append(s, p.val, "W_GET_ACK_AFTER_WORD_ADDR")
      [] s.state = "W_GET_ACK_AFTER_WORD_ADDR" /\ p.cmd = "ACK" -> To(s, "W_DETERMINE_READ_OR_WRITE")
      [] s.state \in {"W_DETERMINE_READ_OR_WRITE", "W_WRITE_BYTE"} /\ p.cmd = "START REPEAT" ->
            To(s, "R2_GET_CONTROL_WORD")
      [] s.state \in {"W_DETERMINE_READ_OR_WRITE", "W_WRITE_BYTE"} /\ p.cmd = "DATA WRITE" ->
            eeprom24xx_append(s, p.val, "W_GET_ACK_NACK_AFTER_BYTE_WRITTEN")
      [] s.state = "W_GET_ACK_NACK_AFTER_BYTE_WRITTEN" /\ p.cmd = "ACK" -> To(s, "W_WRITE_BYTE")
      [] s.state = "W_WRITE_BYTE" /\ p.cmd = "STOP" -> eeprom24xx_finish(s, "write")
      \* The second part of a random read.
      [] s.state = "R2_GET_CONTROL_WORD" /\ p.cmd = "ADDRESS READ" ->
            eeprom24xx_append(s, p.val, "R2_GET_ACK_AFTER_ADDR_READ")
      [] s.state \in {"R2_GET_ACK_AFTER_ADDR_READ", "R2_GET_ACK_NACK_AFTER_BYTE_READ"}
            /\ p.cmd = "ACK" -> To(s, "R2_READ_BYTE")
      [] s.state = "R2_READ_BYTE" /\ p.cmd = "DATA READ" ->
            eeprom24xx_append(s, p.val, "R2_GET_ACK_NACK_AFTER_BYTE_READ")
      [] s.state = "R2_READ_BYTE" /\ p.cmd = "STOP" -> eeprom24xx_finish(s, "random_read")
      [] s.state = "R2_GET_ACK_NACK_AFTER_BYTE_READ" /\ p.cmd = "NACK" ->
            [s EXCEPT !.op = "random_read", !.state = "GET_STOP_AFTER_LAST_BYTE"]
      [] s.state = "GET_STOP_AFTER_LAST_BYTE" /\ p.cmd = "STOP" -> eeprom24xx_finish(s, s.op)
      [] s.state = "GET_STOP_AFTER_LAST_BYTE" /\ p.cmd = "START REPEAT" ->
            To(eeprom24xx_finish(s, s.op), "GET_CONTROL_WORD")
      [] OTHER -> eeprom24xx_reset_variables(s)

-----------------------------------------------------------------------------
(***************************************************************************)
(* i2c_packet_c.c.  A part with data is a packet of its own; the           *)
(* annotation of the whole transfer joins the parts in packet_str.  Its    *)
(* text is left out, and with it the size of the text buffers: see         *)
(* I2cDevices!Fits.                                                        *)
(***************************************************************************)
i2c_packet_reset ==
    [state |-> "none", address |-> 0, read_sign |-> 0, packet_data |-> <<>>,
     packet_str |-> <<>>, sent |-> <<>>, rep |-> <<>>]

i2c_packet_reset_state(s) == [i2c_packet_reset EXCEPT !.sent = s.sent, !.rep = s.rep]

i2c_packet_PACKET(s) ==
    [cmd |-> IF s.read_sign = 1 THEN "PACKET READ" ELSE "PACKET WRITE",
     val |-> s.address, bytes |-> s.packet_data]

i2c_packet_END == [cmd |-> "TRANSACTION END", val |-> 0, bytes |-> <<>>]

\* The part is over, but not the transfer.
i2c_packet_merge(s) ==
    LET part == i2c_packet_PACKET(s) IN
    [s EXCEPT !.sent = Append(@, part), !.packet_str = Append(@, part), !.packet_data = <<>>]

\* The annotation is the report.
i2c_packet_finish(s) ==
    LET part == i2c_packet_PACKET(s) IN
    i2c_packet_reset_state(
        [s EXCEPT !.sent = @ \o <<part, i2c_packet_END>>,
                  !.rep = Append(@, Report(-1, Append(s.packet_str, part)))])

\* Without data in the last part there is no annotation.
i2c_packet_handle_packet(s, start_repeat) ==
    CASE s.packet_data = <<>> -> IF start_repeat THEN s ELSE i2c_packet_reset_state(s)
      [] s.packet_data # <<>> /\ start_repeat -> i2c_packet_merge(s)
      [] OTHER -> i2c_packet_finish(s)

i2c_packet_byte(s, p) == [s EXCEPT !.packet_data = Keep(@, p.val, 4096)]

i2c_packet_address(s, p) ==
    [s EXCEPT !.address = p.val, !.read_sign = IF p.cmd = "ADDRESS READ" THEN 1 ELSE 0]

i2c_packet_recv(s, p) ==
    CASE IsData(p) -> i2c_packet_byte(s, p)
      [] p.cmd \in {"START", "START REPEAT"} -> i2c_packet_handle_packet(s, p.cmd = "START REPEAT")
      [] IsAddress(p) -> i2c_packet_address(s, p)
      [] p.cmd = "STOP" -> i2c_packet_handle_packet(s, FALSE)
      [] OTHER -> s

(***************************************************************************)
(* i2cfilter_c.c and i2cdemux_c.c cache the low bytes of the fields of a   *)
(* packet, of which i2c_c.c sends one or, with START, STOP and the         *)
(* acknowledge bits, none (so the room for eight fields is enough).  They  *)
(* send the packet on with one C_BYTES field, the address and the number   *)
(* of these bytes: a decoder above that takes its first field for a C_U8,  *)
(* as all of them do, reads a byte of that address.                        *)
(***************************************************************************)
Fields(p) == IF IsAddress(p) \/ IsData(p) \/ p.cmd = "BITS" THEN <<p.val>> ELSE <<>>

Resent(p) == [cmd |-> p.cmd, bytes |-> Fields(p)]

(***************************************************************************)
(* i2cfilter_c.c.  The options come first: filter_address 0 passes every   *)
(* address.  The decision falls at STOP and at START REPEAT, for all the   *)
(* packets since the last one.                                             *)
(***************************************************************************)
i2cfilter_reset(filter_address, filter_direction) ==
    [state |-> "none", filter_address |-> filter_address, filter_direction |-> filter_direction,
     curslave |-> -1, curdirection |-> "none", packets |-> <<>>, sent |-> <<>>, rep |-> <<>>]

i2cfilter_passesBug(s) == s.filter_address \in {0, s.curslave}

i2cfilter_passes(s) ==
    /\ s.filter_address \in {0, s.curslave}
    /\ s.filter_direction \in {"both", s.curdirection}

i2cfilter_cache(s, p) == [s EXCEPT !.packets = Keep(@, Resent(p), 1024)]

i2cfilter_address(s, p) ==
    [s EXCEPT !.curslave = p.val,
              !.curdirection = IF p.cmd = "ADDRESS READ" THEN "read" ELSE "write"]

i2cfilter_decide(s) ==
    [s EXCEPT !.packets = <<>>, !.sent = IF i2cfilter_passes(s) THEN @ \o s.packets ELSE @]

i2cfilter_recv(s, p) ==
    LET t == i2cfilter_cache(s, p) IN
    CASE IsAddress(p) -> i2cfilter_address(t, p)
      [] p.cmd \in {"STOP", "START REPEAT"} -> i2cfilter_decide(t)
      [] OTHER -> t

(***************************************************************************)
(* i2cdemux_c.c.  slaves[i] is the address served by stream i.  The whole  *)
(* transfer is sent at its STOP, with the output number of the stream of   *)
(* the address that came last; c_proto() does not tell the streams apart,  *)
(* it sends every one to all decoders above.                               *)
(***************************************************************************)
i2cdemux_reset ==
    [state |-> "none", slaves |-> <<>>, stream |-> -1, packets |-> <<>>, sent |-> <<>>, rep |-> <<>>]

i2cdemux_stream(s, addr) == SelectInSeq(s.slaves, LAMBDA a : a = addr)

\* An address without a stream gets one, as long as there is room.
i2cdemux_listed(s, addr) ==
    IF i2cdemux_stream(s, addr) = 0 THEN [s EXCEPT !.slaves = Keep(@, addr, 128)] ELSE s

i2cdemux_select(s, addr) ==
    LET found == i2cdemux_stream(s, addr) IN [s EXCEPT !.stream = IF found = 0 THEN -1 ELSE found]

i2cdemux_send(s) ==
    [s EXCEPT !.packets = <<>>, !.stream = -1,
        !.sent = IF s.stream = -1 THEN @ ELSE @ \o s.packets]

i2cdemux_cache(s, p) == [s EXCEPT !.packets = Keep(@, Resent(p), 1024)]

i2cdemux_recv(s, p) ==
    LET t == i2cdemux_cache(s, p) IN
    CASE IsAddress(p) -> i2cdemux_select(i2cdemux_listed(t, p.val), p.val)
      [] p.cmd = "STOP" -> i2cdemux_send(t)
      [] OTHER -> t
=============================================================================
