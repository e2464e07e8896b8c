----------------------------- MODULE I2cSensors -----------------------------
(***************************************************************************)
(* Sensors and game controllers on the I2C bus: lm75, mlx90614, tmp102,    *)
(* bh1750, tcs3472x, mpu6050, nunchuk and mxc6225xu of c_decoders/.        *)
(***************************************************************************)
EXTENDS Stacked

(***************************************************************************)
(* lm75_c.c.  The register pointer is never set, so every pair of bytes is *)
(* taken for a temperature.                                                *)
(***************************************************************************)
lm75_reset == [state |-> "IDLE", databytes |-> <<>>, rep |-> <<>>]

lm75_handle_temperature_reg(s, b) ==
    IF s.databytes = <<>> THEN [s EXCEPT !.databytes = <<b>>]
    ELSE LET t == Say([s EXCEPT !.databytes = <<>>], 0, Append(s.databytes, b))
         IN  IF s.state = "WRITE_REGS" THEN Mention(t) ELSE t   \* the register is read-only

\* lm75_warn_upon_invalid_slave(): the transfer is taken apart all the same.
lm75_warn_upon_invalid_slave(s, addr) == IF addr \in \h48 .. \h4f THEN s ELSE Warn(s, addr)

lm75_recv(s, p) ==
    CASE s.state = "IDLE" /\ p.cmd = "START" -> To(s, "GET_SLAVE_ADDR")
      [] s.state = "GET_SLAVE_ADDR" /\ IsAddress(p) ->
            [lm75_warn_upon_invalid_slave(s, p.val) EXCEPT !.databytes = <<>>,
               !.state = IF p.cmd = "ADDRESS READ" THEN "READ_REGS" ELSE "WRITE_REGS"]
      [] s.state \in {"READ_REGS", "WRITE_REGS"} /\ IsData(p) ->
            lm75_handle_temperature_reg(s, p.val)
      [] s.state \in {"READ_REGS", "WRITE_REGS"} /\ p.cmd = "STOP" -> To(s, "IDLE")
      [] OTHER -> s

(***************************************************************************)
(* mlx90614_c.c                                                            *)
(***************************************************************************)
mlx90614_reset == [state |-> "IGNORE_START_REPEAT", data |-> <<>>, rep |-> <<>>]

mlx90614_recv(s, p) ==
    CASE s.state = "IGNORE_START_REPEAT" /\ p.cmd = "START REPEAT" -> To(s, "IGNORE_ADDRESS_READ")
      [] s.state = "IGNORE_ADDRESS_READ" /\ p.cmd = "ADDRESS READ" -> To(s, "GET_TEMPERATURE")
      [] s.state = "GET_TEMPERATURE" /\ p.cmd = "DATA READ" /\ s.data = <<>> ->
            [s EXCEPT !.data = <<p.val>>]
      [] s.state = "GET_TEMPERATURE" /\ p.cmd = "DATA READ" /\ s.data # <<>> ->
            Say([s EXCEPT !.data = <<>>, !.state = "IGNORE_START_REPEAT"], -1, Append(s.data, p.val))
      [] OTHER -> s

(***************************************************************************)
(* tmp102_c.c.  The warning about a foreign address shows the address that *)
(* the decoder has kept, not the one on the bus.                           *)
(***************************************************************************)
tmp102_addressesBug == 0 .. 127

tmp102_addresses == {\h00, \h48, \h49, \h4A, \h4B}   \* tmp102_check_addr()

tmp102_reset == [state |-> "IDLE", addr |-> \h48, reg |-> 0, bytes |-> <<>>, rep |-> <<>>]

tmp102_handle_data(s) ==
    IF Len(s.bytes) = 2 /\ (IF s.addr = 0 THEN s.reg = 6 ELSE s.reg \in 0 .. 3)
    THEN Say(s, s.reg, s.bytes) ELSE s

tmp102_recv(s, p) ==
    CASE s.state = "IDLE" /\ p.cmd = "START" -> [s EXCEPT !.bytes = <<>>, !.state = "ADDRESS_SLAVE"]
      [] s.state = "ADDRESS_SLAVE" /\ IsAddress(p) /\ p.val \in tmp102_addresses ->
            [Mention(s) EXCEPT !.addr = p.val, !.bytes = <<>>,
               !.state = IF p.cmd = "ADDRESS READ" THEN "REGISTER_DATA" ELSE "REGISTER_ADDRESS"]
      [] s.state = "ADDRESS_SLAVE" /\ IsAddress(p) /\ p.val \notin tmp102_addresses ->
            To(Warn(s, s.addr), "IDLE")
      [] s.state = "REGISTER_ADDRESS" /\ IsData(p) ->
            [Mention(s) EXCEPT !.reg = p.val, !.bytes = <<>>, !.state = "REGISTER_DATA"]
      [] s.state = "REGISTER_ADDRESS" /\ p.cmd \in {"STOP", "START REPEAT"} -> To(Mention(s), "IDLE")
      [] s.state = "REGISTER_DATA" /\ IsData(p) -> [s EXCEPT !.bytes = Keep(@, p.val, 2)]
      [] s.state = "REGISTER_DATA" /\ p.cmd = "START REPEAT" ->
            [s EXCEPT !.bytes = <<>>, !.state = "ADDRESS_SLAVE"]
      [] s.state = "REGISTER_DATA" /\ p.cmd = "STOP" ->
            [tmp102_handle_data(s) EXCEPT !.bytes = <<>>, !.state = "IDLE"]
      [] OTHER -> s

(***************************************************************************)
(* bh1750_c.c.  A written byte is a command; what it sets is only shown:   *)
(* with the command, after it, and in the sensitivity that the light is    *)
(* computed with.  The warning shows the kept address, as in tmp102_c.c.   *)
(***************************************************************************)
bh1750_addresses == {\h23, \h5C}

bh1750_reset ==
    [state |-> "IDLE", addr |-> \h23, is_write |-> FALSE, data_bytes |-> <<>>, rep |-> <<>>]

bh1750_handle_dataBug(s) ==
    LET t == [s EXCEPT !.data_bytes = <<>>] IN
    CASE s.is_write -> Mention(t)
      [] ~s.is_write /\ Len(s.data_bytes) >= 2 -> Say(t, -1, <<s.data_bytes[2], s.data_bytes[1]>>)
      [] OTHER -> t

bh1750_handle_data(s) ==
    LET t == [s EXCEPT !.data_bytes = <<>>] IN
    CASE s.is_write -> Mention(t)
      [] ~s.is_write /\ Len(s.data_bytes) >= 2 -> Say(t, -1, SubSeq(s.data_bytes, 1, 2))
      [] OTHER -> t

bh1750_recv(s, p) ==
    CASE s.state = "IDLE" /\ p.cmd = "START" ->
            [s EXCEPT !.state = "ADDRESS_SLAVE", !.data_bytes = <<>>]
      [] s.state = "ADDRESS_SLAVE" /\ IsAddress(p) /\ p.val \in bh1750_addresses ->
            [Mention(s) EXCEPT !.addr = p.val, !.is_write = (p.cmd = "ADDRESS WRITE"),
                               !.state = "REGISTER_ADDRESS"]
      [] s.state = "ADDRESS_SLAVE" /\ IsAddress(p) /\ p.val \notin bh1750_addresses ->
            To(Warn(s, s.addr), "IDLE")
      [] s.state = "REGISTER_ADDRESS" /\ p.cmd = "DATA WRITE" ->
            To(Mention(s), "REGISTER_DATA")
      [] s.state = "REGISTER_ADDRESS" /\ p.cmd = "DATA READ" ->
            [s EXCEPT !.data_bytes = <<p.val>>, !.state = "REGISTER_DATA"]
      [] s.state = "REGISTER_DATA" /\ IsData(p) /\ ~s.is_write ->
            [s EXCEPT !.data_bytes = Keep(@, p.val, 4)]
      [] s.state = "REGISTER_ADDRESS" /\ p.cmd = "START REPEAT" -> To(Mention(s), "ADDRESS_SLAVE")
      [] s.state = "REGISTER_ADDRESS" /\ p.cmd = "STOP" -> To(Mention(s), "IDLE")
      [] s.state = "REGISTER_DATA" /\ p.cmd = "START REPEAT" -> To(bh1750_handle_data(s), "ADDRESS_SLAVE")
      [] s.state = "REGISTER_DATA" /\ p.cmd = "STOP" -> To(bh1750_handle_data(s), "IDLE")
      [] OTHER -> s

(***************************************************************************)
(* tcs3472x_c.c: a state per byte and per acknowledge bit; a packet that   *)
(* does not fit leads back to INITIAL.                                     *)
(***************************************************************************)
tcs3472x_reset ==
    [state |-> "INITIAL", register_id |-> 0, byte_values |-> <<>>, rep |-> <<>>]

tcs3472x_take(s, b, state) == [s EXCEPT !.byte_values = Keep(@, b, 8), !.state = state]

\* tcs3472x_interpret_byte_values() and the assignments after each call.
tcs3472x_interpret(s) ==
    Say([s EXCEPT !.byte_values = <<>>, !.state = "INITIAL"], s.register_id,
        SubSeq(s.byte_values, 1, IF Len(s.byte_values) > 1 THEN 2 ELSE Len(s.byte_values)))

tcs3472x_recv(s, p) ==
    CASE p.cmd = "BITS" \/ (s.state = "INITIAL" /\ p.cmd # "START") -> s
      [] s.state = "INITIAL" /\ p.cmd = "START" -> To(s, "START")
      [] s.state = "START" /\ p.cmd = "ADDRESS WRITE" /\ p.val = \h29 -> To(s, "ADDR_WRITE")
      [] s.state = "START" /\ p.cmd = "ADDRESS READ" /\ p.val = \h29 -> To(s, "ADDR_READ")
      [] s.state = "ADDR_WRITE" /\ p.cmd = "ACK" -> To(s, "ACK_ADDR_WRITE")
      [] s.state = "ACK_ADDR_WRITE" /\ p.cmd = "DATA WRITE" ->
            [s EXCEPT !.register_id = p.val % 64, !.byte_values = <<>>, !.state = "DATA_WRITE_CMD"]
      [] s.state \in {"DATA_WRITE_CMD", "DATA_WRITE"} /\ p.cmd = "ACK" -> To(s, "ACK_DATA_WRITE")
      [] s.state = "ACK_DATA_WRITE" /\ p.cmd = "DATA WRITE" -> tcs3472x_take(s, p.val, "DATA_WRITE")
      [] s.state \in {"ACK_DATA_WRITE", "DATA_READ", "ACK_DATA_READ"} /\ p.cmd = "STOP" ->
            tcs3472x_interpret(s)
      [] s.state = "ADDR_READ" /\ p.cmd = "ACK" -> To(s, "ACK_ADDR_READ")
      [] s.state \in {"ACK_ADDR_READ", "DATA_READ", "ACK_DATA_READ"} /\ p.cmd = "DATA READ" ->
            tcs3472x_take(s, p.val, "DATA_READ")
      [] s.state = "DATA_READ" /\ p.cmd = "ACK" -> To(s, "ACK_DATA_READ")
      [] s.state = "DATA_READ" /\ p.cmd = "NACK" -> s
      [] OTHER -> To(s, "INITIAL")

(***************************************************************************)
(* mpu6050_c.c.  Only the data registers 0x3b to 0x48 advance the pointer. *)
(***************************************************************************)
mpu6050_reset == [state |-> "IDLE", reg |-> 0, rep |-> <<>>]

mpu6050_handle_reg_data(s, b) == [Say(s, s.reg, <<b>>) EXCEPT !.reg = @ + 1]

mpu6050_handle_reg_control(s, b) == Say(s, s.reg, <<b>>)

mpu6050_handle_reg(s, b) ==
    IF s.reg \in \h3b .. \h48 THEN mpu6050_handle_reg_data(s, b) ELSE mpu6050_handle_reg_control(s, b)

mpu6050_recv(s, p) ==
    CASE s.state = "IDLE" /\ p.cmd = "START" -> To(s, "GET_SLAVE_ADDR")
      [] s.state = "GET_SLAVE_ADDR" /\ IsAddress(p) /\ p.val = \h68 -> To(s, "GET_REG_ADDR")
      [] s.state = "GET_SLAVE_ADDR" /\ IsAddress(p) /\ p.val # \h68 ->
            To(IF p.val = \h7F THEN s ELSE Warn(s, p.val), "IDLE")
      [] s.state = "GET_REG_ADDR" /\ p.cmd = "DATA WRITE" ->
            [s EXCEPT !.reg = p.val, !.state = "WRITE_REGS"]
      [] s.state = "GET_REG_ADDR" /\ p.cmd = "DATA READ" -> mpu6050_handle_reg(s, p.val)
      [] s.state = "WRITE_REGS" /\ p.cmd = "DATA WRITE" -> mpu6050_handle_reg(s, p.val)
      [] s.state \in {"GET_REG_ADDR", "WRITE_REGS"} /\ p.cmd = "START REPEAT" -> To(s, "GET_SLAVE_ADDR")
      [] s.state \in {"GET_REG_ADDR", "WRITE_REGS"} /\ p.cmd = "STOP" -> To(s, "IDLE")
      [] OTHER -> s

(***************************************************************************)
(* nunchuk_c.c.  set holds the registers read since the last STOP; the     *)
(* summary needs all six.  The register pointer starts over after register *)
(* 5, not at STOP.                                                         *)
(***************************************************************************)
nunchuk_reset == [state |-> "IDLE", reg |-> 0, set |-> {}, init_seq |-> <<>>, rep |-> <<>>]

nunchuk_handle_reg(s, b) ==
    [Say(s, s.reg, <<b>>) EXCEPT !.set = @ \cup {s.reg}, !.reg = (@ + 1) % 6]

nunchuk_recv(s, p) ==
    CASE s.state = "IDLE" /\ p.cmd = "START" -> To(s, "GET_SLAVE_ADDR")
      [] s.state = "GET_SLAVE_ADDR" /\ p.cmd = "ADDRESS READ" -> To(s, "READ_REGS")
      [] s.state = "GET_SLAVE_ADDR" /\ p.cmd = "ADDRESS WRITE" -> To(s, "WRITE_REGS")
      [] s.state = "READ_REGS" /\ p.cmd = "DATA READ" -> nunchuk_handle_reg(s, p.val)
      [] s.state = "READ_REGS" /\ p.cmd = "STOP" -> [s EXCEPT !.set = {}, !.state = "IDLE"]
      [] s.state = "WRITE_REGS" /\ p.cmd = "DATA WRITE" -> [s EXCEPT !.init_seq = Keep(@, p.val, 2)]
      [] s.state = "WRITE_REGS" /\ p.cmd = "STOP" ->
            [Say(s, -1, s.init_seq) EXCEPT !.init_seq = <<>>, !.state = "IDLE"]
      [] OTHER -> s

(***************************************************************************)
(* mxc6225xu_c.c                                                           *)
(***************************************************************************)
mxc6225xu_reset == [state |-> "IDLE", reg |-> 0, rep |-> <<>>]

mxc6225xu_handle_reg(s, b) ==
    [(IF s.reg \in 0 .. 3 THEN Say(s, s.reg, <<b>>) ELSE s) EXCEPT !.reg = @ + 1]

mxc6225xu_recv(s, p) ==
    CASE s.state = "IDLE" /\ p.cmd = "START" -> To(s, "GET_SLAVE_ADDR")
      [] s.state = "GET_SLAVE_ADDR" /\ p.cmd = "ADDRESS WRITE" ->
            IF p.val = \h2A THEN To(s, "GET_REG_ADDR") ELSE To(Warn(s, p.val), "IDLE")
      [] s.state = "GET_REG_ADDR" /\ p.cmd = "DATA WRITE" -> [s EXCEPT !.reg = p.val, !.state = "WRITE_REGS"]
      [] s.state = "WRITE_REGS" /\ p.cmd = "START REPEAT" -> To(s, "READ_REGS")
      [] s.state = "READ_REGS" /\ p.cmd = "ADDRESS READ" ->
            IF p.val = \h2A THEN To(s, "READ_REGS2") ELSE To(Warn(s, p.val), "IDLE")
      [] \/ s.state = "WRITE_REGS" /\ p.cmd = "DATA WRITE"
         \/ s.state = "READ_REGS2" /\ p.cmd = "DATA READ" -> mxc6225xu_handle_reg(s, p.val)
      [] s.state \in {"WRITE_REGS", "READ_REGS2"} /\ p.cmd = "STOP" -> To(s, "IDLE")
      [] OTHER -> s
=============================================================================
