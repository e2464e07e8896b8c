----------------------------- MODULE CardBuses -----------------------------
(***************************************************************************)
(* Decoders of memory card buses: sdcard_sd, emmc_sd and sdio of           *)
(* c_decoders/.  An event is a sampling edge of the clock with the level   *)
(* of CMD in e.cmd and (sdio) those of DAT0 to DAT3 in e.dat.              *)
(*                                                                         *)
(* A token is a sequence of bits, the start bit first.  Reports show the   *)
(* index of the command and the bytes of its argument; the fields of the   *)
(* registers that are only named are left out.                             *)
(***************************************************************************)
EXTENDS Wires

sd_index(token) == Num(SubSeq(token, 3, 8))
sd_arg(token) == Octets(SubSeq(token, 9, 40))

(***************************************************************************)
(* sdcard_sd_c.c.  n is the number of a HANDLE state: 1 + cmd for CMD0 to  *)
(* CMD63, 65 + cmd for ACMD0 to ACMD63.  The states for commands without   *)
(* a handler of their own, 64 and 128, are those of index 63.              *)
(***************************************************************************)
sdcard_sd_MAX_TOKEN_BITS == 136

sdcard_sd_reset ==
    [state |-> "GET_COMMAND_TOKEN", n |-> 0, token |-> <<>>, is_acmd |-> FALSE, cmd |-> 0,
     last_cmd |-> <<>>, rep |-> <<>>]

sdcard_sd_get_token_bits(s, e) ==
    [s EXCEPT !.token = Keep(@, e.cmd, sdcard_sd_MAX_TOKEN_BITS)]

sdcard_sd_is_from_host(s) == s.token[2] = 1
sdcard_sd_is_from_card(s) == s.token[2] = 0

sdcard_sd_handle_common_token_fields(s) == [s EXCEPT !.cmd = sd_index(s.token)]

sdcard_sd_putc(s) ==
    LET name == IF s.is_acmd THEN "ACMD" ELSE "CMD" IN
    [Say(s, name, <<s.cmd>> \o sd_arg(s.token)) EXCEPT !.last_cmd = <<name, s.cmd>>]

sdcard_sd_putr(s, name) == Say(s, name, sd_arg(s.token))

sdcard_sd_own_handler == {0, 2, 3, 6, 7, 8, 9, 10, 13, 16, 55}
sdcard_sd_own_acmd_handler == {6, 13, 41, 51}

sdcard_sd_handle_cmd(s) ==
    LET t == [sdcard_sd_handle_common_token_fields(s) EXCEPT !.state = "HANDLE"]
        own == t.cmd \in sdcard_sd_own_handler
    IN  CASE own -> [t EXCEPT !.n = 1 + t.cmd]
          [] ~own /\ s.is_acmd /\ t.cmd \in sdcard_sd_own_acmd_handler -> [t EXCEPT !.n = 65 + t.cmd]
          [] ~own /\ s.is_acmd /\ t.cmd \notin sdcard_sd_own_acmd_handler ->
                [sdcard_sd_putc(t) EXCEPT !.n = 128]
          [] OTHER -> [sdcard_sd_putc(t) EXCEPT !.n = 64]

\* The response that a command waits for.
sdcard_sd_response(acmd, index) ==
    CASE ~acmd /\ index = 0 -> "GET_COMMAND_TOKEN"
      [] ~acmd /\ index \in {2, 9, 10} -> "R2"
      [] ~acmd /\ index \in {3, 7} -> "R6"
      [] ~acmd /\ index = 8 -> "R7"
      [] acmd /\ index = 41 -> "R3"
      [] OTHER -> "R1"

\* The next clock edge after the token: the command is shown, unless it was
\* shown with the token, and the command after CMD55 ends ACMD mode.
sdcard_sd_handle(s) ==
    LET acmd == s.n >= 65
        index == (s.n - 1) % 64
        t == IF index = 63 THEN s ELSE sdcard_sd_putc(s)
    IN  [t EXCEPT !.token = <<>>,
                  !.state = sdcard_sd_response(acmd, index),
                  !.is_acmd = IF index = 63 THEN @ ELSE ~acmd /\ index = 55]

sdcard_sd_get_command_token(s) ==
    IF Len(s.token) < 48 THEN s
    ELSE IF ~sdcard_sd_is_from_host(s) THEN [s EXCEPT !.token = <<>>]
    ELSE sdcard_sd_handle_cmd(s)

sdcard_sd_done(s) == [s EXCEPT !.token = <<>>, !.state = "GET_COMMAND_TOKEN"]

\* R1, R6 and R7.  A command in place of the response is handled as such.
sdcard_sd_handle_response(s) ==
    IF Len(s.token) < 48 THEN s
    ELSE IF ~sdcard_sd_is_from_card(s) THEN sdcard_sd_handle_cmd(s)
    ELSE sdcard_sd_done(sdcard_sd_putr(sdcard_sd_handle_common_token_fields(s), s.state))

sdcard_sd_handle_response_r2(s) ==
    LET register == CASE s.last_cmd \in {<<"CMD", 2>>, <<"CMD", 10>>} -> "CID"
                      [] s.last_cmd = <<"CMD", 9>> -> "CSD"
                      [] OTHER -> "R2"
    IN  IF Len(s.token) < 136 THEN s
        ELSE sdcard_sd_done(Say(s, register, Octets(SubSeq(s.token, 9, 136))))

sdcard_sd_handle_response_r3(s) ==
    IF Len(s.token) < 48 THEN s ELSE sdcard_sd_done(sdcard_sd_putr(s, "R3"))

sdcard_sd_step(s, e) ==
    LET t == sdcard_sd_get_token_bits(s, e) IN
    CASE s.state = "HANDLE" -> sdcard_sd_handle(s)
      [] s.state # "HANDLE" /\ s.token = <<>> /\ e.cmd = 1 -> s
      [] OTHER ->
            CASE s.state = "GET_COMMAND_TOKEN" -> sdcard_sd_get_command_token(t)
              [] s.state \in {"R1", "R6", "R7"} -> sdcard_sd_handle_response(t)
              [] s.state = "R2" -> sdcard_sd_handle_response_r2(t)
              [] s.state = "R3" -> sdcard_sd_handle_response_r3(t)

(***************************************************************************)
(* emmc_sd_c.c.  Tokens are taken for commands whoever sends them, R4 and  *)
(* R5 end before the token does, and are too short to be shown.            *)
(***************************************************************************)
emmc_reset == [state |-> "GET_COMMAND_TOKEN", cmd |-> 0, token |-> <<>>, rep |-> <<>>]

emmc_get_token_bits(s, e) == [s EXCEPT !.token = Keep(@, e.cmd, 136)]

emmc_putt(s, name, values) == IF Len(s.token) < 48 THEN s ELSE Say(s, name, values)
emmc_putc(s) == emmc_putt(s, "CMD", <<s.cmd>> \o sd_arg(s.token))
emmc_putr(s, name) == emmc_putt(s, name, sd_arg(s.token))

emmc_handle_common_token_fields(s) ==
    [s EXCEPT !.cmd = IF Len(s.token) >= 8 THEN sd_index(s.token) ELSE 0]

emmc_own_handler ==
    (0 .. 10) \cup (12 .. 19) \cup (23 .. 31) \cup (44 .. 49) \cup (53 .. 56)
    \cup {21, 35, 36, 38, 39, 40, 42}

emmc_get_command_token(s) ==
    LET t == [emmc_handle_common_token_fields(s) EXCEPT !.state = "HANDLE"] IN
    IF Len(s.token) < 48 THEN s
    ELSE IF t.cmd \in emmc_own_handler THEN t ELSE emmc_putc(t)

emmc_response(cmd) ==
    CASE cmd \in {0, 4, 15} -> "GET_COMMAND_TOKEN"
      [] cmd = 1 -> "R3"
      [] cmd \in {2, 9, 10} -> "R2"
      [] cmd \in {5, 6, 7, 28, 29, 38, 48} -> "R1b"
      [] cmd = 39 -> "R4"
      [] cmd = 40 -> "R5"
      [] OTHER -> "R1"

emmc_handle_cmd(s) ==
    [(IF s.cmd \in emmc_own_handler THEN emmc_putc(s) ELSE s) EXCEPT
        !.token = <<>>, !.state = emmc_response(s.cmd)]

emmc_response_length(r) == CASE r = "R2" -> 136 [] r = "R4" -> 39 [] r = "R5" -> 40 [] OTHER -> 48

emmc_handle_response(s) ==
    LET t == IF s.state \in {"R2", "R3"} THEN s ELSE emmc_handle_common_token_fields(s)
        shown == IF s.state = "R2" THEN Say(t, "R2", Octets(SubSeq(s.token, 9, 136)))
                 ELSE emmc_putr(t, s.state)
    IN  IF Len(s.token) < emmc_response_length(s.state) THEN s
        ELSE [shown EXCEPT !.token = <<>>, !.state = "GET_COMMAND_TOKEN"]

emmc_step(s, e) ==
    LET t == emmc_get_token_bits(s, e) IN
    CASE s.state = "HANDLE" -> emmc_handle_cmd(s)
      [] s.state # "HANDLE" /\ s.token = <<>> /\ e.cmd = 1 -> s
      [] s.state = "GET_COMMAND_TOKEN" /\ ~(s.token = <<>> /\ e.cmd = 1) -> emmc_get_command_token(t)
      [] OTHER -> emmc_handle_response(t)

(***************************************************************************)
(* sdio_c.c, with one or four data lines.  The data lines have a state     *)
(* machine of their own, which each command sets anew.  The first sample   *)
(* of the data is the start bit.                                           *)
(***************************************************************************)
sdio_MAX_DATA_RECV == 8192

sdio_reset ==
    [state |-> "GET_COMMAND_TOKEN", token |-> <<>>, is_acmd |-> FALSE, cmd |-> 0,
     data_state |-> "IDLE", bytes_required |-> 512, crc_resp |-> FALSE, recv |-> <<>>,
     four_line |-> TRUE, io_block_len |-> 512, rep |-> <<>>]

RECURSIVE crc7(_, _)
crc7(bits, crc) ==
    IF bits = <<>> THEN crc
    ELSE LET di == Head(bits) ^^ (crc \div 64)
             high == (crc % 8) + 2 * ((crc \div 8) % 8) * 8 + 8 * (di ^^ ((crc \div 4) % 2))
         IN  crc7(Tail(bits), ((high % 128) \div 8) * 8 + 2 * (high % 4) + di)

sdio_get_token_bits(s, e) == [s EXCEPT !.token = Append(@, e.cmd)]

sdio_handle_common_token_fields(s) ==
    LET t == [s EXCEPT !.cmd = sd_index(s.token)] IN
    IF crc7(SubSeq(s.token, 1, 40), 0) = Num(SubSeq(s.token, 41, 47)) THEN t ELSE Say(t, "CRC Error", <<>>)

sdio_is_pending(s, e) == IF s.four_line THEN e.dat = 15 ELSE e.dat % 2 = 1

sdio_take(s, e) == [s EXCEPT !.recv = Keep(@, e.dat, sdio_MAX_DATA_RECV)]

sdio_get_data_start(s, e) ==
    IF s.recv = <<>>
    THEN IF sdio_is_pending(s, e) THEN s ELSE [s EXCEPT !.recv = <<e.dat>>]
    ELSE [sdio_take(s, e) EXCEPT !.data_state = "DATA"]

sdio_data_value(s, i) ==      \* byte i of the data, counted from 0
    IF s.four_line THEN 16 * s.recv[2 * i + 1] + s.recv[2 * i + 2]
    ELSE Num([j \in 1 .. 8 |-> s.recv[8 * i + j] % 2])

sdio_get_data_bytes(s, e) ==
    LET t == sdio_take(s, e)
        n == s.bytes_required
        samples_required == IF s.four_line THEN 2 * n ELSE 8 * n
    IN  IF Len(t.recv) <= samples_required THEN t
        ELSE [Say(t, "DATA", [i \in 1 .. n |-> sdio_data_value(t, i - 1)]) EXCEPT
                !.data_state = "CRC", !.recv = <<e.dat>>]

sdio_get_crc_bytes(s, e) ==
    LET t == sdio_take(s, e) IN
    IF Len(t.recv) <= 17 THEN t
    ELSE IF s.crc_resp THEN [t EXCEPT !.data_state = "CARD_BUSY", !.recv = <<Head(@)>>]
    ELSE [t EXCEPT !.data_state = "IDLE", !.recv = <<>>]

sdio_wait_card_busy(s, e) ==
    IF e.dat % 2 = 0 THEN s ELSE [Say(s, "BUSY", <<>>) EXCEPT !.data_state = "IDLE", !.recv = <<>>]

sdio_data_step(s, e) ==
    CASE s.data_state \in {"IDLE", "WAIT_FOR_START"} -> sdio_get_data_start(s, e)
      [] s.data_state = "DATA" -> sdio_get_data_bytes(s, e)
      [] s.data_state = "CRC" -> sdio_get_crc_bytes(s, e)
      [] s.data_state = "CARD_BUSY" -> sdio_wait_card_busy(s, e)

sdio_response(cmd, is_acmd) ==
    CASE cmd = 0 -> "GET_COMMAND_TOKEN"
      [] cmd \in {2, 9, 10} -> "R2"
      [] cmd = 3 -> "R6"
      [] cmd = 5 -> "R4"
      [] cmd = 7 -> "R1b"
      [] cmd = 8 -> "R7"
      [] cmd \in {52, 53} -> "R5"
      [] cmd = 41 /\ is_acmd -> "R3"
      [] OTHER -> "R1"

\* Bits 0 to 8 of the argument count bytes, bit 27 makes them blocks, bit 31
\* is set for a write.
sdio_bytes_required(s) ==
    CASE s.cmd = 53 -> IF s.token[13] = 1 THEN s.io_block_len ELSE Num(SubSeq(s.token, 32, 40))
      [] s.cmd = 51 /\ s.is_acmd -> 8
      [] OTHER -> 4

sdio_handle_cmd(s) ==
    LET t == sdio_handle_common_token_fields(s)
        u == Say(t, IF s.is_acmd THEN "ACMD" ELSE "CMD", <<t.cmd>> \o sd_arg(s.token))
    IN  [u EXCEPT !.data_state = "WAIT_FOR_START", !.recv = <<>>,
                  !.bytes_required = sdio_bytes_required(t),
                  !.crc_resp = t.cmd = 53 /\ s.token[9] = 1,
                  !.token = <<>>, !.state = sdio_response(t.cmd, s.is_acmd),
                  !.is_acmd = t.cmd = 55 \/ (s.is_acmd /\ t.cmd = 63)]

sdio_get_command_token(s, e) ==
    LET t == sdio_get_token_bits(s, e) IN
    IF s.token = <<>> /\ e.cmd = 1 THEN s
    ELSE IF Len(t.token) < 48 THEN t ELSE sdio_handle_cmd(t)

sdio_handle_response(s) ==
    LET t == IF s.state \in {"R2", "R3", "R4"} THEN s ELSE sdio_handle_common_token_fields(s)
        shown == Say(t, s.state, IF s.state = "R2" THEN Octets(SubSeq(s.token, 9, 136)) ELSE sd_arg(s.token))
    IN  IF Len(s.token) < (IF s.state = "R2" THEN 136 ELSE 48) THEN s
        ELSE [shown EXCEPT !.token = <<>>, !.state = "GET_COMMAND_TOKEN"]

\* The first two bits tell a command from a response.
sdio_get_response(s, e) ==
    LET t == sdio_get_token_bits(s, e) IN
    CASE s.token = <<>> -> IF e.cmd = 1 THEN s ELSE t
      [] Len(s.token) = 1 ->
            IF e.cmd = 1 THEN [s EXCEPT !.state = "GET_COMMAND_TOKEN", !.token = <<>>] ELSE t
      [] OTHER -> sdio_handle_response(t)

sdio_step(s, e) ==
    LET t == sdio_data_step(s, e) IN
    IF s.state = "GET_COMMAND_TOKEN" THEN sdio_get_command_token(t, e) ELSE sdio_get_response(t, e)
=============================================================================
