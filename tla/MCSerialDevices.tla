-------------------------- MODULE MCSerialDevices --------------------------
(***************************************************************************)
(* Every stacked decoder with bytes that its state machine tells apart,    *)
(* and one correct frame that is made of them.                             *)
(***************************************************************************)
EXTENDS SerialDevices

AllUppers ==
    {"modbus", "midi", "boost", "lin", "j1708", "scs", "streletz", "bluetooth_h4", "pn532",
     "ufcs", "crsf", "pan1321", "arm_itm", "arm_etmv3", "arm_tpiu", "sbus", "amulet"}

InUse(u) ==
    IF u \in {"boost", "bluetooth_h4", "pan1321", "streletz", "j1708", "modbus"} THEN {0, 1} ELSE {0}

ModbusCrc == modbus_crc(<<1, 129, 1>>)

Bytes(u) ==
    CASE u = "modbus" -> {1, 129} \cup {ModbusCrc % 256, ModbusCrc \div 256}
      [] u = "midi" -> {\h90, \h40, \hF8, \hF1, \hF7}
      [] u = "boost" -> {\h46, 0, \hB9}
      [] u = "lin" -> {0, \h55, \h80, \h7F}
      [] u = "j1708" -> {1, 255}
      [] u = "scs" -> {\hA8, 1}
      [] u = "streletz" -> {\h9D, \hD9, 0, 1, \h9C}
      [] u = "bluetooth_h4" -> {1, 4, 9}
      [] u = "pn532" -> {0, \hFF, 2, \hFE, \hD4, \h2A}
      [] u = "ufcs" -> {\hAA, 0, 1}
      [] u = "crsf" -> {\hC8, 3, \h10}
      [] u = "pan1321" -> {65, 13, 10}
      [] u = "arm_itm" -> {0, \h80, 1, \h90}
      [] u = "arm_etmv3" -> {0, \h80, \h81, 8, 1}
      [] u = "arm_tpiu" -> {3, \hFF}
      [] u = "sbus" -> {1, 0}
      [] u = "amulet" -> {\hD4, \hDF, \h30, 0, \hF0}

NoiseBytes(u) ==
    CASE u = "j1708" -> 5
      [] u \in {"midi", "arm_itm", "scs", "ufcs", "crsf"} -> 3
      [] u \in {"modbus", "sbus"} -> 1
      [] OTHER -> 2

\* A data message of two bytes, as long as its type says.
UfcsWatchdog == LET packet == <<0, 1, 8, 2, 5, 6>> IN <<\hAA>> \o Append(packet, ufcs_compute_crc8(packet))

RequestCrc == modbus_crc(<<1, 17>>)

Frames(u, l) ==
    CASE u = "modbus" -> {IF l = 0 THEN <<1, 129, 1, ModbusCrc % 256, ModbusCrc \div 256>>
                                   ELSE <<1, 17, RequestCrc % 256, RequestCrc \div 256>>}
      [] u = "midi" -> {<<\h90, \h40, \h40>>, <<\h90, \hF8, \h40, \h40>>, <<\hF1, \h40>>}
      [] u = "boost" -> {<<\h46, 0, \hB9>>}
      [] u = "lin" -> {<<\h55, \h80, 0, 0, \h7F>>}
      [] u = "sbus" -> {[i \in 1 .. 25 |-> 1]}
      [] u = "scs" -> {<<\hA8, 1, 1, 1, 1, 0>>}
      [] u = "streletz" -> IF l = 0 THEN {<<\h9D, 0, 1, \h9C>>} ELSE {}
      [] u = "bluetooth_h4" -> {<<4, 9, 1, 9>>}
      [] u = "pn532" -> {<<0, 0, \hFF, 2, \hFE, \hD4, 2, \h2A>>}
      [] u = "ufcs" -> {<<\hAA, 0, 0, 0, 0>>, UfcsWatchdog}
      [] u = "arm_tpiu" -> {[i \in 1 .. 16 |-> 3]}
      [] u = "crsf" -> {<<\hC8, 3, \h10, 3, 3>>}
      [] u = "pan1321" -> {<<65, 13, 10>>}
      [] u = "arm_itm" -> {<<1, \h80>>, <<3, 0, 0, 0, 0>>, arm_itm_sync}
      [] u = "arm_etmv3" -> {<<8, 1, 1, 1, 1, 1>>, <<\h81, 1>>, arm_etmv3_sync}
      [] u = "amulet" -> {<<\hD4, \h30, \h30, 0>>}
      [] OTHER -> {}

Stops(u) == IF u \in {"lin", "sbus", "j1708"} THEN BOOLEAN ELSE {TRUE}

Futaba == {"sbus"}
Messages(u, l) == {[i \in 1 .. 25 |-> IF i = 25 THEN 0 ELSE 1]}
Valid(u) == {TRUE}
=============================================================================
