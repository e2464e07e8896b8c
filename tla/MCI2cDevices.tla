---------------------------- MODULE MCI2cDevices ----------------------------
(***************************************************************************)
(* Every stacked decoder with its own address, a foreign one, and bytes    *)
(* that its state machine tells apart.                                     *)
(***************************************************************************)
EXTENDS I2cDevices

AllUppers ==
    {"lm75", "mlx90614", "tmp102", "bh1750", "tcs3472x", "mpu6050", "nunchuk",
     "mxc6225xu", "ds1307", "ds3231", "rtc8564", "pca9571", "tca6408a", "ad5593r",
     "ltc26x7", "hdcp", "hdmi_scdc", "tpm_tis_i2c", "st25dv", "atsha204a",
     "ssd1306", "eeprom24xx", "xfp", "edid", "i2c_packet", "i2cdemux", "i2cfilter", "i2cfilter_read"}

Clock == {"ds3231"}

Addresses(u) == {\h10, IF Own(u) = 0 .. 127 THEN \h68 ELSE CHOOSE a \in Own(u) : a # 0}

\* The memories hold one image; the host asks for offset 0 or 128.
EdidImage == [i \in 0 .. 127 |-> IF i \in {0, 7} THEN 0 ELSE IF i < 8 THEN \hff ELSE 20]

\* A date of the DS1307 takes its seven registers; the ones of the DS3231 are
\* its alarms and its temperature.
Values(u, n) ==
    CASE u = "ds1307" -> IF n = 0 THEN {0, \h3f} ELSE {1}
      [] u = "ds3231" -> IF n = 0 THEN {3, 10, \h12} ELSE {1}
      [] u = "mpu6050" -> {\h3b, \h48}
      [] u = "hdcp" -> {\h10, \h20}       [] u = "hdmi_scdc" -> {\h51, \h10}
      [] u = "atsha204a" -> {2, 3}        [] u = "ssd1306" -> {\h80, \h21}
      [] u = "st25dv" -> {0, \h20}        [] u = "nunchuk" -> {0, 1}
      [] u = "xfp" -> {1}
      [] u = "edid" -> IF n = 0 THEN {128} ELSE {20}
      [] OTHER -> {0, 1}

Longest(u, x) ==
    CASE u \in {"ltc26x7", "atsha204a", "ssd1306", "tpm_tis_i2c", "eeprom24xx"} -> 3
      [] u \in {"i2cdemux", "i2cfilter", "i2cfilter_read"} -> 1
      [] u = "xfp" -> IF Last(x).w = 1 THEN 1 ELSE 257
      [] u = "edid" -> IF Last(x).w = 1 \/ Len(x) = 1 THEN 1 ELSE 129
      [] u = "ds1307" -> IF Last(x).a # \h68 THEN 1 ELSE IF Len(x) = 1 THEN 8 ELSE 2
      [] OTHER -> 2

Parts(u) == IF u = "xfp" THEN 1 ELSE 2

Pointers == {0}

\* The monitor's first block.
Monitor == {"edid"}
Block(u, n) == {EdidImage[n]}
LongestBlock(u, x) == 20
=============================================================================
