-------------------------- MODULE CatalogueLogicA ---------------------------
(***************************************************************************)
(* What the C decoders declare: decoders of logic samples, ac97 to         *)
(* opentherm.                                                              *)
(* Per decoder the tables of its file, the options its start() reads, and  *)
(* the descriptor that srd_c_decoder_entry returns; at the end of a part   *)
(* the set of its descriptors.  Declared explains the definitions.         *)
(***************************************************************************)
EXTENDS Declared

-----------------------------------------------------------------------------
(* Decoders of logic samples, ac97 to eth_an                               *)
ac97_tables ==
    Tables(<< <<"sync", 0>>, <<"clk", 1>> >>,
           << <<"out", 2>>, <<"in", 3>>, <<"rst", 4>> >>, <<>>, 32,
           << <<"bits-out", <<0, -1>>, 1>>,
              <<"slots-out-raw", <<2, -1>>, 1>>,
              <<"slots-out", R(3, 15) \o <<-1>>, 13>>,
              <<"bits-in", <<1, -1>>, 1>>, <<"slots-in-raw", <<16, -1>>, 1>>,
              <<"slots-in", R(17, 29) \o <<-1>>, 13>>,
              <<"warnings", <<30, -1>>, 1>>, <<"errors", <<31, -1>>, 1>> >>,
           <<"logic">>, <<>>,
           <<"frame-out", "frame-in", "slot-raw-out", "slot-raw-in">>,
           <<"Audio", "PC">>)
ac97_c_decoder ==
    Descriptor("ac97_c", ac97_tables, <<2, 3, 0, 32, 8, 1, 0, 4, 2>>, <<>>,
               <<>>)

adat_tables ==
    Tables(<< <<"adat", 0>> >>, <<>>,
           <<"samplerate", "sample_display", "annotations">>, 15,
           << <<"bits", <<0, -1>>, 1>>, <<"nibbles", <<3, 4, -1>>, 2>>,
              <<"fields", <<1, 2, 5, -1>>, 3>>,
              <<"user-data", <<6, -1>>, 1>>, <<"channel0", <<7, -1>>, 1>>,
              <<"channel1", <<8, -1>>, 1>>, <<"channel2", <<9, -1>>, 1>>,
              <<"channel3", <<10, -1>>, 1>>, <<"channel4", <<11, -1>>, 1>>,
              <<"channel5", <<12, -1>>, 1>>, <<"channel6", <<13, -1>>, 1>>,
              <<"channel7", <<14, -1>>, 1>> >>, <<"logic">>, <<>>, <<>>,
           <<"Audio">>)
adat_reads ==
    Reads(<< <<"int", "samplerate", "48000">>,
             <<"str", "sample_display", "decimal">>,
             <<"str", "annotations", "both">> >>)
adat_c_decoder ==
    Descriptor("adat_c", adat_tables, <<1, 0, 3, 15, 12, 1, 0, 0, 1>>,
               << <<"int64", "48000">>, <<"string", "decimal">>,
                  <<"string", "both">> >>, adat_reads)

adb_tables ==
    Tables(<< <<"data", 0>> >>, <<>>, <<"format">>, 14,
           << <<"cells", R(0, 3) \o <<8>>, 5>>, <<"bits", <<4, 6, 7>>, 3>>,
              <<"bytes", <<5>> \o R(9, 13), 6>> >>, <<"logic">>, <<>>, <<>>,
           <<"PC">>)
adb_reads ==
    Reads(<< <<"str", "format", "hex">> >>)
adb_c_decoder ==
    Descriptor("adb_c", adb_tables, <<1, 0, 1, 14, 3, 1, 0, 0, 1>>, <<>>,
               adb_reads)

afsk_tables ==
    Tables(<< <<"afsk", 0>> >>, <<>>,
           <<"markfreq", "spacefreq", "marginpct">>, 3,
           << <<"raw-bits", <<0>>, 1>>, <<"errors", <<1, 2>>, 2>> >>,
           <<"logic">>, <<"afsk_bits">>, <<>>, <<"Embedded/industrial">>)
afsk_reads ==
    Reads(<< <<"int", "markfreq", "2000">>, <<"int", "spacefreq", "4000">>,
             <<"int", "marginpct", "40">> >>)
afsk_c_decoder ==
    Descriptor("afsk_c", afsk_tables, <<1, 0, 3, 3, 2, 1, 1, 0, 1>>,
               << <<"int32", "2000">>, <<"int32", "4000">>,
                  <<"int32", "40">> >>, afsk_reads)

am230x_tables ==
    Tables(<< <<"sda", 0>> >>, <<>>, <<"device">>, 8,
           << <<"bits", R(0, 3), 4>>, <<"bytes", <<4>>, 1>>,
              <<"results", <<5, 6, 7>>, 3>> >>, <<"logic">>, <<>>, <<>>,
           <<"IC", "Sensor">>)
am230x_reads ==
    Reads(<< <<"str", "device", "am230x">> >>)
am230x_c_decoder ==
    Descriptor("am230x_c", am230x_tables, <<1, 0, 1, 8, 3, 1, 0, 0, 2>>,
               <<>>, am230x_reads)

aud_tables ==
    Tables(<< <<"audck", 0>>, <<"naudsync", 1>>, <<"audata3", 2>>,
              <<"audata2", 3>>, <<"audata1", 4>>, <<"audata0", 5>> >>, <<>>,
           <<>>, 1, << <<"addresses", <<0, -1>>, 1>> >>, <<"logic">>, <<>>,
           <<>>, <<"Debug/trace">>)
aud_c_decoder ==
    Descriptor("aud_c", aud_tables, <<6, 0, 0, 1, 1, 1, 0, 0, 1>>, <<>>,
               <<>>)

avr_pdi_tables ==
    Tables(<< <<"reset", 0>>, <<"data", 1>> >>, <<>>, <<>>, 15,
           << <<"uart_bits", <<0, -1>>, 1>>,
              <<"uart_fields", R(1, 7) \o <<-1>>, 7>>,
              <<"pdi_fields", R(8, 11) \o <<-1>>, 4>>,
              <<"pdi_cmds", <<12, 13, 14, -1>>, 3>> >>, <<"logic">>, <<>>,
           <<"bytes">>, <<"Debug/trace">>)
avr_pdi_c_decoder ==
    Descriptor("avr_pdi_c", avr_pdi_tables, <<2, 0, 0, 15, 4, 1, 0, 1, 1>>,
               <<>>, <<>>)

bean_tables ==
    Tables(<< <<"data", 0>> >>, <<>>,
           <<"bit_annotations", "pulse_len", "command", "all byte">>, 9,
           << <<"bits", <<0, 1, -1>>, 2>>, <<"bits_ann", <<2, -1>>, 1>>,
              <<"bytes", <<3, -1>>, 1>>, <<"frames", <<4, 5, -1>>, 2>>,
              <<"pulse_widths", <<6, -1>>, 1>>, <<"command", <<7, -1>>, 1>>,
              <<"All_byte", <<8, -1>>, 1>> >>, <<"logic">>, <<>>, <<>>,
           <<"Embedded/industrial">>)
bean_reads ==
    Reads(<< <<"str", "bit_annotations", "none">>,
             <<"str", "pulse_len", "none">>, <<"str", "command", "yes">>,
             <<"str", "all byte", "yes">> >>)
bean_c_decoder ==
    Descriptor("bean_c", bean_tables, <<1, 0, 4, 9, 7, 1, 0, 0, 1>>,
               << <<"string", "none">>, <<"string", "none">>,
                  <<"string", "yes">>, <<"string", "yes">> >>, bean_reads)

c2_tables ==
    Tables(<< <<"c2ck", 0>>, <<"c2d", 1>> >>, <<>>, <<>>, 3,
           << <<"raw-Data", <<0, -1>>, 1>>, <<"c2-data", <<1, -1>>, 1>>,
              <<"warnings", <<2, -1>>, 1>> >>, <<"logic">>, <<"C2">>, <<>>,
           <<"Embedded/mcu">>)
c2_c_decoder ==
    Descriptor("c2_c", c2_tables, <<2, 0, 0, 3, 3, 1, 1, 0, 1>>, <<>>, <<>>)

caliper_tables ==
    Tables(<< <<"clk", 0>>, <<"data", 1>> >>, <<>>,
           <<"timeout_ms", "unit", "changes">>, 2,
           << <<"measurements", <<0>>, 1>>, <<"warnings", <<1>>, 1>> >>,
           <<"logic">>, <<>>, <<>>, <<"Analog/digital", "Sensor">>)
caliper_reads ==
    Reads(<< <<"int", "timeout_ms", "10">>, <<"str", "unit", "keep">>,
             <<"str", "changes", "no">> >>)
caliper_c_decoder ==
    Descriptor("caliper_c", caliper_tables, <<2, 0, 3, 2, 2, 1, 0, 0, 2>>,
               <<>>, caliper_reads)

can_tables ==
    Tables(<< <<"can_rx", 0>> >>, <<>>, <<"bitrate", "sample_point">>, 18,
           << <<"bits", <<15, 17>>, 2>>, <<"fields", R(0, 14), 15>>,
              <<"warnings", <<16>>, 1>> >>, <<"logic">>, <<"can">>, <<>>,
           <<"Automotive">>)
can_reads ==
    Reads(<< <<"int", "bitrate", "1000000">>,
             <<"dbl", "sample_point", "70">> >>)
can_c_decoder ==
    Descriptor("can_c", can_tables, <<1, 0, 2, 18, 3, 1, 1, 0, 1>>,
               << <<"int64", "1000000">>, <<"double", "70">> >>, can_reads)

can_fd_tables ==
    Tables(<< <<"can_rx", 0>> >>, <<>>,
           <<"nominal_bitrate", "fast_bitrate", "sample_point">>, 18,
           << <<"bits", <<15, 17>>, 2>>, <<"fields", R(0, 14), 15>>,
              <<"warnings", <<16>>, 1>> >>, <<"logic">>, <<"can">>, <<>>,
           <<"Automotive">>)
can_fd_reads ==
    Reads(<< <<"int", "nominal_bitrate", "1000000">>,
             <<"int", "fast_bitrate", "2000000">>,
             <<"dbl", "sample_point", "70">> >>)
can_fd_c_decoder ==
    Descriptor("can_fd_c", can_fd_tables, <<1, 0, 3, 18, 3, 1, 1, 0, 1>>,
               << <<"int64", "1000000">>, <<"int64", "2000000">>,
                  <<"double", "70">> >>, can_fd_reads)

carrera_tables ==
    Tables(<< <<"data", 0>> >>, <<>>, <<"invert", "format">>, 27,
           << <<"word_bit_value", <<9>>, 1>>,
              <<"word_controller", R(0, 6), 7>>,
              <<"active_quit", <<8, 10>>, 2>>,
              <<"prog_word", R(11, 26), 16>> >>, <<"logic">>, <<>>, <<>>,
           <<"C Digital">>)
carrera_reads ==
    Reads(<< <<"str", "invert", "nein">>, <<"str", "format", "hex">> >>)
carrera_c_decoder ==
    Descriptor("carrera_c", carrera_tables, <<1, 0, 2, 27, 4, 1, 0, 0, 1>>,
               <<>>, carrera_reads)

ccd_tables ==
    Tables(<< <<"bus", 0>> >>, <<>>,
           <<"ignoreerrors", "invert_bus", "units">>, 7,
           << <<"a-bus-bits", <<0, -1>>, 1>>, <<"a-idle", <<2, -1>>, 1>>,
              <<"a-bus-warnings", <<3, 4, -1>>, 2>>,
              <<"a-bus-data", <<1, -1>>, 1>>,
              <<"a-bus-message", <<6, -1>>, 1>>,
              <<"a-bus-decoded", <<5, -1>>, 1>> >>, <<"logic">>, <<"ccd">>,
           <<>>, <<"Automotive">>)
ccd_reads ==
    Reads(<< <<"str", "ignoreerrors", "no">>, <<"str", "invert_bus", "no">>,
             <<"str", "units", "native">> >>)
ccd_c_decoder ==
    Descriptor("ccd_c", ccd_tables, <<1, 0, 3, 7, 6, 1, 1, 0, 1>>,
               << <<"string", "no">>, <<"string", "no">>,
                  <<"string", "native">> >>, ccd_reads)

cec_tables ==
    Tables(<< <<"cec", 0>> >>, <<>>, <<>>, 10,
           << <<"bits", R(0, 5), 6>>, <<"bytes", <<6>>, 1>>,
              <<"frames", <<7>>, 1>>, <<"sections", <<8>>, 1>>,
              <<"warnings", <<9>>, 1>> >>, <<"logic">>, <<>>, <<>>,
           <<"Display", "PC">>)
cec_c_decoder ==
    Descriptor("cec_c", cec_tables, <<1, 0, 0, 10, 5, 1, 0, 0, 2>>, <<>>,
               <<>>)

cjtag_tables ==
    Tables(<< <<"tckc", 0>>, <<"tmsc", 1>> >>, <<>>, <<>>, 33,
           << <<"bits-tdi", <<28, -1>>, 1>>, <<"bits-tdo", <<29, -1>>, 1>>,
              <<"bitstrings-tdi", <<30, -1>>, 1>>,
              <<"bitstrings-tdo", <<31, -1>>, 1>>,
              <<"bits-tms", <<32, -1>>, 1>>,
              <<"cjtag-states", R(16, 27) \o <<-1>>, 12>>,
              <<"jtag-states", R(0, 15) \o <<-1>>, 16>> >>, <<"logic">>,
           <<"jtag">>, <<>>, <<"Debug/trace">>)
cjtag_c_decoder ==
    Descriptor("cjtag_c", cjtag_tables, <<2, 0, 0, 33, 7, 1, 1, 0, 1>>,
               <<>>, <<>>)

cjtag_oscan0_tables ==
    Tables(<< <<"tdi", 0>>, <<"tdo", 1>>, <<"tck", 2>>, <<"tms", 3>> >>,
           << <<"trst", 4>>, <<"srst", 5>>, <<"rtck", 6>> >>, <<>>, 22,
           << <<"bits-tdi", <<16, -1>>, 1>>, <<"bits-tdo", <<17, -1>>, 1>>,
              <<"bitstrings-tdi", <<18, -1>>, 1>>,
              <<"bitstrings-tdo", <<19, -1>>, 1>>,
              <<"bit-tms", <<20, -1>>, 1>>, <<"state-tapc", <<21, -1>>, 1>>,
              <<"states", R(0, 15) \o <<-1>>, 16>> >>, <<"logic">>,
           <<"jtag">>, <<>>, <<"Debug/trace">>)
cjtag_oscan0_c_decoder ==
    Descriptor("cjtag_oscan0_c", cjtag_oscan0_tables,
               <<4, 3, 0, 22, 7, 1, 1, 0, 1>>, <<>>, <<>>)

counter_tables ==
    Tables(<< <<"data", 0>> >>, << <<"reset", 0>> >>,
           <<"data_edge", "divider", "reset_edge", "edge_off", "word_off",
              "dead_cycles", "start_with_reset">>, 3,
           << <<"edge_counts", <<0>>, 1>>, <<"word_counts", <<1>>, 1>>,
              <<"word_resets", <<2>>, 1>> >>, <<"logic">>, <<>>, <<>>,
           <<"Util">>)
counter_reads ==
    Reads(<< <<"str", "data_edge", "any">>, <<"int", "divider", "0">>,
             <<"str", "reset_edge", "falling">>, <<"int", "edge_off", "0">>,
             <<"int", "word_off", "0">>, <<"int", "dead_cycles", "0">>,
             <<"str", "start_with_reset", "no">> >>)
counter_c_decoder ==
    Descriptor("counter_c", counter_tables, <<1, 1, 7, 3, 3, 1, 0, 0, 1>>,
               << <<"string", "any">>, <<"int64", "0">>,
                  <<"string", "falling">>, <<"int64", "0">>,
                  <<"int64", "0">>, <<"int64", "0">>, <<"string", "no">> >>,
               counter_reads)

dali_tables ==
    Tables(<< <<"dali", 0>> >>, <<>>, <<"polarity">>, 8,
           << <<"bits", <<0, -1>>, 1>>, <<"raw", <<7, -1>>, 1>>,
              <<"fields", R(1, 6) \o <<-1>>, 6>> >>, <<"logic">>, <<>>,
           <<>>, <<"Embedded/industrial", "Lighting">>)
dali_reads ==
    Reads(<< <<"str", "polarity", "active-low">> >>)
dali_c_decoder ==
    Descriptor("dali_c", dali_tables, <<1, 0, 1, 8, 3, 1, 0, 0, 2>>,
               << <<"string", "active-low">> >>, dali_reads)

dcc_tables ==
    Tables(<< <<"data", 0>> >>, <<>>,
           <<"CV_29_1", "Mode_112_127", "Addr_offset", "Search_acc_addr",
              "Search_dec_addr", "Search_cv", "Search_byte",
              "Ignore_short_pulse">>, 14,
           << <<"bits_", <<0, 1, -1>>, 2>>, <<"frame_", <<2, 3, -1>>, 2>>,
              <<"data_", <<5, 6, 7, 4, -1>>, 4>>,
              <<"command_", <<8, -1>>, 1>>, <<"error_", <<9, -1>>, 1>>,
              <<"search_", R(10, 13) \o <<-1>>, 4>> >>, <<"logic">>, <<>>,
           <<>>, <<"Encoding">>)
dcc_reads ==
    Reads(<< <<"int", "Addr_offset", "0">>,
             <<"str", "Ignore_short_pulse", "no">>,
             <<"str", "CV_29_1", "1: 28/128 speed mode">>,
             <<"str", "Mode_112_127", "operation mode">>,
             <<"str", "Search_acc_addr", "">>,
             <<"str", "Search_dec_addr", "">>, <<"str", "Search_cv", "">>,
             <<"str", "Search_byte", "">> >>)
dcc_c_decoder ==
    Descriptor("dcc_c", dcc_tables, <<1, 0, 8, 14, 6, 1, 0, 0, 1>>, <<>>,
               dcc_reads)

dcf77_tables ==
    Tables(<< <<"data", 0>> >>, <<>>, <<>>, 20,
           << <<"bits", <<17, 18>>, 2>>, <<"fields", R(0, 16), 17>>,
              <<"warnings", <<19>>, 1>> >>, <<"logic">>, <<>>, <<>>,
           <<"Clock/timing">>)
dcf77_c_decoder ==
    Descriptor("dcf77_c", dcf77_tables, <<1, 0, 0, 20, 3, 1, 0, 0, 1>>,
               <<>>, <<>>)

delta_sigma_tables ==
    Tables(<< <<"dat", 0>>, <<"clk", 1>> >>, <<>>,
           <<"clock_mode", "filter_type", "osr", "shift", "scale">>, 3,
           << <<"bit-streams", <<0, -1>>, 1>>, <<"filtereds", <<1, -1>>, 1>>,
              <<"converteds", <<2, -1>>, 1>> >>, <<"logic">>, <<>>, <<>>,
           <<"Util">>)
delta_sigma_reads ==
    Reads(<< <<"str", "clock_mode", "normal">>,
             <<"str", "filter_type", "sinc3">>, <<"int", "osr", "4">>,
             <<"int", "shift", "0">>, <<"dbl", "scale", "1">> >>)
delta_sigma_c_decoder ==
    Descriptor("delta-sigma_c", delta_sigma_tables,
               <<2, 0, 5, 3, 3, 1, 0, 0, 1>>, <<>>, delta_sigma_reads)

dmx512_tables ==
    Tables(<< <<"dmx", 0>> >>, <<>>, <<"invert">>, 11,
           << <<"name", <<1, 2>> \o R(5, 8), 6>>, <<"data", <<9>>, 1>>,
              <<"bits", <<0, 3, 4>>, 3>>, <<"errors", <<10>>, 1>> >>,
           <<"logic">>, <<>>, <<>>, <<"Embedded/industrial", "Lighting">>)
dmx512_reads ==
    Reads(<< <<"str", "invert", "no">> >>)
dmx512_c_decoder ==
    Descriptor("dmx512_c", dmx512_tables, <<1, 0, 1, 11, 4, 1, 0, 0, 2>>,
               << <<"string", "no">> >>, dmx512_reads)

dsi_tables ==
    Tables(<< <<"dsi", 0>> >>, <<>>, <<"polarity">>, 4,
           << <<"bits", <<0, -1>>, 1>>, <<"raw", <<3, -1>>, 1>>,
              <<"fields", <<1, 2, -1>>, 2>> >>, <<"logic">>, <<>>, <<>>,
           <<"Embedded/industrial", "Lighting">>)
dsi_reads ==
    Reads(<< <<"str", "polarity", "active-high">> >>)
dsi_c_decoder ==
    Descriptor("dsi_c", dsi_tables, <<1, 0, 1, 4, 3, 1, 0, 0, 2>>, <<>>,
               dsi_reads)

em4100_tables ==
    Tables(<< <<"data", 0>> >>, <<>>,
           <<"polarity", "datarate", "coilfreq">>, 10,
           << <<"bits", <<0, -1>>, 1>>, <<"fields", R(1, 8) \o <<-1>>, 8>>,
              <<"tags", <<9, -1>>, 1>> >>, <<"logic">>, <<>>, <<>>,
           <<"IC", "RFID">>)
em4100_reads ==
    Reads(<< <<"int", "datarate", "64">>, <<"int", "coilfreq", "125000">>,
             <<"str", "polarity", "active-high">> >>)
em4100_c_decoder ==
    Descriptor("em4100_c", em4100_tables, <<1, 0, 3, 10, 3, 1, 0, 0, 2>>,
               <<>>, em4100_reads)

em4305_tables ==
    Tables(<< <<"data", 0>> >>, <<>>,
           <<"coilfreq", "first_field_stop", "w_gap", "w_one_max",
              "w_zero_on_min", "w_zero_off_max", "em4100_decode">>, 11,
           << <<"bits", <<0, -1>>, 1>>,
              <<"structure", R(1, 4) \o <<-1>>, 4>>,
              <<"fields", R(5, 9) \o <<-1>>, 5>>,
              <<"decode", <<10, -1>>, 1>> >>, <<"logic">>, <<>>, <<>>,
           <<"IC", "RFID">>)
em4305_reads ==
    Reads(<< <<"str", "em4100_decode", "on">>,
             <<"int", "coilfreq", "125000">>,
             <<"int", "first_field_stop", "40">>, <<"int", "w_gap", "12">>,
             <<"int", "w_one_max", "32">>, <<"int", "w_zero_on_min", "15">>,
             <<"int", "w_zero_off_max", "27">> >>)
em4305_c_decoder ==
    Descriptor("em4305_c", em4305_tables, <<1, 0, 7, 11, 4, 1, 0, 0, 2>>,
               <<>>, em4305_reads)

emmc_sd_tables ==
    Tables(<< <<"cmd", 0>>, <<"clk", 1>> >>, <<>>, <<>>, Unnamed(73),
           << <<"raw-bits", <<64, -1>>, 1>>,
              <<"decoded-bits", <<71, -1>>, 1>>,
              <<"decoded-fields", <<72, -1>>, 1>>,
              <<"fields", R(65, 70) \o <<-1>>, 6>>,
              <<"cmds", R(0, 63) \o <<-1>>, 64>> >>, <<"logic">>, <<>>,
           <<>>, <<"Memory">>)
emmc_sd_c_decoder ==
    Descriptor("emmc_sd_c", emmc_sd_tables, <<2, 0, 0, 73, 5, 1, 0, 0, 1>>,
               <<>>, <<>>)

eth_an_tables ==
    Tables(<< <<"dp", 0>> >>, <<>>, <<>>, 5,
           << <<"data", <<0>>, 1>>, <<"format", <<1>>, 1>>,
              <<"bitd", <<2>>, 1>>, <<"bit", <<3>>, 1>>,
              <<"nlp", <<4>>, 1>> >>, <<"logic">>, <<"eth_an">>, <<>>,
           <<"PC">>)
eth_an_c_decoder ==
    Descriptor("eth_an_c", eth_an_tables, <<1, 0, 0, 5, 5, 1, 1, 0, 1>>,
               <<>>, <<>>)

DeclaredLogicA ==
    {ac97_c_decoder, adat_c_decoder, adb_c_decoder, afsk_c_decoder,
     am230x_c_decoder, aud_c_decoder, avr_pdi_c_decoder, bean_c_decoder,
     c2_c_decoder, caliper_c_decoder, can_c_decoder, can_fd_c_decoder,
     carrera_c_decoder, ccd_c_decoder, cec_c_decoder, cjtag_c_decoder,
     cjtag_oscan0_c_decoder, counter_c_decoder, dali_c_decoder,
     dcc_c_decoder, dcf77_c_decoder, delta_sigma_c_decoder,
     dmx512_c_decoder, dsi_c_decoder, em4100_c_decoder, em4305_c_decoder,
     emmc_sd_c_decoder, eth_an_c_decoder}

-----------------------------------------------------------------------------
(* Decoders of logic samples, flexray to opentherm                         *)
flexray_tables ==
    Tables(<< <<"channel", 0>> >>, <<>>, <<"channel_type", "bitrate">>, 21,
           << <<"bits", <<15, 17>>, 2>>,
              <<"fields", R(0, 14) \o <<18, 19, 20>>, 18>>,
              <<"warnings", <<16>>, 1>> >>, <<"logic">>, <<>>, <<>>,
           <<"Automotive">>)
flexray_reads ==
    Reads(<< <<"str", "channel_type", "A">>,
             <<"int", "bitrate", "10000000">> >>)
flexray_c_decoder ==
    Descriptor("flexray_c", flexray_tables, <<1, 0, 2, 21, 3, 1, 0, 0, 1>>,
               << <<"string", "A">>, <<"int64", "10000000">> >>,
               flexray_reads)

fsi_tables ==
    Tables(<< <<"data", 0>>, <<"clock", 1>> >>, <<>>, <<>>, 9,
           << <<"data", R(1, 8), 8>>, <<"warnings", <<0>>, 1>> >>,
           <<"logic">>, <<>>, <<>>, <<"PC">>)
fsi_c_decoder ==
    Descriptor("fsi_c", fsi_tables, <<2, 0, 0, 9, 2, 1, 0, 0, 1>>, <<>>,
               <<>>)

gpib_tables ==
    Tables(<< <<"dio1", 0>>, <<"dio2", 1>>, <<"dio3", 2>>, <<"dio4", 3>>,
              <<"dio5", 4>>, <<"dio6", 5>>, <<"dio7", 6>>, <<"dio8", 7>>,
              <<"eoi", 8>>, <<"dav", 9>>, <<"nrfd", 10>>, <<"ndac", 11>>,
              <<"ifc", 12>>, <<"srq", 13>>, <<"atn", 14>>, <<"ren", 15>> >>,
           <<>>, <<"sample_total">>, 3,
           << <<"bytes", <<0>>, 1>>, <<"gpib", <<1>>, 1>>,
              <<"eoi", <<2>>, 1>> >>, <<"logic">>, <<>>, <<>>, <<"PC">>)
gpib_reads ==
    Reads(<< <<"int", "sample_total", "0">> >>)
gpib_c_decoder ==
    Descriptor("gpib_c", gpib_tables, <<16, 0, 1, 3, 3, 1, 0, 0, 1>>, <<>>,
               gpib_reads)

graycode_tables ==
    Tables(<<>>,
           << <<"d0", 0>>, <<"d1", 1>>, <<"d2", 2>>, <<"d3", 3>>,
              <<"d4", 4>>, <<"d5", 5>>, <<"d6", 6>>, <<"d7", 7>> >>,
           <<"edges", "avg_period", "bits", "si_prefix">>, 7,
           << <<"phase", <<0, -1>>, 1>>, <<"increment", <<1, -1>>, 1>>,
              <<"count", <<2, -1>>, 1>>, <<"turns", <<3, -1>>, 1>>,
              <<"interval", <<4, -1>>, 1>>, <<"average", <<5, -1>>, 1>>,
              <<"rpm", <<6, -1>>, 1>> >>, <<"logic">>, <<>>, <<>>,
           <<"Encoding">>)
graycode_reads ==
    Reads(<< <<"int", "edges", "0">>, <<"int", "avg_period", "10">>,
             <<"int", "bits", "0">>, <<"str", "si_prefix", "">> >>)
graycode_c_decoder ==
    Descriptor("graycode_c", graycode_tables, <<0, 8, 4, 7, 7, 1, 0, 0, 1>>,
               << <<"int64", "0">>, <<"int64", "10">>, <<"int64", "0">>,
                  <<"string", "">> >>, graycode_reads)

guess_bitrate_tables ==
    Tables(<< <<"data", 0>> >>, <<>>, <<>>, 1,
           << <<"bitrate", <<0>>, 1>> >>, <<"logic">>, <<>>, <<>>,
           <<"Clock/timing", "Util">>)
guess_bitrate_c_decoder ==
    Descriptor("guess_bitrate_c", guess_bitrate_tables,
               <<1, 0, 0, 1, 1, 1, 0, 0, 2>>, <<>>, <<>>)

hdlc_tables ==
    Tables(<< <<"clk", 0>>, <<"data", 1>> >>, << <<"en", 2>> >>,
           <<"en_polarity", "cpol">>, 5,
           << <<"rx-bits", <<0, -1>>, 1>>, <<"data-vals", <<1, -1>>, 1>>,
              <<"data-types", <<2, -1>>, 1>>, <<"transfers", <<4, -1>>, 1>>,
              <<"other", <<3, -1>>, 1>> >>, <<"logic">>, <<"hdlc">>,
           <<"transfer">>, <<"Embedded/industrial">>)
hdlc_reads ==
    Reads(<< <<"str", "en_polarity", "active-high">>,
             <<"int", "cpol", "1">> >>)
hdlc_c_decoder ==
    Descriptor("hdlc_c", hdlc_tables, <<2, 1, 2, 5, 5, 1, 1, 1, 1>>,
               << <<"string", "active-high">>, <<"int64", "1">> >>,
               hdlc_reads)

i2c_tables ==
    Tables(<< <<"scl", 0>>, <<"sda", 1>> >>, <<>>,
           <<"address_format", "packets_format", "show_data_point">>, 13,
           << <<"bits", <<5, -1>>, 1>>,
              <<"addr-data", R(0, 4) \o R(6, 9) \o <<-1>>, 9>>,
              <<"packets", <<10, -1>>, 1>>,
              <<"atk-signs", <<11, 12, -1>>, 2>> >>, <<"logic">>, <<"i2c">>,
           <<"address-read", "address-write", "data-read", "data-write">>,
           <<"Embedded/industrial">>)
i2c_reads ==
    Reads(<< <<"str", "address_format", "shifted">>,
             <<"bool", "show_data_point", "1">>,
             <<"str", "packets_format", "hex">> >>)
i2c_c_decoder ==
    Descriptor("i2c_c", i2c_tables, <<2, 0, 3, 13, 4, 1, 1, 4, 1>>,
               << <<"string", "shifted">>, <<"string", "hex">>,
                  <<"string", "yes">> >>, i2c_reads)

i2s_tables ==
    Tables(<< <<"sck", 0>>, <<"ws", 1>>, <<"sd", 2>> >>, <<>>,
           <<"ws_polarity", "clk_edge", "bit_shift", "bit_align", "bitorder",
              "wordsize">>, 3, <<>>, <<"logic">>, <<"i2s">>, <<"wav">>,
           <<"Audio", "PC">>)
i2s_reads ==
    Reads(<< <<"str", "ws_polarity", "left-high">>,
             <<"str", "clk_edge", "rising-edge">>,
             <<"str", "bit_shift", "none">>,
             <<"str", "bit_align", "left-aligned">>,
             <<"int", "wordsize", "16">>,
             <<"str", "bitorder", "msb-first">> >>)
i2s_c_decoder ==
    Descriptor("i2s_c", i2s_tables, <<3, 0, 6, 3, 0, 1, 1, 1, 2>>,
               << <<"string", "left-high">>, <<"string", "rising-edge">>,
                  <<"string", "none">>, <<"string", "left-aligned">>,
                  <<"string", "msb-first">>, <<"int64", "16">> >>,
               i2s_reads)

iebus_tables ==
    Tables(<< <<"bus", 0>> >>, <<>>,
           <<"mode", "bus_polarity", "ignore_nak">>, 11,
           << <<"bits", R(0, 3), 4>>, <<"fields", R(4, 9), 6>>,
              <<"warnings", <<10>>, 1>> >>, <<"logic">>, <<"iebus">>, <<>>,
           <<"Automotive">>)
iebus_reads ==
    Reads(<< <<"str", "bus_polarity", "idle-low">>,
             <<"str", "ignore_nak", "Disabled">> >>)
iebus_c_decoder ==
    Descriptor("iebus_c", iebus_tables, <<1, 0, 3, 11, 3, 1, 1, 0, 1>>,
               << <<"string", "Mode 2">>, <<"string", "idle-low">>,
                  <<"string", "Disabled">> >>, iebus_reads)

iec_tables ==
    Tables(<< <<"data", 0>>, <<"clk", 1>>, <<"atn", 2>> >>,
           << <<"srq", 0>> >>, <<>>, 3,
           << <<"bytes", <<0>>, 1>>, <<"gpib", <<1>>, 1>>,
              <<"eoi", <<2>>, 1>> >>, <<"logic">>, <<>>, <<>>,
           <<"PC", "Retro computing">>)
iec_c_decoder ==
    Descriptor("iec_c", iec_tables, <<3, 1, 0, 3, 3, 1, 0, 0, 2>>, <<>>,
               <<>>)

ieee488_tables ==
    Tables(<< <<"dio1", 0>> >>,
           << <<"dio2", 1>>, <<"dio3", 2>>, <<"dio4", 3>>, <<"dio5", 4>>,
              <<"dio6", 5>>, <<"dio7", 6>>, <<"dio8", 7>>, <<"eoi", 8>>,
              <<"dav", 9>>, <<"nrfd", 10>>, <<"ndac", 11>>, <<"ifc", 12>>,
              <<"srq", 13>>, <<"atn", 14>>, <<"ren", 15>>, <<"clk", 16>> >>,
           <<"iec_periph", "delim">>, 11,
           << <<"bits", <<0, -1>>, 1>>, <<"raws", <<1, -1>>, 1>>,
              <<"gpib", R(2, 6) \o <<-1>>, 5>>, <<"eois", <<7, -1>>, 1>>,
              <<"texts", <<8, -1>>, 1>>, <<"periphs", <<9, -1>>, 1>>,
              <<"warnings", <<10, -1>>, 1>> >>, <<"logic">>, <<"ieee488">>,
           <<"raw", "data">>, <<"PC", "Retro computing">>)
ieee488_reads ==
    Reads(<< <<"str", "iec_periph", "no">>, <<"str", "delim", "eol">> >>)
ieee488_c_decoder ==
    Descriptor("ieee488_c", ieee488_tables, <<1, 16, 2, 11, 7, 1, 1, 2, 2>>,
               << <<"string", "no">>, <<"string", "eol">> >>, ieee488_reads)

ir_irmp_tables ==
    Tables(<< <<"ir", 0>> >>, <<>>, <<"polarity">>, 1,
           << <<"packets", <<0, -1>>, 1>> >>, <<"logic">>, <<>>, <<>>,
           <<"IR">>)
ir_irmp_reads ==
    Reads(<< <<"str", "polarity", "active-low">> >>)
ir_irmp_c_decoder ==
    Descriptor("ir_irmp_c", ir_irmp_tables, <<1, 0, 1, 1, 1, 1, 0, 0, 1>>,
               << <<"string", "active-low">> >>, ir_irmp_reads)

ir_ltto_tables ==
    Tables(<< <<"ir", 0>> >>, <<>>, <<"polarity">>, 9,
           << <<"bits", R(0, 5) \o <<-1>>, 6>>,
              <<"signatures", <<6, 7, 8, -1>>, 3>> >>, <<"logic">>,
           <<"ir_ltto">>, <<>>, <<"Embedded/industrial">>)
ir_ltto_reads ==
    Reads(<< <<"str", "polarity", "active-low">> >>)
ir_ltto_c_decoder ==
    Descriptor("ir_ltto_c", ir_ltto_tables, <<1, 0, 1, 9, 2, 1, 1, 0, 1>>,
               << <<"string", "active-low">> >>, ir_ltto_reads)

ir_nec_tables ==
    Tables(<< <<"ir", 0>> >>, <<>>, <<"polarity", "cd_freq", "extended">>,
           13,
           << <<"bits", R(0, 4) \o <<-1>>, 5>>,
              <<"fields", R(5, 10) \o <<-1>>, 6>>,
              <<"remote-vals", <<11, -1>>, 1>>,
              <<"warnings", <<12, -1>>, 1>> >>, <<"logic">>, <<>>, <<>>,
           <<"IR">>)
ir_nec_reads ==
    Reads(<< <<"str", "polarity", "active-low">>, <<"int", "cd_freq", "0">>,
             <<"str", "extended", "no">> >>)
ir_nec_c_decoder ==
    Descriptor("ir_nec_c", ir_nec_tables, <<1, 0, 3, 13, 4, 1, 0, 0, 1>>,
               << <<"string", "active-low">>, <<"int64", "0">>,
                  <<"string", "no">> >>, ir_nec_reads)

ir_rc5_tables ==
    Tables(<< <<"ir", 0>> >>, <<>>, <<"polarity", "protocol">>, 7,
           << <<"bits", <<0, -1>>, 1>>,
              <<"fields", R(1, 6) \o <<-1>>, 6>> >>, <<"logic">>, <<>>,
           <<>>, <<"IR">>)
ir_rc5_reads ==
    Reads(<< <<"str", "polarity", "active-low">>,
             <<"str", "protocol", "standard">> >>)
ir_rc5_c_decoder ==
    Descriptor("ir_rc5_c", ir_rc5_tables, <<1, 0, 2, 7, 2, 1, 0, 0, 1>>,
               << <<"string", "active-low">>, <<"string", "standard">> >>,
               ir_rc5_reads)

ir_rc6_tables ==
    Tables(<< <<"ir", 0>> >>, <<>>, <<"polarity">>, 7,
           << <<"bits", <<0, -1>>, 1>>,
              <<"fields", R(1, 6) \o <<-1>>, 6>> >>, <<"logic">>, <<>>,
           <<>>, <<"IR">>)
ir_rc6_reads ==
    Reads(<< <<"str", "polarity", "auto">> >>)
ir_rc6_c_decoder ==
    Descriptor("ir_rc6_c", ir_rc6_tables, <<1, 0, 1, 7, 2, 1, 0, 0, 1>>,
               << <<"string", "auto">> >>, ir_rc6_reads)

ir_recoil_tables ==
    Tables(<< <<"ir", 0>> >>, <<>>, <<"polarity">>, 4,
           << <<"bits", <<0, 1, 2, -1>>, 3>>, <<"packets", <<3, -1>>, 1>> >>,
           <<"logic">>, <<"ir_recoil">>, <<>>, <<"Embedded/industrial">>)
ir_recoil_reads ==
    Reads(<< <<"str", "polarity", "active-low">> >>)
ir_recoil_c_decoder ==
    Descriptor("ir_recoil_c", ir_recoil_tables,
               <<1, 0, 1, 4, 2, 1, 1, 0, 1>>,
               << <<"string", "active-low">> >>, ir_recoil_reads)

ir_sirc_tables ==
    Tables(<< <<"ir", 0>> >>, <<>>, <<"polarity">>, 9,
           << <<"bits", <<0, 1, 2, -1>>, 3>>,
              <<"fields", R(3, 6) \o <<-1>>, 4>>,
              <<"remotes", <<7, -1>>, 1>>, <<"warnings", <<8, -1>>, 1>> >>,
           <<"logic">>, <<>>, <<>>, <<"IR">>)
ir_sirc_reads ==
    Reads(<< <<"str", "polarity", "active-low">> >>)
ir_sirc_c_decoder ==
    Descriptor("ir_sirc_c", ir_sirc_tables, <<1, 0, 1, 9, 4, 1, 0, 0, 1>>,
               << <<"string", "active-low">> >>, ir_sirc_reads)

iso7816_tables ==
    Tables(<< <<"clk", 0>>, <<"data", 1>> >>, <<>>,
           <<"clock_option", "protocol", "starts_with_atr">>, 10,
           << <<"warnings", <<0, -1>>, 1>>, <<"bytes", <<1, -1>>, 1>>,
              <<"type", R(2, 5) \o <<-1>>, 4>>,
              <<"t1s", <<6, 7, 8, -1>>, 3>>, <<"apdus", <<9, -1>>, 1>> >>,
           <<"logic">>, <<"iso7816">>, <<"pcap">>,
           <<"Embedded/industrial">>)
iso7816_reads ==
    Reads(<< <<"str", "protocol", "auto">>,
             <<"str", "clock_option", "native">>,
             <<"str", "starts_with_atr", "true">> >>)
iso7816_c_decoder ==
    Descriptor("iso7816_c", iso7816_tables, <<2, 0, 3, 10, 5, 1, 1, 1, 1>>,
               << <<"string", "native">>, <<"string", "auto">>,
                  <<"string", "true">> >>, iso7816_reads)

jitter_tables ==
    Tables(<< <<"clk", 0>>, <<"sig", 1>> >>, <<>>,
           <<"clk_polarity", "sig_polarity">>, 3,
           << <<"jitter", <<0, -1>>, 1>>, <<"clk_missed", <<1, -1>>, 1>>,
              <<"sig_missed", <<2, -1>>, 1>> >>, <<"logic">>, <<>>,
           <<"ascii-float">>, <<"Clock/timing", "Util">>)
jitter_reads ==
    Reads(<< <<"str", "clk_polarity", "rising">>,
             <<"str", "sig_polarity", "rising">> >>)
jitter_c_decoder ==
    Descriptor("jitter_c", jitter_tables, <<2, 0, 2, 3, 3, 1, 0, 1, 2>>,
               << <<"string", "rising">>, <<"string", "rising">> >>,
               jitter_reads)

jtag_tables ==
    Tables(<< <<"tdi", 0>>, <<"tdo", 1>>, <<"tck", 2>>, <<"tms", 3>> >>,
           << <<"trst", 4>>, <<"srst", 5>>, <<"rtck", 6>> >>, <<>>, 20,
           << <<"bits-tdi", <<16, -1>>, 1>>, <<"bits-tdo", <<17, -1>>, 1>>,
              <<"bitstrings-tdi", <<18, -1>>, 1>>,
              <<"bitstrings-tdo", <<19, -1>>, 1>>,
              <<"states", R(0, 15) \o <<-1>>, 16>> >>, <<"logic">>,
           <<"jtag">>, <<>>, <<"Debug/trace">>)
jtag_c_decoder ==
    Descriptor("jtag_c", jtag_tables, <<4, 3, 0, 20, 5, 1, 1, 0, 1>>, <<>>,
               <<>>)

lfast_tables ==
    Tables(<< <<"data", 0>> >>, <<>>, <<>>, 9,
           << <<"bits", <<0, -1>>, 1>>, <<"fields", R(1, 7) \o <<-1>>, 7>>,
              <<"warnings", <<8, -1>>, 1>> >>, <<"logic">>, <<"lfast">>,
           <<>>, <<"Embedded/industrial">>)
lfast_c_decoder ==
    Descriptor("lfast_c", lfast_tables, <<1, 0, 0, 9, 3, 1, 1, 0, 1>>, <<>>,
               <<>>)

lpc_tables ==
    Tables(<< <<"lframe", 0>>, <<"lclk", 1>>, <<"lad0", 2>>, <<"lad1", 3>>,
              <<"lad2", 4>>, <<"lad3", 5>> >>,
           << <<"lreset", 6>>, <<"ldrq", 7>>, <<"serirq", 8>>,
              <<"clkrun", 9>>, <<"lpme", 10>>, <<"lpcpd", 11>>,
              <<"lsmi", 12>> >>, <<>>, 9,
           << <<"data", R(1, 8) \o <<-1>>, 8>>,
              <<"warnings", <<0, -1>>, 1>> >>, <<"logic">>, <<>>, <<>>,
           <<"PC">>)
lpc_c_decoder ==
    Descriptor("lpc_c", lpc_tables, <<6, 7, 0, 9, 2, 1, 0, 0, 1>>, <<>>,
               <<>>)

maple_bus_tables ==
    Tables(<< <<"sdcka", 0>>, <<"sdckb", 1>> >>, <<>>, <<>>, 15,
           << <<"bits", R(0, 5) \o <<-1>>, 6>>,
              <<"fields", R(6, 11) \o <<-1>>, 6>>,
              <<"warnings", <<12, 13, 14, -1>>, 3>> >>, <<"logic">>, <<>>,
           <<"size", "source", "dest", "command", "data", "checksum">>,
           <<"Retro computing">>)
maple_bus_c_decoder ==
    Descriptor("maple_bus_c", maple_bus_tables,
               <<2, 0, 0, 15, 3, 1, 0, 6, 1>>, <<>>, <<>>)

mcs48_tables ==
    Tables(<< <<"ale", 0>>, <<"psen", 1>>, <<"d0", 2>>, <<"d1", 3>>,
              <<"d2", 4>>, <<"d3", 5>>, <<"d4", 6>>, <<"d5", 7>>,
              <<"d6", 8>>, <<"d7", 9>>, <<"a8", 10>>, <<"a9", 11>>,
              <<"a10", 12>>, <<"a11", 13>> >>, << <<"a12", 14>> >>, <<>>, 1,
           << <<"romdata", <<0, -1>>, 1>> >>, <<"logic">>, <<>>,
           <<"romdata">>, <<"Retro computing">>)
mcs48_c_decoder ==
    Descriptor("mcs48_c", mcs48_tables, <<14, 1, 0, 1, 1, 1, 0, 1, 1>>,
               <<>>, <<>>)

mdio_tables ==
    Tables(<< <<"mdc", 0>>, <<"mdio", 1>> >>, <<>>,
           <<"show_debug_bits", "read_edge">>, 6,
           << <<"bit-val", <<0>>, 1>>, <<"bit-num", <<1>>, 1>>,
              <<"frame", <<2, 3>>, 2>>, <<"frame-error", <<4>>, 1>>,
              <<"decode", <<5>>, 1>> >>, <<"logic">>, <<"mdio">>, <<>>,
           <<"Networking">>)
mdio_reads ==
    Reads(<< <<"str", "show_debug_bits", "no">>,
             <<"str", "read_edge", "falling">> >>)
mdio_c_decoder ==
    Descriptor("mdio_c", mdio_tables, <<2, 0, 2, 6, 5, 1, 1, 0, 1>>,
               << <<"string", "no">>, <<"string", "falling">> >>,
               mdio_reads)

microwire_tables ==
    Tables(<< <<"cs", 0>>, <<"sk", 1>>, <<"si", 2>>, <<"so", 3>> >>, <<>>,
           <<>>, 6,
           << <<"si-bits", <<0, 1>>, 2>>, <<"so-bits", <<2>>, 1>>,
              <<"status", <<3, 4>>, 2>>, <<"warnings", <<5>>, 1>> >>,
           <<"logic">>, <<"microwire">>, <<>>, <<"Embedded/industrial">>)
microwire_c_decoder ==
    Descriptor("microwire_c", microwire_tables,
               <<4, 0, 0, 6, 4, 1, 1, 0, 1>>, <<>>, <<>>)

miller_tables ==
    Tables(<< <<"data", 0>> >>, <<>>, <<"baudrate", "edge">>, 2,
           << <<"bit", <<0, -1>>, 1>>, <<"bitstring", <<1, -1>>, 1>> >>,
           <<"logic">>, <<>>, <<"raw">>, <<"Encoding">>)
miller_reads ==
    Reads(<< <<"int", "baudrate", "106000">>,
             <<"str", "edge", "falling">> >>)
miller_c_decoder ==
    Descriptor("miller_c", miller_tables, <<1, 0, 2, 2, 2, 1, 0, 1, 1>>,
               << <<"int64", "106000">>, <<"string", "falling">> >>,
               miller_reads)

mipi_dsi_tables ==
    Tables(<< <<"D0N", 0>>, <<"D0P", 1>> >>, <<>>, <<>>, 13,
           << <<"LPData", R(0, 3) \o <<-1>>, 4>>,
              <<"LP", R(4, 12) \o <<-1>>, 9>> >>, <<"logic">>,
           <<"mipi_dsi">>, <<>>, <<"Embedded/industrial">>)
mipi_dsi_c_decoder ==
    Descriptor("mipi_dsi_c", mipi_dsi_tables,
               <<2, 0, 0, 13, 2, 1, 1, 0, 1>>, <<>>, <<>>)

mipi_rffe_tables ==
    Tables(<< <<"sclk", 0>>, <<"sdata", 1>> >>, <<>>, <<"error_display">>,
           19,
           << <<"command-data", R(0, 13) \o <<15>>, 15>>,
              <<"warnings", <<14, 16, 17, 18>>, 4>> >>, <<"logic">>,
           <<"mipi_rffe">>, <<>>, <<"Embedded/industrial">>)
mipi_rffe_reads ==
    Reads(<< <<"str", "error_display", "display">> >>)
mipi_rffe_c_decoder ==
    Descriptor("mipi_rffe_c", mipi_rffe_tables,
               <<2, 0, 1, 19, 2, 1, 1, 0, 1>>,
               << <<"string", "display">> >>, mipi_rffe_reads)

morse_tables ==
    Tables(<< <<"data", 0>> >>, <<>>, <<"timeunit">>, 5,
           << <<"time", <<0, -1>>, 1>>, <<"units", <<1, -1>>, 1>>,
              <<"symbol", <<2, -1>>, 1>>, <<"letter", <<3, -1>>, 1>>,
              <<"word", <<4, -1>>, 1>> >>, <<"logic">>, <<>>, <<>>,
           <<"Encoding">>)
morse_reads ==
    Reads(<< <<"dbl", "timeunit", "0.1">> >>)
morse_c_decoder ==
    Descriptor("morse_c", morse_tables, <<1, 0, 1, 5, 5, 1, 0, 0, 1>>,
               << <<"double", "0.1">> >>, morse_reads)

mvb_tables ==
    Tables(<< <<"mvb", 0>> >>, <<>>, <<>>, 9,
           << <<"bits", <<0, 1, 7, -1>>, 3>>, <<"crcs", <<5, -1>>, 1>>,
              <<"ma-sl-data", <<2, 4, -1>>, 2>>,
              <<"f_codes", <<3, 8, -1>>, 2>>, <<"errors", <<6, -1>>, 1>> >>,
           <<"logic">>, <<>>, <<>>, <<"Frame">>)
mvb_c_decoder ==
    Descriptor("mvb_c", mvb_tables, <<1, 0, 0, 9, 5, 1, 0, 0, 1>>, <<>>,
               <<>>)

nrzi_tables ==
    Tables(<< <<"data", 0>> >>, <<>>, <<"preamble_len">>, 2,
           << <<"bits", <<0, 1, -1>>, 2>> >>, <<"logic">>, <<"nrzi">>, <<>>,
           <<"Encoding">>)
nrzi_reads ==
    Reads(<< <<"str", "preamble_len", "16">> >>)
nrzi_c_decoder ==
    Descriptor("nrzi_c", nrzi_tables, <<1, 0, 1, 2, 1, 1, 1, 0, 1>>,
               << <<"string", "16">> >>, nrzi_reads)

one_single_wire_tables ==
    Tables(<< <<"osw", 0>>, <<"strt", 1>> >>, <<>>, <<"threshold">>, 5,
           << <<"bits", <<0, 3, -1>>, 2>>, <<"bytes", <<1, 4, -1>>, 2>>,
              <<"samples", <<2, -1>>, 1>> >>, <<"logic">>, <<>>, <<>>,
           <<"Custom">>)
one_single_wire_reads ==
    Reads(<< <<"int", "threshold", "8">> >>)
one_single_wire_c_decoder ==
    Descriptor("one_single_wire_c", one_single_wire_tables,
               <<2, 0, 1, 5, 3, 1, 0, 0, 1>>, << <<"int64", "8">> >>,
               one_single_wire_reads)

onewire_tables ==
    Tables(<< <<"owr", 0>> >>, <<>>, <<"overdrive">>, 5,
           << <<"bits", <<0, 2, 3>>, 3>>, <<"info", <<4>>, 1>>,
              <<"warnings", <<1>>, 1>> >>, <<"logic">>, <<"onewire_link">>,
           <<>>, <<"Embedded/industrial">>)
onewire_reads ==
    Reads(<< <<"str", "overdrive", "no">> >>)
onewire_c_decoder ==
    Descriptor("onewire_c", onewire_tables, <<1, 0, 1, 5, 3, 1, 1, 0, 1>>,
               << <<"string", "no">> >>, onewire_reads)

onewire_link_tables ==
    Tables(<< <<"owr", 0>> >>, <<>>, <<"overdrive">>, 5,
           << <<"bits", <<0, 2, 3, -1>>, 3>>, <<"info", <<4, -1>>, 1>>,
              <<"warnings", <<1, -1>>, 1>> >>, <<"logic">>,
           <<"onewire_link">>, <<>>, <<"Embedded/industrial">>)
onewire_link_reads ==
    Reads(<< <<"str", "overdrive", "no">> >>)
onewire_link_c_decoder ==
    Descriptor("onewire_link_c", onewire_link_tables,
               <<1, 0, 1, 5, 3, 1, 1, 0, 1>>, << <<"string", "no">> >>,
               onewire_link_reads)

ook_tables ==
    Tables(<< <<"data", 0>> >>, <<>>,
           <<"invert", "decodeas", "preamble", "preamlen", "diffmanvar">>,
           6,
           << <<"frames", <<0, -1>>, 1>>, <<"info-vals", <<1, -1>>, 1>>,
              <<"man1111", <<2, -1>>, 1>>, <<"man1010", <<3, -1>>, 1>>,
              <<"diffmans", <<4, -1>>, 1>>, <<"nrz-vals", <<5, -1>>, 1>> >>,
           <<"logic">>, <<"ook">>, <<"pulse-lengths">>, <<"Encoding">>)
ook_reads ==
    Reads(<< <<"str", "invert", "no">>, <<"str", "decodeas", "Manchester">>,
             <<"str", "preamble", "auto">>, <<"str", "preamlen", "7">>,
             <<"str", "diffmanvar", "1">> >>)
ook_c_decoder ==
    Descriptor("ook_c", ook_tables, <<1, 0, 5, 6, 6, 1, 1, 1, 1>>,
               << <<"string", "no">>, <<"string", "Manchester">>,
                  <<"string", "auto">>, <<"string", "7">>,
                  <<"string", "1">> >>, ook_reads)

opentherm_tables ==
    Tables(<< <<"ot", 0>> >>, <<>>,
           <<"polarity", "bitlen", "jitter_m", "jitter_p", "m2s_silence_min",
              "m2s_silence_max", "s2m_silence_min", "m2m_act_max",
              "ignore_glitches", "format">>, 14,
           << <<"bits", <<0, -1>>, 1>>, <<"fields", R(1, 7) \o <<-1>>, 7>>,
              <<"direction", <<8, 9, -1>>, 2>>, <<"frames", <<10, -1>>, 1>>,
              <<"otxs", <<13, -1>>, 1>>, <<"warnings", <<12, -1>>, 1>>,
              <<"timings", <<11, -1>>, 1>> >>, <<"logic">>, <<>>, <<>>,
           <<"OT">>)
opentherm_reads ==
    Reads(<< <<"str", "polarity", "active-low">>,
             <<"int", "bitlen", "1000">>, <<"int", "jitter_m", "100">>,
             <<"int", "jitter_p", "150">>,
             <<"int", "m2s_silence_min", "20000">>,
             <<"int", "m2s_silence_max", "800000">>,
             <<"int", "s2m_silence_min", "100000">>,
             <<"int", "m2m_act_max", "1150000">>,
             <<"int", "ignore_glitches", "0">>,
             <<"str", "format", "dec">> >>)
opentherm_c_decoder ==
    Descriptor("opentherm_c", opentherm_tables,
               <<1, 0, 10, 14, 7, 1, 0, 0, 1>>,
               << <<"string", "active-low">>, <<"int64", "1000">>,
                  <<"int64", "100">>, <<"int64", "150">>,
                  <<"int64", "20000">>, <<"int64", "800000">>,
                  <<"int64", "100000">>, <<"int64", "1150000">>,
                  <<"int64", "0">>, <<"string", "dec">> >>, opentherm_reads)

DeclaredLogicB ==
    {flexray_c_decoder, fsi_c_decoder, gpib_c_decoder, graycode_c_decoder,
     guess_bitrate_c_decoder, hdlc_c_decoder, i2c_c_decoder, i2s_c_decoder,
     iebus_c_decoder, iec_c_decoder, ieee488_c_decoder, ir_irmp_c_decoder,
     ir_ltto_c_decoder, ir_nec_c_decoder, ir_rc5_c_decoder,
     ir_rc6_c_decoder, ir_recoil_c_decoder, ir_sirc_c_decoder,
     iso7816_c_decoder, jitter_c_decoder, jtag_c_decoder, lfast_c_decoder,
     lpc_c_decoder, maple_bus_c_decoder, mcs48_c_decoder, mdio_c_decoder,
     microwire_c_decoder, miller_c_decoder, mipi_dsi_c_decoder,
     mipi_rffe_c_decoder, morse_c_decoder, mvb_c_decoder, nrzi_c_decoder,
     one_single_wire_c_decoder, onewire_c_decoder, onewire_link_c_decoder,
     ook_c_decoder, opentherm_c_decoder}
=============================================================================
