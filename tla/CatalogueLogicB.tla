-------------------------- MODULE CatalogueLogicB ---------------------------
(***************************************************************************)
(* What the C decoders declare: decoders of logic samples, parallel        *)
(* to z80, and the decoders stacked on uart.                               *)
(* Per decoder the tables of its file, the options its start() reads, and  *)
(* the descriptor that srd_c_decoder_entry returns; at the end of a part   *)
(* the set of its descriptors.  Declared explains the definitions.         *)
(***************************************************************************)
EXTENDS Declared

-----------------------------------------------------------------------------
(* Decoders of logic samples, parallel to z80                              *)
parallel_tables ==
    Tables(<<>>,
           << <<"clk", 0>> >> \o [i \in 1..32 |-> <<"d" \o ToString(i - 1), i>>],
           <<"clock_edge", "wordsize", "endianness">>, 2,
           << <<"items", <<0, -1>>, 1>>, <<"words", <<1, -1>>, 1>> >>,
           <<"logic">>, <<"parallel">>, <<>>, <<"Util">>)
parallel_reads ==
    Reads(<< <<"str", "clock_edge", "rising">>, <<"int", "wordsize", "0">>,
             <<"str", "endianness", "little">> >>)
parallel_c_decoder ==
    Descriptor("parallel_c", parallel_tables,
               <<0, 33, 3, 2, 2, 1, 1, 0, 1>>,
               << <<"string", "rising">>, <<"int64", "0">>,
                  <<"string", "little">> >>, parallel_reads)

pcfx_ctrlr_tables ==
    Tables(<< <<"trigger", 0>>, <<"clk", 1>>, <<"data", 2>> >>,
           << <<"dir", 3>> >>, <<"bitvals">>, 12,
           << <<"starts", <<0, 1, -1>>, 2>>, <<"bits", <<2, 3, -1>>, 2>>,
              <<"bytes", <<4, -1>>, 1>>, <<"words", <<5, -1>>, 1>>,
              <<"controller", R(6, 10) \o <<-1>>, 5>>,
              <<"warnings", <<11, -1>>, 1>> >>, <<"logic">>, <<>>, <<>>,
           <<"Retro computing">>)
pcfx_ctrlr_reads ==
    Reads(<< <<"str", "bitvals", "electrical">> >>)
pcfx_ctrlr_c_decoder ==
    Descriptor("pcfx_ctrlr_c", pcfx_ctrlr_tables,
               <<3, 1, 1, 12, 6, 1, 0, 0, 1>>,
               << <<"string", "electrical">> >>, pcfx_ctrlr_reads)

pjdl_tables ==
    Tables(<< <<"data", 0>> >>, <<>>, <<"mode", "idle_add_us">>, 11,
           << <<"carriers", <<0, 1, -1>>, 2>>,
              <<"bits", R(2, 5) \o <<-1>>, 4>>,
              <<"bytes", <<8, 7, 10, -1>>, 3>>, <<"frames", <<9, -1>>, 1>>,
              <<"warns", <<6, -1>>, 1>> >>, <<"logic">>, <<"pjon_link">>,
           <<>>, <<"Embedded/industrial">>)
pjdl_reads ==
    Reads(<< <<"int", "mode", "1">>, <<"int", "idle_add_us", "4">> >>)
pjdl_c_decoder ==
    Descriptor("pjdl_c", pjdl_tables, <<1, 0, 2, 11, 5, 1, 1, 0, 1>>,
               << <<"int64", "1">>, <<"int64", "4">> >>, pjdl_reads)

ps2_tables ==
    Tables(<< <<"clk", 0>>, <<"data", 1>> >>, <<>>,
           <<"HtoD_Clock", "DtoH_Clock">>, 10,
           << <<"bits", <<0, -1>>, 1>>, <<"fields", R(1, 8) \o <<-1>>, 8>>,
              <<"atk-signs", <<9, -1>>, 1>> >>, <<"logic">>, <<"ps2">>,
           <<>>, <<"PC">>)
ps2_reads ==
    Reads(<< <<"str", "HtoD_Clock", "rise">>,
             <<"str", "DtoH_Clock", "fall">> >>)
ps2_c_decoder ==
    Descriptor("ps2_c", ps2_tables, <<2, 0, 2, 10, 3, 1, 1, 0, 1>>,
               << <<"string", "rise">>, <<"string", "fall">> >>, ps2_reads)

pwm_tables ==
    Tables(<< <<"data", 0>> >>, <<>>, <<"polarity">>, 2,
           << <<"duty-cycle", <<0>>, 1>>, <<"period", <<1>>, 1>> >>,
           <<"logic">>, <<>>, <<"raw">>, <<"Encoding">>)
pwm_reads ==
    Reads(<< <<"str", "polarity", "active-high">> >>)
pwm_c_decoder ==
    Descriptor("pwm_c", pwm_tables, <<1, 0, 1, 2, 2, 1, 0, 1, 1>>,
               << <<"string", "active-high">> >>, pwm_reads)

pxx1_tables ==
    Tables(<< <<"data", 0>> >>, <<>>, <<>>, 20,
           << <<"bytes", <<0, -1>>, 1>>, <<"bits", <<1, 2, -1>>, 2>>,
              <<"desc", R(3, 19) \o <<-1>>, 17>> >>, <<"logic">>, <<>>,
           <<"raw">>, <<"PXX1">>)
pxx1_c_decoder ==
    Descriptor("pxx1_c", pxx1_tables, <<1, 0, 0, 20, 3, 1, 0, 1, 1>>, <<>>,
               <<>>)

qi_tables ==
    Tables(<< <<"qi", 0>> >>, <<>>, <<>>, 8,
           << <<"bits", <<0, -1>>, 1>>, <<"bytes", R(1, 4) \o <<-1>>, 4>>,
              <<"packets", <<5, 6, 7, -1>>, 3>> >>, <<"logic">>, <<>>, <<>>,
           <<"Embedded/industrial", "Wireless/RF">>)
qi_c_decoder ==
    Descriptor("qi_c", qi_tables, <<1, 0, 0, 8, 3, 1, 0, 0, 2>>, <<>>, <<>>)

qspi_tables ==
    Tables(<< <<"clk", 0>>, <<"io0", 1>> >>,
           << <<"io1", 2>>, <<"io2", 3>>, <<"io3", 4>>, <<"cs", 5>> >>,
           <<"cs_polarity", "cpol", "cpha", "bitorder", "ads", "frame",
              "twolinesmode", "invalidlevel">>, 8,
           << <<"data-transfer", <<0, -1>>, 1>>,
              <<"Quad data", <<1, -1>>, 1>>, <<"Dual data", <<2, -1>>, 1>>,
              <<"d0", <<3, -1>>, 1>>, <<"d1", <<4, -1>>, 1>>,
              <<"d2", <<5, -1>>, 1>>, <<"d3", <<6, -1>>, 1>>,
              <<"Other", <<7, -1>>, 1>> >>, <<"logic">>, <<"spi">>, <<>>,
           <<"Embedded/industrial">>)
qspi_reads ==
    Reads(<< <<"str", "cs_polarity", "active-low">>, <<"int", "cpol", "0">>,
             <<"int", "cpha", "0">>, <<"str", "bitorder", "msb-first">>,
             <<"str", "ads", "24-Bit Address">>, <<"str", "frame", "no">>,
             <<"str", "twolinesmode", "spi">>,
             <<"str", "invalidlevel", "both">> >>)
qspi_c_decoder ==
    Descriptor("qspi_c", qspi_tables, <<2, 4, 8, 8, 8, 1, 1, 0, 1>>,
               << <<"string", "active-low">>, <<"int64", "0">>,
                  <<"int64", "0">>, <<"string", "msb-first">>,
                  <<"string", "24-Bit Address">>, <<"string", "no">>,
                  <<"string", "spi">>, <<"string", "both">> >>, qspi_reads)

rc_encode_tables ==
    Tables(<< <<"data", 0>> >>, <<>>, <<"remote">>, 8,
           << <<"bits", R(0, 4) \o <<-1>>, 5>>, <<"pins", <<5, -1>>, 1>>,
              <<"code-words", <<6, 7, -1>>, 2>> >>, <<"logic">>, <<>>, <<>>,
           <<"IC", "IR">>)
rc_encode_reads ==
    Reads(<< <<"str", "remote", "none">> >>)
rc_encode_c_decoder ==
    Descriptor("rc_encode_c", rc_encode_tables,
               <<1, 0, 1, 8, 3, 1, 0, 0, 2>>, << <<"string", "none">> >>,
               rc_encode_reads)

rgb_led_ws281x_tables ==
    Tables(<< <<"din", 0>> >>, <<>>, <<"colors", "polarity">>, 3,
           << <<"bit", <<0, 1, -1>>, 2>>, <<"rgb", <<2, -1>>, 1>> >>,
           <<"logic">>, <<>>, <<>>, <<"Display", "IC">>)
rgb_led_ws281x_reads ==
    Reads(<< <<"str", "colors", "GRB">>, <<"str", "polarity", "normal">> >>)
rgb_led_ws281x_c_decoder ==
    Descriptor("rgb_led_ws281x_c", rgb_led_ws281x_tables,
               <<1, 0, 2, 3, 2, 1, 0, 0, 2>>,
               << <<"string", "GRB">>, <<"string", "normal">> >>,
               rgb_led_ws281x_reads)

rinnai_control_panel_tables ==
    Tables(<< <<"data", 0>> >>, <<>>, <<"invert", "bit_numbering">>, 5,
           << <<"bits", <<0, 2, -1>>, 2>>, <<"warnings", <<1, -1>>, 1>>,
              <<"bytes", <<3, -1>>, 1>>, <<"packets", <<4, -1>>, 1>> >>,
           <<"logic">>, <<"rinnai">>, <<>>, <<"Embedded/industrial">>)
rinnai_control_panel_reads ==
    Reads(<< <<"str", "invert", "no">>, <<"str", "bit_numbering", "lsb">> >>)
rinnai_control_panel_c_decoder ==
    Descriptor("rinnai_control_panel_c", rinnai_control_panel_tables,
               <<1, 0, 2, 5, 4, 1, 1, 0, 1>>,
               << <<"string", "no">>, <<"string", "lsb">> >>,
               rinnai_control_panel_reads)

rpm_tables ==
    Tables(<< <<"data", 0>> >>, <<>>, <<"num_pulses", "edge">>, 1,
           << <<"rpms", <<0, -1>>, 1>> >>, <<"logic">>, <<>>, <<>>,
           <<"Util">>)
rpm_reads ==
    Reads(<< <<"int", "num_pulses", "2">>, <<"str", "edge", "falling">> >>)
rpm_c_decoder ==
    Descriptor("rpm_c", rpm_tables, <<1, 0, 2, 1, 1, 1, 0, 0, 1>>,
               << <<"int64", "2">>, <<"string", "falling">> >>, rpm_reads)

rvswd_tables ==
    Tables(<< <<"clk", 0>>, <<"dio", 1>> >>, <<>>, <<>>, 11,
           << <<"addr-data", R(0, 9) \o <<-1>>, 10>>,
              <<"bits", <<10, -1>>, 1>> >>, <<"logic">>, <<>>, <<>>,
           <<"Debug/trace">>)
rvswd_c_decoder ==
    Descriptor("rvswd_c", rvswd_tables, <<2, 0, 0, 11, 2, 1, 0, 0, 1>>,
               <<>>, <<>>)

sae_j1850_vpw_tables ==
    Tables(<< <<"data", 0>> >>, <<>>, <<>>, 5,
           << <<"raws", <<0, 1, 2, -1>>, 3>>, <<"bytes", <<3, -1>>, 1>>,
              <<"packets", <<4, -1>>, 1>> >>, <<"logic">>, <<>>, <<>>,
           <<"Automotive">>)
sae_j1850_vpw_c_decoder ==
    Descriptor("sae_j1850_vpw_c", sae_j1850_vpw_tables,
               <<1, 0, 0, 5, 3, 1, 0, 0, 1>>, <<>>, <<>>)

sda2506_tables ==
    Tables(<< <<"clk", 0>>, <<"d", 1>>, <<"ce", 2>> >>, <<>>, <<>>, 5,
           << <<"bits", <<0, 1, -1>>, 2>>, <<"commands", <<2, -1>>, 1>>,
              <<"data", <<3, -1>>, 1>>, <<"warnings", <<4, -1>>, 1>> >>,
           <<"logic">>, <<>>, <<>>, <<"IC", "Memory">>)
sda2506_c_decoder ==
    Descriptor("sda2506_c", sda2506_tables, <<3, 0, 0, 5, 4, 1, 0, 0, 2>>,
               <<>>, <<>>)

sdcard_sd_tables ==
    Tables(<< <<"cmd", 0>>, <<"clk", 1>> >>,
           << <<"dat0", 2>>, <<"dat1", 3>>, <<"dat2", 4>>, <<"dat3", 5>> >>,
           <<>>, Unnamed(211),
           << <<"raw-bits", <<201, 202, -1>>, 2>>,
              <<"decoded-bits", <<209>> \o R(128, 133) \o <<-1>>, 7>>,
              <<"decoded-fields", <<210, -1>>, 1>>,
              <<"fields", R(203, 208) \o <<-1>>, 6>>,
              <<"commands", R(0, 133) \o <<-1>>, 134>> >>, <<"logic">>,
           <<>>, <<>>, <<"Memory">>)
sdcard_sd_c_decoder ==
    Descriptor("sdcard_sd_c", sdcard_sd_tables,
               <<2, 4, 0, 211, 5, 1, 0, 0, 1>>, <<>>, <<>>)

sdio_tables ==
    Tables(<< <<"cmd", 0>>, <<"clk", 1>> >>,
           << <<"dat0", 2>>, <<"dat1", 3>>, <<"dat2", 4>>, <<"dat3", 5>> >>,
           <<"lines", "io_block_len", "polarity">>, 142,
           << <<"datas", R(137, 140), 4>>, <<"raw-bits", <<128>>, 1>>,
              <<"decoded-bits", <<135>>, 1>>,
              <<"decoded-fields", <<136>>, 1>>, <<"fields", R(129, 134), 6>>,
              <<"cmd", R(0, 127), 128>>, <<"msg", <<141>>, 1>> >>,
           <<"logic">>, <<"sdio">>, <<>>, <<"Memory">>)
sdio_reads ==
    Reads(<< <<"str", "lines", "1-line">>, <<"int", "io_block_len", "512">>,
             <<"str", "polarity", "risedge">> >>)
sdio_c_decoder ==
    Descriptor("sdio_c", sdio_tables, <<2, 4, 3, 142, 7, 1, 1, 0, 1>>,
               << <<"string", "1-line">>, <<"string", "512">>,
                  <<"string", "risedge">> >>, sdio_reads)

sdq_tables ==
    Tables(<< <<"sdq", 0>> >>, <<>>, <<"bitrate">>, 3,
           << <<"bits", <<0, -1>>, 1>>, <<"bytes", <<1, -1>>, 1>>,
              <<"breaks", <<2, -1>>, 1>> >>, <<"logic">>, <<>>, <<>>,
           <<"Embedded/industrial">>)
sdq_reads ==
    Reads(<< <<"int", "bitrate", "98425">> >>)
sdq_c_decoder ==
    Descriptor("sdq_c", sdq_tables, <<1, 0, 1, 3, 3, 1, 0, 0, 1>>,
               << <<"int64", "98425">> >>, sdq_reads)

sent_tables ==
    Tables(<< <<"data", 0>> >>, <<>>,
           <<"dataSize", "tickPer", "tickTol", "pausePulse", "crcMode",
              "serialMode">>, 14,
           << <<"sent", R(1, 5) \o <<-1>>, 5>>, <<"pulses", <<0, -1>>, 1>>,
              <<"serial", <<6, 7, 12, -1>>, 3>>,
              <<"serialID", R(8, 11) \o <<-1>>, 4>>,
              <<"warnings", <<13, -1>>, 1>> >>, <<"logic">>, <<"sent">>,
           <<>>, <<"Embedded/automotive">>)
sent_reads ==
    Reads(<< <<"int", "dataSize", "6">>, <<"int", "tickPer", "3">>,
             <<"int", "tickTol", "5">>, <<"str", "pausePulse", "on">>,
             <<"str", "crcMode", "recommended">>,
             <<"str", "serialMode", "off">> >>)
sent_c_decoder ==
    Descriptor("sent_c", sent_tables, <<1, 0, 6, 14, 5, 1, 1, 0, 1>>,
               << <<"int64", "6">>, <<"int64", "3">>, <<"int64", "5">>,
                  <<"string", "on">>, <<"string", "recommended">>,
                  <<"string", "off">> >>, sent_reads)

seven_segment_tables ==
    Tables(<< <<"a", 0>>, <<"b", 1>>, <<"c", 2>>, <<"d", 3>>, <<"e", 4>>,
              <<"f", 5>>, <<"g", 6>> >>, << <<"dp", 7>> >>, <<"polarity">>,
           1, << <<"decoded-digits", <<0, -1>>, 1>> >>, <<"logic">>, <<>>,
           <<>>, <<"Display">>)
seven_segment_reads ==
    Reads(<< <<"str", "polarity", "common-cathode">> >>)
seven_segment_c_decoder ==
    Descriptor("seven_segment_c", seven_segment_tables,
               <<7, 1, 1, 1, 1, 1, 0, 0, 1>>,
               << <<"string", "common-cathode">> >>, seven_segment_reads)

signature_tables ==
    Tables(<< <<"start", 0>>, <<"stop", 1>>, <<"clk", 2>>, <<"data", 3>> >>,
           <<>>, <<"start_edge", "stop_edge", "clk_edge", "annbits">>, 5,
           << <<"bits", R(0, 3) \o <<-1>>, 4>>,
              <<"signatures", <<4, -1>>, 1>> >>, <<"logic">>, <<>>, <<>>,
           <<"Debug/trace", "Util", "Encoding">>)
signature_reads ==
    Reads(<< <<"str", "start_edge", "rising">>,
             <<"str", "stop_edge", "rising">>, <<"str", "annbits", "no">>,
             <<"str", "clk_edge", "falling">> >>)
signature_c_decoder ==
    Descriptor("signature_c", signature_tables,
               <<4, 0, 4, 5, 2, 1, 0, 0, 3>>,
               << <<"string", "rising">>, <<"string", "rising">>,
                  <<"string", "falling">>, <<"string", "no">> >>,
               signature_reads)

sle44xx_tables ==
    Tables(<< <<"rst", 0>>, <<"clk", 1>>, <<"io", 2>> >>, <<>>, <<>>, 13,
           << <<"symbols", R(0, 4) \o <<-1>>, 5>>,
              <<"fields", R(5, 8) \o <<-1>>, 4>>,
              <<"operations", R(9, 12) \o <<-1>>, 4>> >>, <<"logic">>, <<>>,
           <<"bytes">>, <<"Memory">>)
sle44xx_c_decoder ==
    Descriptor("sle44xx_c", sle44xx_tables, <<3, 0, 0, 13, 3, 1, 0, 1, 1>>,
               <<>>, <<>>)

sony_md_tables ==
    Tables(<< <<"data", 0>> >>, <<>>, <<"marginpct">>, 8,
           << <<"signalling", <<0, -1>>, 1>>,
              <<"raw-bits", <<1, 2, -1>>, 2>>,
              <<"byte-values", <<5, -1>>, 1>>, <<"Messages", <<6, -1>>, 1>>,
              <<"errors", <<3, 4, 7, -1>>, 3>> >>, <<"logic">>,
           <<"sony_md">>, <<>>, <<"">>)
sony_md_reads ==
    Reads(<< <<"int", "marginpct", "20">> >>)
sony_md_c_decoder ==
    Descriptor("sony_md_c", sony_md_tables, <<1, 0, 1, 8, 5, 1, 1, 0, 1>>,
               << <<"int64", "20">> >>, sony_md_reads)

spacewire_tables ==
    Tables(<< <<"data", 0>>, <<"strobe", 1>> >>, <<>>, <<>>, 8,
           << <<"bits", <<0, 1, 2>>, 3>>, <<"characters", <<3, 4>>, 2>>,
              <<"codes", <<5, 6>>, 2>>, <<"warnings", <<7>>, 1>> >>,
           <<"logic">>, <<"spacewire">>, <<>>, <<"Aerospace">>)
spacewire_c_decoder ==
    Descriptor("spacewire_c", spacewire_tables,
               <<2, 0, 0, 8, 4, 1, 1, 0, 1>>, <<>>, <<>>)

spdif_tables ==
    Tables(<< <<"data", 0>> >>, <<>>, <<>>, 9,
           << <<"info", <<0, 1, 3>> \o R(5, 8), 7>>, <<"bits", <<2>>, 1>>,
              <<"samples", <<4>>, 1>> >>, <<"logic">>, <<>>, <<>>,
           <<"Audio", "PC">>)
spdif_c_decoder ==
    Descriptor("spdif_c", spdif_tables, <<1, 0, 0, 9, 3, 1, 0, 0, 2>>, <<>>,
               <<>>)

spi_tables ==
    Tables(<< <<"clk", 0>> >>,
           << <<"miso", 1>>, <<"mosi", 2>>, <<"cs", 3>> >>,
           <<"cs_polarity", "cpol", "cpha", "bitorder", "wordsize", "format",
              "show_data_point">>, 10,
           << <<"miso-bits", <<2, -1>>, 1>>,
              <<"miso-data-vals", <<0, -1>>, 1>>,
              <<"miso-transfers", <<5, -1>>, 1>>,
              <<"mosi-bits", <<3, -1>>, 1>>,
              <<"mosi-data-vals", <<1, -1>>, 1>>,
              <<"mosi-transfers", <<6, -1>>, 1>>, <<"other", <<4, -1>>, 1>>,
              <<"atk-signs", <<7, 8, 9, -1>>, 3>> >>, <<"logic">>,
           <<"spi">>, <<"miso", "mosi">>, <<"Embedded/industrial">>)
spi_reads ==
    Reads(<< <<"str", "cs_polarity", "active-low">>, <<"int", "cpol", "0">>,
             <<"int", "cpha", "0">>, <<"str", "bitorder", "msb-first">>,
             <<"int", "wordsize", "8">>, <<"str", "format", "hex">>,
             <<"bool", "show_data_point", "1">> >>)
spi_c_decoder ==
    Descriptor("spi_c", spi_tables, <<1, 3, 7, 10, 8, 1, 1, 2, 1>>,
               << <<"string", "active-low">>, <<"uint64", "0">>,
                  <<"uint64", "0">>, <<"string", "msb-first">>,
                  <<"uint64", "8">>, <<"string", "hex">>,
                  <<"string", "yes">> >>, spi_reads)

spi_dual_quad_tables ==
    Tables(<< <<"clk", 0>>, <<"sio0", 1>>, <<"sio1", 2>> >>,
           << <<"sio2", 3>>, <<"sio3", 4>>, <<"cs", 5>> >>,
           <<"cs_polarity", "cpol", "cpha", "bitorder", "wordsize",
              "twolnmd", "protocol">>, 7,
           << <<"sio0-bits", <<1, -1>>, 1>>, <<"sio1-bits", <<2, -1>>, 1>>,
              <<"sio2-bits", <<3, -1>>, 1>>, <<"sio3-bits", <<4, -1>>, 1>>,
              <<"spi-data-vals", <<0, -1>>, 1>>,
              <<"spi-transfers", <<6, -1>>, 1>>,
              <<"other", <<5, -1>>, 1>> >>, <<"logic">>, <<"spi">>,
           <<"spi-data">>, <<"Embedded/industrial">>)
spi_dual_quad_reads ==
    Reads(<< <<"str", "cs_polarity", "active-low">>, <<"int", "cpol", "0">>,
             <<"int", "cpha", "0">>, <<"str", "bitorder", "msb-first">>,
             <<"int", "wordsize", "8">>, <<"str", "twolnmd", "qspi">>,
             <<"str", "protocol", "spi">> >>)
spi_dual_quad_c_decoder ==
    Descriptor("spi_dual_quad_c", spi_dual_quad_tables,
               <<3, 3, 7, 7, 7, 1, 1, 1, 1>>,
               << <<"string", "active-low">>, <<"int64", "0">>,
                  <<"int64", "0">>, <<"string", "msb-first">>,
                  <<"int64", "8">>, <<"string", "qspi">>,
                  <<"string", "spi">> >>, spi_dual_quad_reads)

spi_fast_tables ==
    Tables(<< <<"clk", 0>> >>,
           << <<"miso", 1>>, <<"mosi", 2>>, <<"cs", 3>> >>,
           <<"cs_polarity", "cpol", "cpha", "bitorder", "wordsize", "format",
              "show_data_point">>, 5,
           << <<"miso-data-vals", <<0, -1>>, 1>>,
              <<"mosi-data-vals", <<1, -1>>, 1>>,
              <<"atk-signs", <<2, 3, 4, -1>>, 3>> >>, <<"logic">>,
           <<"spi">>, <<"miso", "mosi">>, <<"Embedded/industrial">>)
spi_fast_reads ==
    Reads(<< <<"str", "cs_polarity", "active-low">>, <<"int", "cpol", "0">>,
             <<"int", "cpha", "0">>, <<"str", "bitorder", "msb-first">>,
             <<"int", "wordsize", "8">>, <<"str", "show_data_point", "no">>,
             <<"str", "format", "hex">> >>)
spi_fast_c_decoder ==
    Descriptor("spi_fast_c", spi_fast_tables, <<1, 3, 7, 5, 3, 1, 1, 2, 1>>,
               << <<"string", "active-low">>, <<"uint64", "0">>,
                  <<"uint64", "0">>, <<"string", "msb-first">>,
                  <<"uint64", "8">>, <<"string", "hex">>,
                  <<"string", "no">> >>, spi_fast_reads)

st7735_tables ==
    Tables(<< <<"cs", 0>>, <<"clk", 1>>, <<"mosi", 2>>, <<"dc", 3>> >>,
           <<>>, <<>>, 4,
           << <<"bits", <<0, -1>>, 1>>, <<"fields", <<1, 2, -1>>, 2>>,
              <<"description", <<3, -1>>, 1>> >>, <<"logic">>, <<>>, <<>>,
           <<"Display", "IC">>)
st7735_c_decoder ==
    Descriptor("st7735_c", st7735_tables, <<4, 0, 0, 4, 3, 1, 0, 0, 2>>,
               <<>>, <<>>)

st7789_tables ==
    Tables(<< <<"csx", 0>>, <<"dcx", 1>>, <<"sdo", 2>>, <<"wrx", 3>> >>,
           <<>>, <<>>, 5,
           << <<"bits", <<0, -1>>, 1>>, <<"bytes", <<1, 2, -1>>, 2>>,
              <<"cmd_data", <<3, -1>>, 1>>, <<"asserted", <<4, -1>>, 1>> >>,
           <<"logic">>, <<>>, <<>>, <<"Display", "SPI">>)
st7789_c_decoder ==
    Descriptor("st7789_c", st7789_tables, <<4, 0, 0, 5, 4, 1, 0, 0, 2>>,
               <<>>, <<>>)

stepper_motor_tables ==
    Tables(<< <<"step", 0>>, <<"dir", 1>> >>, <<>>,
           <<"unit", "steps_per_mm">>, 2,
           << <<"speed", <<0, -1>>, 1>>, <<"position", <<1, -1>>, 1>> >>,
           <<"logic">>, <<>>, <<>>, <<"Embedded/industrial">>)
stepper_motor_reads ==
    Reads(<< <<"str", "unit", "steps">>, <<"dbl", "steps_per_mm", "100">> >>)
stepper_motor_c_decoder ==
    Descriptor("stepper_motor_c", stepper_motor_tables,
               <<2, 0, 2, 2, 2, 1, 0, 0, 1>>,
               << <<"string", "steps">>, <<"double", "100">> >>,
               stepper_motor_reads)

swd_tables ==
    Tables(<< <<"swclk", 0>>, <<"swdio", 1>> >>, <<>>, <<"strict_start">>,
           7, << <<"swd", R(0, 6) \o <<-1>>, 7>> >>, <<"logic">>, <<"swd">>,
           <<>>, <<"Debug/trace">>)
swd_reads ==
    Reads(<< <<"str", "strict_start", "no">> >>)
swd_c_decoder ==
    Descriptor("swd_c", swd_tables, <<2, 0, 1, 7, 1, 1, 1, 0, 1>>,
               << <<"string", "no">> >>, swd_reads)

swi_tables ==
    Tables(<< <<"swi", 0>> >>, <<>>, <<>>, 7,
           << <<"bauds", <<0, -1>>, 1>>, <<"bits_a", <<1, -1>>, 1>>,
              <<"data", <<2, -1>>, 1>>, <<"errors", <<3, -1>>, 1>>,
              <<"meanings", <<4, -1>>, 1>>,
              <<"meanings_data", <<5, -1>>, 1>>,
              <<"numbs", <<6, -1>>, 1>> >>, <<"logic">>, <<>>, <<>>,
           <<"Clock/timing", "Util">>)
swi_c_decoder ==
    Descriptor("swi_c", swi_tables, <<1, 0, 0, 7, 7, 1, 0, 0, 2>>, <<>>,
               <<>>)

swim_tables ==
    Tables(<< <<"swim", 0>> >>, <<>>, <<"debug">>, 16,
           << <<"bits", <<0, -1>>, 1>>, <<"framing", R(2, 8) \o <<-1>>, 7>>,
              <<"protocol", <<1>> \o R(9, 14) \o <<-1>>, 7>>,
              <<"debug", <<15, -1>>, 1>> >>, <<"logic">>, <<>>,
           <<"tx", "rx">>, <<"Debug/trace">>)
swim_reads ==
    Reads(<< <<"str", "debug", "no">> >>)
swim_c_decoder ==
    Descriptor("swim_c", swim_tables, <<1, 0, 1, 16, 4, 1, 0, 2, 1>>, <<>>,
               swim_reads)

t55xx_tables ==
    Tables(<< <<"data", 0>> >>, <<>>,
           <<"coilfreq", "start_gap", "w_gap", "w_one_min", "w_one_max",
              "w_zero_min", "w_zero_max", "em4100_decode">>, 11,
           << <<"bits", <<0, -1>>, 1>>,
              <<"structure", R(1, 4) \o <<-1>>, 4>>,
              <<"fields", R(5, 9) \o <<-1>>, 5>>,
              <<"decode", <<10, -1>>, 1>> >>, <<"logic">>, <<>>, <<>>,
           <<"IC", "RFID">>)
t55xx_reads ==
    Reads(<< <<"int", "coilfreq", "125000">>, <<"int", "start_gap", "20">>,
             <<"int", "w_gap", "20">>, <<"int", "w_one_min", "48">>,
             <<"int", "w_one_max", "63">>, <<"int", "w_zero_min", "16">>,
             <<"int", "w_zero_max", "31">>,
             <<"str", "em4100_decode", "on">> >>)
t55xx_c_decoder ==
    Descriptor("t55xx_c", t55xx_tables, <<1, 0, 8, 11, 4, 1, 0, 0, 2>>,
               << <<"uint64", "125000">>, <<"uint64", "20">>,
                  <<"uint64", "20">>, <<"uint64", "48">>, <<"uint64", "63">>,
                  <<"uint64", "16">>, <<"uint64", "31">>,
                  <<"string", "on">> >>, t55xx_reads)

tdm_audio_tables ==
    Tables(<< <<"clock", 0>>, <<"frame", 1>>, <<"data", 2>> >>, <<>>,
           <<"bps", "channels", "edge", "sampling_edge">>, 8,
           << <<"ch0-vals", <<0, -1>>, 1>>, <<"ch1-vals", <<1, -1>>, 1>>,
              <<"ch2-vals", <<2, -1>>, 1>>, <<"ch3-vals", <<3, -1>>, 1>>,
              <<"ch4-vals", <<4, -1>>, 1>>, <<"ch5-vals", <<5, -1>>, 1>>,
              <<"ch6-vals", <<6, -1>>, 1>>, <<"ch7-vals", <<7, -1>>, 1>> >>,
           <<"logic">>, <<>>, <<>>, <<"Audio">>)
tdm_audio_reads ==
    Reads(<< <<"int", "bps", "16">>, <<"int", "channels", "8">>,
             <<"str", "edge", "rising">>,
             <<"str", "sampling_edge", "first edge">> >>)
tdm_audio_c_decoder ==
    Descriptor("tdm_audio_c", tdm_audio_tables,
               <<3, 0, 4, 8, 8, 1, 0, 0, 1>>,
               << <<"uint64", "16">>, <<"uint64", "8">>,
                  <<"string", "rising">>, <<"string", "first edge">> >>,
               tdm_audio_reads)

timing_tables ==
    Tables(<< <<"data", 0>> >>, <<>>,
           <<"avg_period", "edge", "delta", "format">>, 4,
           << <<"times", <<0, 1, -1>>, 2>>, <<"averages", <<2, -1>>, 1>>,
              <<"deltas", <<3, -1>>, 1>> >>, <<"logic">>, <<>>, <<>>,
           <<"Clock/timing", "Util">>)
timing_reads ==
    Reads(<< <<"int", "avg_period", "100">>, <<"str", "edge", "any">>,
             <<"str", "delta", "no">>, <<"str", "format", "full">> >>)
timing_c_decoder ==
    Descriptor("timing_c", timing_tables, <<1, 0, 4, 4, 3, 1, 0, 0, 2>>,
               << <<"uint64", "100">>, <<"string", "any">>,
                  <<"string", "no">>, <<"string", "full">> >>, timing_reads)

tlc5620_tables ==
    Tables(<< <<"clk", 0>>, <<"data", 1>> >>,
           << <<"load", 2>>, <<"ldac", 3>> >>,
           <<"vref_a", "vref_b", "vref_c", "vref_d">>, 10,
           << <<"bits", <<5, -1>>, 1>>, <<"fields", <<0, 1, 2, -1>>, 3>>,
              <<"registers", <<6, 7, -1>>, 2>>,
              <<"voltage-updates", <<8, -1>>, 1>>,
              <<"events", <<3, 4, -1>>, 2>>, <<"errors", <<9, -1>>, 1>> >>,
           <<"logic">>, <<>>, <<>>, <<"IC", "Analog/digital">>)
tlc5620_reads ==
    Reads(<< <<"dbl", "vref_a", "3.3">>, <<"dbl", "vref_b", "3.3">>,
             <<"dbl", "vref_c", "3.3">>, <<"dbl", "vref_d", "3.3">> >>)
tlc5620_c_decoder ==
    Descriptor("tlc5620_c", tlc5620_tables, <<2, 2, 4, 10, 6, 1, 0, 0, 2>>,
               << <<"double", "3.3">>, <<"double", "3.3">>,
                  <<"double", "3.3">>, <<"double", "3.3">> >>,
               tlc5620_reads)

tmc_tables ==
    Tables(<< <<"clk", 0>>, <<"dio", 1>> >>, << <<"stb", 2>> >>,
           <<"radix">>, 8,
           << <<"bits", <<6, -1>>, 1>>, <<"data", R(0, 5) \o <<-1>>, 6>>,
              <<"warnings", <<7, -1>>, 1>> >>, <<"logic">>, <<"tmc">>,
           <<"DATA">>, <<"Embedded/industrial">>)
tmc_reads ==
    Reads(<< <<"str", "radix", "Hex">> >>)
tmc_c_decoder ==
    Descriptor("tmc_c", tmc_tables, <<2, 1, 1, 8, 3, 1, 1, 1, 1>>,
               << <<"string", "Hex">> >>, tmc_reads)

uart_tables ==
    Tables(<<>>, << <<"rx", 0>>, <<"tx", 1>> >>,
           <<"baudrate", "data_bits", "stop_bits", "parity", "bit_order",
              "format", "invert_rx", "invert_tx", "show_data_point",
              "sample_point", "show_start_stop", "packet_idle_us",
              "rx_packet_delim", "tx_packet_delim", "rx_packet_len",
              "tx_packet_len">>, 21,
           << <<"rx-data-bits", <<12, -1>>, 1>>,
              <<"rx-samples", <<18, -1>>, 1>>,
              <<"rx-data-vals", <<2, 4, 6, 8, 10, -1>>, 5>>,
              <<"rx-warnings", <<0, -1>>, 1>>,
              <<"rx-breaks", <<14, -1>>, 1>>,
              <<"rx-packets", <<16, -1>>, 1>>,
              <<"tx-data-bits", <<13, -1>>, 1>>,
              <<"tx-samples", <<19, -1>>, 1>>,
              <<"tx-data-vals", <<3, 5, 7, 9, 11, -1>>, 5>>,
              <<"tx-warnings", <<1, -1>>, 1>>,
              <<"tx-breaks", <<15, -1>>, 1>>,
              <<"tx-packets", <<17, -1>>, 1>>,
              <<"atk-signs", <<20, -1>>, 1>> >>, <<"logic">>, <<"uart">>,
           <<"rx", "tx", "rxtx", "rx-ok", "tx-ok", "rxtx-ok">>,
           <<"Embedded/industrial">>)
uart_reads ==
    Reads(<< <<"int", "baudrate", "115200">>, <<"int", "data_bits", "8">>,
             <<"dbl", "stop_bits", "1">>, <<"str", "parity", "none">>,
             <<"str", "bit_order", "lsb-first">>, <<"str", "format", "hex">>,
             <<"bool", "invert_rx", "0">>, <<"bool", "invert_tx", "0">>,
             <<"bool", "put_sample_points", "0">>,
             <<"bool", "show_start_stop", "1">>,
             <<"bool", "show_data_point", "1">>,
             <<"dbl", "sample_point", "50">>,
             <<"int", "rx_packet_delim", "-1">>,
             <<"int", "tx_packet_delim", "-1">>,
             <<"int", "rx_packet_len", "-1">>,
             <<"int", "tx_packet_len", "-1">>,
             <<"dbl", "packet_idle_us", "-1">> >>)
uart_c_decoder ==
    Descriptor("uart_c", uart_tables, <<0, 2, 16, 21, 13, 1, 1, 6, 1>>,
               << <<"int64", "115200">>, <<"int64", "8">>, <<"double", "1">>,
                  <<"string", "none">>, <<"string", "lsb-first">>,
                  <<"string", "hex">>, <<"string", "no">>,
                  <<"string", "no">>, <<"string", "yes">>,
                  <<"double", "50">>, <<"string", "yes">>,
                  <<"double", "-1">>, <<"int64", "-1">>, <<"int64", "-1">>,
                  <<"int64", "-1">>, <<"int64", "-1">> >>, uart_reads)

uart_fast_tables ==
    Tables(<<>>, << <<"rx", 0>>, <<"tx", 1>> >>,
           <<"baudrate", "data_bits", "parity", "stop_bits", "bit_order",
              "format", "invert", "packet_idle_us", "show_data_point">>, 13,
           << <<"rx-data-vals", <<2, 4, 6, 8, 10, -1>>, 5>>,
              <<"rx-warnings", <<0, -1>>, 1>>,
              <<"tx-data-vals", <<3, 5, 7, 9, 11, -1>>, 5>>,
              <<"tx-warnings", <<1, -1>>, 1>>,
              <<"atk-signs", <<12, -1>>, 1>> >>, <<"logic">>, <<"uart">>,
           <<"rx", "tx", "rxtx", "rx-ok", "tx-ok", "rxtx-ok">>,
           <<"Embedded/industrial">>)
uart_fast_reads ==
    Reads(<< <<"int", "baudrate", "115200">>, <<"int", "data_bits", "8">>,
             <<"dbl", "stop_bits", "1">>, <<"str", "parity", "none">>,
             <<"str", "bit_order", "lsb-first">>, <<"str", "format", "hex">>,
             <<"str", "invert", "no">>, <<"int", "packet_idle_us", "-1">>,
             <<"str", "show_data_point", "no">> >>)
uart_fast_c_decoder ==
    Descriptor("uart_fast_c", uart_fast_tables,
               <<0, 2, 9, 13, 5, 1, 1, 6, 1>>,
               << <<"int64", "115200">>, <<"int64", "8">>,
                  <<"string", "none">>, <<"double", "1">>,
                  <<"string", "lsb-first">>, <<"string", "hex">>,
                  <<"string", "no">>, <<"int64", "-1">>,
                  <<"string", "no">> >>, uart_fast_reads)

usb_power_delivery_tables ==
    Tables(<< <<"cc1", 0>> >>, << <<"cc2", 0>> >>, <<"fulltext">>, 13,
           << <<"4b5b", <<7>>, 1>>, <<"phase", R(1, 6), 6>>,
              <<"payload", <<11>>, 1>>, <<"type", <<0, 9, 10>>, 3>>,
              <<"warnings", <<8>>, 1>>, <<"text", <<12>>, 1>> >>,
           <<"logic">>, <<"usb_pd">>, <<"raw-data">>, <<"PC">>)
usb_power_delivery_reads ==
    Reads(<< <<"str", "fulltext", "no">> >>)
usb_power_delivery_c_decoder ==
    Descriptor("usb_power_delivery_c", usb_power_delivery_tables,
               <<1, 1, 1, 13, 6, 1, 1, 1, 1>>, << <<"string", "no">> >>,
               usb_power_delivery_reads)

usb_signalling_tables ==
    Tables(<< <<"dp", 0>>, <<"dm", 1>> >>, <<>>, <<"signalling">>, 11,
           << <<"bits", R(4, 10) \o <<-1>>, 7>>,
              <<"symbols", R(0, 3) \o <<-1>>, 4>> >>, <<"logic">>,
           <<"usb_signalling">>, <<>>, <<"PC">>)
usb_signalling_reads ==
    Reads(<< <<"str", "signalling", "automatic">> >>)
usb_signalling_c_decoder ==
    Descriptor("usb_signalling_c", usb_signalling_tables,
               <<2, 0, 1, 11, 2, 1, 1, 0, 1>>,
               << <<"string", "automatic">> >>, usb_signalling_reads)

wiegand_tables ==
    Tables(<< <<"d0", 0>>, <<"d1", 1>> >>, <<>>,
           <<"active", "bitwidth_ms">>, 2,
           << <<"bits", <<0>>, 1>>, <<"state", <<1>>, 1>> >>, <<"logic">>,
           <<>>, <<>>, <<"Embedded/industrial", "RFID">>)
wiegand_reads ==
    Reads(<< <<"str", "active", "low">>, <<"int", "bitwidth_ms", "4">> >>)
wiegand_c_decoder ==
    Descriptor("wiegand_c", wiegand_tables, <<2, 0, 2, 2, 2, 1, 0, 0, 2>>,
               << <<"string", "low">>, <<"int64", "4">> >>, wiegand_reads)

xy2_100_tables ==
    Tables(<< <<"clk", 0>>, <<"sync", 1>>, <<"data", 2>> >>,
           << <<"status", 3>> >>, <<>>, 9,
           << <<"bits", <<0, -1>>, 1>>, <<"stat_bits", <<1, -1>>, 1>>,
              <<"data", R(2, 5) \o <<-1>>, 4>>,
              <<"positions", <<6, -1>>, 1>>, <<"statuses", <<7, -1>>, 1>>,
              <<"warnings", <<8, -1>>, 1>> >>, <<"logic">>, <<>>, <<>>,
           <<"Embedded/industrial">>)
xy2_100_c_decoder ==
    Descriptor("xy2_100_c", xy2_100_tables, <<3, 1, 0, 9, 6, 1, 0, 0, 1>>,
               <<>>, <<>>)

z80_tables ==
    Tables(<< <<"d0", 0>>, <<"d1", 1>>, <<"d2", 2>>, <<"d3", 3>>,
              <<"d4", 4>>, <<"d5", 5>>, <<"d6", 6>>, <<"d7", 7>>,
              <<"m1", 8>>, <<"rd", 9>>, <<"wr", 10>> >>,
           << <<"mreq", 11>>, <<"iorq", 12>>, <<"a0", 13>>, <<"a1", 14>>,
              <<"a2", 15>>, <<"a3", 16>>, <<"a4", 17>>, <<"a5", 18>>,
              <<"a6", 19>>, <<"a7", 20>>, <<"a8", 21>>, <<"a9", 22>>,
              <<"a10", 23>>, <<"a11", 24>>, <<"a12", 25>>, <<"a13", 26>>,
              <<"a14", 27>>, <<"a15", 28>> >>, <<>>, 9,
           << <<"addrbus", <<0, -1>>, 1>>,
              <<"databus", R(1, 4) \o <<-1>>, 4>>,
              <<"instructions", <<5, -1>>, 1>>,
              <<"operands", <<6, 7, -1>>, 2>>,
              <<"warnings", <<8, -1>>, 1>> >>, <<"logic">>, <<>>, <<>>,
           <<"Retro computing">>)
z80_c_decoder ==
    Descriptor("z80_c", z80_tables, <<11, 18, 0, 9, 5, 1, 0, 0, 1>>, <<>>,
               <<>>)

DeclaredLogicC ==
    {parallel_c_decoder, pcfx_ctrlr_c_decoder, pjdl_c_decoder,
     ps2_c_decoder, pwm_c_decoder, pxx1_c_decoder, qi_c_decoder,
     qspi_c_decoder, rc_encode_c_decoder, rgb_led_ws281x_c_decoder,
     rinnai_control_panel_c_decoder, rpm_c_decoder, rvswd_c_decoder,
     sae_j1850_vpw_c_decoder, sda2506_c_decoder, sdcard_sd_c_decoder,
     sdio_c_decoder, sdq_c_decoder, sent_c_decoder, seven_segment_c_decoder,
     signature_c_decoder, sle44xx_c_decoder, sony_md_c_decoder,
     spacewire_c_decoder, spdif_c_decoder, spi_c_decoder,
     spi_dual_quad_c_decoder, spi_fast_c_decoder, st7735_c_decoder,
     st7789_c_decoder, stepper_motor_c_decoder, swd_c_decoder,
     swi_c_decoder, swim_c_decoder, t55xx_c_decoder, tdm_audio_c_decoder,
     timing_c_decoder, tlc5620_c_decoder, tmc_c_decoder, uart_c_decoder,
     uart_fast_c_decoder, usb_power_delivery_c_decoder,
     usb_signalling_c_decoder, wiegand_c_decoder, xy2_100_c_decoder,
     z80_c_decoder}

-----------------------------------------------------------------------------
(* Stacked on uart                                                         *)
amulet_ascii_tables ==
    Tables(<<>>, <<>>, <<"ms_chan", "sm_chan">>, 44,
           << <<"bits", <<41>>, 1>>, <<"fields", <<42>>, 1>>,
              <<"commands", R(0, 40), 41>>, <<"warnings", <<43>>, 1>> >>,
           <<"uart">>, <<>>, <<>>, <<"Display">>)
amulet_ascii_reads ==
    Reads(<< <<"str", "ms_chan", "RX">>, <<"str", "sm_chan", "TX">> >>)
amulet_ascii_c_decoder ==
    Descriptor("amulet_ascii_c", amulet_ascii_tables,
               <<0, 0, 2, 44, 4, 1, 0, 0, 1>>,
               << <<"string", "RX">>, <<"string", "TX">> >>,
               amulet_ascii_reads)

arm_etmv3_tables ==
    Tables(<<>>, <<>>,
           <<"objdump", "objdump_opts", "elffile", "branch_enc">>, 11,
           << <<"trace", <<0, -1>>, 1>>, <<"flow", <<1, 2, 3, -1>>, 3>>,
              <<"data", <<4, -1>>, 1>>, <<"pc", <<5, -1>>, 1>>,
              <<"instruction", <<6, 7, -1>>, 2>>, <<"source", <<8, -1>>, 1>>,
              <<"location", <<9, -1>>, 1>>, <<"function", <<10, -1>>, 1>> >>,
           <<"uart">>, <<"arm_etmv3">>, <<>>, <<"Debug/trace">>)
arm_etmv3_reads ==
    Reads(<< <<"str", "branch_enc", "alternative">> >>)
arm_etmv3_c_decoder ==
    Descriptor("arm_etmv3_c", arm_etmv3_tables,
               <<0, 0, 4, 11, 8, 1, 1, 0, 1>>,
               << <<"string", "arm-none-eabi-objdump">>,
                  <<"string", "-lSC">>, <<"string", "">>,
                  <<"string", "alternative">> >>, arm_etmv3_reads)

arm_itm_tables ==
    Tables(<<>>, <<>>, <<>>, 12,
           << <<"trace", <<0, 1, -1>>, 2>>, <<"software", <<2, -1>>, 1>>,
              <<"dwt_event", <<3, -1>>, 1>>,
              <<"dwt_watchpoint", <<4, -1>>, 1>>,
              <<"dwt_exc", <<5, -1>>, 1>>, <<"dwt_pc", <<6, -1>>, 1>>,
              <<"mode", <<7, 8, 9, -1>>, 3>>, <<"location", <<10, -1>>, 1>>,
              <<"function", <<11, -1>>, 1>> >>, <<"uart">>, <<"arm_itm">>,
           <<>>, <<"Debug/trace">>)
arm_itm_c_decoder ==
    Descriptor("arm_itm_c", arm_itm_tables, <<0, 0, 0, 12, 9, 1, 1, 0, 1>>,
               <<>>, <<>>)

arm_tpiu_tables ==
    Tables(<<>>, <<>>, <<"stream", "sync_offset">>, 2,
           << <<"stream", <<0, -1>>, 1>>, <<"data", <<1, -1>>, 1>> >>,
           <<"uart">>, <<"arm_tpiu">>, <<>>, <<"Debug/trace">>)
arm_tpiu_reads ==
    Reads(<< <<"int", "stream", "1">>, <<"int", "sync_offset", "0">> >>)
arm_tpiu_c_decoder ==
    Descriptor("arm_tpiu_c", arm_tpiu_tables, <<0, 0, 2, 2, 2, 1, 1, 0, 1>>,
               << <<"int64", "1">>, <<"int64", "0">> >>, arm_tpiu_reads)

bluetooth_h4_tables ==
    Tables(<<>>, <<>>, <<>>, 18,
           << <<"rx", R(0, 6) \o <<-1>>, 7>>, <<"rx-bins", <<8, -1>>, 1>>,
              <<"tx", R(9, 15) \o <<-1>>, 7>>,
              <<"tx-bins", <<17, -1>>, 1>> >>, <<"uart">>,
           <<"bluetooth_h4">>, <<>>, <<"Embedded/bluetooth">>)
bluetooth_h4_c_decoder ==
    Descriptor("bluetooth_h4_c", bluetooth_h4_tables,
               <<0, 0, 0, 18, 4, 1, 1, 0, 1>>, <<>>, <<>>)

boost_tables ==
    Tables(<<>>, <<>>, <<"show_errors", "show_bytes">>, 3,
           << <<"messages", <<0, -1>>, 1>>, <<"errors", <<1, -1>>, 1>>,
              <<"bytes", <<2, -1>>, 1>> >>, <<"uart">>, <<"boost">>, <<>>,
           <<"Embedded/industrial">>)
boost_reads ==
    Reads(<< <<"str", "show_errors", "yes">>,
             <<"str", "show_bytes", "no">> >>)
boost_c_decoder ==
    Descriptor("boost_c", boost_tables, <<0, 0, 2, 3, 3, 1, 1, 0, 1>>,
               << <<"string", "yes">>, <<"string", "no">> >>, boost_reads)

crsf_tables ==
    Tables(<<>>, <<>>, <<>>, 2, << <<"normal", <<0, 1, -1>>, 2>> >>,
           <<"uart">>, <<"crsf">>, <<>>, <<"Radio/control/RC">>)
crsf_c_decoder ==
    Descriptor("crsf_c", crsf_tables, <<0, 0, 0, 2, 1, 1, 1, 0, 1>>, <<>>,
               <<>>)

j1708_tables ==
    Tables(<<>>, <<>>, <<"message_break">>, 6,
           << <<"fields", <<1, -1>>, 1>>, <<"data", <<0, 3, -1>>, 2>>,
              <<"errors", <<2, 5, -1>>, 2>>, <<"delays", <<4, -1>>, 1>> >>,
           <<"uart">>, <<>>, <<"mid", "payload", "crc">>, <<"Automotive">>)
j1708_reads ==
    Reads(<< <<"int", "message_break", "2">> >>)
j1708_c_decoder ==
    Descriptor("j1708_c", j1708_tables, <<0, 0, 1, 6, 4, 1, 0, 3, 1>>,
               << <<"int64", "2">> >>, j1708_reads)

lin_tables ==
    Tables(<<>>, <<>>, <<"version">>, 4,
           << <<"data", <<0, 1, 3>>, 3>>, <<"error", <<2>>, 1>> >>,
           <<"uart">>, <<>>, <<>>, <<"Automotive">>)
lin_reads ==
    Reads(<< <<"int", "version", "2">> >>)
lin_c_decoder ==
    Descriptor("lin_c", lin_tables, <<0, 0, 1, 4, 2, 1, 0, 0, 1>>,
               << <<"int64", "2">> >>, lin_reads)

midi_tables ==
    Tables(<<>>, <<>>, <<>>, 3,
           << <<"normal", <<0, 2, -1>>, 2>>, <<"sys-real", <<1, -1>>, 1>> >>,
           <<"uart">>, <<>>, <<>>, <<"Audio", "PC">>)
midi_c_decoder ==
    Descriptor("midi_c", midi_tables, <<0, 0, 0, 3, 2, 1, 0, 0, 2>>, <<>>,
               <<>>)

modbus_tables ==
    Tables(<<>>, <<>>, <<"scchannel", "cschannel", "framegap">>, 15,
           << <<"sc", R(0, 6) \o <<-1>>, 7>>,
              <<"cs", R(7, 13) \o <<-1>>, 7>>,
              <<"error-indicators", <<14, -1>>, 1>> >>, <<"uart">>,
           <<"modbus">>, <<>>, <<"Embedded/industrial">>)
modbus_reads ==
    Reads(<< <<"str", "scchannel", "RX">>, <<"str", "cschannel", "TX">>,
             <<"int", "framegap", "28">> >>)
modbus_c_decoder ==
    Descriptor("modbus_c", modbus_tables, <<0, 0, 3, 15, 3, 1, 1, 0, 1>>,
               << <<"string", "RX">>, <<"string", "TX">>,
                  <<"int64", "28">> >>, modbus_reads)

pan1321_tables ==
    Tables(<<>>, <<>>, <<>>, 3, << <<"text", <<0, 1, 2, -1>>, 3>> >>,
           <<"uart">>, <<>>, <<>>, <<"Wireless/RF">>)
pan1321_c_decoder ==
    Descriptor("pan1321_c", pan1321_tables, <<0, 0, 0, 3, 1, 1, 0, 0, 1>>,
               <<>>, <<>>)

pn532_tables ==
    Tables(<<>>, <<>>, <<"preamble", "postamble", "start frame", "format">>,
           12,
           << <<"data_vals", R(0, 6) \o <<10, 11, -1>>, 9>>,
              <<"frame_type", <<8, -1>>, 1>>, <<"commands", <<9, -1>>, 1>>,
              <<"errors", <<7, -1>>, 1>> >>, <<"uart">>, <<"ISO14443">>,
           <<>>, <<"Automotive">>)
pn532_reads ==
    Reads(<< <<"str", "format", "hex">> >>)
pn532_c_decoder ==
    Descriptor("pn532_c", pn532_tables, <<0, 0, 4, 12, 4, 1, 1, 0, 1>>,
               << <<"int64", "0">>, <<"int64", "0">>, <<"int64", "0">>,
                  <<"string", "hex">> >>, pn532_reads)

sbus_futaba_tables ==
    Tables(<<>>, <<>>, <<"prop_val_min", "prop_val_max">>, 7,
           << <<"framing", <<0, 5, 3, 4>>, 4>>, <<"channels", <<1, 2>>, 2>>,
              <<"warnings", <<6>>, 1>> >>, <<"uart">>, <<"sbus_futaba">>,
           <<>>, <<"Remote Control">>)
sbus_futaba_reads ==
    Reads(<< <<"int", "prop_val_min", "0">>,
             <<"int", "prop_val_max", "2047">> >>)
sbus_futaba_c_decoder ==
    Descriptor("sbus_futaba_c", sbus_futaba_tables,
               <<0, 0, 2, 7, 3, 1, 1, 0, 1>>,
               << <<"int64", "0">>, <<"int64", "2047">> >>,
               sbus_futaba_reads)

scs_tables ==
    Tables(<<>>, <<>>, <<>>, 1, << <<"scs", <<0>>, 1>> >>, <<"uart">>, <<>>,
           <<>>, <<"Embedded/industrial", "Networking">>)
scs_c_decoder ==
    Descriptor("scs_c", scs_tables, <<0, 0, 0, 1, 1, 1, 0, 0, 2>>, <<>>,
               <<>>)

streletz_tables ==
    Tables(<<>>, <<>>, <<"header_tx", "header_rx">>, 10,
           << <<"framing", <<0, 1, 2>>, 3>>, <<"data", R(3, 6), 4>>,
              <<"warnings", <<9>>, 1>>, <<"packets", <<7, 8>>, 2>> >>,
           <<"uart">>, <<"streletz">>, <<>>, <<"Embedded/industrial">>)
streletz_reads ==
    Reads(<< <<"int", "header_tx", "217">>, <<"int", "header_rx", "157">> >>)
streletz_c_decoder ==
    Descriptor("streletz_c", streletz_tables,
               <<0, 0, 2, 10, 4, 1, 1, 0, 1>>,
               << <<"int64", "217">>, <<"int64", "157">> >>, streletz_reads)

ufcs_tables ==
    Tables(<<>>, <<>>, <<"fulltext">>, 12,
           << <<"phase", R(1, 4), 4>>, <<"payload", <<8>>, 1>>,
              <<"type", <<0, 6, 7, 10, 11>>, 5>>, <<"warnings", <<5>>, 1>>,
              <<"text", <<9>>, 1>> >>, <<"uart">>, <<>>, <<>>,
           <<"PC/Mobile">>)
ufcs_reads ==
    Reads(<< <<"str", "fulltext", "no">> >>)
ufcs_c_decoder ==
    Descriptor("ufcs_c", ufcs_tables, <<0, 0, 1, 12, 5, 1, 0, 0, 1>>,
               << <<"string", "no">> >>, ufcs_reads)

DeclaredUart ==
    {amulet_ascii_c_decoder, arm_etmv3_c_decoder, arm_itm_c_decoder,
     arm_tpiu_c_decoder, bluetooth_h4_c_decoder, boost_c_decoder,
     crsf_c_decoder, j1708_c_decoder, lin_c_decoder, midi_c_decoder,
     modbus_c_decoder, pan1321_c_decoder, pn532_c_decoder,
     sbus_futaba_c_decoder, scs_c_decoder, streletz_c_decoder,
     ufcs_c_decoder}
=============================================================================
