-------------------------- MODULE CatalogueStacked --------------------------
(***************************************************************************)
(* What the C decoders declare: decoders stacked on spi, on i2c and        *)
(* on others.                                                              *)
(* Per decoder the tables of its file, the options its start() reads, and  *)
(* the descriptor that srd_c_decoder_entry returns; at the end of a part   *)
(* the set of its descriptors.  Declared explains the definitions.         *)
(***************************************************************************)
EXTENDS Declared

-----------------------------------------------------------------------------
(* Stacked on spi                                                          *)
a7105_tables ==
    Tables(<<>>, <<>>, <<>>, 4,
           << <<"commands", <<0, 1, 2>>, 3>>, <<"warnings", <<3>>, 1>> >>,
           <<"spi">>, <<>>, <<>>, <<"IC", "Wireless/RF">>)
a7105_c_decoder ==
    Descriptor("a7105_c", a7105_tables, <<0, 0, 0, 4, 2, 1, 0, 0, 2>>, <<>>,
               <<>>)

ad5626_tables ==
    Tables(<<>>, <<>>, <<>>, 1, << <<"voltage", <<0>>, 1>> >>, <<"spi">>,
           <<>>, <<>>, <<"IC", "Analog/digital">>)
ad5626_c_decoder ==
    Descriptor("ad5626_c", ad5626_tables, <<0, 0, 0, 1, 1, 1, 0, 0, 2>>,
               <<>>, <<>>)

ad79x0_tables ==
    Tables(<<>>, <<>>, <<"vref">>, 3,
           << <<"modes", <<0>>, 1>>, <<"voltages", <<1>>, 1>>,
              <<"data_validation", <<2>>, 1>> >>, <<"spi">>, <<>>, <<>>,
           <<"IC", "Analog/digital">>)
ad79x0_reads ==
    Reads(<< <<"dbl", "vref", "1.5">> >>)
ad79x0_c_decoder ==
    Descriptor("ad79x0_c", ad79x0_tables, <<0, 0, 1, 3, 3, 1, 0, 0, 2>>,
               << <<"double", "1.5">> >>, ad79x0_reads)

ade77xx_tables ==
    Tables(<<>>, <<>>, <<>>, 3,
           << <<"read", <<0>>, 1>>, <<"write", <<1>>, 1>>,
              <<"warnings", <<2>>, 1>> >>, <<"spi">>, <<>>, <<>>,
           <<"Analog/digital", "IC", "Sensor">>)
ade77xx_c_decoder ==
    Descriptor("ade77xx_c", ade77xx_tables, <<0, 0, 0, 3, 3, 1, 0, 0, 3>>,
               <<>>, <<>>)

adf435x_tables ==
    Tables(<<>>, <<>>, <<>>, 2,
           << <<"writes", <<0>>, 1>>, <<"warnings", <<1>>, 1>> >>,
           <<"spi">>, <<>>, <<>>, <<"Clock/timing", "IC", "Wireless/RF">>)
adf435x_c_decoder ==
    Descriptor("adf435x_c", adf435x_tables, <<0, 0, 0, 2, 2, 1, 0, 0, 3>>,
               <<>>, <<>>)

adns5020_tables ==
    Tables(<<>>, <<>>, <<>>, 3,
           << <<"read", <<0, -1>>, 1>>, <<"write", <<1, -1>>, 1>>,
              <<"warnings", <<2, -1>>, 1>> >>, <<"spi">>, <<>>, <<>>,
           <<"IC", "PC", "Sensor">>)
adns5020_c_decoder ==
    Descriptor("adns5020_c", adns5020_tables, <<0, 0, 0, 3, 3, 1, 0, 0, 3>>,
               <<>>, <<>>)

adxl345_tables ==
    Tables(<<>>, <<>>, <<>>, 6,
           << <<"reg", R(0, 3) \o <<-1>>, 4>>,
              <<"data", <<4, 5, -1>>, 2>> >>, <<"spi">>, <<>>, <<>>,
           <<"IC", "Sensor">>)
adxl345_c_decoder ==
    Descriptor("adxl345_c", adxl345_tables, <<0, 0, 0, 6, 2, 1, 0, 0, 2>>,
               <<>>, <<>>)

as5047_tables ==
    Tables(<<>>, <<>>, <<>>, 7,
           << <<"fields", <<6, -1>>, 1>>, <<"frames", <<0, 1, 2, -1>>, 3>>,
              <<"transactions", <<3, 4, -1>>, 2>>,
              <<"warnings", <<5, -1>>, 1>> >>, <<"spi">>, <<>>, <<>>,
           <<"Embedded/industrial">>)
as5047_c_decoder ==
    Descriptor("as5047_c", as5047_tables, <<0, 0, 0, 7, 4, 1, 0, 0, 1>>,
               <<>>, <<>>)

avr_isp_tables ==
    Tables(<<>>, <<>>, <<>>, 15,
           << <<"commands", R(0, 12) \o <<-1>>, 13>>,
              <<"warnings", <<13, -1>>, 1>>, <<"devs", <<14, -1>>, 1>> >>,
           <<"spi">>, <<>>, <<>>, <<"Debug/trace">>)
avr_isp_c_decoder ==
    Descriptor("avr_isp_c", avr_isp_tables, <<0, 0, 0, 15, 3, 1, 0, 0, 1>>,
               <<>>, <<>>)

cc1101_tables ==
    Tables(<<>>, <<>>, <<>>, 8,
           << <<"cmd", <<0, -1>>, 1>>, <<"data", R(1, 5) \o <<-1>>, 5>>,
              <<"status", <<6, -1>>, 1>>, <<"warnings", <<7, -1>>, 1>> >>,
           <<"spi">>, <<>>, <<>>, <<"IC", "Wireless/RF">>)
cc1101_c_decoder ==
    Descriptor("cc1101_c", cc1101_tables, <<0, 0, 0, 8, 4, 1, 0, 0, 2>>,
               <<>>, <<>>)

cyrf6936_tables ==
    Tables(<<>>, <<>>,
           <<"spi3pin", "delaysplit", "invert_mosi", "invert_miso">>, 7,
           << <<"cmd", R(0, 3) \o <<-1>>, 4>>,
              <<"warnings", <<4, 5, -1>>, 2>>, <<"delays", <<6, -1>>, 1>> >>,
           <<"spi">>, <<"cyrf6936">>, <<"txpayload", "rxpayload">>,
           <<"Embedded/industrial">>)
cyrf6936_reads ==
    Reads(<< <<"str", "spi3pin", "no">>, <<"dbl", "delaysplit", "0">> >>)
cyrf6936_c_decoder ==
    Descriptor("cyrf6936_c", cyrf6936_tables, <<0, 0, 4, 7, 3, 1, 1, 2, 1>>,
               << <<"string", "no">>, <<"double", "0">>, <<"string", "no">>,
                  <<"string", "no">> >>, cyrf6936_reads)

enc28j60_tables ==
    Tables(<<>>, <<>>, <<>>, 10,
           << <<"commands", R(0, 6) \o <<-1>>, 7>>,
              <<"fields", <<7, 8, -1>>, 2>>, <<"warnings", <<9, -1>>, 1>> >>,
           <<"spi">>, <<>>, <<>>, <<"Embedded/industrial", "Networking">>)
enc28j60_c_decoder ==
    Descriptor("enc28j60_c", enc28j60_tables,
               <<0, 0, 0, 10, 3, 1, 0, 0, 2>>, <<>>, <<>>)

ltc242x_tables ==
    Tables(<<>>, <<>>, <<"vref">>, 2,
           << <<"ch0_voltages", <<0, -1>>, 1>>,
              <<"ch1_voltages", <<1, -1>>, 1>> >>, <<"spi">>, <<>>, <<>>,
           <<"IC", "Analog/digital">>)
ltc242x_reads ==
    Reads(<< <<"dbl", "vref", "1.5">> >>)
ltc242x_c_decoder ==
    Descriptor("ltc242x_c", ltc242x_tables, <<0, 0, 1, 2, 2, 1, 0, 0, 2>>,
               << <<"double", "1.5">> >>, ltc242x_reads)

max6954_tables ==
    Tables(<<>>, <<>>, <<>>, 3,
           << <<"commands", <<0, 1, -1>>, 2>>,
              <<"warnings", <<2, -1>>, 1>> >>, <<"spi">>, <<>>, <<>>,
           <<"Display">>)
max6954_c_decoder ==
    Descriptor("max6954_c", max6954_tables, <<0, 0, 0, 3, 2, 1, 0, 0, 1>>,
               <<>>, <<>>)

max7219_tables ==
    Tables(<<>>, <<>>, <<>>, 3,
           << <<"commands", <<0, 1, -1>>, 2>>,
              <<"warnings", <<2, -1>>, 1>> >>, <<"spi">>, <<>>, <<>>,
           <<"Display">>)
max7219_c_decoder ==
    Descriptor("max7219_c", max7219_tables, <<0, 0, 0, 3, 2, 1, 0, 0, 1>>,
               <<>>, <<>>)

mrf24j40_tables ==
    Tables(<<>>, <<>>, <<>>, 12,
           << <<"reads", <<0, 2, -1>>, 2>>, <<"writes", <<1, 3, -1>>, 2>>,
              <<"warnings", <<4, -1>>, 1>>, <<"tx-frames", <<5, -1>>, 1>>,
              <<"rx-frames", <<6, -1>>, 1>>,
              <<"tx-retries-1", <<7, -1>>, 1>>,
              <<"tx-retries-2", <<8, -1>>, 1>>,
              <<"tx-retries-3", <<9, -1>>, 1>>,
              <<"tx-fails", <<10, -1>>, 1>>,
              <<"ccafails", <<11, -1>>, 1>> >>, <<"spi">>, <<>>, <<>>,
           <<"IC", "Wireless/RF">>)
mrf24j40_c_decoder ==
    Descriptor("mrf24j40_c", mrf24j40_tables,
               <<0, 0, 0, 12, 10, 1, 0, 0, 2>>, <<>>, <<>>)

nes_gamepad_tables ==
    Tables(<<>>, <<>>, <<"variant">>, 3,
           << <<"buttons", <<0, -1>>, 1>>, <<"no-presses", <<1, -1>>, 1>>,
              <<"not-connected-vals", <<2, -1>>, 1>> >>, <<"spi">>, <<>>,
           <<>>, <<"Retro computing">>)
nes_gamepad_reads ==
    Reads(<< <<"str", "variant", "Standard gamepad">> >>)
nes_gamepad_c_decoder ==
    Descriptor("nes_gamepad_c", nes_gamepad_tables,
               <<0, 0, 1, 3, 3, 1, 0, 0, 1>>,
               << <<"string", "Standard gamepad">> >>, nes_gamepad_reads)

nrf24l01_tables ==
    Tables(<<>>, <<>>, <<"chip">>, 5,
           << <<"commands", <<0, 1, -1>>, 2>>,
              <<"responses", <<2, 3, -1>>, 2>>,
              <<"warnings", <<4, -1>>, 1>> >>, <<"spi">>, <<>>, <<>>,
           <<"IC", "Wireless/RF">>)
nrf24l01_reads ==
    Reads(<< <<"str", "chip", "nrf24l01">> >>)
nrf24l01_c_decoder ==
    Descriptor("nrf24l01_c", nrf24l01_tables, <<0, 0, 1, 5, 3, 1, 0, 0, 2>>,
               << <<"string", "nrf24l01">> >>, nrf24l01_reads)

nrf905_tables ==
    Tables(<<>>, <<>>, <<>>, 7,
           << <<"commands", <<0, -1>>, 1>>, <<"responses", <<5, -1>>, 1>>,
              <<"registers", <<1, 2, -1>>, 2>>, <<"tx", <<3, -1>>, 1>>,
              <<"rx", <<4, -1>>, 1>>, <<"warnings", <<6, -1>>, 1>> >>,
           <<"spi">>, <<>>, <<>>, <<"IC", "Wireless/RF">>)
nrf905_c_decoder ==
    Descriptor("nrf905_c", nrf905_tables, <<0, 0, 0, 7, 6, 1, 0, 0, 2>>,
               <<>>, <<>>)

rfm12_tables ==
    Tables(<<>>, <<>>, <<>>, 6,
           << <<"commands", <<0, 1, 2, -1>>, 3>>,
              <<"return", <<3, 4, -1>>, 2>>,
              <<"interpretation", <<5, -1>>, 1>> >>, <<"spi">>, <<>>, <<>>,
           <<"Wireless/RF">>)
rfm12_c_decoder ==
    Descriptor("rfm12_c", rfm12_tables, <<0, 0, 0, 6, 3, 1, 0, 0, 1>>, <<>>,
               <<>>)

rgb_led_spi_tables ==
    Tables(<<>>, <<>>, <<"led_type">>, 4,
           << <<"rgb", <<0, -1>>, 1>>, <<"frames", <<1, 2, -1>>, 2>>,
              <<"warnings", <<3, -1>>, 1>> >>, <<"spi">>, <<>>, <<>>,
           <<"Display">>)
rgb_led_spi_reads ==
    Reads(<< <<"str", "led_type", "simple">> >>)
rgb_led_spi_c_decoder ==
    Descriptor("rgb_led_spi_c", rgb_led_spi_tables,
               <<0, 0, 1, 4, 3, 1, 0, 0, 1>>, << <<"string", "simple">> >>,
               rgb_led_spi_reads)

sdcard_spi_tables ==
    Tables(<<>>, <<>>, <<>>, 135,
           << <<"bits", <<133, 134, -1>>, 2>>,
              <<"commands-replies", R(0, 132) \o <<-1>>, 133>> >>,
           <<"spi">>, <<>>, <<>>, <<"Memory">>)
sdcard_spi_c_decoder ==
    Descriptor("sdcard_spi_c", sdcard_spi_tables,
               <<0, 0, 0, 135, 2, 1, 0, 0, 1>>, <<>>, <<>>)

spi_tpm_tables ==
    Tables(<<>>, <<>>, <<"tpm_version">>, 6,
           << <<"Transactions", R(0, 4) \o <<-1>>, 5>>,
              <<"B-VMK", <<5, -1>>, 1>> >>, <<"spi">>, <<>>, <<>>,
           <<"IC", "TPM", "BitLocker">>)
spi_tpm_reads ==
    Reads(<< <<"str", "tpm_version", "2.0">> >>)
spi_tpm_c_decoder ==
    Descriptor("spi_tpm_c", spi_tpm_tables, <<0, 0, 1, 6, 2, 1, 0, 0, 3>>,
               << <<"string", "2.0">> >>, spi_tpm_reads)

spiflash_tables ==
    Tables(<<>>, <<>>, <<"chip", "format">>, 31,
           << <<"bits", <<28, -1>>, 1>>, <<"fields", <<29, -1>>, 1>>,
              <<"commands", R(0, 27) \o <<-1>>, 28>>,
              <<"warnings", <<30, -1>>, 1>> >>, <<"spi">>, <<>>, <<>>,
           <<"IC", "Memory">>)
spiflash_reads ==
    Reads(<< <<"str", "chip", "macronix_mx25l1605d">>,
             <<"str", "format", "hex">> >>)
spiflash_c_decoder ==
    Descriptor("spiflash_c", spiflash_tables,
               <<0, 0, 2, 31, 4, 1, 0, 0, 2>>,
               << <<"string", "macronix_mx25l1605d">>,
                  <<"string", "hex">> >>, spiflash_reads)

ssi32_tables ==
    Tables(<<>>, <<>>, <<"msgsize">>, 4,
           << <<"tx", <<0, 1, -1>>, 2>>, <<"rx", <<2, 3, -1>>, 2>> >>,
           <<"spi">>, <<>>, <<>>, <<"Embedded/industrial">>)
ssi32_reads ==
    Reads(<< <<"int", "msgsize", "64">> >>)
ssi32_c_decoder ==
    Descriptor("ssi32_c", ssi32_tables, <<0, 0, 1, 4, 2, 1, 0, 0, 1>>,
               << <<"int64", "64">> >>, ssi32_reads)

st25r39xx_spi_tables ==
    Tables(<<>>, <<>>, <<>>, 11,
           << <<"regs", R(0, 5) \o <<-1>>, 6>>, <<"cmds", <<6, -1>>, 1>>,
              <<"data", <<7, 8, -1>>, 2>>, <<"status", <<9, -1>>, 1>>,
              <<"warnings", <<10, -1>>, 1>> >>, <<"spi">>, <<>>, <<>>,
           <<"IC", "Wireless/RF">>)
st25r39xx_spi_c_decoder ==
    Descriptor("st25r39xx_spi_c", st25r39xx_spi_tables,
               <<0, 0, 0, 11, 5, 1, 0, 0, 2>>, <<>>, <<>>)

tpm_tis_spi_tables ==
    Tables(<<>>, <<>>, <<>>, 6,
           << <<"protocol", R(0, 3) \o <<-1>>, 4>>,
              <<"transactions", <<4, -1>>, 1>>,
              <<"warnings", <<5, -1>>, 1>> >>, <<"spi">>, <<"tpm-tis">>,
           <<>>, <<"TPM">>)
tpm_tis_spi_c_decoder ==
    Descriptor("tpm_tis_spi_c", tpm_tis_spi_tables,
               <<0, 0, 0, 6, 3, 1, 1, 0, 1>>, <<>>, <<>>)

x2444m_tables ==
    Tables(<<>>, <<>>, <<>>, 8,
           << <<"commands", <<0, 1, 2, 4, 5, -1>>, 5>>,
              <<"data", <<3, 6, 7, -1>>, 3>> >>, <<"spi">>, <<>>, <<>>,
           <<"IC", "Memory">>)
x2444m_c_decoder ==
    Descriptor("x2444m_c", x2444m_tables, <<0, 0, 0, 8, 2, 1, 0, 0, 2>>,
               <<>>, <<>>)

DeclaredSpi ==
    {a7105_c_decoder, ad5626_c_decoder, ad79x0_c_decoder, ade77xx_c_decoder,
     adf435x_c_decoder, adns5020_c_decoder, adxl345_c_decoder,
     as5047_c_decoder, avr_isp_c_decoder, cc1101_c_decoder,
     cyrf6936_c_decoder, enc28j60_c_decoder, ltc242x_c_decoder,
     max6954_c_decoder, max7219_c_decoder, mrf24j40_c_decoder,
     nes_gamepad_c_decoder, nrf24l01_c_decoder, nrf905_c_decoder,
     rfm12_c_decoder, rgb_led_spi_c_decoder, sdcard_spi_c_decoder,
     spi_tpm_c_decoder, spiflash_c_decoder, ssi32_c_decoder,
     st25r39xx_spi_c_decoder, tpm_tis_spi_c_decoder, x2444m_c_decoder}

-----------------------------------------------------------------------------
(* Stacked on i2c                                                          *)
ad5593r_tables ==
    Tables(<<>>, <<>>, <<"Vref">>, 6,
           << <<"packet", <<2, 3, 5, 4, -1>>, 4>>,
              <<"registers", <<0, -1>>, 1>>, <<"fields", <<1, -1>>, 1>> >>,
           <<"i2c">>, <<>>, <<>>, <<"IC", "Analog/digital">>)
ad5593r_reads ==
    Reads(<< <<"dbl", "Vref", "2.5">> >>)
ad5593r_c_decoder ==
    Descriptor("ad5593r_c", ad5593r_tables, <<0, 0, 1, 6, 3, 1, 0, 0, 2>>,
               << <<"double", "2.5">> >>, ad5593r_reads)

atsha204a_tables ==
    Tables(<<>>, <<>>, <<>>, 9,
           << <<"frame", R(0, 6) \o <<-1>>, 7>>, <<"status", <<7, -1>>, 1>>,
              <<"warnings", <<8, -1>>, 1>> >>, <<"i2c">>, <<>>, <<>>,
           <<"Security/crypto", "IC", "Memory">>)
atsha204a_c_decoder ==
    Descriptor("atsha204a_c", atsha204a_tables,
               <<0, 0, 0, 9, 3, 1, 0, 0, 3>>, <<>>, <<>>)

bh1750_tables ==
    Tables(<<>>, <<>>, <<"radix", "params">>, 25,
           << <<"bits", <<14, 15, -1>>, 2>>,
              <<"regs", R(0, 13) \o <<-1>>, 14>>,
              <<"info", R(18, 24) \o <<-1>>, 7>>,
              <<"warnings", <<16, 17, -1>>, 2>> >>, <<"i2c">>, <<"bh1750">>,
           <<>>, <<"Embedded/industrial">>)
bh1750_reads ==
    Reads(<< <<"str", "radix", "Hex">>, <<"str", "params", "Typical">> >>)
bh1750_c_decoder ==
    Descriptor("bh1750_c", bh1750_tables, <<0, 0, 2, 25, 4, 1, 1, 0, 1>>,
               << <<"string", "Hex">>, <<"string", "Typical">> >>,
               bh1750_reads)

ds1307_tables ==
    Tables(<<>>, <<>>, <<>>, 29,
           << <<"bits", R(9, 23) \o <<-1>>, 15>>,
              <<"regs", R(0, 8) \o <<-1>>, 9>>,
              <<"date_time", R(24, 27) \o <<-1>>, 4>>,
              <<"warnings", <<28, -1>>, 1>> >>, <<"i2c">>, <<>>, <<>>,
           <<"Clock/timing", "IC">>)
ds1307_c_decoder ==
    Descriptor("ds1307_c", ds1307_tables, <<0, 0, 0, 29, 4, 1, 0, 0, 2>>,
               <<>>, <<>>)

ds3231_tables ==
    Tables(<<>>, <<>>, <<"day0">>, 20,
           << <<"regs", R(0, 5) \o <<13, -1>>, 7>>,
              <<"bits", R(6, 12) \o <<-1>>, 7>>,
              <<"date-time", R(14, 18) \o <<-1>>, 5>>,
              <<"warnings", <<19, -1>>, 1>> >>, <<"i2c">>, <<>>, <<>>,
           <<"Clock/timing", "IC">>)
ds3231_reads ==
    Reads(<< <<"str", "day0", "Sunday">> >>)
ds3231_c_decoder ==
    Descriptor("ds3231_c", ds3231_tables, <<0, 0, 1, 20, 4, 1, 0, 0, 2>>,
               << <<"string", "Sunday">> >>, ds3231_reads)

edid_tables ==
    Tables(<<>>, <<>>, <<>>, 2,
           << <<"sections", <<1, -1>>, 1>>, <<"fields", <<0, -1>>, 1>> >>,
           <<"i2c">>, <<>>, <<>>, <<"Display", "Memory", "PC">>)
edid_c_decoder ==
    Descriptor("edid_c", edid_tables, <<0, 0, 0, 2, 2, 1, 0, 0, 3>>, <<>>,
               <<>>)

eeprom24xx_tables ==
    Tables(<<>>, <<>>, <<"chip", "addr_counter">>, 21,
           << <<"bits-bytes", R(1, 5) \o <<-1>>, 5>>,
              <<"fields", <<6, 7, 8, -1>>, 3>>,
              <<"ops", R(9, 20) \o <<-1>>, 12>>,
              <<"warnings", <<0, -1>>, 1>> >>, <<"i2c">>, <<>>,
           <<"binary">>, <<"IC", "Memory">>)
eeprom24xx_reads ==
    Reads(<< <<"str", "chip", "generic">>, <<"int", "addr_counter", "0">> >>)
eeprom24xx_c_decoder ==
    Descriptor("eeprom24xx_c", eeprom24xx_tables,
               <<0, 0, 2, 21, 4, 1, 0, 1, 2>>,
               << <<"string", "generic">>, <<"int64", "0">> >>,
               eeprom24xx_reads)

hdcp_tables ==
    Tables(<<>>, <<>>, <<>>, 20,
           << <<"messages", R(0, 17), 18>>, <<"summaries", <<18>>, 1>>,
              <<"warnings", <<19>>, 1>> >>, <<"i2c">>, <<"hdcp">>, <<>>,
           <<"PC", "Security/crypto">>)
hdcp_c_decoder ==
    Descriptor("hdcp_c", hdcp_tables, <<0, 0, 0, 20, 3, 1, 1, 0, 2>>, <<>>,
               <<>>)

hdmi_scdc_tables ==
    Tables(<<>>, <<>>, <<"verbosity">>, 4,
           << <<"scdc", <<0, 1, 2>>, 3>>, <<"debug", <<3>>, 1>> >>,
           <<"i2c">>, <<"scdc">>, <<>>, <<"Embedded/industrial">>)
hdmi_scdc_reads ==
    Reads(<< <<"str", "verbosity", "short">> >>)
hdmi_scdc_c_decoder ==
    Descriptor("hdmi_scdc_c", hdmi_scdc_tables,
               <<0, 0, 1, 4, 2, 1, 1, 0, 1>>, << <<"string", "short">> >>,
               hdmi_scdc_reads)

i2c_packet_tables ==
    Tables(<<>>, <<>>, <<"format">>, 1, << <<"packet", <<0, -1>>, 1>> >>,
           <<"i2c">>, <<>>, <<>>, <<"Embedded/industrial">>)
i2c_packet_reads ==
    Reads(<< <<"str", "format", "hex">> >>)
i2c_packet_c_decoder ==
    Descriptor("i2c_packet_c", i2c_packet_tables,
               <<0, 0, 1, 1, 1, 1, 0, 0, 1>>, << <<"string", "hex">> >>,
               i2c_packet_reads)

i2cdemux_tables ==
    Tables(<<>>, <<>>, <<>>, 0, <<>>, <<"i2c">>, <<>>, <<>>, <<"Util">>)
i2cdemux_c_decoder ==
    Descriptor("i2cdemux_c", i2cdemux_tables, <<0, 0, 0, 0, 0, 1, 0, 0, 1>>,
               <<>>, <<>>)

i2cfilter_tables ==
    Tables(<<>>, <<>>, <<"address", "direction">>, 0, <<>>, <<"i2c">>,
           <<"i2c">>, <<>>, <<"Util">>)
i2cfilter_reads ==
    Reads(<< <<"int", "address", "0">>, <<"str", "direction", "both">> >>)
i2cfilter_c_decoder ==
    Descriptor("i2cfilter_c", i2cfilter_tables,
               <<0, 0, 2, 0, 0, 1, 1, 0, 1>>,
               << <<"int64", "0">>, <<"string", "both">> >>,
               i2cfilter_reads)

lm75_tables ==
    Tables(<<>>, <<>>, <<"sensor", "resolution">>, 5,
           << <<"celsius", <<0>>, 1>>, <<"kelvin", <<1>>, 1>>,
              <<"text-verbose", <<2>>, 1>>, <<"text", <<3>>, 1>>,
              <<"warnings", <<4>>, 1>> >>, <<"i2c">>, <<>>, <<>>,
           <<"Sensor">>)
lm75_reads ==
    Reads(<< <<"str", "sensor", "lm75">>, <<"int", "resolution", "9">> >>)
lm75_c_decoder ==
    Descriptor("lm75_c", lm75_tables, <<0, 0, 2, 5, 5, 1, 0, 0, 1>>,
               << <<"string", "lm75">>, <<"int64", "9">> >>, lm75_reads)

ltc26x7_tables ==
    Tables(<<>>, <<>>, <<"chip", "vref">>, 5,
           << <<"addr_cmd", <<0, 1, 2, -1>>, 3>>,
              <<"dac_a_voltages", <<3, -1>>, 1>>,
              <<"dac_b_voltages", <<4, -1>>, 1>> >>, <<"i2c">>, <<>>, <<>>,
           <<"IC", "Analog/digital">>)
ltc26x7_reads ==
    Reads(<< <<"str", "chip", "ltc2607">>, <<"dbl", "vref", "1.5">> >>)
ltc26x7_c_decoder ==
    Descriptor("ltc26x7_c", ltc26x7_tables, <<0, 0, 2, 5, 3, 1, 0, 0, 2>>,
               << <<"string", "ltc2607">>, <<"double", "1.5">> >>,
               ltc26x7_reads)

mlx90614_tables ==
    Tables(<<>>, <<>>, <<>>, 2,
           << <<"temps-celsius", <<0>>, 1>>, <<"temps-kelvin", <<1>>, 1>> >>,
           <<"i2c">>, <<>>, <<>>, <<"IC", "Sensor">>)
mlx90614_c_decoder ==
    Descriptor("mlx90614_c", mlx90614_tables, <<0, 0, 0, 2, 2, 1, 0, 0, 2>>,
               <<>>, <<>>)

mpu6050_tables ==
    Tables(<<>>, <<>>, <<>>, 29,
           << <<"bits", R(9, 23), 15>>, <<"regs", R(0, 8), 9>>,
              <<"accel-gyro", R(24, 27), 4>>, <<"warnings", <<28>>, 1>> >>,
           <<"i2c">>, <<"mpu6050">>, <<>>, <<"Gyroscope">>)
mpu6050_c_decoder ==
    Descriptor("mpu6050_c", mpu6050_tables, <<0, 0, 0, 29, 4, 1, 1, 0, 1>>,
               <<>>, <<>>)

mxc6225xu_tables ==
    Tables(<<>>, <<>>, <<>>, 1, << <<"text", <<0>>, 1>> >>, <<"i2c">>, <<>>,
           <<>>, <<"IC", "Sensor">>)
mxc6225xu_c_decoder ==
    Descriptor("mxc6225xu_c", mxc6225xu_tables,
               <<0, 0, 0, 1, 1, 1, 0, 0, 2>>, <<>>, <<>>)

nunchuk_tables ==
    Tables(<<>>, <<>>, <<>>, 15,
           << <<"regs", R(0, 12), 13>>, <<"summary", <<13>>, 1>>,
              <<"warnings", <<14>>, 1>> >>, <<"i2c">>, <<>>, <<>>,
           <<"Sensor">>)
nunchuk_c_decoder ==
    Descriptor("nunchuk_c", nunchuk_tables, <<0, 0, 0, 15, 3, 1, 0, 0, 1>>,
               <<>>, <<>>)

pca9571_tables ==
    Tables(<<>>, <<>>, <<>>, 3,
           << <<"regs", <<0, 1>>, 2>>, <<"warnings", <<2>>, 1>> >>,
           <<"i2c">>, <<>>, <<>>, <<"Embedded/industrial", "IC">>)
pca9571_c_decoder ==
    Descriptor("pca9571_c", pca9571_tables, <<0, 0, 0, 3, 2, 1, 0, 0, 2>>,
               <<>>, <<>>)

rtc8564_tables ==
    Tables(<<>>, <<>>, <<>>, 16,
           << <<"bits", R(0, 8) \o <<11, 12, 13, -1>>, 12>>,
              <<"regs", <<14, 15, -1>>, 2>>,
              <<"date-time", <<9, 10, -1>>, 2>> >>, <<"i2c">>, <<>>, <<>>,
           <<"Clock/timing">>)
rtc8564_c_decoder ==
    Descriptor("rtc8564_c", rtc8564_tables, <<0, 0, 0, 16, 3, 1, 0, 0, 1>>,
               <<>>, <<>>)

ssd1306_tables ==
    Tables(<<>>, <<>>, <<>>, 51,
           << <<"bits", R(0, 9) \o <<-1>>, 10>>,
              <<"cmds", R(10, 48) \o <<-1>>, 39>>,
              <<"blockdata", <<49, -1>>, 1>>,
              <<"warnings", <<50, -1>>, 1>> >>, <<"i2c">>, <<>>, <<>>,
           <<"Display", "IC">>)
ssd1306_c_decoder ==
    Descriptor("ssd1306_c", ssd1306_tables, <<0, 0, 0, 51, 4, 1, 0, 0, 2>>,
               <<>>, <<>>)

st25dv_tables ==
    Tables(<<>>, <<>>, <<>>, 5, << <<"regs", R(0, 4) \o <<-1>>, 5>> >>,
           <<"i2c">>, <<"st25dv">>, <<>>, <<"Embedded/industrial">>)
st25dv_c_decoder ==
    Descriptor("st25dv_c", st25dv_tables, <<0, 0, 0, 5, 1, 1, 1, 0, 1>>,
               <<>>, <<>>)

tca6408a_tables ==
    Tables(<<>>, <<>>, <<>>, 3,
           << <<"regs", <<0, 1>>, 2>>, <<"warnings", <<2>>, 1>> >>,
           <<"i2c">>, <<>>, <<>>, <<"Embedded/industrial", "IC">>)
tca6408a_c_decoder ==
    Descriptor("tca6408a_c", tca6408a_tables, <<0, 0, 0, 3, 2, 1, 0, 0, 2>>,
               <<>>, <<>>)

tcs3472x_tables ==
    Tables(<<>>, <<>>, <<"device_address">>, 1,
           << <<"registers", <<0, -1>>, 1>> >>, <<"i2c">>, <<>>, <<>>,
           <<"Embedded/industrial">>)
tcs3472x_reads ==
    Reads(<< <<"str", "device_address", "0x29">> >>)
tcs3472x_c_decoder ==
    Descriptor("tcs3472x_c", tcs3472x_tables, <<0, 0, 1, 1, 1, 1, 0, 0, 1>>,
               << <<"string", "0x29">> >>, tcs3472x_reads)

tmp102_tables ==
    Tables(<<>>, <<>>, <<"radix", "units">>, 34,
           << <<"bits", R(10, 20), 11>>, <<"regs", R(0, 9), 10>>,
              <<"info", R(23, 33), 11>>, <<"warnings", <<21, 22>>, 2>> >>,
           <<"i2c">>, <<"tmp102">>, <<>>, <<"Embedded/industrial">>)
tmp102_reads ==
    Reads(<< <<"str", "radix", "Hex">>, <<"str", "units", "Celsius">> >>)
tmp102_c_decoder ==
    Descriptor("tmp102_c", tmp102_tables, <<0, 0, 2, 34, 4, 1, 1, 0, 1>>,
               << <<"string", "Hex">>, <<"string", "Celsius">> >>,
               tmp102_reads)

tpm_tis_i2c_tables ==
    Tables(<<>>, <<>>, <<>>, 5,
           << <<"protocol", <<0, 1, 2, -1>>, 3>>,
              <<"transactions", <<3, -1>>, 1>>,
              <<"warnings", <<4, -1>>, 1>> >>, <<"i2c">>, <<"tpm-tis">>,
           <<>>, <<"TPM">>)
tpm_tis_i2c_c_decoder ==
    Descriptor("tpm_tis_i2c_c", tpm_tis_i2c_tables,
               <<0, 0, 0, 5, 3, 1, 1, 0, 1>>, <<>>, <<>>)

xfp_tables ==
    Tables(<<>>, <<>>, <<>>, 2,
           << <<"field-names-and-vals", <<0>>, 1>>,
              <<"field-vals", <<1>>, 1>> >>, <<"i2c">>, <<>>, <<>>,
           <<"Networking">>)
xfp_c_decoder ==
    Descriptor("xfp_c", xfp_tables, <<0, 0, 0, 2, 2, 1, 0, 0, 1>>, <<>>,
               <<>>)

DeclaredI2c ==
    {ad5593r_c_decoder, atsha204a_c_decoder, bh1750_c_decoder,
     ds1307_c_decoder, ds3231_c_decoder, edid_c_decoder,
     eeprom24xx_c_decoder, hdcp_c_decoder, hdmi_scdc_c_decoder,
     i2c_packet_c_decoder, i2cdemux_c_decoder, i2cfilter_c_decoder,
     lm75_c_decoder, ltc26x7_c_decoder, mlx90614_c_decoder,
     mpu6050_c_decoder, mxc6225xu_c_decoder, nunchuk_c_decoder,
     pca9571_c_decoder, rtc8564_c_decoder, ssd1306_c_decoder,
     st25dv_c_decoder, tca6408a_c_decoder, tcs3472x_c_decoder,
     tmp102_c_decoder, tpm_tis_i2c_c_decoder, xfp_c_decoder}

-----------------------------------------------------------------------------
(* Stacked on the other decoders                                           *)
d4b5b_tables ==
    Tables(<<>>, <<>>, <<"bit_offset">>, 4,
           << <<"symbol", <<0, 1, -1>>, 2>>, <<"bits", <<2, -1>>, 1>>,
              <<"bytes", <<3, -1>>, 1>> >>, <<"nrzi">>, <<"4b5b">>, <<>>,
           <<"Encoding">>)
d4b5b_reads ==
    Reads(<< <<"str", "bit_offset", "0">> >>)
d4b5b_c_decoder ==
    Descriptor("4b5b_c", d4b5b_tables, <<0, 0, 1, 4, 3, 1, 1, 0, 1>>,
               << <<"string", "0">> >>, d4b5b_reads)

arp_tables ==
    Tables(<<>>, <<>>, <<>>, 2,
           << <<"datas", <<0, -1>>, 1>>, <<"msgs", <<1, -1>>, 1>> >>,
           <<"ethernet">>, <<>>, <<>>, <<"Networking", "PC">>)
arp_c_decoder ==
    Descriptor("arp_c", arp_tables, <<0, 0, 0, 2, 2, 1, 0, 0, 2>>, <<>>,
               <<>>)

avclan_tables ==
    Tables(<<>>, <<>>, <<>>, 31,
           << <<"devices", <<0, 1, -1>>, 2>>,
              <<"control", <<2, 3, 4, -1>>, 3>>, <<"cmd", <<5, -1>>, 1>>,
              <<"cd", R(6, 15) \o <<-1>>, 10>>,
              <<"audio", R(16, 22) \o <<-1>>, 7>>,
              <<"radio", R(23, 29) \o <<-1>>, 7>>,
              <<"warnings", <<30, -1>>, 1>> >>, <<"iebus">>, <<>>, <<>>,
           <<"Automotive">>)
avclan_c_decoder ==
    Descriptor("avclan_c", avclan_tables, <<0, 0, 0, 31, 7, 1, 0, 0, 1>>,
               <<>>, <<>>)

cfp_tables ==
    Tables(<<>>, <<>>, <<>>, 2,
           << <<"registers", <<0, -1>>, 1>>, <<"decodes", <<1, -1>>, 1>> >>,
           <<"mdio">>, <<>>, <<>>, <<"Networking">>)
cfp_c_decoder ==
    Descriptor("cfp_c", cfp_tables, <<0, 0, 0, 2, 2, 1, 0, 0, 1>>, <<>>,
               <<>>)

ds2408_tables ==
    Tables(<<>>, <<>>, <<>>, 8,
           << <<"commands", <<2, 3, -1>>, 2>>,
              <<"data", <<4, 5, 6, -1>>, 3>>, <<"rom", <<1, 0, -1>>, 2>>,
              <<"warnings", <<7, -1>>, 1>> >>, <<"onewire_network">>, <<>>,
           <<>>, <<"Embedded/industrial", "IC">>)
ds2408_c_decoder ==
    Descriptor("ds2408_c", ds2408_tables, <<0, 0, 0, 8, 4, 1, 0, 0, 2>>,
               <<>>, <<>>)

ds243x_tables ==
    Tables(<<>>, <<>>, <<>>, 11,
           << <<"commands", <<2, 3, 5, -1>>, 3>>,
              <<"data", <<4>> \o R(6, 9) \o <<-1>>, 5>>,
              <<"rom", <<1, 0, -1>>, 2>>, <<"warnings", <<10, -1>>, 1>> >>,
           <<"onewire_network">>, <<>>, <<>>, <<"IC", "Memory">>)
ds243x_c_decoder ==
    Descriptor("ds243x_c", ds243x_tables, <<0, 0, 0, 11, 4, 1, 0, 0, 2>>,
               <<>>, <<>>)

ds28ea00_tables ==
    Tables(<<>>, <<>>, <<>>, 9,
           << <<"commands", <<2, -1>>, 1>>, <<"data", R(3, 7) \o <<-1>>, 5>>,
              <<"rom", <<1, 0, -1>>, 2>>, <<"warnings", <<8, -1>>, 1>> >>,
           <<"onewire_network">>, <<>>, <<>>, <<"IC", "Sensor">>)
ds28ea00_c_decoder ==
    Descriptor("ds28ea00_c", ds28ea00_tables, <<0, 0, 0, 9, 4, 1, 0, 0, 2>>,
               <<>>, <<>>)

eeprom93xx_tables ==
    Tables(<<>>, <<>>, <<"addresssize", "wordsize">>, 3,
           << <<"data", <<0, 1, -1>>, 2>>, <<"warnings", <<2, -1>>, 1>> >>,
           <<"microwire">>, <<>>, <<>>, <<"IC", "Memory">>)
eeprom93xx_reads ==
    Reads(<< <<"int", "addresssize", "8">>, <<"int", "wordsize", "16">> >>)
eeprom93xx_c_decoder ==
    Descriptor("eeprom93xx_c", eeprom93xx_tables,
               <<0, 0, 2, 3, 2, 1, 0, 0, 2>>,
               << <<"int64", "8">>, <<"int64", "16">> >>, eeprom93xx_reads)

ethernet_tables ==
    Tables(<<>>, <<>>, <<>>, 2,
           << <<"headers", <<0, -1>>, 1>>, <<"datas", <<1, -1>>, 1>> >>,
           <<"4b5b">>, <<"ethernet">>, <<"pcapng">>, <<"Networking", "PC">>)
ethernet_c_decoder ==
    Descriptor("ethernet_c", ethernet_tables, <<0, 0, 0, 2, 2, 1, 1, 1, 2>>,
               <<>>, <<>>)

ipv4_tables ==
    Tables(<<>>, <<>>, <<>>, 2,
           << <<"headers", <<0, -1>>, 1>>, <<"datas", <<1, -1>>, 1>> >>,
           <<"ethernet">>, <<"ipv4">>, <<>>, <<"Networking", "PC">>)
ipv4_c_decoder ==
    Descriptor("ipv4_c", ipv4_tables, <<0, 0, 0, 2, 2, 1, 1, 0, 2>>, <<>>,
               <<>>)

ir_ltto_decode_tables ==
    Tables(<<>>, <<>>, <<>>, 6,
           << <<"signature-types", <<0, 1, -1>>, 2>>,
              <<"signature-datas", <<2, -1>>, 1>>,
              <<"packet-types", <<3, 4, -1>>, 2>>,
              <<"packet-datas", <<5, -1>>, 1>> >>, <<"ir_ltto">>,
           <<"ir_ltto_decode">>, <<>>, <<"Embedded/industrial">>)
ir_ltto_decode_c_decoder ==
    Descriptor("ir_ltto_decode_c", ir_ltto_decode_tables,
               <<0, 0, 0, 6, 4, 1, 1, 0, 1>>, <<>>, <<>>)

jtag_avr_tables ==
    Tables(<<>>, <<>>, <<>>, 18,
           << <<"items", <<0, -1>>, 1>>, <<"fields", <<1, -1>>, 1>>,
              <<"commands", <<2, -1>>, 1>>, <<"warnings", <<3, -1>>, 1>>,
              <<"data_in", <<4, 5, 6, -1>>, 3>>,
              <<"data_out", <<7, 8, 9, -1>>, 3>>,
              <<"data_fields", <<10, -1>>, 1>>,
              <<"pdi_fields", <<14, -1>>, 1>>,
              <<"pdi_prog", <<11, 12, -1>>, 2>>,
              <<"pdi_dev", <<13, -1>>, 1>>,
              <<"pdi_cmds", <<15, 16, 17, -1>>, 3>> >>, <<"jtag">>, <<>>,
           <<>>, <<"Debug/trace">>)
jtag_avr_c_decoder ==
    Descriptor("jtag_avr_c", jtag_avr_tables,
               <<0, 0, 0, 18, 11, 1, 0, 0, 1>>, <<>>, <<>>)

jtag_ejtag_tables ==
    Tables(<<>>, <<>>, <<>>, 13,
           << <<"instructions", <<0, -1>>, 1>>,
              <<"regs", R(1, 9) \o <<-1>>, 9>>,
              <<"control_fields_in", <<10, -1>>, 1>>,
              <<"control_fields_out", <<11, -1>>, 1>>,
              <<"pracc", <<12, -1>>, 1>> >>, <<"jtag">>, <<>>, <<>>,
           <<"Debug/trace">>)
jtag_ejtag_c_decoder ==
    Descriptor("jtag_ejtag_c", jtag_ejtag_tables,
               <<0, 0, 0, 13, 5, 1, 0, 0, 1>>, <<>>, <<>>)

jtag_stm32_tables ==
    Tables(<<>>, <<>>, <<>>, 4,
           << <<"items", <<0, -1>>, 1>>, <<"fields", <<1, -1>>, 1>>,
              <<"commands", <<2, -1>>, 1>>, <<"warnings", <<3, -1>>, 1>> >>,
           <<"jtag">>, <<>>, <<>>, <<"Debug/trace">>)
jtag_stm32_c_decoder ==
    Descriptor("jtag_stm32_c", jtag_stm32_tables,
               <<0, 0, 0, 4, 4, 1, 0, 0, 1>>, <<>>, <<>>)

ltar_smartdevice_tables ==
    Tables(<<>>, <<>>, <<>>, 9,
           << <<"bits", R(0, 4) \o <<-1>>, 5>>,
              <<"frames", <<5, 6, -1>>, 2>>,
              <<"blocks", <<7, 8, -1>>, 2>> >>, <<"afsk_bits">>,
           <<"ltar_smartdevice">>, <<>>, <<"Embedded/industrial">>)
ltar_smartdevice_c_decoder ==
    Descriptor("ltar_smartdevice_c", ltar_smartdevice_tables,
               <<0, 0, 0, 9, 3, 1, 1, 0, 1>>, <<>>, <<>>)

ltar_smartdevice_decode_tables ==
    Tables(<<>>, <<>>, <<>>, 6,
           << <<"frame-names", <<0, -1>>, 1>>,
              <<"frame-errors", <<1, -1>>, 1>>,
              <<"frame-bit-names", <<2, -1>>, 1>>,
              <<"frame-bits-datas", <<3, -1>>, 1>>,
              <<"block-errors", <<4, -1>>, 1>> >>, <<"ltar_smartdevice">>,
           <<"ltar_smartdevice_decode">>, <<>>, <<"Embedded/industrial">>)
ltar_smartdevice_decode_c_decoder ==
    Descriptor("ltar_smartdevice_decode_c", ltar_smartdevice_decode_tables,
               <<0, 0, 0, 6, 5, 1, 1, 0, 1>>, <<>>, <<>>)

onewire_network_tables ==
    Tables(<<>>, <<>>, <<>>, 1, << <<"text", <<0, -1>>, 1>> >>,
           <<"onewire_link">>, <<"onewire_network">>, <<>>,
           <<"Embedded/industrial">>)
onewire_network_c_decoder ==
    Descriptor("onewire_network_c", onewire_network_tables,
               <<0, 0, 0, 1, 1, 1, 1, 0, 1>>, <<>>, <<>>)

ook_oregon_tables ==
    Tables(<<>>, <<>>, <<"unknown">>, 9,
           << <<"bits", <<0, -1>>, 1>>, <<"fields", <<1, 3, 4, -1>>, 3>>,
              <<"l2", <<2, -1>>, 1>> >>, <<"ook">>, <<>>, <<>>,
           <<"Sensor">>)
ook_oregon_reads ==
    Reads(<< <<"str", "unknown", "Unknown">> >>)
ook_oregon_c_decoder ==
    Descriptor("ook_oregon_c", ook_oregon_tables,
               <<0, 0, 1, 9, 3, 1, 0, 0, 1>>, << <<"string", "Unknown">> >>,
               ook_oregon_reads)

ook_vis_tables ==
    Tables(<<>>, <<>>,
           <<"displayas", "synclen", "syncoffset", "refsample">>, 6,
           << <<"bits", <<0, -1>>, 1>>, <<"compare", <<1, -1>>, 1>>,
              <<"fields", <<2, -1>>, 1>>, <<"ref_fields", <<3, -1>>, 1>>,
              <<"level2", <<4, -1>>, 1>>, <<"ref_level2", <<5, -1>>, 1>> >>,
           <<"ook">>, <<"ook">>, <<>>, <<"Encoding">>)
ook_vis_reads ==
    Reads(<< <<"str", "displayas", "Nibble - Hex">>,
             <<"str", "synclen", "4">>, <<"str", "syncoffset", "0">>,
             <<"str", "refsample", "off">> >>)
ook_vis_c_decoder ==
    Descriptor("ook_vis_c", ook_vis_tables, <<0, 0, 4, 6, 6, 1, 1, 0, 1>>,
               << <<"string", "Nibble - Hex">>, <<"string", "4">>,
                  <<"string", "0">>, <<"string", "off">> >>, ook_vis_reads)

pjon_tables ==
    Tables(<<>>, <<>>, <<>>, 13,
           << <<"fields", R(0, 5) \o R(7, 10) \o <<-1>>, 10>>,
              <<"relations", <<11, -1>>, 1>>,
              <<"warnings", <<12, -1>>, 1>> >>, <<"pjon_link">>, <<>>, <<>>,
           <<"Embedded/industrial">>)
pjon_c_decoder ==
    Descriptor("pjon_c", pjon_tables, <<0, 0, 0, 13, 3, 1, 0, 0, 1>>, <<>>,
               <<>>)

ps2_keyboard_tables ==
    Tables(<<>>, <<>>, <<>>, 3, << <<"keys", <<0, 1, 2, -1>>, 3>> >>,
           <<"ps2">>, <<>>, <<"keys">>, <<"PC">>)
ps2_keyboard_c_decoder ==
    Descriptor("ps2_keyboard_c", ps2_keyboard_tables,
               <<0, 0, 0, 3, 1, 1, 0, 1, 1>>, <<>>, <<>>)

ps2_mouse_tables ==
    Tables(<<>>, <<>>, <<>>, 1, << <<"mov", <<0, -1>>, 1>> >>, <<"ps2">>,
           <<>>, <<"bytes", "movement">>, <<"PC">>)
ps2_mouse_c_decoder ==
    Descriptor("ps2_mouse_c", ps2_mouse_tables,
               <<0, 0, 0, 1, 1, 1, 0, 2, 1>>, <<>>, <<>>)

sipi_tables ==
    Tables(<<>>, <<>>, <<>>, 7,
           << <<"fields", R(0, 5) \o <<-1>>, 6>>,
              <<"warnings", <<6, -1>>, 1>> >>, <<"lfast">>, <<>>, <<>>,
           <<"Embedded/industrial">>)
sipi_c_decoder ==
    Descriptor("sipi_c", sipi_tables, <<0, 0, 0, 7, 2, 1, 0, 0, 1>>, <<>>,
               <<>>)

sony_md_decode_tables ==
    Tables(<<>>, <<>>, <<>>, 16,
           << <<"informational", <<0, -1>>, 1>>,
              <<"transfer-blocks", <<1, -1>>, 1>>,
              <<"senders", <<7, 8, -1>>, 2>>, <<"commands", <<15, -1>>, 1>>,
              <<"raw-values", <<2, -1>>, 1>>,
              <<"data-field-names", <<9, -1>>, 1>>,
              <<"data-field-values", <<3, 6, 12, 13, 14, -1>>, 5>>,
              <<"debugs", <<4, -1>>, 1>>, <<"debugs-two", <<5, -1>>, 1>>,
              <<"errors", <<10, -1>>, 1>>, <<"warnings", <<11, -1>>, 1>> >>,
           <<"sony_md">>, <<"sony_md_decode">>, <<>>, <<"">>)
sony_md_decode_c_decoder ==
    Descriptor("sony_md_decode_c", sony_md_decode_tables,
               <<0, 0, 0, 16, 11, 1, 1, 0, 1>>, <<>>, <<>>)

tm1637_tables ==
    Tables(<<>>, <<>>, <<"dpoint">>, 16,
           << <<"bits", R(0, 13) \o <<-1>>, 14>>,
              <<"display", <<15, -1>>, 1>>, <<"warnings", <<14, -1>>, 1>> >>,
           <<"tmc">>, <<"tm1637">>, <<>>, <<"Embedded/industrial">>)
tm1637_reads ==
    Reads(<< <<"str", "dpoint", "Dot">> >>)
tm1637_c_decoder ==
    Descriptor("tm1637_c", tm1637_tables, <<0, 0, 1, 16, 3, 1, 1, 0, 1>>,
               << <<"string", "Dot">> >>, tm1637_reads)

tm1638_tables ==
    Tables(<<>>, <<>>, <<>>, 23,
           << <<"bits", R(0, 18) \o <<-1>>, 19>>,
              <<"display", <<20, -1>>, 1>>, <<"leds", <<21, -1>>, 1>>,
              <<"keys", <<22, -1>>, 1>>, <<"warnings", <<19, -1>>, 1>> >>,
           <<"tmc">>, <<"tm1638">>, <<>>, <<"Embedded/industrial">>)
tm1638_c_decoder ==
    Descriptor("tm1638_c", tm1638_tables, <<0, 0, 0, 23, 5, 1, 1, 0, 1>>,
               <<>>, <<>>)

tpm_fifo_tis_tables ==
    Tables(<<>>, <<>>, <<>>, 6,
           << <<"register", <<0, 1, -1>>, 2>>, <<"tpm", <<2, 3, -1>>, 2>>,
              <<"warnings", <<4, -1>>, 1>>, <<"states", <<5, -1>>, 1>> >>,
           <<"tpm-tis">>, <<"tpm">>, <<>>, <<"TPM">>)
tpm_fifo_tis_c_decoder ==
    Descriptor("tpm_fifo_tis_c", tpm_fifo_tis_tables,
               <<0, 0, 0, 6, 4, 1, 1, 0, 1>>, <<>>, <<>>)

udp_tables ==
    Tables(<<>>, <<>>, <<"format">>, 2,
           << <<"headers", <<0, -1>>, 1>>, <<"datas", <<1, -1>>, 1>> >>,
           <<"ipv4">>, <<"udp">>, <<"raw">>, <<"Networking", "PC">>)
udp_reads ==
    Reads(<< <<"str", "format", "hex">> >>)
udp_c_decoder ==
    Descriptor("udp_c", udp_tables, <<0, 0, 1, 2, 2, 1, 1, 1, 2>>,
               << <<"string", "hex">> >>, udp_reads)

usb_packet_tables ==
    Tables(<<>>, <<>>, <<"signalling">>, 29,
           << <<"fields", R(0, 10) \o <<-1>>, 11>>,
              <<"packet", R(11, 28) \o <<-1>>, 18>> >>,
           <<"usb_signalling">>, <<"usb_packet">>, <<>>, <<"PC">>)
usb_packet_c_decoder ==
    Descriptor("usb_packet_c", usb_packet_tables,
               <<0, 0, 1, 29, 2, 1, 1, 0, 1>>,
               << <<"string", "full-speed">> >>, <<>>)

usb_request_tables ==
    Tables(<<>>, <<>>, <<"in_request_start">>, 5,
           << <<"request-setup", <<0, 1, -1>>, 2>>,
              <<"request-in", <<2, -1>>, 1>>,
              <<"request-out", <<3, -1>>, 1>>, <<"errors", <<4, -1>>, 1>> >>,
           <<"usb_packet">>, <<"usb_request">>, <<"pcap">>, <<"PC">>)
usb_request_reads ==
    Reads(<< <<"str", "in_request_start", "submit">> >>)
usb_request_c_decoder ==
    Descriptor("usb_request_c", usb_request_tables,
               <<0, 0, 1, 5, 4, 1, 1, 1, 1>>, << <<"string", "submit">> >>,
               usb_request_reads)

DeclaredStacked ==
    {d4b5b_c_decoder, arp_c_decoder, avclan_c_decoder, cfp_c_decoder,
     ds2408_c_decoder, ds243x_c_decoder, ds28ea00_c_decoder,
     eeprom93xx_c_decoder, ethernet_c_decoder, ipv4_c_decoder,
     ir_ltto_decode_c_decoder, jtag_avr_c_decoder, jtag_ejtag_c_decoder,
     jtag_stm32_c_decoder, ltar_smartdevice_c_decoder,
     ltar_smartdevice_decode_c_decoder, onewire_network_c_decoder,
     ook_oregon_c_decoder, ook_vis_c_decoder, pjon_c_decoder,
     ps2_keyboard_c_decoder, ps2_mouse_c_decoder, sipi_c_decoder,
     sony_md_decode_c_decoder, tm1637_c_decoder, tm1638_c_decoder,
     tpm_fifo_tis_c_decoder, udp_c_decoder, usb_packet_c_decoder,
     usb_request_c_decoder}
=============================================================================
