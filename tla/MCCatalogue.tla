---------------------------- MODULE MCCatalogue ----------------------------
(* Model checking of Catalogue over the C decoders of the repository.      *)
EXTENDS Catalogue, CatalogueLogicA, CatalogueLogicB, CatalogueStacked

AllDeclared ==
    DeclaredLogicA \cup DeclaredLogicB \cup DeclaredLogicC \cup DeclaredI2c
        \cup DeclaredSpi \cup DeclaredUart \cup DeclaredStacked

\* An optional channel is declared with the order of the first channel.
SharedSlot == {counter_c_decoder, iec_c_decoder, usb_power_delivery_c_decoder}

\* The labels are filled in by start(), after srd_c_decoder_register has
\* copied them.
LateLabels == {emmc_sd_c_decoder, sdcard_sd_c_decoder}

\* An option that the code never reads, or reads as another type.
DeadOption ==
    {arm_etmv3_c_decoder, cyrf6936_c_decoder, iebus_c_decoder,
     pn532_c_decoder, usb_packet_c_decoder, sdio_c_decoder}

Consistent == AllDeclared \ (SharedSlot \cup LateLabels \cup DeadOption)

\* The theorems of CatalogueProofs apply to these decoders.
ASSUME AuthorsTookCare ==
    \A x \in Consistent : OrderIsIndex(Registered(x)) /\ ReadsAgree(Registered(x))
=============================================================================
