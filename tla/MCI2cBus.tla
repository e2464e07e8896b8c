------------------------------ MODULE MCI2cBus ------------------------------
(***************************************************************************)
(* Instances of I2cBus for TLC.                                            *)
(***************************************************************************)
EXTENDS I2cBus

\* One write and one read address and a data byte; the bit patterns differ
\* early, so that a decoder out of step does not look as if it were in step.
SmallBytes == {209, 52}

\* Both address formats; a packet format whose bytes differ in width, and none.
SmallOptions == {<<TRUE, "dec">>, <<FALSE, "dec">>, <<FALSE, "none">>}
=============================================================================
