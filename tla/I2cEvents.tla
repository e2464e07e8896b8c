----------------------------- MODULE I2cEvents -----------------------------
(***************************************************************************)
(* What the I2C decoder promises to the decoders stacked on it: the order  *)
(* of the protocol packets that reach their decode_upper callback.  A step *)
(* is one pass of i2c_decode()'s loop; out is what it sends, in order.     *)
(*                                                                         *)
(* I2cBus shows that i2c_c.c implements this; I2cDevices lets the stacked  *)
(* decoders run on it.                                                     *)
(***************************************************************************)
EXTENDS Integers, Sequences

CONSTANTS
    AddrBytes,   \* the values an ADDRESS packet may carry
    DataBytes,   \* the values a DATA packet may carry
    BitsBytes    \* what fields[0].u8 shows of a BITS packet

VARIABLES
    phase,       \* which packet may come next
    wr,          \* direction of the current part: 1 write, 0 read, -1 unknown
    out          \* the packets sent in the last step

vars == <<phase, wr, out>>

Packet(cmd, val) == [cmd |-> cmd, val |-> val]
START        == Packet("START", 0)
START_REPEAT == Packet("START REPEAT", 0)
STOP         == Packet("STOP", 0)
ACK          == Packet("ACK", 0)
NACK         == Packet("NACK", 0)
\* A BITS packet has one C_BYTES field.  Its bytes are left out; a decoder
\* that takes the field for a number sees a byte of the pointer to them.
BITS(b)      == Packet("BITS", b)

ADDRESS(w, a) == Packet(IF w = 1 THEN "ADDRESS WRITE" ELSE "ADDRESS READ", a)
DATA(w, d)    == Packet(IF w = 1 THEN "DATA WRITE" ELSE "DATA READ", d)

Phases == {"stopped", "address", "address_ack", "data", "data_ack"}

Init == phase = "stopped" /\ wr = -1 /\ out = <<>>

Start ==
    /\ phase = "stopped"
    /\ out' = <<START>>
    /\ phase' = "address" /\ wr' = -1

\* After an address or a data byte, never straight after another START.
StartRepeat ==
    /\ phase = "data"
    /\ out' = <<START_REPEAT>>
    /\ phase' = "address" /\ wr' = -1

Address(w, a, b) ==
    /\ phase = "address"
    /\ out' = <<BITS(b), ADDRESS(w, a)>>
    /\ phase' = "address_ack" /\ wr' = w

Data(d, b) ==
    /\ phase = "data"
    /\ out' = <<BITS(b), DATA(wr, d)>>
    /\ phase' = "data_ack" /\ UNCHANGED wr

Acknowledge ==
    /\ phase \in {"address_ack", "data_ack"}
    /\ out' \in {<<ACK>>, <<NACK>>}
    /\ phase' = "data" /\ UNCHANGED wr

Stop ==
    /\ phase = "data"
    /\ out' = <<STOP>>
    /\ phase' = "stopped" /\ wr' = -1

\* A step of the decoder that sends nothing.
Quiet == out' = <<>> /\ UNCHANGED <<phase, wr>>

\* srd_inst_terminate_reset(): the whole stack starts over.
Reset == phase' = "stopped" /\ wr' = -1 /\ out' = <<>>

Next ==
    \/ Start \/ StartRepeat \/ Acknowledge \/ Stop \/ Quiet \/ Reset
    \/ \E w \in {0, 1}, a \in AddrBytes, b \in BitsBytes : Address(w, a, b)
    \/ \E d \in DataBytes, b \in BitsBytes : Data(d, b)

Spec == Init /\ [][Next]_vars
=============================================================================
