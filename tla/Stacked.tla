------------------------------ MODULE Stacked ------------------------------
(***************************************************************************)
(* What the models of stacked decoders share.  A stacked decoder is a pure *)
(* function of its state and the protocol packet that c_proto() hands to   *)
(* its decode_upper callback: X_reset is the state after reset() and       *)
(* start(), X_recv(s, p) the state after packet p.                         *)
(*                                                                         *)
(* A state is a record with the control state in field state and, in field *)
(* rep, what the decoder has put out since c_proto() was called.  A report *)
(* names the register (or command) it is about, -1 where there is none,    *)
(* and the data bytes shown.  The annotations of one byte are one report,  *)
(* and fields that only feed the texts of annotations (times, units,       *)
(* sample numbers, measuring modes) are left out.                          *)
(***************************************************************************)
EXTENDS Integers, Sequences, SequencesExt

Report(reg, bytes) == [reg |-> reg, bytes |-> bytes]

\* Reports that are not about a register: a warning about an address that is
\* not the chip's, and what is put together from values that were kept.
Warning == -2
Summary == -3

\* The decoder goes to another control state, and puts something out.
To(s, state) == [s EXCEPT !.state = state]
Say(s, reg, bytes) == [s EXCEPT !.rep = Append(@, Report(reg, bytes))]

\* It warns of an address, or puts out a text without data.
Warn(s, addr) == Say(s, Warning, <<addr>>)
Mention(s) == Say(s, -1, <<>>)

\* No byte has been seen: what the fields with kept values are reset to.
Unseen == -1

\* Packets by their command.
IsAddress(p) == p.cmd \in {"ADDRESS READ", "ADDRESS WRITE"}
IsData(p)    == p.cmd \in {"DATA READ", "DATA WRITE"}

\* A byte buffer of the given size that drops what does not fit.
Keep(bytes, b, size) == IF Len(bytes) < size THEN Append(bytes, b) ELSE bytes
=============================================================================
