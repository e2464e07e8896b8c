------------------------------- MODULE Wires -------------------------------
(***************************************************************************)
(* Words on the wire, as the decoders of this project build them: bits to  *)
(* numbers in either order, octets, exclusive-or checksums and CRCs.       *)
(***************************************************************************)
EXTENDS Stacked, Bitwise

RECURSIVE NumFrom(_, _, _)
NumFrom(bits, i, x) == IF i > Len(bits) THEN x ELSE NumFrom(bits, i + 1, 2 * x + bits[i])

Num(bits) == NumFrom(bits, 1, 0)               \* the most significant bit first
NumLsb(bits) == Num(Reverse(bits))             \* the least significant bit first
Octets(bits) == [i \in 1 .. Len(bits) \div 8 |-> Num(SubSeq(bits, 8 * i - 7, 8 * i))] \o <<>>

Bit(x, n) == (x \div 2^n) % 2
Bits(x, from, to) == (x \div 2^from) % 2^(to - from + 1)
Flag(b) == IF b THEN 1 ELSE 0

RECURSIVE XorFrom(_, _)
XorFrom(xs, i) == IF i > Len(xs) THEN 0 ELSE xs[i] ^^ XorFrom(xs, i + 1)
XorOf(xs) == XorFrom(xs, 1)

RECURSIVE SumFrom(_, _)
SumFrom(xs, i) == IF i > Len(xs) THEN 0 ELSE xs[i] + SumFrom(xs, i + 1)
SumOf(xs) == SumFrom(xs, 1)

\* Edges of a channel between two samples: the state keeps the previous one.
Rises(s, e, ch) == s.was[ch] = 0 /\ e[ch] = 1
Falls(s, e, ch) == s.was[ch] = 1 /\ e[ch] = 0
Edge(s, e, ch) == s.was[ch] # e[ch]

Last8(xs) == SubSeq(xs, Len(xs) - 7, Len(xs))
=============================================================================
