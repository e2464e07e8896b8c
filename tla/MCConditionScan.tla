-------------------------- MODULE MCConditionScan --------------------------
(* Instances of ConditionScan for model checking: the condition lists the  *)
(* decoder may wait for.                                                   *)
EXTENDS ConditionScan

\* One channel: every term type, skips, and the timeout idiom of the decoders
\* (an edge or a number of samples, whichever comes first).
OneChannelWaits ==
    { << <<>> >> } \cup
    { << <<Term(t, 0)>> >> : t \in LevelTypes } \cup
    { << <<Skip(n)>> >> : n \in 0 .. 2 } \cup
    { << <<Skip(n)>>, <<Term("falling", 0)>> >> : n \in 1 .. 2 }

\* Two channels: conjunctions and alternatives across channels.
TwoChannelWaits ==
    { << <<Term("rising", 0), Term("high", 1)>> >>,
      << <<Term("low", 1), Term("falling", 0)>> >>,
      << <<Term("either", 0)>>, <<Term("rising", 1)>> >>,
      << <<>>, <<Term("no_edge", 1)>> >> }

\* Waits for edges and levels of single channels, the ones for which skipping
\* the rest of a chunk in which the channel is constant is harmless.
ConstantWaits ==
    { << <<Term(t, 0)>> >> : t \in {"rising", "falling", "low"} } \cup
    { << <<Term("either", 0)>>, <<Term("falling", 1)>> >>,
      << <<Skip(2)>>, <<Term("high", 1)>> >> }

\* Plain edges, for the chunk border.
EdgeWaits(const) == { << <<Term("rising", 0)>> >>, << <<Term("falling", 0)>> >> }

\* An edge while another channel has a level, for chunks in which one of the two
\* is constant.
GatedWaits(const) == { << <<Term("high", 1), Term("rising", 0)>> >> }

\* No change of a channel, for the chunk in which it stops changing.
SteadyWaits(const) == { << <<Term("no_edge", 0)>> >> }

WaitsOf(const) ==
    IF const THEN ConstantWaits ELSE OneChannelWaits \cup TwoChannelWaits

\* The lists of this instance are among those ConditionScanProofs is about.
ASSUME WaitsAreSoundHere == WaitsAreSound
=============================================================================
