---------------------------- MODULE SendService ----------------------------
(***************************************************************************)
(* What feeding a decoder instance promises its caller, without threads,   *)
(* locks or flags: a call lends the samples from pos to limit, the decoder *)
(* takes them in order and only while they are lent, and the call returns  *)
(* when all have been taken or the decoder has stopped.                    *)
(***************************************************************************)
EXTENDS Integers

CONSTANTS MaxSample,  \* bound: samples in one capture
          MaxChunk    \* bound: samples in one chunk

VARIABLES busy,      \* a call is in progress
          pos,       \* samples taken so far
          limit,     \* samples lent so far
          stopped    \* the decoder takes no more samples

vars == <<busy, pos, limit, stopped>>

Init ==
    /\ busy = FALSE
    /\ pos = 0
    /\ limit = 0
    /\ stopped = FALSE

\* A call lends the samples that follow the ones already taken.  A stopped
\* decoder ignores what it is lent.
Lend(n) ==
    /\ ~busy
    /\ pos + n <= MaxSample
    /\ busy' = TRUE
    /\ limit' = IF stopped THEN limit ELSE pos + n
    /\ UNCHANGED <<pos, stopped>>

Take(n) ==
    /\ busy
    /\ pos + n <= limit
    /\ pos' = pos + n
    /\ UNCHANGED <<busy, limit, stopped>>

\* A decoder that stops, in a call or between calls, loses its place.
Stop ==
    /\ stopped' = TRUE
    /\ pos' = 0
    /\ limit' = 0
    /\ UNCHANGED busy

Return ==
    /\ busy
    /\ pos = limit
    /\ busy' = FALSE
    /\ UNCHANGED <<pos, limit, stopped>>

\* The decoder is made ready for a new capture.
Restart ==
    /\ ~busy
    /\ pos' = 0
    /\ limit' = 0
    /\ stopped' = FALSE
    /\ UNCHANGED busy

Next ==
    \/ \E n \in 1 .. MaxChunk : Lend(n) \/ Take(n)
    \/ Stop
    \/ Return
    \/ Restart

\* In a call the decoder keeps taking samples or stops; and calls return.
Progress == busy /\ (Stop \/ \E n \in 1 .. MaxChunk : Take(n))

Fairness == WF_vars(Progress) /\ WF_vars(Return)

Spec == Init /\ [][Next]_vars /\ Fairness
=============================================================================
