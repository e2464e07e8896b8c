--------------------------- MODULE ConditionScan ---------------------------
(***************************************************************************)
(* How wait() finds the next matching sample: find_match() of instance.c   *)
(* and what it calls, over a capture that arrives in chunks.  A condition  *)
(* list is an OR (sequence) of conditions, a condition an AND (sequence)   *)
(* of terms, as c_wait() and create_term_list() build them.                *)
(*                                                                         *)
(* The scan is as detailed as the code: one action is one call of          *)
(* term_matches() or the end of one pass of find_match()'s loop.  Threads  *)
(* and flags are in DecodeHandshake.                                       *)
(* Definitions whose name ends in Bug are wrong variants of the one that   *)
(* follows them; the specification does not use them.                      *)
(***************************************************************************)
EXTENDS Integers, Sequences

CONSTANTS
    Channels,      \* the decoder's channels
    Length,        \* bound: samples in the capture
    Waits(_),      \* condition lists the decoder passes to wait()
    InitialPins,   \* values the client may set as initial pins
    Languages,     \* within {"c", "python"}: whose wait() builds the terms
    SendsConst,    \* whether clients pass an unchanging channel as a constant
    ChunkSizes     \* sizes of the chunks the client may send

Bit == {0, 1}
SAME_AS_SAMPLE0 == 2   \* SRD_INITIAL_PIN_SAME_AS_SAMPLE0
LevelTypes == {"high", "low", "rising", "falling", "either", "no_edge"}

ASSUME ScanConstants ==
    /\ Length \in Nat
    /\ InitialPins \subseteq Bit \cup {SAME_AS_SAMPLE0}
    /\ Languages \subseteq {"c", "python"}
    /\ SendsConst \subseteq BOOLEAN
    /\ ChunkSizes \subseteq Nat \ {0}

\* Terms as the decoder writes them.
Term(type, ch) == [type |-> type, channel |-> ch, to_skip |-> 0, already |-> 0]
Skip(n) == [type |-> "skip", channel |-> -1, to_skip |-> n, already |-> 0]

AnyTerm == [type : LevelTypes \cup {"skip"}, channel : Channels \cup {-1},
            to_skip : Nat, already : Nat]

VARIABLES
    capture,        \* the sample values, per channel
    language,
    sends_const,    \* what kind of client this is
    initial,        \* the pins in force before sample 0
    lo, hi,         \* abs_start_samplenum and abs_end_samplenum
    constant,       \* channels whose inbuf entry is NULL in this chunk
    cur,            \* abs_cur_samplenum
    cur_matched,    \* abs_cur_matched
    first_pos, skip_zero,
    old_pins,       \* old_pins_array
    conds,          \* condition_list
    match_array,    \* indices of the conditions that matched
    all_skip_allow, \* local of find_match, TRUE outside
    at_cond,        \* the condition find_match is looking at
    at_term,        \* the term of it that all_terms_match is looking at
    pins,           \* the pin values wait() hands to the decoder
    pc,
    \* History.
    origin,         \* the sample wait() was last left at, or -1
    upset           \* the scanner has met one of the cases described at Upset

chunk   == <<lo, hi, constant>>
fixed   == <<capture, language, sends_const, initial>>
place   == <<at_cond, at_term>>
vars    == <<fixed, chunk, cur, cur_matched, first_pos, skip_zero, old_pins,
             conds, match_array, all_skip_allow, place, pins, pc, origin, upset>>

Samples == 0 .. Length - 1
PC == {"idle", "decode", "enter", "scan", "handed"}

TypeOK ==
    /\ capture \in [Channels -> [Samples -> Bit]]
    /\ language \in Languages
    /\ sends_const \in SendsConst
    /\ initial \in [Channels -> InitialPins]
    /\ lo \in 0 .. Length /\ hi \in 0 .. Length
    /\ constant \subseteq Channels
    /\ cur \in 0 .. Length
    /\ cur_matched \in BOOLEAN
    /\ first_pos \in BOOLEAN
    /\ skip_zero \in BOOLEAN
    /\ old_pins \in [Channels -> Bit \cup {SAME_AS_SAMPLE0}]
    /\ conds \in Seq(Seq(AnyTerm))
    /\ match_array \subseteq Nat
    /\ all_skip_allow \in BOOLEAN
    /\ at_cond \in 1 .. Len(conds) + 1 /\ at_term \in Nat \ {0}
    /\ pins \in [Channels -> Bit]
    /\ pc \in PC
    /\ origin \in -1 .. Length - 1
    /\ upset \in BOOLEAN

\* After srd_inst_initial_pins_set_all and srd_inst_start.
Init ==
    /\ capture \in [Channels -> [Samples -> Bit]]
    /\ language \in Languages
    /\ sends_const \in SendsConst
    /\ initial \in [Channels -> InitialPins]
    /\ lo = 0 /\ hi = 0
    /\ constant = {}
    /\ cur = 0
    /\ cur_matched = FALSE
    /\ first_pos = TRUE
    /\ skip_zero = FALSE
    /\ old_pins = initial
    /\ conds = <<>>
    /\ match_array = {}
    /\ all_skip_allow = TRUE
    /\ at_cond = 1 /\ at_term = 1
    /\ pins = [c \in Channels |-> 0]
    /\ pc = "idle"
    /\ origin = -1
    /\ upset = FALSE

-----------------------------------------------------------------------------
(* Matching one sample.                                                    *)

\* The value the scanner reads for a channel at sample n: the constant of a
\* channel without buffer, else the buffer's bit.
InChunk(n) == lo <= n /\ n < hi

SampleAtBug(c, n) == IF c \in constant THEN 0 ELSE capture[c][n]

SampleAt(c, n) == IF c \in constant THEN capture[c][lo] ELSE capture[c][n]

LevelMatchesBug(type, old, new) ==
    CASE type = "high"    -> new = 1
      [] type = "low"     -> new = 0
      [] type \in {"rising", "either"} -> old = 0 /\ new = 1
      [] type = "falling" -> old = 1 /\ new = 0
      [] type = "no_edge" -> old = new

\* sample_matches() for everything but SRD_TERM_SKIP.
LevelMatches(type, old, new) ==
    CASE type = "high"    -> new = 1
      [] type = "low"     -> new = 0
      [] type = "rising"  -> old = 0 /\ new = 1
      [] type = "falling" -> old = 1 /\ new = 0
      [] type = "either"  -> old \in Bit /\ old # new
      [] type = "no_edge" -> old = new

\* What term_matches() returns for a term at the current sample.
TermHolds(t) ==
    IF t.type = "skip"
    THEN t.already = t.to_skip
    ELSE /\ t.channel \in constant \/ InChunk(cur)
         /\ LevelMatches(t.type, old_pins[t.channel], SampleAt(t.channel, cur))

\* The skip_allow it passes back: a term that fails on a constant channel lets
\* the caller skip the rest of the chunk.
SkipAllow(t) == t.type # "skip" /\ (t.channel \in constant \/ ~InChunk(cur))

\* The skip_zero it leaves behind.
SkipZero(t) == skip_zero \/ (t.type = "skip" /\ cur_matched /\ t.to_skip = 0)

\* update_old_pins_array() at sample n.
OldPinsAt(n) ==
    [c \in Channels |-> IF c \in constant \/ InChunk(n) THEN SampleAt(c, n) ELSE 0]

\* update_old_pins_array_initial_pins() at sample n.
InitialPinsAt(n) ==
    [c \in Channels |-> IF old_pins[c] = SAME_AS_SAMPLE0
                        THEN OldPinsAt(n)[c] ELSE old_pins[c]]

-----------------------------------------------------------------------------
(* Calls of the decoder.                                                   *)

\* How far a new SKIP term counts as advanced: c_wait() starts at 0,
\* create_term_list() at 1 when the current sample has matched already.
NewTerm(t) ==
    IF t.type = "skip" /\ language = "python" /\ cur_matched /\ t.to_skip # 0
    THEN [t EXCEPT !.already = 1] ELSE t

NewConds(w) == [i \in DOMAIN w |-> [j \in DOMAIN w[i] |-> NewTerm(w[i][j])]]

\* A wait with conditions; c_wait() leaves empty conditions out.
Wait(w) ==
    /\ pc = "decode"
    /\ language = "c" => \A i \in DOMAIN w : w[i] # <<>>
    /\ conds' = NewConds(w)
    /\ pc' = "enter"
    /\ UNCHANGED <<fixed, chunk, cur, cur_matched, first_pos, skip_zero,
                   old_pins, match_array, all_skip_allow, place, pins, origin,
                   upset>>

\* c_wait() without conditions: the previous condition list is used again.
WaitAgain ==
    /\ pc = "decode"
    /\ language = "c"
    /\ pc' = "enter"
    /\ UNCHANGED <<fixed, chunk, cur, cur_matched, first_pos, skip_zero,
                   old_pins, conds, match_array, all_skip_allow, place, pins,
                   origin, upset>>

\* Python's wait() without a condition: the number of samples to skip.
SkipCount ==
    IF ~first_pos /\ cur # 0 THEN 1 ELSE IF conds = <<>> THEN 0 ELSE 1

WaitAny ==
    /\ pc = "decode"
    /\ language = "python"
    /\ conds' = NewConds(<< <<Skip(SkipCount)>> >>)
    /\ pc' = "enter"
    /\ UNCHANGED <<fixed, chunk, cur, cur_matched, first_pos, skip_zero,
                   old_pins, match_array, all_skip_allow, place, pins, origin,
                   upset>>

-----------------------------------------------------------------------------
(* find_match() and process_samples_until_condition_match().               *)

\* Where the scanner is known to lose track (both are listed as hazards): a
\* chunk is handed back directly after a match on its last sample, and
\* c_decoder_wait_impl forgets first_pos before sample 0 has been looked at.
Upset(handing_back) ==
    IF handing_back THEN cur_matched ELSE first_pos /\ language = "c"

\* No condition at all, or only empty ones: an automatic match right here.
AutoMatch ==
    /\ pc = "enter"
    /\ \A i \in DOMAIN conds : conds[i] = <<>>
    /\ pins' = OldPinsAt(cur)
    /\ first_pos' = IF language = "c" THEN FALSE ELSE first_pos
    /\ upset' = (upset \/ Upset(FALSE))
    /\ pc' = "decode"
    /\ UNCHANGED <<fixed, chunk, cur, cur_matched, skip_zero, old_pins, conds,
                   match_array, all_skip_allow, place, origin>>

RestartSkipsBug(cs) == cs

\* find_match() up to its loop.  After a match the scan goes on with the next
\* sample, and SKIP terms count the matched sample as skipped.
RestartSkips(cs) ==
    [i \in DOMAIN cs |-> [j \in DOMAIN cs[i] |->
        IF cs[i][j].type = "skip" /\ cs[i][j].to_skip > 0
        THEN [cs[i][j] EXCEPT !.already = 1] ELSE cs[i][j]]]

Enter ==
    /\ pc = "enter"
    /\ \E i \in DOMAIN conds : conds[i] # <<>>
    /\ match_array' = {}
    /\ old_pins' = IF first_pos THEN InitialPinsAt(cur) ELSE old_pins
    /\ first_pos' = FALSE
    /\ IF cur_matched
       THEN cur' = cur + 1 /\ conds' = RestartSkips(conds)
       ELSE UNCHANGED <<cur, conds>>
    /\ pc' = "scan"
    /\ UNCHANGED <<fixed, chunk, cur_matched, skip_zero, all_skip_allow, place, pins,
                   origin, upset>>

\* The loops of find_match() and all_terms_match() over conditions and terms.
InPass == pc = "scan" /\ cur < hi

NextTerm == at_cond' = at_cond /\ at_term' = at_term + 1

NextCond == at_cond' = at_cond + 1 /\ at_term' = 1

\* An empty condition is passed over.
PassOver ==
    /\ InPass
    /\ at_cond <= Len(conds) /\ conds[at_cond] = <<>>
    /\ NextCond
    /\ UNCHANGED <<fixed, chunk, cur, cur_matched, first_pos, skip_zero, old_pins,
                   conds, match_array, all_skip_allow, pins, pc, origin, upset>>

\* A term holds.  With the last one the condition matches, and a pending skip
\* of zero samples moves back to the sample that matched last.
TermMatches ==
    /\ InPass
    /\ at_cond <= Len(conds) /\ conds[at_cond] # <<>>
    /\ LET t == conds[at_cond][at_term]
       IN  /\ TermHolds(t)
           /\ IF at_term < Len(conds[at_cond])
              THEN /\ NextTerm
                   /\ skip_zero' = SkipZero(t)
                   /\ UNCHANGED <<cur, match_array, all_skip_allow>>
              ELSE /\ NextCond
                   /\ cur' = IF SkipZero(t) THEN cur - 1 ELSE cur
                   /\ skip_zero' = FALSE
                   /\ match_array' = match_array \cup {at_cond}
                   /\ all_skip_allow' = FALSE
    /\ UNCHANGED <<fixed, chunk, cur_matched, first_pos, old_pins, conds, pins, pc,
                   origin, upset>>

\* A term fails and its condition with it.  A SKIP term counts the samples it
\* is asked about.
TermFails ==
    /\ InPass
    /\ at_cond <= Len(conds) /\ conds[at_cond] # <<>>
    /\ LET t == conds[at_cond][at_term]
       IN  /\ ~TermHolds(t)
           /\ conds' = IF t.type = "skip"
                       THEN [conds EXCEPT ![at_cond][at_term].already = @ + 1]
                       ELSE conds
           /\ skip_zero' = SkipZero(t)
           /\ all_skip_allow' = (all_skip_allow /\ SkipAllow(t))
    /\ NextCond
    /\ UNCHANGED <<fixed, chunk, cur, cur_matched, first_pos, old_pins, match_array,
                   pins, pc, origin, upset>>

\* The end of a pass with a match: wait() returns to the decoder.
ScanMatch ==
    /\ InPass
    /\ at_cond > Len(conds)
    /\ match_array # {}
    /\ old_pins' = OldPinsAt(cur)
    /\ pins' = OldPinsAt(cur)
    /\ cur_matched' = TRUE
    /\ origin' = cur
    /\ all_skip_allow' = TRUE /\ at_cond' = 1 /\ at_term' = 1
    /\ pc' = "decode"
    /\ UNCHANGED <<fixed, chunk, cur, first_pos, skip_zero, conds, match_array, upset>>

AdvanceConstBug == IF all_skip_allow \/ constant # {} THEN hi ELSE cur + 1

\* The end of a pass without a match: on to the next sample, or to the end of
\* the chunk when every condition failed on a channel that is constant in it.
Advance == IF all_skip_allow THEN hi ELSE cur + 1

ScanMiss ==
    /\ InPass
    /\ at_cond > Len(conds)
    /\ match_array = {}
    /\ old_pins' = OldPinsAt(cur)
    /\ cur_matched' = FALSE
    /\ cur' = Advance
    /\ at_cond' = 1 /\ at_term' = 1
    /\ UNCHANGED <<fixed, chunk, first_pos, skip_zero, conds, match_array,
                   all_skip_allow, pins, pc, origin, upset>>

\* The loop is over and the chunk goes back to the client.
HandBack ==
    /\ pc = "scan"
    /\ cur >= hi
    /\ upset' = (upset \/ Upset(TRUE))
    /\ all_skip_allow' = TRUE
    /\ pc' = "handed"
    /\ UNCHANGED <<fixed, chunk, cur, cur_matched, first_pos, skip_zero,
                   old_pins, conds, match_array, place, pins, origin>>

\* srd_inst_decode(): the next n samples.  A channel that does not change
\* within the chunk may come without a buffer.
Chunk(n, cs) ==
    /\ pc \in {"idle", "handed"}
    /\ hi + n <= Length
    /\ cur = hi
    /\ \A c \in cs : \A m \in hi .. hi + n - 1 : capture[c][m] = capture[c][hi]
    /\ lo' = hi
    /\ hi' = hi + n
    /\ constant' = cs
    /\ pc' = IF pc = "idle" THEN "decode" ELSE "enter"
    /\ UNCHANGED <<fixed, cur, cur_matched, first_pos, skip_zero, old_pins,
                   conds, match_array, all_skip_allow, place, pins, origin, upset>>

\* The client has sent the whole capture.
Done == pc \in {"idle", "handed"} /\ hi = Length /\ UNCHANGED vars

Next ==
    \/ \E w \in Waits(sends_const) : Wait(w)
    \/ WaitAgain
    \/ WaitAny
    \/ AutoMatch
    \/ Enter
    \/ PassOver
    \/ TermMatches
    \/ TermFails
    \/ ScanMatch
    \/ ScanMiss
    \/ HandBack
    \/ \E n \in ChunkSizes :
         \E cs \in IF sends_const THEN SUBSET Channels ELSE {{}} : Chunk(n, cs)
    \/ Done

Spec == Init /\ [][Next]_vars

-----------------------------------------------------------------------------
(* The reference: what a wait with the current conditions should return,   *)
(* read off the capture alone, with no chunks and no scanner state.        *)

\* The value a channel had before sample n.
Before(c, n) ==
    IF n > 0 THEN capture[c][n - 1]
    ELSE IF initial[c] = SAME_AS_SAMPLE0 THEN capture[c][0] ELSE initial[c]

RefLevel(type, before, now) ==
    CASE type = "high"    -> now = 1
      [] type = "low"     -> now = 0
      [] type = "rising"  -> now > before
      [] type = "falling" -> now < before
      [] type = "either"  -> now # before
      [] type = "no_edge" -> now = before

\* Whether a term holds at sample n, for a wait that starts from origin.  A
\* skip counts from there, or from sample 0 before the first match.
RefTerm(t, n) ==
    IF t.type = "skip"
    THEN n = (IF origin = -1 THEN 0 ELSE origin) + t.to_skip
    ELSE n > origin /\ RefLevel(t.type, Before(t.channel, n), capture[t.channel][n])

RefConds(n) ==
    {i \in DOMAIN conds : conds[i] # <<>> /\ \A j \in DOMAIN conds[i] : RefTerm(conds[i][j], n)}

\* Samples from the start of the wait up to n (exclusive) without a match.
NoneBefore(n) ==
    \A m \in (IF origin = -1 THEN 0 ELSE origin) .. n - 1 : RefConds(m) = {}

-----------------------------------------------------------------------------
(* The waits for which the scanner agrees with the reference: a skip stands *)
(* alone in its condition, a skip of zero samples alone in its wait, and a  *)
(* client that passes constants serves conditions of one term, for an edge  *)
(* or a level.                                                              *)

IsSkip(t) == t.type = "skip"

WellFormed(cs, const) ==
    \A i \in 1 .. Len(cs) : \A j \in 1 .. Len(cs[i]) :
        LET t == cs[i][j]
        IN  /\ ~IsSkip(t) => t.channel \in Channels
            /\ IsSkip(t) \/ const => Len(cs[i]) = 1
            /\ IsSkip(t) /\ t.to_skip = 0 => Len(cs) = 1
            /\ const => t.type # "no_edge"

NewlyWritten(w) == \A i \in 1 .. Len(w) : \A j \in 1 .. Len(w[i]) : w[i][j].already = 0

WaitsAreSound ==
    \A const \in SendsConst : \A w \in Waits(const) :
        w \in Seq(Seq(AnyTerm)) /\ WellFormed(w, const) /\ NewlyWritten(w)

-----------------------------------------------------------------------------
(* Properties.                                                             *)

\* A step in which wait() returns with a match agrees with the reference: no
\* earlier sample was due, exactly the conditions that hold there are reported,
\* and the pins are those of that sample.
AgreesWithReference ==
    /\ NoneBefore(cur')
    /\ match_array' = RefConds(cur')
    /\ pins' = [c \in Channels |-> capture[c][cur']]

Matches == pc = "scan" /\ pc' = "decode"

\* wait() returns the first sample after the previous match that satisfies a
\* condition, wherever the chunks end.
MatchIsFirst == [][Matches => AgreesWithReference]_vars

\* The same as long as the scanner has not lost track (Upset).
MatchIsFirstInside == [][Matches /\ ~upset => AgreesWithReference]_vars

\* A chunk is handed back only when no condition of the wait holds on any of
\* its samples, again as long as the scanner has not lost track.
NothingMissedInside == pc = "handed" /\ ~upset => NoneBefore(hi)
=============================================================================
