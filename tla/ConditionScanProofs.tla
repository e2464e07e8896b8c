------------------------ MODULE ConditionScanProofs -------------------------
(***************************************************************************)
(* The scanner of ConditionScan finds what the reference says, for every   *)
(* capture, set of channels, chunking and wait within WaitsAreSound.       *)
(*                                                                         *)
(* The inductive invariant has two parts.  Shaped holds of every state:    *)
(* the sample the scanner is at lies in the chunk, the loops' indices in   *)
(* their lists, a SKIP term never counts past its goal.  OnTrack holds     *)
(* until the scanner meets one of the cases of Upset, and ties what it     *)
(* keeps - the pins of the last sample, the counters of the SKIP terms,    *)
(* the conditions that matched so far in this pass, the permission to skip *)
(* the rest of the chunk - to the capture and to where the wait began.  A  *)
(* scanner on track has not yet looked at a sample (Fresh), has returned   *)
(* to the decoder (Returned), is about to step back for a skip of zero     *)
(* (Rewinding, Rewound) or searches (Searching).                           *)
(***************************************************************************)
EXTENDS ConditionScan, TLAPS

\* A SKIP term never counts past its goal.
SkipsBounded(cs) ==
    \A i \in 1 .. Len(cs) : \A j \in 1 .. Len(cs[i]) :
        IsSkip(cs[i][j]) => cs[i][j].already <= cs[i][j].to_skip

\* The decoder's conditions are those the scanner agrees with the reference on.
Terms == WellFormed(conds, sends_const) /\ SkipsBounded(conds)

\* The chunk is a non-empty stretch of the capture, constant where it says so.
Borders ==
    /\ lo <= hi /\ (pc # "idle" => lo < hi)
    /\ pc = "idle" => hi = 0
    /\ \A c \in constant : \A m \in lo .. hi - 1 : capture[c][m] = capture[c][lo]
    /\ constant # {} => sends_const

\* The loops' positions stay inside the lists and are at the start outside a
\* pass; a skip of zero is no longer pending when its condition is decided.
Place ==
    /\ ~skip_zero
    /\ pc # "scan" => at_cond = 1 /\ at_term = 1 /\ all_skip_allow
    /\ at_cond <= Len(conds) => at_term = 1 \/ at_term <= Len(conds[at_cond])
    /\ at_cond > Len(conds) => at_term = 1

\* Where the current sample lies within the chunk.
Position ==
    /\ cur <= hi
    /\ at_cond # 1 \/ at_term # 1 => cur < hi
    /\ cur_matched /\ pc \in {"decode", "enter"} => cur < hi
    /\ cur_matched /\ pc = "scan" /\ at_cond = 1 => cur > 0
    /\ pc = "handed" => cur = hi

\* What holds of every reachable state, whether the scanner is on track or not.
Shaped == TypeOK /\ Terms /\ Borders /\ Place /\ Position

\* Before sample 0 has been looked at.
Fresh ==
    /\ pc \in {"idle", "decode", "enter"}
    /\ cur = 0 /\ lo = 0 /\ origin = -1 /\ ~cur_matched /\ old_pins = initial
    /\ NewlyWritten(conds)

\* After a match, in the hands of the decoder.
Returned ==
    /\ pc \in {"decode", "enter"}
    /\ cur_matched /\ origin = cur /\ lo <= cur
    /\ \A c \in Channels : old_pins[c] = capture[c][cur]

\* A skip of zero samples, which is found one sample too late and taken back.
ZeroSkip == \E i \in 1 .. Len(conds) : \E j \in 1 .. Len(conds[i]) :
               IsSkip(conds[i][j]) /\ conds[i][j].to_skip = 0

\* It is looking at the sample after the match, whose only term will match.
Rewinding ==
    /\ pc = "scan"
    /\ cur_matched /\ origin = cur - 1 /\ lo <= origin
    /\ ZeroSkip /\ at_cond = 1 /\ match_array = {}

\* The skip of zero samples has been found and the scanner is back where the
\* last wait ended.
Rewound ==
    /\ pc = "scan"
    /\ cur_matched /\ origin = cur /\ lo <= cur
    /\ at_cond > Len(conds)
    /\ match_array = RefConds(cur) /\ match_array # {}

\* The channels a wait looks at.
Used == { c \in Channels : \E i \in 1 .. Len(conds) : \E j \in 1 .. Len(conds[i]) :
              ~IsSkip(conds[i][j]) /\ conds[i][j].channel = c }

\* The sample SKIP terms count from.
Base == IF origin = -1 THEN 0 ELSE origin

\* What the SKIP terms have counted; those of conditions before at_cond have
\* seen the current sample.
Counters ==
    \A i \in 1 .. Len(conds) : \A j \in 1 .. Len(conds[i]) :
        LET t == conds[i][j]
            n == cur - Base
        IN  IsSkip(t) =>
              t.already = IF i < at_cond /\ n # t.to_skip THEN n + 1 ELSE n

\* The conditions before at_cond have been decided.
Decided ==
    /\ match_array = { i \in 1 .. at_cond - 1 : i \in RefConds(cur) }
    /\ at_cond <= Len(conds) => \A j \in 1 .. at_term - 1 : RefTerm(conds[at_cond][j], cur)
    /\ all_skip_allow => \A i \in 1 .. at_cond - 1 : \A j \in 1 .. Len(conds[i]) :
          ~IsSkip(conds[i][j]) /\ conds[i][j].channel \in constant

\* No sample up to the current one is due; what the scanner keeps of the past
\* is what the capture says of it.
Searching ==
    /\ pc \in {"enter", "scan", "handed"}
    /\ lo <= cur /\ origin < cur
    /\ cur_matched => pc = "scan" /\ origin = cur - 1 /\ lo <= origin /\ ~ZeroSkip
    /\ \E i \in 1 .. Len(conds) : conds[i] # <<>>
    /\ \A c \in Used : old_pins[c] = Before(c, cur)
    /\ NoneBefore(cur)
    /\ Counters
    /\ pc = "scan" => Decided

\* Where a scanner that has not lost track can be.
OnTrack ==
    IF first_pos THEN Fresh ELSE Returned \/ Rewinding \/ Rewound \/ Searching

\* The inductive invariant.
Inv == Shaped /\ (upset \/ OnTrack)

-----------------------------------------------------------------------------
(* Condition lists.                                                        *)

\* Two lists that ask for the same, whatever has been counted.
SameTerms(cs, ds) ==
    /\ Len(ds) = Len(cs)
    /\ \A i \in 1 .. Len(cs) :
         /\ Len(ds[i]) = Len(cs[i])
         /\ \A j \in 1 .. Len(cs[i]) :
              /\ ds[i][j].type = cs[i][j].type
              /\ ds[i][j].channel = cs[i][j].channel
              /\ ds[i][j].to_skip = cs[i][j].to_skip

\* Counting changes nothing about what a list asks for.
LEMMA SameWellFormed ==
  ASSUME NEW cs, NEW ds, NEW const, SameTerms(cs, ds), WellFormed(cs, const)
  PROVE  WellFormed(ds, const)
<1> USE DEF SameTerms, WellFormed, IsSkip
<1> QED
  OBVIOUS

\* A function over an initial segment is a list.
LEMMA IsList ==
  ASSUME NEW S, NEW n \in Nat, NEW f \in [1 .. n -> S]
  PROVE  f \in Seq(S) /\ Len(f) = n
OBVIOUS

\* What all changes of a term have in common.
Alike(t, u) ==
    /\ u \in AnyTerm
    /\ u.type = t.type /\ u.channel = t.channel /\ u.to_skip = t.to_skip
    /\ u.already <= u.to_skip \/ ~IsSkip(u)

\* A term with another count.
Recount(t, n) == [t EXCEPT !.already = n]

\* The recounted term is a term, and only its count differs.
LEMMA RecountIs ==
  ASSUME NEW t \in AnyTerm, NEW n \in Nat
  PROVE  /\ Recount(t, n) \in AnyTerm /\ Recount(t, n).already = n
         /\ Recount(t, n).type = t.type /\ Recount(t, n).channel = t.channel
         /\ Recount(t, n).to_skip = t.to_skip
<1> DEFINE types == LevelTypes \cup {"skip"}
           chans == Channels \cup {-1}
<1>1. AnyTerm = [type : types, channel : chans, to_skip : Nat, already : Nat]
  BY DEF AnyTerm
<1> HIDE DEF types, chans
<1>2. QED
  BY <1>1 DEF Recount

\* The fields of a term that are counted with.
LEMMA TermNats ==
  ASSUME NEW t \in AnyTerm
  PROVE  t.already \in Nat /\ t.to_skip \in Nat
BY DEF AnyTerm

\* A term recounted within its goal asks for the same as before.
LEMMA RecountAlike ==
  ASSUME NEW t \in AnyTerm, NEW n \in Nat, IsSkip(t) => n <= t.to_skip
  PROVE  Alike(t, Recount(t, n)) /\ Recount(t, n).already = n
<1> DEFINE u == Recount(t, n)
<1>1. u \in AnyTerm /\ u.already = n /\ u.type = t.type /\ u.channel = t.channel
      /\ u.to_skip = t.to_skip
  BY RecountIs
<1> HIDE DEF u
<1>2. Alike(t, u) /\ u.already = n
  BY <1>1 DEF Alike, IsSkip
<1>3. QED
  BY <1>2 DEF u

\* A list changed term by term.
LEMMA Mapped ==
  ASSUME NEW cs \in Seq(Seq(AnyTerm)), NEW ds \in [1 .. Len(cs) -> Seq(AnyTerm)],
         \A i \in 1 .. Len(cs) :
            /\ Len(ds[i]) = Len(cs[i])
            /\ \A j \in 1 .. Len(cs[i]) : Alike(cs[i][j], ds[i][j])
  PROVE  ds \in Seq(Seq(AnyTerm)) /\ SameTerms(cs, ds) /\ SkipsBounded(ds)
<1>0. Len(cs) \in Nat
  OBVIOUS
<1>1. ds \in Seq(Seq(AnyTerm)) /\ Len(ds) = Len(cs)
  BY <1>0, IsList
<1>2. SameTerms(cs, ds)
  BY <1>1 DEF SameTerms, Alike
<1>3. SkipsBounded(ds)
  BY <1>1 DEF SkipsBounded, Alike
<1>4. QED
  BY <1>1, <1>2, <1>3

\* The terms of a new wait.
LEMMA NewCondsIs ==
  ASSUME NEW w \in Seq(Seq(AnyTerm)), NewlyWritten(w)
  PROVE  /\ NewConds(w) \in Seq(Seq(AnyTerm)) /\ SameTerms(w, NewConds(w))
         /\ SkipsBounded(NewConds(w))
         /\ ~cur_matched => NewlyWritten(NewConds(w))
<1> DEFINE ds == NewConds(w)
<1>1. \A t \in AnyTerm : t.already = 0 =>
         Alike(t, NewTerm(t)) /\ (~cur_matched => NewTerm(t).already = 0)
  <2> SUFFICES ASSUME NEW t \in AnyTerm, t.already = 0
               PROVE  Alike(t, NewTerm(t)) /\ (~cur_matched => NewTerm(t).already = 0)
    OBVIOUS
  <2>1. NewTerm(t) = IF t.type = "skip" /\ language = "python" /\ cur_matched /\ t.to_skip # 0
                     THEN Recount(t, 1) ELSE t
    BY DEF NewTerm, Recount
  <2>2. t.to_skip \in Nat
    BY TermNats
  <2>3. CASE t.to_skip = 0 \/ t.type # "skip" \/ ~cur_matched \/ language # "python"
    <3>1. NewTerm(t) = t
      BY <2>1, <2>3
    <3>2. QED
      BY <2>2, <3>1 DEF Alike
  <2>4. CASE t.to_skip # 0 /\ t.type = "skip" /\ cur_matched /\ language = "python"
    <3>1. NewTerm(t) = Recount(t, 1) /\ 1 <= t.to_skip
      BY <2>1, <2>2, <2>4
    <3>2. QED
      BY <2>4, <3>1, RecountAlike
  <2>5. QED
    BY <2>3, <2>4
<1>2. ASSUME NEW i \in 1 .. Len(w)
      PROVE  /\ ds[i] \in Seq(AnyTerm) /\ Len(ds[i]) = Len(w[i])
             /\ \A j \in 1 .. Len(w[i]) : Alike(w[i][j], ds[i][j])
             /\ \A j \in 1 .. Len(w[i]) : ~cur_matched => ds[i][j].already = 0
  <2>1. w[i] \in Seq(AnyTerm)
    OBVIOUS
  <2>0. DOMAIN w[i] = 1 .. Len(w[i]) /\ DOMAIN w = 1 .. Len(w)
    BY <2>1
  <2>7. ds[i] = [j \in DOMAIN w[i] |-> NewTerm(w[i][j])]
    BY <2>0 DEF NewConds
  <2>2. ds[i] = [j \in 1 .. Len(w[i]) |-> NewTerm(w[i][j])]
    BY <2>0, <2>7
  <2>3. \A j \in 1 .. Len(w[i]) : w[i][j] \in AnyTerm /\ w[i][j].already = 0
    BY <2>1 DEF NewlyWritten
  <2>4. \A j \in 1 .. Len(w[i]) :
            ds[i][j] \in AnyTerm /\ Alike(w[i][j], ds[i][j])
            /\ (~cur_matched => ds[i][j].already = 0)
    BY <1>1, <2>2, <2>3 DEF Alike
  <2> HIDE DEF ds
  <2>8. Len(w[i]) \in Nat
    BY <2>1
  <2>5. ds[i] \in [1 .. Len(w[i]) -> AnyTerm]
    BY <2>2, <2>4
  <2>6. QED
    BY <2>4, <2>5, <2>8, IsList
<1>3. ds \in [1 .. Len(w) -> Seq(AnyTerm)]
  <2>1. DOMAIN w = 1 .. Len(w) /\ ds = [i \in DOMAIN w |-> ds[i]]
    BY DEF NewConds
  <2> HIDE DEF ds
  <2>2. QED
    BY <1>2, <2>1
<1> HIDE DEF ds
<1>4. ds \in Seq(Seq(AnyTerm)) /\ SameTerms(w, ds) /\ SkipsBounded(ds)
  BY <1>2, <1>3, Mapped
<1>5. ~cur_matched => NewlyWritten(ds)
  BY <1>2, <1>4 DEF NewlyWritten, SameTerms
<1>6. QED
  BY <1>4, <1>5 DEF ds

\* The terms after a match.
LEMMA RestartIs ==
  ASSUME NEW cs \in Seq(Seq(AnyTerm)), SkipsBounded(cs)
  PROVE  /\ RestartSkips(cs) \in Seq(Seq(AnyTerm)) /\ SameTerms(cs, RestartSkips(cs))
         /\ SkipsBounded(RestartSkips(cs))
         /\ \A i \in 1 .. Len(cs) : \A j \in 1 .. Len(cs[i]) :
              IsSkip(cs[i][j]) =>
                RestartSkips(cs)[i][j].already = IF cs[i][j].to_skip > 0 THEN 1 ELSE 0
<1> DEFINE ds == RestartSkips(cs)
           Restart(t) == IF t.type = "skip" /\ t.to_skip > 0
                         THEN [t EXCEPT !.already = 1] ELSE t
           Restarted(t, u) == IsSkip(t) => u.already = IF t.to_skip > 0 THEN 1 ELSE 0
<1>1. \A t \in AnyTerm : (IsSkip(t) => t.already <= t.to_skip) =>
         Alike(t, Restart(t)) /\ Restarted(t, Restart(t))
  <2> SUFFICES ASSUME NEW t \in AnyTerm, IsSkip(t) => t.already <= t.to_skip
               PROVE  Alike(t, Restart(t)) /\ Restarted(t, Restart(t))
    OBVIOUS
  <2>1. Restart(t) = IF t.type = "skip" /\ t.to_skip > 0 THEN Recount(t, 1) ELSE t
    BY DEF Recount
  <2> HIDE DEF Restart
  <2>2. t.to_skip \in Nat
    BY TermNats
  <2>3. CASE ~(t.type = "skip" /\ t.to_skip > 0)
    <3>1. Restart(t) = t
      BY <2>1, <2>3
    <3>2. t.already \in Nat
      BY TermNats
    <3>3. QED
      BY <2>2, <2>3, <3>1, <3>2 DEF Alike, IsSkip
  <2>4. CASE t.type = "skip" /\ t.to_skip > 0
    <3>1. Restart(t) = Recount(t, 1) /\ 1 <= t.to_skip
      BY <2>1, <2>2, <2>4
    <3>2. Alike(t, Recount(t, 1)) /\ Recount(t, 1).already = 1
      BY <3>1, RecountAlike
    <3>3. QED
      BY <2>4, <3>1, <3>2
  <2>5. QED
    BY <2>3, <2>4
<1>2. ASSUME NEW i \in 1 .. Len(cs)
      PROVE  /\ ds[i] \in Seq(AnyTerm) /\ Len(ds[i]) = Len(cs[i])
             /\ \A j \in 1 .. Len(cs[i]) : Alike(cs[i][j], ds[i][j])
             /\ \A j \in 1 .. Len(cs[i]) : Restarted(cs[i][j], ds[i][j])
  <2>1. cs[i] \in Seq(AnyTerm)
    OBVIOUS
  <2>0. DOMAIN cs[i] = 1 .. Len(cs[i]) /\ DOMAIN cs = 1 .. Len(cs)
    BY <2>1
  <2>7. ds[i] = [j \in DOMAIN cs[i] |-> Restart(cs[i][j])]
    BY <2>0 DEF RestartSkips
  <2>2. ds[i] = [j \in 1 .. Len(cs[i]) |-> Restart(cs[i][j])]
    BY <2>0, <2>7
  <2>3. \A j \in 1 .. Len(cs[i]) : /\ cs[i][j] \in AnyTerm
                                   /\ IsSkip(cs[i][j]) => cs[i][j].already <= cs[i][j].to_skip
    BY <2>1 DEF SkipsBounded
  <2> HIDE DEF ds, Restart, Restarted
  <2>4. \A j \in 1 .. Len(cs[i]) :
            ds[i][j] \in AnyTerm /\ Alike(cs[i][j], ds[i][j]) /\ Restarted(cs[i][j], ds[i][j])
    BY <1>1, <2>2, <2>3 DEF Alike
  <2>8. Len(cs[i]) \in Nat
    BY <2>1
  <2>5. ds[i] \in [1 .. Len(cs[i]) -> AnyTerm]
    BY <2>2, <2>4
  <2>6. QED
    BY <2>4, <2>5, <2>8, IsList
<1>3. ds \in [1 .. Len(cs) -> Seq(AnyTerm)]
  <2>1. DOMAIN cs = 1 .. Len(cs) /\ ds = [i \in DOMAIN cs |-> ds[i]]
    BY DEF RestartSkips
  <2> HIDE DEF ds
  <2>2. QED
    BY <1>2, <2>1
<1> HIDE DEF ds
<1>4. ds \in Seq(Seq(AnyTerm)) /\ SameTerms(cs, ds) /\ SkipsBounded(ds)
  BY <1>2, <1>3, Mapped
<1>5. QED
  BY <1>2, <1>4 DEF ds

\* One more sample counted by a term.
Count(cs, i, j) == [cs EXCEPT ![i][j].already = @ + 1]

\* It keeps the list well formed and counts that one term.
LEMMA CountIs ==
  ASSUME NEW cs \in Seq(Seq(AnyTerm)), NEW i \in 1 .. Len(cs), NEW j \in 1 .. Len(cs[i]),
         SkipsBounded(cs), cs[i][j].already # cs[i][j].to_skip
  PROVE  /\ Count(cs, i, j) \in Seq(Seq(AnyTerm)) /\ SameTerms(cs, Count(cs, i, j))
         /\ SkipsBounded(Count(cs, i, j))
         /\ \A k \in 1 .. Len(cs) : \A l \in 1 .. Len(cs[k]) :
              Count(cs, i, j)[k][l].already =
                IF k = i /\ l = j THEN cs[k][l].already + 1 ELSE cs[k][l].already
<1> DEFINE Up(t) == [t EXCEPT !.already = @ + 1]
           Down == [cs[i] EXCEPT ![j] = Up(@)]
           ds == [cs EXCEPT ![i] = Down]
<1>0. ds = Count(cs, i, j)
  BY DEF Count
<1>1. \A t \in AnyTerm : /\ Up(t) \in AnyTerm /\ Up(t).already = t.already + 1
                         /\ (IsSkip(t) => t.already < t.to_skip) => Alike(t, Up(t))
                         /\ (IsSkip(t) => t.already <= t.to_skip) => Alike(t, t)
                         /\ t.already \in Nat /\ t.to_skip \in Nat
  <2> SUFFICES ASSUME NEW t \in AnyTerm
               PROVE  /\ Up(t) \in AnyTerm /\ Up(t).already = t.already + 1
                      /\ (IsSkip(t) => t.already < t.to_skip) => Alike(t, Up(t))
                      /\ (IsSkip(t) => t.already <= t.to_skip) => Alike(t, t)
                      /\ t.already \in Nat /\ t.to_skip \in Nat
    OBVIOUS
  <2>1. Up(t) = Recount(t, t.already + 1)
    BY DEF Recount
  <2>2. t.already + 1 \in Nat
    BY TermNats
  <2>3. QED
    <3>1. t.already \in Nat /\ t.to_skip \in Nat
      BY TermNats
    <3>2. Up(t) \in AnyTerm /\ Up(t).already = t.already + 1
      BY <2>1, <2>2, RecountIs
    <3>3. (IsSkip(t) => t.already < t.to_skip) => Alike(t, Up(t))
      BY <2>1, <2>2, <3>1, RecountAlike
    <3>4. (IsSkip(t) => t.already <= t.to_skip) => Alike(t, t)
      BY DEF Alike
    <3>5. QED
      BY <3>1, <3>2, <3>3, <3>4
<1> HIDE DEF Up
<1>2. /\ cs[i] \in Seq(AnyTerm)
      /\ \A k \in 1 .. Len(cs) : cs[k] \in Seq(AnyTerm)
      /\ \A k \in 1 .. Len(cs) : \A l \in 1 .. Len(cs[k]) :
            /\ cs[k][l] \in AnyTerm
            /\ IsSkip(cs[k][l]) => cs[k][l].already <= cs[k][l].to_skip
  BY DEF SkipsBounded
<1>3. /\ Down \in Seq(AnyTerm) /\ Len(Down) = Len(cs[i])
      /\ \A l \in 1 .. Len(cs[i]) : Down[l] = IF l = j THEN Up(cs[i][l]) ELSE cs[i][l]
  BY <1>1, <1>2
<1> HIDE DEF Down
<1>4. /\ ds \in [1 .. Len(cs) -> Seq(AnyTerm)]
      /\ \A k \in 1 .. Len(cs) : ds[k] = IF k = i THEN Down ELSE cs[k]
  BY <1>2, <1>3
<1> HIDE DEF ds
<1>5. \A k \in 1 .. Len(cs) : \A l \in 1 .. Len(cs[k]) :
         ds[k][l] = IF k = i /\ l = j THEN Up(cs[k][l]) ELSE cs[k][l]
  BY <1>3, <1>4
<1>6. \A k \in 1 .. Len(cs) : Len(ds[k]) = Len(cs[k])
                              /\ \A l \in 1 .. Len(cs[k]) : Alike(cs[k][l], ds[k][l])
  <2>1. \A k \in 1 .. Len(cs) : Len(ds[k]) = Len(cs[k])
    BY <1>3, <1>4
  <2>2. IsSkip(cs[i][j]) => cs[i][j].already < cs[i][j].to_skip
    <3>1. PICK t \in AnyTerm : t = cs[i][j]
      BY <1>2
    <3>2. t.already \in Nat /\ t.to_skip \in Nat /\ t.already # t.to_skip
      BY <1>1, <3>1
    <3>3. IsSkip(t) => t.already <= t.to_skip
      BY <1>2, <3>1
    <3>4. QED
      BY <3>1, <3>2, <3>3
  <2>3. \A k \in 1 .. Len(cs) : \A l \in 1 .. Len(cs[k]) : Alike(cs[k][l], ds[k][l])
    BY <1>1, <1>2, <1>5, <2>2
  <2>4. QED
    BY <2>1, <2>3
<1>7. ds \in Seq(Seq(AnyTerm)) /\ SameTerms(cs, ds) /\ SkipsBounded(ds)
  BY <1>4, <1>6, Mapped
<1>8. \A k \in 1 .. Len(cs) : \A l \in 1 .. Len(cs[k]) :
         ds[k][l].already = IF k = i /\ l = j THEN cs[k][l].already + 1 ELSE cs[k][l].already
  BY <1>1, <1>2, <1>5
<1>9. QED
  BY <1>0, <1>7, <1>8

-----------------------------------------------------------------------------
(* The shape of the state, also after the scanner has lost track.          *)

\* The pins read inside the capture are bits.
LEMMA PinsAreBits ==
  ASSUME TypeOK, Borders, pc # "idle", NEW n \in Nat
  PROVE  OldPinsAt(n) \in [Channels -> Bit]
<1>1. lo \in Samples /\ (InChunk(n) => n \in Samples)
  BY ScanConstants DEF TypeOK, Borders, Samples, InChunk
<1>2. \A c \in Channels : capture[c][lo] \in Bit /\ (InChunk(n) => capture[c][n] \in Bit)
  BY <1>1 DEF TypeOK
<1>3. ASSUME NEW c \in Channels
      PROVE  (IF c \in constant \/ InChunk(n) THEN SampleAt(c, n) ELSE 0) \in Bit
  BY <1>2 DEF SampleAt, Bit
<1>4. QED
  BY <1>3 DEF OldPinsAt

\* A client that has been set up and started.
LEMMA ShapedInit == Init => Shaped
<1> SUFFICES ASSUME Init PROVE Shaped
  OBVIOUS
<1>1. TypeOK
  <2>1. old_pins \in [Channels -> Bit \cup {SAME_AS_SAMPLE0}]
    BY ScanConstants DEF Init
  <2>2. pins \in [Channels -> Bit]
    BY DEF Init, Bit
  <2>3. conds \in Seq(Seq(AnyTerm)) /\ Len(conds) = 0
    BY DEF Init
  <2>4. /\ lo \in 0 .. Length /\ hi \in 0 .. Length /\ cur \in 0 .. Length
        /\ origin \in -1 .. Length - 1
        /\ at_cond \in 1 .. Len(conds) + 1 /\ at_term \in Nat \ {0}
    BY <2>3, ScanConstants DEF Init
  <2>5. QED
    BY <2>1, <2>2, <2>3, <2>4 DEF Init, TypeOK, PC
<1>2. Terms
  BY DEF Init, Terms, WellFormed, SkipsBounded
<1>3. Borders /\ Place /\ Position
  BY DEF Init, Borders, Place, Position
<1>4. QED
  BY <1>1, <1>2, <1>3 DEF Shaped

\* The part of the type invariant that Wait, WaitAgain and WaitAny keep.
LEMMA NewWaitShaped ==
  ASSUME Shaped, pc = "decode", pc' = "enter",
         UNCHANGED <<fixed, chunk, cur, cur_matched, first_pos, skip_zero,
                     old_pins, match_array, all_skip_allow, place, pins, origin, upset>>,
         conds' \in Seq(Seq(AnyTerm)), WellFormed(conds', sends_const), SkipsBounded(conds')
  PROVE  Shaped'
<1>0. /\ capture' = capture /\ language' = language /\ sends_const' = sends_const
      /\ initial' = initial /\ lo' = lo /\ hi' = hi /\ constant' = constant
      /\ at_cond' = 1 /\ at_term' = 1 /\ at_cond = 1 /\ at_term = 1 /\ all_skip_allow
      /\ Len(conds') \in Nat
  BY DEF Shaped, Place, fixed, chunk, place
<1>1. TypeOK'
  BY <1>0 DEF Shaped, TypeOK, PC
<1>2. Terms'
  BY <1>0 DEF Terms
<1>3. Borders' /\ Place' /\ Position'
  BY <1>0 DEF Shaped, Borders, Place, Position
<1>4. QED
  BY <1>1, <1>2, <1>3 DEF Shaped

\* Wait.
LEMMA WaitShaped ==
  ASSUME WaitsAreSound, Shaped, NEW w \in Waits(sends_const), Wait(w)
  PROVE  Shaped' /\ SameTerms(w, conds') /\ (~cur_matched => NewlyWritten(conds'))
<1>1. sends_const \in SendsConst
  BY DEF Shaped, TypeOK
<1>2. w \in Seq(Seq(AnyTerm)) /\ WellFormed(w, sends_const) /\ NewlyWritten(w)
  BY <1>1 DEF WaitsAreSound
<1>3. /\ conds' \in Seq(Seq(AnyTerm)) /\ SameTerms(w, conds') /\ SkipsBounded(conds')
      /\ ~cur_matched => NewlyWritten(conds')
  BY <1>2, NewCondsIs DEF Wait
<1>4. WellFormed(conds', sends_const)
  BY <1>2, <1>3, SameWellFormed
<1>5. QED
  BY <1>3, <1>4, NewWaitShaped DEF Wait

\* What wait() without a condition makes up is a sound list of its own.
LEMMA SkipIsTerm ==
  ASSUME NEW n \in Nat, NEW const
  PROVE  LET w == << <<Skip(n)>> >>
         IN  w \in Seq(Seq(AnyTerm)) /\ WellFormed(w, const) /\ NewlyWritten(w)
<1>1. Skip(n) \in AnyTerm
  BY DEF Skip, AnyTerm
<1>2. <<Skip(n)>> \in Seq(AnyTerm)
  BY <1>1
<1>3. /\ Skip(n).type = "skip" /\ Skip(n).already = 0
      /\ Len(<<Skip(n)>>) = 1 /\ <<Skip(n)>>[1] = Skip(n)
  BY DEF Skip
<1>4. << <<Skip(n)>> >> \in Seq(Seq(AnyTerm))
  BY <1>2
<1>5. Len(<< <<Skip(n)>> >>) = 1 /\ << <<Skip(n)>> >>[1] = <<Skip(n)>>
  OBVIOUS
<1>6. WellFormed(<< <<Skip(n)>> >>, const)
  <2> SUFFICES ASSUME NEW i \in 1 .. 1, NEW j \in 1 .. 1
               PROVE  LET t == Skip(n)
                      IN  /\ ~IsSkip(t) => t.channel \in Channels
                          /\ const => t.type # "no_edge"
    BY <1>3, <1>5 DEF WellFormed
  <2>1. QED
    BY <1>3 DEF IsSkip
<1>7. NewlyWritten(<< <<Skip(n)>> >>)
  BY <1>3, <1>5 DEF NewlyWritten
<1>8. QED
  BY <1>4, <1>6, <1>7

\* WaitAny.
LEMMA WaitAnyShaped ==
  ASSUME Shaped, WaitAny
  PROVE  /\ Shaped'
         /\ SameTerms(<< <<Skip(SkipCount)>> >>, conds')
         /\ ~cur_matched => NewlyWritten(conds')
<1> DEFINE w == << <<Skip(SkipCount)>> >>
<1>1. SkipCount \in Nat
  BY DEF SkipCount
<1>2. w \in Seq(Seq(AnyTerm)) /\ WellFormed(w, sends_const) /\ NewlyWritten(w)
  BY <1>1, SkipIsTerm
<1>3. /\ conds' = NewConds(w)
      /\ conds' \in Seq(Seq(AnyTerm)) /\ SameTerms(w, conds') /\ SkipsBounded(conds')
      /\ ~cur_matched => NewlyWritten(conds')
  BY <1>2, NewCondsIs DEF WaitAny
<1> HIDE DEF w
<1>4. WellFormed(conds', sends_const)
  BY <1>2, <1>3, SameWellFormed
<1>5. Shaped'
  BY <1>3, <1>4, NewWaitShaped DEF WaitAny
<1>6. QED
  BY <1>3, <1>5 DEF w

\* Enter also restarts the counters of a list, which asks for the same then.
LEMMA EnterShaped ==
  ASSUME Shaped, Enter
  PROVE  /\ Shaped' /\ SameTerms(conds, conds')
         /\ \A i \in 1 .. Len(conds) : \A j \in 1 .. Len(conds[i]) :
              IsSkip(conds[i][j]) /\ cur_matched =>
                conds'[i][j].already = IF conds[i][j].to_skip > 0 THEN 1 ELSE 0
<1>0. /\ capture' = capture /\ language' = language /\ sends_const' = sends_const
      /\ initial' = initial /\ lo' = lo /\ hi' = hi /\ constant' = constant
      /\ at_cond' = 1 /\ at_term' = 1 /\ at_cond = 1 /\ at_term = 1 /\ all_skip_allow
      /\ pc = "enter" /\ pc' = "scan"
  BY DEF Enter, Shaped, Place, fixed, chunk, place
<1>1. conds \in Seq(Seq(AnyTerm)) /\ SkipsBounded(conds) /\ WellFormed(conds, sends_const)
  BY DEF Shaped, TypeOK, Terms
<1>2. /\ conds' \in Seq(Seq(AnyTerm)) /\ SameTerms(conds, conds') /\ SkipsBounded(conds')
      /\ \A i \in 1 .. Len(conds) : \A j \in 1 .. Len(conds[i]) :
              IsSkip(conds[i][j]) /\ cur_matched =>
                conds'[i][j].already = IF conds[i][j].to_skip > 0 THEN 1 ELSE 0
  <2>1. CASE cur_matched
    <3>1. conds' = RestartSkips(conds)
      BY <2>1 DEF Enter
    <3>2. QED
      BY <1>1, <3>1, RestartIs
  <2>2. CASE ~cur_matched
    BY <1>1, <2>2 DEF Enter, SameTerms
  <2>3. QED
    BY <2>1, <2>2
<1>3. WellFormed(conds', sends_const)
  BY <1>1, <1>2, SameWellFormed
<1>4. old_pins' \in [Channels -> Bit \cup {SAME_AS_SAMPLE0}]
  <2>1. OldPinsAt(cur) \in [Channels -> Bit]
    BY <1>0, PinsAreBits DEF Shaped, TypeOK
  <2>2. InitialPinsAt(cur) \in [Channels -> Bit \cup {SAME_AS_SAMPLE0}]
    BY <2>1 DEF InitialPinsAt, Shaped, TypeOK
  <2>3. QED
    BY <2>2 DEF Enter, Shaped, TypeOK
<1>5. cur' \in 0 .. Length /\ cur' <= hi /\ (cur_matched => cur' > 0)
  BY <1>0, ScanConstants DEF Enter, Shaped, TypeOK, Position
<1>6. TypeOK'
  <2>1. Len(conds') \in Nat
    BY <1>2
  <2>2. /\ at_cond' \in 1 .. Len(conds') + 1 /\ at_term' \in Nat \ {0} /\ pc' \in PC
        /\ lo' \in 0 .. Length /\ hi' \in 0 .. Length
    BY <1>0, <2>1 DEF Shaped, TypeOK, PC
  <2>3. /\ cur_matched' = cur_matched /\ first_pos' = FALSE /\ skip_zero' = skip_zero
        /\ match_array' = {} /\ all_skip_allow' = all_skip_allow /\ pins' = pins
        /\ origin' = origin /\ upset' = upset
    BY DEF Enter
  <2>4. QED
    BY <1>0, <1>2, <1>4, <1>5, <2>2, <2>3 DEF Shaped, TypeOK
<1>7. Terms'
  BY <1>0, <1>2, <1>3 DEF Terms
<1>8. Borders' /\ Place' /\ Position'
  BY <1>0, <1>5 DEF Enter, Shaped, Borders, Place, Position
<1>9. QED
  BY <1>2, <1>6, <1>7, <1>8 DEF Shaped

\* AutoMatch.
LEMMA AutoMatchShaped == Shaped /\ AutoMatch => Shaped'
<1> SUFFICES ASSUME Shaped, AutoMatch PROVE Shaped'
  OBVIOUS
<1>0. /\ capture' = capture /\ language' = language /\ sends_const' = sends_const
      /\ initial' = initial /\ lo' = lo /\ hi' = hi /\ constant' = constant
      /\ at_cond' = at_cond /\ at_term' = at_term /\ conds' = conds /\ cur' = cur
      /\ pc = "enter" /\ pc' = "decode" /\ cur_matched' = cur_matched
      /\ skip_zero' = skip_zero /\ all_skip_allow' = all_skip_allow
  BY DEF AutoMatch, fixed, chunk, place
<1>1. pins' \in [Channels -> Bit]
  BY <1>0, PinsAreBits DEF AutoMatch, Shaped, TypeOK
<1>2. first_pos' \in BOOLEAN /\ upset' \in BOOLEAN
  BY DEF AutoMatch, Shaped, TypeOK, Upset
<1>3. TypeOK'
  BY <1>0, <1>1, <1>2 DEF AutoMatch, Shaped, TypeOK, PC
<1>4. Terms' /\ Borders' /\ Place' /\ Position'
  BY <1>0 DEF Shaped, Terms, Borders, Place, Position
<1>5. QED
  BY <1>3, <1>4 DEF Shaped

\* The facts that the steps of a pass share.
PassKeeps ==
  /\ capture' = capture /\ language' = language /\ sends_const' = sends_const
  /\ initial' = initial /\ lo' = lo /\ hi' = hi /\ constant' = constant
  /\ pc = "scan" /\ cur < hi /\ first_pos' = first_pos /\ upset' = upset

\* What is left to show of the types after a step of a pass.
LEMMA TypeKept ==
  ASSUME TypeOK, PassKeeps, conds' \in Seq(Seq(AnyTerm)), cur' \in 0 .. Length,
         cur_matched' \in BOOLEAN, skip_zero' \in BOOLEAN,
         old_pins' \in [Channels -> Bit \cup {SAME_AS_SAMPLE0}],
         match_array' \subseteq Nat, all_skip_allow' \in BOOLEAN,
         at_cond' \in 1 .. Len(conds') + 1, at_term' \in Nat \ {0},
         pins' \in [Channels -> Bit], pc' \in PC, origin' \in -1 .. Length - 1
  PROVE  TypeOK'
BY DEF TypeOK, PassKeeps

\* An empty condition.
LEMMA PassOverShaped == Shaped /\ PassOver => Shaped' /\ PassKeeps
<1> SUFFICES ASSUME Shaped, PassOver PROVE Shaped' /\ PassKeeps
  OBVIOUS
<1>0. PassKeeps /\ pc' = pc /\ conds' = conds /\ cur' = cur
      /\ at_cond' = at_cond + 1 /\ at_term' = 1 /\ at_cond <= Len(conds)
  BY DEF PassOver, InPass, PassKeeps, NextCond, fixed, chunk
<1>1. Len(conds) \in Nat
  BY DEF Shaped, TypeOK
<1>2. TypeOK'
  BY <1>0, <1>1 DEF PassOver, PassKeeps, Shaped, TypeOK
<1>3. Terms' /\ Borders' /\ Place' /\ Position'
  BY <1>0, <1>1 DEF PassOver, PassKeeps, Shaped, TypeOK, Terms, Borders, Place, Position
<1>4. QED
  BY <1>0, <1>2, <1>3 DEF Shaped

\* The term that is looked at.
LEMMA AtTerm ==
  ASSUME Shaped, at_cond <= Len(conds), conds[at_cond] # <<>>
  PROVE  /\ at_cond \in 1 .. Len(conds) /\ at_term \in 1 .. Len(conds[at_cond])
         /\ conds[at_cond] \in Seq(AnyTerm)
         /\ conds[at_cond][at_term] \in AnyTerm
         /\ LET t == conds[at_cond][at_term]
            IN  /\ IsSkip(t) => Len(conds[at_cond]) = 1 /\ at_term = 1
                                /\ t.already <= t.to_skip
                /\ IsSkip(t) /\ t.to_skip = 0 => Len(conds) = 1 /\ at_cond = 1
                /\ ~IsSkip(t) => t.channel \in Channels
                /\ sends_const => Len(conds[at_cond]) = 1 /\ t.type # "no_edge"
<1>1. at_cond \in 1 .. Len(conds) /\ conds[at_cond] \in Seq(AnyTerm)
  BY DEF Shaped, TypeOK
<1>2. Len(conds[at_cond]) \in Nat \ {0}
  BY <1>1
<1>3. at_term \in 1 .. Len(conds[at_cond])
  BY <1>2 DEF Shaped, TypeOK, Place
<1>4. conds[at_cond][at_term] \in AnyTerm
  BY <1>1, <1>3
<1>5. QED
  BY <1>1, <1>3, <1>4 DEF Shaped, Terms, WellFormed, SkipsBounded

\* A term holds.
LEMMA TermMatchesShaped == Shaped /\ TermMatches => Shaped' /\ PassKeeps
<1> SUFFICES ASSUME Shaped, TermMatches PROVE Shaped' /\ PassKeeps
  OBVIOUS
<1> DEFINE t == conds[at_cond][at_term]
<1>0. PassKeeps /\ pc' = pc /\ conds' = conds
      /\ at_cond <= Len(conds) /\ conds[at_cond] # <<>>
  BY DEF TermMatches, InPass, PassKeeps, fixed, chunk
<1>1. /\ at_cond \in 1 .. Len(conds) /\ at_term \in 1 .. Len(conds[at_cond])
      /\ Len(conds[at_cond]) \in Nat
      /\ IsSkip(t) => Len(conds[at_cond]) = 1
      /\ IsSkip(t) /\ t.to_skip = 0 => Len(conds) = 1 /\ at_cond = 1
  BY <1>0, AtTerm
<1>2. Len(conds) \in Nat /\ ~skip_zero /\ cur \in 0 .. Length /\ match_array \subseteq Nat
  BY DEF Shaped, TypeOK, Place
<1>3. SkipZero(t) => IsSkip(t) /\ t.to_skip = 0 /\ cur_matched
  BY <1>2 DEF SkipZero, IsSkip
<1>4. CASE at_term < Len(conds[at_cond])
  <2>1. at_cond' = at_cond /\ at_term' = at_term + 1 /\ skip_zero' = SkipZero(t)
        /\ cur' = cur /\ match_array' = match_array /\ all_skip_allow' = all_skip_allow
    BY <1>4 DEF TermMatches, NextTerm
  <2>2. ~SkipZero(t)
    <3>1. at_term \in 1 .. Len(conds[at_cond]) /\ Len(conds[at_cond]) \in Nat
      BY <1>1
    <3>4. PICK n : n = Len(conds[at_cond])
      OBVIOUS
    <3>5. PICK k : k = at_term
      OBVIOUS
    <3>6. k \in 1 .. n /\ n \in Nat /\ k < n
      BY <1>4, <3>1, <3>4, <3>5, Zenon
    <3>7. n # 1
      BY <3>6
    <3>2. Len(conds[at_cond]) # 1
      BY <3>4, <3>7
    <3> HIDE DEF t
    <3>3. QED
      BY <1>1, <1>3, <3>2
  <2>6. cur_matched' = cur_matched /\ old_pins' = old_pins /\ pins' = pins /\ origin' = origin
    BY DEF TermMatches
  <2> HIDE DEF t
  <2>7. skip_zero' = FALSE
    BY <2>1, <2>2 DEF SkipZero
  <2>8. at_term' \in Nat \ {0}
    BY <1>1, <2>1
  <2>3. TypeOK'
    <3>1. TypeOK /\ PassKeeps
      BY <1>0 DEF Shaped
    <3>2. /\ conds' \in Seq(Seq(AnyTerm)) /\ cur' \in 0 .. Length /\ cur_matched' \in BOOLEAN
          /\ old_pins' \in [Channels -> Bit \cup {SAME_AS_SAMPLE0}]
          /\ match_array' \subseteq Nat /\ all_skip_allow' \in BOOLEAN
          /\ at_cond' \in 1 .. Len(conds') + 1
          /\ pins' \in [Channels -> Bit] /\ pc' \in PC /\ origin' \in -1 .. Length - 1
      BY <1>0, <2>1, <2>6, <3>1 DEF TypeOK
    <3>3. skip_zero' \in BOOLEAN
      BY <2>7
    <3>4. QED
      BY <2>8, <3>1, <3>2, <3>3, TypeKept
  <2>4. Terms' /\ Borders' /\ Place' /\ Position'
    BY <1>0, <1>1, <1>2, <1>4, <2>1, <2>2
       DEF TermMatches, PassKeeps, Shaped, TypeOK, Terms, Borders, Place, Position
  <2>5. QED
    BY <1>0, <2>3, <2>4 DEF Shaped
<1>5. CASE ~(at_term < Len(conds[at_cond]))
  <2>1. /\ at_cond' = at_cond + 1 /\ at_term' = 1 /\ skip_zero' = FALSE
        /\ cur' = IF SkipZero(t) THEN cur - 1 ELSE cur
        /\ match_array' = match_array \cup {at_cond} /\ all_skip_allow' = FALSE
        /\ cur_matched' = cur_matched
    BY <1>5 DEF TermMatches, NextCond
  <2>2. SkipZero(t) => cur > 0
    BY <1>0, <1>1, <1>3 DEF Shaped, Position, PassKeeps
  <2>3. cur' \in 0 .. Length /\ cur' < hi
    BY <1>0, <1>2, <2>1, <2>2, ScanConstants DEF PassKeeps, Shaped, TypeOK
  <2>4. TypeOK'
    <3>1. /\ cur_matched' = cur_matched /\ old_pins' = old_pins /\ pins' = pins
          /\ origin' = origin
      BY DEF TermMatches
    <3>2. match_array' \subseteq Nat
      BY <1>1, <1>2, <2>1
    <3>3. at_cond' \in 1 .. Len(conds) + 1
      BY <1>1, <1>2, <2>1
    <3>4. TypeOK /\ PassKeeps
      BY <1>0 DEF Shaped
    <3>5. /\ conds' \in Seq(Seq(AnyTerm)) /\ cur_matched' \in BOOLEAN
          /\ old_pins' \in [Channels -> Bit \cup {SAME_AS_SAMPLE0}]
          /\ at_cond' \in 1 .. Len(conds') + 1
          /\ pins' \in [Channels -> Bit] /\ pc' \in PC /\ origin' \in -1 .. Length - 1
      BY <1>0, <3>1, <3>3, <3>4 DEF TypeOK
    <3>6. skip_zero' \in BOOLEAN /\ all_skip_allow' \in BOOLEAN /\ at_term' \in Nat \ {0}
      <4>1. skip_zero' = FALSE /\ all_skip_allow' = FALSE /\ at_term' = 1
        BY <2>1
      <4>2. skip_zero' \in BOOLEAN /\ all_skip_allow' \in BOOLEAN
        BY <4>1, Zenon
      <4>3. at_term' \in Nat \ {0}
        BY <4>1
      <4>4. QED
        BY <4>2, <4>3
    <3>7. QED
      BY <2>3, <3>2, <3>4, <3>5, <3>6, TypeKept
  <2>5. Terms' /\ Borders' /\ Place'
    BY <1>0, <1>1, <1>2, <2>1, <2>3
       DEF PassKeeps, Shaped, Terms, Borders, Place
  <2>6. Position'
    <3>1. cur' <= hi'
      BY <1>0, <1>2, <2>3, ScanConstants DEF PassKeeps, Shaped, TypeOK
    <3>2. at_cond' # 1 /\ pc' = "scan" /\ hi' = hi
      BY <1>0, <1>1, <2>1 DEF PassKeeps
    <3>3. QED
      BY <2>3, <3>1, <3>2 DEF Position
  <2>7. QED
    BY <1>0, <2>4, <2>5, <2>6 DEF Shaped
<1>6. QED
  BY <1>4, <1>5

\* A term fails; only a SKIP term that counts changes the list.
LEMMA TermFailsShaped ==
  ASSUME Shaped, TermFails
  PROVE  /\ Shaped' /\ PassKeeps /\ SameTerms(conds, conds')
         /\ LET t == conds[at_cond][at_term]
            IN  /\ ~IsSkip(t) => conds' = conds
                /\ IsSkip(t) => conds' = Count(conds, at_cond, at_term)
                                /\ t.already # t.to_skip /\ t.to_skip # 0
<1> DEFINE t == conds[at_cond][at_term]
<1>0. /\ PassKeeps /\ pc' = pc /\ cur' = cur /\ cur_matched' = cur_matched
      /\ at_cond <= Len(conds) /\ conds[at_cond] # <<>>
      /\ at_cond' = at_cond + 1 /\ at_term' = 1
      /\ skip_zero' = SkipZero(t)
  BY DEF TermFails, InPass, PassKeeps, NextCond, fixed, chunk
<1>1. /\ at_cond \in 1 .. Len(conds) /\ at_term \in 1 .. Len(conds[at_cond])
      /\ t \in AnyTerm
      /\ IsSkip(t) => t.already <= t.to_skip
  BY <1>0, AtTerm
<1>2. /\ conds \in Seq(Seq(AnyTerm)) /\ ~skip_zero
      /\ SkipsBounded(conds) /\ WellFormed(conds, sends_const)
      /\ Len(conds) \in Nat
  BY DEF Shaped, TypeOK, Place, Terms
<1>3. /\ ~IsSkip(t) => conds' = conds
      /\ IsSkip(t) => conds' = Count(conds, at_cond, at_term)
                      /\ t.already # t.to_skip
  BY DEF TermFails, IsSkip, TermHolds, Count
<1>4. IsSkip(t) => t.to_skip # 0
  BY <1>1, <1>3, TermNats
<1>5. ~skip_zero'
  BY <1>0, <1>2, <1>4 DEF SkipZero, IsSkip
<1>6. conds' \in Seq(Seq(AnyTerm)) /\ SameTerms(conds, conds') /\ SkipsBounded(conds')
  <2>1. CASE IsSkip(t)
    BY <1>1, <1>2, <1>3, <2>1, CountIs
  <2>2. CASE ~IsSkip(t)
    BY <1>2, <1>3, <2>2 DEF SameTerms
  <2>3. QED
    BY <2>1, <2>2
<1>7. WellFormed(conds', sends_const)
  BY <1>2, <1>6, SameWellFormed
<1>8. Len(conds') = Len(conds) /\ all_skip_allow' \in BOOLEAN
  BY <1>6 DEF SameTerms, TermFails, Shaped, TypeOK, SkipAllow
<1>9. TypeOK'
  <2>1. /\ old_pins' = old_pins /\ pins' = pins /\ origin' = origin
        /\ match_array' = match_array
    BY DEF TermFails
  <2>2. at_cond' \in 1 .. Len(conds') + 1
    BY <1>0, <1>1, <1>2, <1>8
  <2>3. TypeOK /\ PassKeeps
    BY <1>0 DEF Shaped
  <2>4. /\ cur' \in 0 .. Length /\ cur_matched' \in BOOLEAN
        /\ old_pins' \in [Channels -> Bit \cup {SAME_AS_SAMPLE0}]
        /\ match_array' \subseteq Nat
        /\ pins' \in [Channels -> Bit] /\ pc' \in PC /\ origin' \in -1 .. Length - 1
    BY <1>0, <2>1, <2>3 DEF TypeOK
  <2>5. skip_zero' \in BOOLEAN /\ at_term' \in Nat \ {0}
    <3>1. skip_zero' = FALSE /\ at_term' = 1
      BY <1>0, <1>5 DEF SkipZero, IsSkip
    <3>2. skip_zero' \in BOOLEAN
      BY <3>1, Zenon
    <3>3. at_term' \in Nat \ {0}
      BY <3>1
    <3>4. QED
      BY <3>2, <3>3
  <2>6. QED
    BY <1>6, <1>8, <2>2, <2>3, <2>4, <2>5, TypeKept
<1>10. Terms' /\ Borders' /\ Place' /\ Position'
  BY <1>0, <1>1, <1>2, <1>5, <1>6, <1>7, <1>8
     DEF PassKeeps, Shaped, Terms, Borders, Place, Position
<1>11. QED
  BY <1>0, <1>3, <1>4, <1>6, <1>9, <1>10 DEF Shaped

\* The end of a pass.
LEMMA PassEndShaped == Shaped /\ (ScanMatch \/ ScanMiss) => Shaped'
<1> SUFFICES ASSUME Shaped, ScanMatch \/ ScanMiss PROVE Shaped'
  OBVIOUS
<1>0. /\ capture' = capture /\ language' = language /\ sends_const' = sends_const
      /\ initial' = initial /\ lo' = lo /\ hi' = hi /\ constant' = constant
      /\ pc = "scan" /\ cur < hi /\ first_pos' = first_pos /\ upset' = upset
      /\ at_cond' = 1 /\ at_term' = 1 /\ conds' = conds /\ skip_zero' = skip_zero
      /\ old_pins' = OldPinsAt(cur) /\ match_array' = match_array
  BY DEF ScanMatch, ScanMiss, InPass, fixed, chunk
<1>1. /\ cur \in 0 .. Length /\ lo \in 0 .. Length /\ hi \in 0 .. Length /\ Length \in Nat
      /\ Len(conds) \in Nat /\ \A i \in 1 .. Len(conds) : Len(conds[i]) \in Nat
  BY ScanConstants DEF Shaped, TypeOK
<1>2. OldPinsAt(cur) \in [Channels -> Bit]
  BY <1>0, <1>1, PinsAreBits DEF Shaped
<1>3. OldPinsAt(cur) \in [Channels -> Bit \cup {SAME_AS_SAMPLE0}]
  BY <1>2
<1>4. CASE ScanMatch
  <2>1. /\ pins' = OldPinsAt(cur) /\ cur_matched' = TRUE /\ origin' = cur /\ cur' = cur
        /\ all_skip_allow' = TRUE /\ pc' = "decode"
    BY <1>4 DEF ScanMatch
  <2>2. TypeOK'
    <3>1. origin' \in -1 .. Length - 1 /\ cur' \in 0 .. Length
      BY <1>0, <1>1, <2>1
    <3>2. at_cond' \in 1 .. Len(conds) + 1 /\ at_term' \in Nat \ {0} /\ pc' \in PC
      BY <1>0, <1>1, <2>1 DEF PC
    <3>3. QED
      BY <1>0, <1>2, <1>3, <2>1, <3>1, <3>2 DEF Shaped, TypeOK
  <2>3. Terms' /\ Borders' /\ Place' /\ Position'
    BY <1>0, <1>1, <2>1 DEF Shaped, Terms, Borders, Place, Position
  <2>4. QED
    BY <2>2, <2>3 DEF Shaped
<1>5. CASE ScanMiss
  <2>1. /\ pins' = pins /\ cur_matched' = FALSE /\ origin' = origin /\ pc' = pc
        /\ cur' = IF all_skip_allow THEN hi ELSE cur + 1
        /\ all_skip_allow' = all_skip_allow
    BY <1>5 DEF ScanMiss, Advance
  <2>2. cur' \in 0 .. Length /\ cur' <= hi
    BY <1>0, <1>1, <2>1
  <2>3. TypeOK'
    <3>1. TypeOK /\ PassKeeps
      BY <1>0 DEF Shaped, PassKeeps
    <3>2. /\ conds' \in Seq(Seq(AnyTerm)) /\ cur_matched' \in BOOLEAN
          /\ match_array' \subseteq Nat /\ all_skip_allow' \in BOOLEAN
          /\ pins' \in [Channels -> Bit] /\ pc' \in PC /\ origin' \in -1 .. Length - 1
          /\ skip_zero' \in BOOLEAN
      BY <1>0, <2>1, <3>1 DEF TypeOK
    <3>3. at_cond' \in 1 .. Len(conds') + 1 /\ at_term' \in Nat \ {0}
      BY <1>0, <1>1
    <3>4. old_pins' \in [Channels -> Bit \cup {SAME_AS_SAMPLE0}]
      BY <1>0, <1>3
    <3>5. QED
      BY <2>2, <3>1, <3>2, <3>3, <3>4, TypeKept
  <2>4. Terms' /\ Borders' /\ Place' /\ Position'
    BY <1>0, <1>1, <2>1, <2>2 DEF Shaped, Terms, Borders, Place, Position
  <2>5. QED
    BY <2>3, <2>4 DEF Shaped
<1>6. QED
  BY <1>4, <1>5

\* HandBack.
LEMMA HandBackShaped == Shaped /\ HandBack => Shaped'
<1> SUFFICES ASSUME Shaped, HandBack PROVE Shaped'
  OBVIOUS
<1>0. /\ capture' = capture /\ language' = language /\ sends_const' = sends_const
      /\ initial' = initial /\ lo' = lo /\ hi' = hi /\ constant' = constant
      /\ at_cond' = at_cond /\ at_term' = at_term /\ conds' = conds /\ cur' = cur
      /\ pc = "scan" /\ pc' = "handed" /\ cur_matched' = cur_matched
      /\ skip_zero' = skip_zero /\ all_skip_allow' = TRUE /\ cur >= hi
  BY DEF HandBack, fixed, chunk, place
<1>1. /\ upset' \in BOOLEAN /\ cur \in 0 .. Length /\ hi \in 0 .. Length
      /\ Len(conds) \in Nat
  BY DEF HandBack, Shaped, TypeOK, Upset
<1>2. at_cond = 1 /\ at_term = 1 /\ cur = hi
  BY <1>0, <1>1, ScanConstants DEF Shaped, Position
<1>3. TypeOK'
  BY <1>0, <1>1 DEF HandBack, Shaped, TypeOK, PC
<1>4. Terms' /\ Borders' /\ Place' /\ Position'
  BY <1>0, <1>1, <1>2 DEF Shaped, Terms, Borders, Place, Position
<1>5. QED
  BY <1>3, <1>4 DEF Shaped

\* Chunk: the new borders enclose the sample the scanner stopped at.
LEMMA ChunkShaped ==
  ASSUME Shaped, NEW n \in ChunkSizes,
         NEW cs \in IF sends_const THEN SUBSET Channels ELSE {{}}, Chunk(n, cs)
  PROVE  Shaped'
<1>0. /\ capture' = capture /\ language' = language /\ sends_const' = sends_const
      /\ initial' = initial /\ lo' = hi /\ hi' = hi + n /\ constant' = cs
      /\ at_cond' = at_cond /\ at_term' = at_term /\ conds' = conds /\ cur' = cur
      /\ pc \in {"idle", "handed"} /\ cur_matched' = cur_matched
      /\ pc' \in {"decode", "enter"} /\ cur = hi /\ hi + n <= Length
      /\ skip_zero' = skip_zero /\ all_skip_allow' = all_skip_allow
      /\ \A c \in cs : \A m \in hi .. hi + n - 1 : capture[c][m] = capture[c][hi]
      /\ cs \subseteq Channels /\ (cs # {} => sends_const)
  BY DEF Chunk, fixed, place
<1>1. /\ cur \in 0 .. Length /\ hi \in 0 .. Length /\ n \in Nat \ {0}
      /\ Len(conds) \in Nat /\ Length \in Nat
  BY ScanConstants DEF Shaped, TypeOK
<1>2. TypeOK'
  BY <1>0, <1>1 DEF Chunk, Shaped, TypeOK, PC
<1>3. Terms' /\ Place' /\ Position'
  BY <1>0, <1>1 DEF Shaped, Terms, Borders, Place, Position
<1>4. Borders'
  BY <1>0, <1>1 DEF Borders
<1>5. QED
  BY <1>2, <1>3, <1>4 DEF Shaped

\* A step that changes nothing.
LEMMA StutterShaped == Shaped /\ UNCHANGED vars => Shaped'
BY DEF Shaped, TypeOK, Terms, Borders, Place, Position, vars, fixed, chunk, place

\* Every step of the scanner.
LEMMA ShapedStep ==
  ASSUME WaitsAreSound, Shaped, [Next]_vars
  PROVE  Shaped'
<1>1. ASSUME NEW w \in Waits(sends_const), Wait(w) PROVE Shaped'
  BY <1>1, WaitShaped
<1>2. CASE WaitAgain
  BY <1>2, NewWaitShaped DEF WaitAgain, Shaped, TypeOK, Terms
<1>3. CASE WaitAny
  BY <1>3, WaitAnyShaped
<1>4. CASE AutoMatch
  BY <1>4, AutoMatchShaped
<1>5. CASE Enter
  BY <1>5, EnterShaped
<1>6. CASE PassOver
  BY <1>6, PassOverShaped
<1>7. CASE TermMatches
  BY <1>7, TermMatchesShaped
<1>8. CASE TermFails
  BY <1>8, TermFailsShaped
<1>9. CASE ScanMatch \/ ScanMiss
  BY <1>9, PassEndShaped
<1>10. CASE HandBack
  BY <1>10, HandBackShaped
<1>11. ASSUME NEW n \in ChunkSizes,
              NEW cs \in IF sends_const THEN SUBSET Channels ELSE {{}}, Chunk(n, cs)
       PROVE  Shaped'
  BY <1>11, ChunkShaped
<1>12. CASE UNCHANGED vars
  BY <1>12, StutterShaped
<1>13. QED
  BY <1>1, <1>2, <1>3, <1>4, <1>5, <1>6, <1>7, <1>8, <1>9, <1>10, <1>11, <1>12
     DEF Next, Done

-----------------------------------------------------------------------------
(* The reference.                                                          *)

\* The reference does not look at what has been counted.
LEMMA RefSame ==
  ASSUME conds \in Seq(Seq(AnyTerm)), conds' \in Seq(Seq(AnyTerm)), SameTerms(conds, conds'),
         capture' = capture, initial' = initial, origin' = origin, NEW n
  PROVE  RefConds(n)' = RefConds(n)
<1>0. PICK ds : ds = conds'
  OBVIOUS
<1>1. \A t, u : t.type = u.type /\ t.channel = u.channel /\ t.to_skip = u.to_skip =>
                   (RefTerm(u, n)' <=> RefTerm(t, n))
  BY DEF RefTerm, RefLevel, Before
<1>2. DOMAIN conds = 1 .. Len(conds) /\ DOMAIN ds = 1 .. Len(conds)
  BY <1>0 DEF SameTerms
<1>3. ASSUME NEW i \in 1 .. Len(conds)
      PROVE  /\ DOMAIN conds[i] = 1 .. Len(conds[i])
             /\ DOMAIN ds[i] = 1 .. Len(conds[i])
             /\ ds[i] # <<>> <=> conds[i] # <<>>
  <2>1. conds[i] \in Seq(AnyTerm) /\ ds[i] \in Seq(AnyTerm)
        /\ Len(ds[i]) = Len(conds[i])
    BY <1>0 DEF SameTerms
  <2>2. QED
    BY <2>1
<1>4. ASSUME NEW i \in 1 .. Len(conds)
      PROVE  (\A j \in 1 .. Len(conds[i]) : RefTerm(conds[i][j], n)) <=>
             (\A j \in 1 .. Len(conds[i]) : RefTerm(ds[i][j], n)')
  <2>1. \A j \in 1 .. Len(conds[i]) : RefTerm(ds[i][j], n)' <=> RefTerm(conds[i][j], n)
    BY <1>0, <1>1 DEF SameTerms
  <2>2. QED
    BY <2>1
<1>5. RefConds(n)' = {i \in 1 .. Len(conds) : ds[i] # <<>>
                       /\ \A j \in 1 .. Len(conds[i]) : RefTerm(ds[i][j], n)'}
  <2>1. RefConds(n)' = {i \in DOMAIN ds : ds[i] # <<>>
                         /\ \A j \in DOMAIN ds[i] : RefTerm(ds[i][j], n)'}
    BY <1>0 DEF RefConds, RefTerm, Before
  <2>2. QED
    BY <1>2, <1>3, <2>1
<1>6. RefConds(n) = {i \in 1 .. Len(conds) : conds[i] # <<>>
                       /\ \A j \in 1 .. Len(conds[i]) : RefTerm(conds[i][j], n)}
  BY <1>2, <1>3 DEF RefConds
<1>7. QED
  BY <1>3, <1>4, <1>5, <1>6

\* What the reference reports, spelled out.
LEMMA RefCondsIs ==
  ASSUME conds \in Seq(Seq(AnyTerm)), NEW n
  PROVE  RefConds(n) = { i \in 1 .. Len(conds) :
             conds[i] # <<>> /\ \A j \in 1 .. Len(conds[i]) : RefTerm(conds[i][j], n) }
<1>1. DOMAIN conds = 1 .. Len(conds)
      /\ \A i \in 1 .. Len(conds) : DOMAIN conds[i] = 1 .. Len(conds[i])
  <2>1. \A i \in 1 .. Len(conds) : conds[i] \in Seq(AnyTerm)
    OBVIOUS
  <2>2. QED
    BY <2>1
<1>2. QED
  BY <1>1 DEF RefConds

\* The value before a sample is a bit, and so is the sample.
LEMMA BitsInside ==
  ASSUME TypeOK, NEW c \in Channels, NEW n \in Samples
  PROVE  capture[c][n] \in Bit /\ Before(c, n) \in Bit
<1>1. capture[c][n] \in Bit
  BY DEF TypeOK
<1>2. CASE n > 0
  <2>1. n - 1 \in Samples
    BY <1>2, ScanConstants DEF Samples
  <2>2. QED
    BY <1>1, <1>2, <2>1 DEF TypeOK, Before
<1>3. CASE ~(n > 0)
  <2>1. n = 0
    BY <1>3, ScanConstants DEF Samples
  <2>2. initial[c] \in Bit \cup {SAME_AS_SAMPLE0}
    BY ScanConstants DEF TypeOK
  <2>3. Before(c, n) = IF initial[c] = SAME_AS_SAMPLE0 THEN capture[c][0] ELSE initial[c]
    BY <2>1 DEF Before
  <2>4. QED
    BY <1>1, <2>1, <2>2, <2>3
<1>4. QED
  BY <1>2, <1>3

\* sample_matches() on bits decides what the reference asks for.
LEMMA LevelIsRight ==
  ASSUME NEW old \in Bit, NEW new \in Bit, NEW type \in LevelTypes
  PROVE  LevelMatches(type, old, new) <=> RefLevel(type, old, new)
BY DEF LevelMatches, RefLevel, Bit, LevelTypes

\* Inside the chunk the scanner reads the capture, constants included.
LEMMA SampleIsRight ==
  ASSUME Shaped, pc # "idle", NEW n \in Nat, lo <= n, n < hi
  PROVE  /\ InChunk(n) /\ n \in Samples
         /\ \A c \in Channels : SampleAt(c, n) = capture[c][n]
         /\ OldPinsAt(n) = [c \in Channels |-> capture[c][n]]
<1>1. /\ lo \in 0 .. Length /\ hi \in 0 .. Length /\ Length \in Nat
      /\ \A c \in constant : \A m \in lo .. hi - 1 : capture[c][m] = capture[c][lo]
  BY ScanConstants DEF Shaped, TypeOK, Borders
<1>2. InChunk(n) /\ n \in Samples /\ n \in lo .. hi - 1
  BY <1>1 DEF InChunk, Samples
<1>3. \A c \in Channels : SampleAt(c, n) = capture[c][n]
  BY <1>1, <1>2 DEF SampleAt
<1>4. QED
  BY <1>2, <1>3 DEF OldPinsAt

-----------------------------------------------------------------------------
(* One term.                                                               *)

\* In a search the scanner looks at a sample of the chunk that lies behind the
\* last match.
LEMMA SearchPlace ==
  ASSUME Shaped, Searching, pc = "scan", cur < hi
  PROVE  /\ cur \in Samples /\ InChunk(cur) /\ cur \in Nat /\ Base \in Nat /\ Base <= cur
         /\ origin \in Int /\ origin < cur
         /\ \A c \in Channels : SampleAt(c, cur) = capture[c][cur]
         /\ OldPinsAt(cur) = [c \in Channels |-> capture[c][cur]]
<1>1. cur \in Nat /\ lo <= cur /\ origin < cur /\ origin \in -1 .. Length - 1
  BY ScanConstants DEF Shaped, TypeOK, Searching
<1>2. Base \in Nat /\ Base <= cur
  BY <1>1, ScanConstants DEF Base
<1>3. QED
  BY <1>1, <1>2, SampleIsRight, ScanConstants

\* The verdict on a term at the current sample is the reference's.
LEMMA TermIsRight ==
  ASSUME Shaped, Searching, pc = "scan", cur < hi,
         at_cond <= Len(conds), conds[at_cond] # <<>>
  PROVE  LET t == conds[at_cond][at_term]
         IN  TermHolds(t) <=> RefTerm(t, cur)
<1> DEFINE t == conds[at_cond][at_term]
<1>1. /\ at_cond \in 1 .. Len(conds) /\ at_term \in 1 .. Len(conds[at_cond])
      /\ t \in AnyTerm /\ (~IsSkip(t) => t.channel \in Channels)
  BY AtTerm
<1>2. /\ cur \in Samples /\ InChunk(cur) /\ cur \in Nat /\ Base \in Nat
      /\ origin < cur
      /\ \A c \in Channels : SampleAt(c, cur) = capture[c][cur]
  BY SearchPlace
<1>3. CASE IsSkip(t)
  <2>1. t.already = cur - Base
    BY <1>1, <1>3 DEF Searching, Counters
  <2> HIDE DEF t
  <2>2. TermHolds(t) <=> cur - Base = t.to_skip
    BY <1>3, <2>1 DEF TermHolds, IsSkip
  <2>3. RefTerm(t, cur) <=> cur = Base + t.to_skip
    BY <1>3 DEF RefTerm, IsSkip, Base
  <2>4. t.to_skip \in Nat
    BY <1>1, TermNats
  <2>5. TermHolds(t) <=> RefTerm(t, cur)
    BY <1>2, <2>2, <2>3, <2>4
  <2>6. QED
    BY <2>5 DEF t
<1>4. CASE ~IsSkip(t)
  <2>1. t.channel \in Used
    BY <1>1, <1>4 DEF Used
  <2>2. old_pins[t.channel] = Before(t.channel, cur)
    BY <2>1 DEF Searching
  <2> HIDE DEF t
  <2>3. t.type \in LevelTypes
    BY <1>1, <1>4 DEF AnyTerm, IsSkip
  <2>4. Before(t.channel, cur) \in Bit /\ capture[t.channel][cur] \in Bit
    BY <1>1, <1>2, <1>4, BitsInside DEF Shaped
  <2>5. LevelMatches(t.type, Before(t.channel, cur), capture[t.channel][cur])
        <=> RefLevel(t.type, Before(t.channel, cur), capture[t.channel][cur])
    BY <2>3, <2>4, LevelIsRight
  <2>6. TermHolds(t) <=>
           LevelMatches(t.type, Before(t.channel, cur), capture[t.channel][cur])
    BY <1>1, <1>2, <1>4, <2>2 DEF TermHolds, IsSkip
  <2>7. RefTerm(t, cur) <=>
           RefLevel(t.type, Before(t.channel, cur), capture[t.channel][cur])
    BY <1>2, <1>4 DEF RefTerm, IsSkip
  <2>8. TermHolds(t) <=> RefTerm(t, cur)
    BY <2>5, <2>6, <2>7
  <2>9. QED
    BY <2>8 DEF t
<1>5. QED
  BY <1>3, <1>4

-----------------------------------------------------------------------------
(* The steps of a search.                                                  *)

\* The condition list is a list of lists.
LEMMA Listed ==
  ASSUME TypeOK
  PROVE  /\ conds \in Seq(Seq(AnyTerm)) /\ Len(conds) \in Nat
         /\ at_cond \in Nat \ {0} /\ at_term \in Nat \ {0}
         /\ \A i \in 1 .. Len(conds) : conds[i] \in Seq(AnyTerm) /\ Len(conds[i]) \in Nat
<1>1. conds \in Seq(Seq(AnyTerm)) /\ at_cond \in 1 .. Len(conds) + 1 /\ at_term \in Nat \ {0}
  BY DEF TypeOK
<1>2. Len(conds) \in Nat /\ \A i \in 1 .. Len(conds) : conds[i] \in Seq(AnyTerm)
  BY <1>1
<1>3. \A s \in Seq(AnyTerm) : Len(s) \in Nat
  OBVIOUS
<1>4. at_cond \in Nat \ {0}
  BY <1>1, <1>2
<1>5. QED
  BY <1>1, <1>2, <1>3, <1>4

\* The only term of a condition.
LEMMA Alone ==
  ASSUME NEW n, n = 1, NEW j \in 1 .. n, NEW k \in 1 .. n
  PROVE  j = k /\ j = 1
OBVIOUS

\* A step of a pass that does not change what is asked for leaves alone what
\* the search knows about the samples before.
LEMMA SearchKept ==
  ASSUME Shaped, Shaped', Searching, PassKeeps, SameTerms(conds, conds'),
         pc' = "scan", cur' = cur, cur_matched' = cur_matched, old_pins' = old_pins,
         origin' = origin, Counters', Decided'
  PROVE  Searching'
<1>1. /\ conds \in Seq(Seq(AnyTerm)) /\ conds' \in Seq(Seq(AnyTerm))
      /\ capture' = capture /\ initial' = initial
  BY DEF Shaped, TypeOK, PassKeeps
<1>2. \A n : RefConds(n)' = RefConds(n)
  BY <1>1, RefSame
<1>3. NoneBefore(cur)'
  BY <1>2 DEF Searching, NoneBefore
<1>4. /\ Len(conds') = Len(conds)
      /\ \A i \in 1 .. Len(conds) : (conds'[i] # <<>> <=> conds[i] # <<>>)
  <2>1. \A i \in 1 .. Len(conds) : conds[i] \in Seq(AnyTerm) /\ conds'[i] \in Seq(AnyTerm)
                                   /\ Len(conds'[i]) = Len(conds[i])
    BY <1>1 DEF SameTerms
  <2>2. QED
    BY <2>1 DEF SameTerms
<1>5. Used' = Used /\ (ZeroSkip' <=> ZeroSkip)
  <2>0. PICK ds : ds = conds'
    OBVIOUS
  <2>1. Len(ds) = Len(conds) /\ \A i \in 1 .. Len(conds) : Len(ds[i]) = Len(conds[i])
    BY <2>0 DEF SameTerms
  <2>2. \A i \in 1 .. Len(conds) : \A j \in 1 .. Len(conds[i]) :
           /\ IsSkip(ds[i][j]) <=> IsSkip(conds[i][j])
           /\ ds[i][j].channel = conds[i][j].channel /\ ds[i][j].to_skip = conds[i][j].to_skip
    BY <2>0 DEF SameTerms, IsSkip
  <2>3. Used' = { c \in Channels : \E i \in 1 .. Len(ds) : \E j \in 1 .. Len(ds[i]) :
                     ~IsSkip(ds[i][j]) /\ ds[i][j].channel = c }
    BY <2>0 DEF Used
  <2>4. Used' = Used
    <3>1. ASSUME NEW c
          PROVE  (\E i \in 1 .. Len(ds) : \E j \in 1 .. Len(ds[i]) :
                     ~IsSkip(ds[i][j]) /\ ds[i][j].channel = c) <=>
                 (\E i \in 1 .. Len(conds) : \E j \in 1 .. Len(conds[i]) :
                     ~IsSkip(conds[i][j]) /\ conds[i][j].channel = c)
      <4>1. \A i \in 1 .. Len(conds) :
              (\E j \in 1 .. Len(ds[i]) : ~IsSkip(ds[i][j]) /\ ds[i][j].channel = c) <=>
              (\E j \in 1 .. Len(conds[i]) : ~IsSkip(conds[i][j]) /\ conds[i][j].channel = c)
        BY <2>1, <2>2
      <4>2. QED
        BY <2>1, <4>1
    <3>2. QED
      BY <2>3, <3>1 DEF Used
  <2>5. ZeroSkip' <=> \E i \in 1 .. Len(ds) : \E j \in 1 .. Len(ds[i]) :
                         IsSkip(ds[i][j]) /\ ds[i][j].to_skip = 0
    BY <2>0 DEF ZeroSkip
  <2>6. ZeroSkip' <=> ZeroSkip
    <3>1. \A i \in 1 .. Len(conds) :
            (\E j \in 1 .. Len(ds[i]) : IsSkip(ds[i][j]) /\ ds[i][j].to_skip = 0) <=>
            (\E j \in 1 .. Len(conds[i]) : IsSkip(conds[i][j]) /\ conds[i][j].to_skip = 0)
      BY <2>1, <2>2
    <3>2. QED
      BY <2>1, <2>5, <3>1 DEF ZeroSkip
  <2>7. QED
    BY <2>4, <2>6
<1>6. \A c \in Used' : old_pins'[c] = Before(c, cur)'
  BY <1>1, <1>5 DEF Searching, Before
<1>7. lo' <= cur' /\ origin' < cur' /\ (\E i \in 1 .. Len(conds') : conds'[i] # <<>>)
      /\ (cur_matched' => pc' = "scan" /\ origin' = cur' - 1 /\ lo' <= origin' /\ ~ZeroSkip')
  BY <1>4, <1>5 DEF Searching, PassKeeps
<1>8. QED
  BY <1>3, <1>6, <1>7 DEF Searching

\* An empty condition never matches.
LEMMA PassOverTracks ==
  ASSUME Shaped, Shaped', Searching, PassOver
  PROVE  Searching'
<1>1. /\ PassKeeps /\ pc = "scan" /\ pc' = "scan" /\ conds' = conds /\ cur' = cur
      /\ cur_matched' = cur_matched /\ old_pins' = old_pins /\ origin' = origin
      /\ at_cond' = at_cond + 1 /\ at_term' = 1 /\ match_array' = match_array
      /\ all_skip_allow' = all_skip_allow
      /\ at_cond <= Len(conds) /\ conds[at_cond] = <<>> /\ cur < hi
  BY DEF PassOver, InPass, PassKeeps, NextCond, fixed, chunk
<1>2. /\ conds \in Seq(Seq(AnyTerm)) /\ at_cond \in Nat \ {0} /\ Len(conds) \in Nat
  BY Listed DEF Shaped
<1>3. SameTerms(conds, conds')
  BY <1>1 DEF SameTerms
<1>4. RefConds(cur)' = RefConds(cur)
  BY <1>1, <1>2, <1>3, RefSame DEF PassKeeps
<1>5. at_cond \notin RefConds(cur)
  BY <1>1 DEF RefConds
<1>6. \A i \in 1 .. Len(conds) : i < at_cond + 1 => i < at_cond \/ Len(conds[i]) = 0
  BY <1>1, <1>2
<1>7. Counters'
  <2>1. Base' = Base
    BY <1>1 DEF Base
  <2>2. Counters
    BY DEF Searching
  <2> SUFFICES ASSUME NEW i \in 1 .. Len(conds), NEW j \in 1 .. Len(conds[i])
               PROVE  i < at_cond + 1 <=> i < at_cond
    BY <1>1, <2>1, <2>2 DEF Counters
  <2>3. Len(conds[i]) # 0
    BY <1>2
  <2>4. QED
    BY <1>2, <1>6, <2>3
<1>8. Decided'
  <2>1. Decided
    BY <1>1 DEF Searching
  <2>2. 1 .. at_cond' - 1 = (1 .. at_cond - 1) \cup {at_cond}
    BY <1>1, <1>2
  <2>3. match_array' = { i \in 1 .. at_cond' - 1 : i \in RefConds(cur)' }
    BY <1>1, <1>4, <1>5, <2>1, <2>2 DEF Decided
  <2>4. at_term' - 1 = 0
    BY <1>1
  <2>5. all_skip_allow' => \A i \in 1 .. at_cond' - 1 : \A j \in 1 .. Len(conds[i]) :
          ~IsSkip(conds[i][j]) /\ conds[i][j].channel \in constant
    BY <1>1, <2>1, <2>2 DEF Decided
  <2>6. QED
    BY <1>1, <2>3, <2>4, <2>5 DEF Decided, PassKeeps
<1>9. QED
  BY <1>1, <1>3, <1>7, <1>8, SearchKept

\* Deciding on a term is right, and so is deciding on a condition.
LEMMA TermMatchesTracks ==
  ASSUME Shaped, Shaped', Searching, TermMatches
  PROVE  Searching'
<1> DEFINE t == conds[at_cond][at_term]
<1>1. /\ PassKeeps /\ pc = "scan" /\ pc' = "scan" /\ conds' = conds
      /\ cur_matched' = cur_matched /\ old_pins' = old_pins /\ origin' = origin
      /\ at_cond <= Len(conds) /\ conds[at_cond] # <<>> /\ cur < hi
      /\ TermHolds(t)
  BY DEF TermMatches, InPass, PassKeeps, fixed, chunk
<1>2. /\ conds \in Seq(Seq(AnyTerm)) /\ at_cond \in 1 .. Len(conds) /\ Len(conds) \in Nat
      /\ at_term \in 1 .. Len(conds[at_cond]) /\ Len(conds[at_cond]) \in Nat
  BY <1>1, AtTerm, Listed DEF Shaped
<1>3. SameTerms(conds, conds')
  BY <1>1 DEF SameTerms
<1>4. RefConds(cur)' = RefConds(cur') /\ Base' = Base
  <2>1. RefConds(cur') = RefConds(cur)'
    BY <1>1 DEF RefConds, RefTerm, RefLevel, Before, PassKeeps
  <2>2. QED
    BY <1>1, <2>1 DEF Base
<1>5. ~SkipZero(t)
  <2>1. ~skip_zero /\ (cur_matched => ~ZeroSkip)
    BY DEF Shaped, Place, Searching
  <2>2. IsSkip(t) /\ t.to_skip = 0 => ZeroSkip
    BY <1>2 DEF ZeroSkip
  <2>3. QED
    BY <2>1, <2>2 DEF SkipZero, IsSkip
<1>6. RefTerm(t, cur)
  BY <1>1, TermIsRight
<1>7. Decided /\ Counters
  BY <1>1 DEF Searching
<1>8. CASE at_term < Len(conds[at_cond])
  <2>1. at_cond' = at_cond /\ at_term' = at_term + 1
        /\ cur' = cur /\ match_array' = match_array /\ all_skip_allow' = all_skip_allow
    BY <1>8 DEF TermMatches, NextTerm
  <2>2. Counters'
    BY <1>1, <1>4, <1>7, <2>1 DEF Counters
  <2>3. \A j \in 1 .. at_term' - 1 : RefTerm(conds[at_cond][j], cur)
    <3>1. \A j \in 1 .. at_term - 1 : RefTerm(conds[at_cond][j], cur)
      BY <1>1, <1>7 DEF Decided
    <3>2. \A j \in 1 .. at_term' - 1 : j \in 1 .. at_term - 1 \/ j = at_term
      BY <1>2, <2>1
    <3>3. QED
      BY <1>6, <3>1, <3>2
  <2>4. \A u : RefTerm(u, cur)' <=> RefTerm(u, cur)
    BY <1>1, <2>1 DEF RefTerm, RefLevel, Before, PassKeeps
  <2>5. Decided'
    BY <1>1, <1>4, <1>7, <2>1, <2>3, <2>4 DEF Decided, PassKeeps
  <2>6. QED
    BY <1>1, <1>3, <2>1, <2>2, <2>5, SearchKept
<1>9. CASE ~(at_term < Len(conds[at_cond]))
  <2>1. /\ at_cond' = at_cond + 1 /\ at_term' = 1
        /\ match_array' = match_array \cup {at_cond} /\ all_skip_allow' = FALSE
        /\ cur' = IF SkipZero(t) THEN cur - 1 ELSE cur
    BY <1>9 DEF TermMatches, NextCond
  <2>2. cur' = cur
    BY <1>5, <2>1
  <2>3. at_term = Len(conds[at_cond])
    BY <1>2, <1>9
  <2>4. \A j \in 1 .. Len(conds[at_cond]) : RefTerm(conds[at_cond][j], cur)
    BY <1>1, <1>2, <1>6, <1>7, <2>3 DEF Decided
  <2>5. at_cond \in RefConds(cur)
    BY <1>1, <1>2, <2>4, RefCondsIs
  <2>6. 1 .. at_cond' - 1 = (1 .. at_cond - 1) \cup {at_cond}
    BY <1>2, <2>1
  <2>7. Decided'
    <3>1. match_array' = { i \in 1 .. at_cond' - 1 : i \in RefConds(cur)' }
      BY <1>4, <1>7, <2>1, <2>2, <2>5, <2>6 DEF Decided
    <3>2. at_term' - 1 = 0
      BY <2>1
    <3>3. QED
      BY <2>1, <3>1, <3>2 DEF Decided
  <2>8. Counters'
    <3> SUFFICES ASSUME NEW i \in 1 .. Len(conds), NEW j \in 1 .. Len(conds[i]),
                        IsSkip(conds[i][j])
                 PROVE  LET n == cur - Base
                            u == conds[i][j]
                        IN  u.already = IF i < at_cond' /\ n # u.to_skip THEN n + 1 ELSE n
      BY <1>1, <1>4, <2>2 DEF Counters
    <3>1. CASE i = at_cond
      <4>1. j = 1 /\ Len(conds[i]) = 1 /\ j = at_term
        BY <1>2, <2>3, <3>1 DEF Shaped, Terms, WellFormed
      <4>2. cur = Base + t.to_skip
        BY <1>6, <3>1, <4>1 DEF RefTerm, IsSkip, Base
      <4>3. t.already = cur - Base
        <5>1. IsSkip(t) /\ ~(at_cond < at_cond)
          BY <1>2, <3>1, <4>1
        <5>2. QED
          BY <1>2, <1>7, <5>1 DEF Counters
      <4>4. t.to_skip \in Nat /\ Base \in Nat
        BY <1>1, <1>2, SearchPlace, AtTerm, TermNats
      <4>5. QED
        BY <3>1, <4>1, <4>2, <4>3, <4>4
    <3>2. CASE i # at_cond
      <4>1. i < at_cond' <=> i < at_cond
        BY <1>2, <2>1, <3>2
      <4>2. QED
        BY <1>7, <4>1 DEF Counters
    <3>3. QED
      BY <3>1, <3>2
  <2>9. QED
    BY <1>1, <1>3, <2>2, <2>7, <2>8, SearchKept
<1>10. QED
  BY <1>8, <1>9

\* A failing term decides its condition the way the reference does.
LEMMA TermFailsTracks ==
  ASSUME Shaped, Shaped', Searching, TermFails
  PROVE  Searching'
<1> DEFINE t == conds[at_cond][at_term]
<1>1. /\ PassKeeps /\ pc = "scan" /\ pc' = "scan" /\ cur' = cur
      /\ cur_matched' = cur_matched /\ old_pins' = old_pins /\ origin' = origin
      /\ at_cond <= Len(conds) /\ conds[at_cond] # <<>> /\ cur < hi
      /\ at_cond' = at_cond + 1 /\ at_term' = 1 /\ match_array' = match_array
      /\ all_skip_allow' = (all_skip_allow /\ SkipAllow(t))
      /\ ~TermHolds(t)
  BY DEF TermFails, InPass, PassKeeps, NextCond, fixed, chunk
<1>2. /\ conds \in Seq(Seq(AnyTerm)) /\ at_cond \in 1 .. Len(conds) /\ Len(conds) \in Nat
      /\ at_term \in 1 .. Len(conds[at_cond]) /\ Len(conds[at_cond]) \in Nat
      /\ conds' \in Seq(Seq(AnyTerm)) /\ SkipsBounded(conds)
      /\ IsSkip(t) => Len(conds[at_cond]) = 1 /\ at_term = 1
      /\ sends_const => Len(conds[at_cond]) = 1
  <2>1. conds \in Seq(Seq(AnyTerm)) /\ Len(conds) \in Nat /\ SkipsBounded(conds)
    BY Listed DEF Shaped, Terms
  <2>2. conds' \in Seq(Seq(AnyTerm))
    BY DEF Shaped, TypeOK
  <2>3. /\ at_cond \in 1 .. Len(conds) /\ at_term \in 1 .. Len(conds[at_cond])
        /\ IsSkip(t) => Len(conds[at_cond]) = 1 /\ at_term = 1
        /\ sends_const => Len(conds[at_cond]) = 1
    BY <1>1, AtTerm
  <2>4. Len(conds[at_cond]) \in Nat
    BY <2>3, Listed DEF Shaped
  <2>5. QED
    BY <2>1, <2>2, <2>3, <2>4
<1>3. /\ SameTerms(conds, conds')
      /\ ~IsSkip(t) => conds' = conds
      /\ IsSkip(t) => conds' = Count(conds, at_cond, at_term) /\ t.already # t.to_skip
  BY TermFailsShaped
<1>4. RefConds(cur)' = RefConds(cur) /\ Base' = Base
  <2>1. RefConds(cur') = RefConds(cur)
    BY <1>1
  <2>2. capture' = capture /\ initial' = initial /\ origin' = origin
    BY <1>1 DEF PassKeeps
  <2>3. PICK n : n = cur
    OBVIOUS
  <2>4. RefConds(n)' = RefConds(n)
    BY <1>2, <1>3, <2>2, RefSame
  <2>5. QED
    BY <1>1, <2>3, <2>4 DEF Base, RefConds, RefTerm, Before
<1>5. ~RefTerm(t, cur)
  BY <1>1, TermIsRight
<1>6. Decided /\ Counters
  BY <1>1 DEF Searching
<1>7. at_cond \notin RefConds(cur)
  BY <1>2, <1>5, RefCondsIs
<1>8. 1 .. at_cond' - 1 = (1 .. at_cond - 1) \cup {at_cond}
  BY <1>1, <1>2
<1>9. all_skip_allow' => /\ all_skip_allow /\ ~IsSkip(t) /\ t.channel \in constant
                         /\ Len(conds[at_cond]) = 1
  <2>1. SkipAllow(t) => ~IsSkip(t) /\ t.channel \in constant
    BY <1>1, SearchPlace DEF SkipAllow, IsSkip
  <2>2. t.channel \in constant => sends_const
    BY DEF Shaped, Borders
  <2>3. QED
    BY <1>1, <1>2, <2>1, <2>2
<1>10. Decided'
  <2>1. match_array' = { i \in 1 .. at_cond' - 1 : i \in RefConds(cur)' }
    BY <1>1, <1>4, <1>6, <1>7, <1>8 DEF Decided
  <2>2. at_term' - 1 = 0
    BY <1>1
  <2>3. all_skip_allow' => \A i \in 1 .. at_cond' - 1 : \A j \in 1 .. Len(conds[i]) :
          ~IsSkip(conds[i][j]) /\ conds[i][j].channel \in constant
    <3> SUFFICES ASSUME all_skip_allow', NEW i \in 1 .. at_cond' - 1,
                        NEW j \in 1 .. Len(conds[i])
                 PROVE  ~IsSkip(conds[i][j]) /\ conds[i][j].channel \in constant
      OBVIOUS
    <3>1. CASE i = at_cond
      <4>1. j = at_term
        BY <1>2, <1>9, <3>1, Alone
      <4>2. QED
        BY <1>9, <3>1, <4>1
    <3>2. CASE i # at_cond
      BY <1>6, <1>8, <1>9, <3>2 DEF Decided
    <3>3. QED
      BY <3>1, <3>2
  <2>4. all_skip_allow' => conds' = conds
    BY <1>3, <1>9
  <2>5. constant' = constant
    BY <1>1 DEF PassKeeps
  <2>6. QED
    BY <2>1, <2>2, <2>3, <2>4, <2>5 DEF Decided
<1>11. Counters'
  <2> SUFFICES ASSUME NEW i \in 1 .. Len(conds), NEW j \in 1 .. Len(conds[i]),
                      IsSkip(conds[i][j])
               PROVE  LET n == cur - Base
                      IN  conds'[i][j].already =
                            IF i < at_cond' /\ n # conds[i][j].to_skip THEN n + 1 ELSE n
    BY <1>1, <1>3, <1>4 DEF Counters, SameTerms, IsSkip
  <2>1. conds[i][j].already = IF i < at_cond /\ cur - Base # conds[i][j].to_skip
                              THEN cur - Base + 1 ELSE cur - Base
    BY <1>6 DEF Counters
  <2>2. CASE i = at_cond
    <3>1. Len(conds[i]) = 1 /\ j = 1
      BY DEF Shaped, Terms, WellFormed
    <3>2. j = at_term
      BY <1>2, <2>2, <3>1, Alone
    <3>3. conds' = Count(conds, at_cond, at_term) /\ t.already # t.to_skip
      BY <1>3, <2>2, <3>2
    <3>4. conds'[i][j].already = t.already + 1
      <4>1. conds[at_cond][at_term].already # conds[at_cond][at_term].to_skip
        BY <3>3
      <4>2. Count(conds, at_cond, at_term)[at_cond][at_term].already
              = conds[at_cond][at_term].already + 1
        BY <1>2, <4>1, CountIs
      <4>3. QED
        BY <2>2, <3>2, <3>3, <4>2
    <3>5. t.already = cur - Base
      BY <1>2, <2>1, <2>2, <3>2
    <3>6. i < at_cond'
      BY <1>1, <1>2, <2>2
    <3>7. QED
      BY <2>2, <3>2, <3>3, <3>4, <3>5, <3>6
  <2>3. CASE i # at_cond
    <3>1. i < at_cond' <=> i < at_cond
      BY <1>1, <1>2, <2>3
    <3>2. conds'[i][j].already = conds[i][j].already
      <4>1. CASE IsSkip(t)
        <5>1. conds' = Count(conds, at_cond, at_term) /\ t.already # t.to_skip
          BY <1>3, <4>1
        <5>2. conds[at_cond][at_term].already # conds[at_cond][at_term].to_skip
          BY <5>1
        <5> HIDE DEF t
        <5>3. \A k \in 1 .. Len(conds) : \A l \in 1 .. Len(conds[k]) :
                 Count(conds, at_cond, at_term)[k][l].already =
                    IF k = at_cond /\ l = at_term
                    THEN conds[k][l].already + 1 ELSE conds[k][l].already
          BY <1>2, <5>2, CountIs
        <5>4. QED
          BY <2>3, <5>1, <5>3
      <4>2. CASE ~IsSkip(t)
        BY <1>3, <4>2
      <4>3. QED
        BY <4>1, <4>2
    <3>3. QED
      BY <2>1, <3>1, <3>2
  <2>4. QED
    BY <2>2, <2>3
<1>12. QED
  BY <1>1, <1>3, <1>10, <1>11, SearchKept

\* After a search the decoder gets the sample it asked for.
LEMMA MatchTracks ==
  ASSUME Shaped, Searching \/ Rewound, ScanMatch
  PROVE  Returned' /\ AgreesWithReference
<1>1. /\ pc = "scan" /\ cur < hi /\ at_cond > Len(conds) /\ match_array # {}
      /\ old_pins' = OldPinsAt(cur) /\ pins' = OldPinsAt(cur) /\ cur_matched' = TRUE
      /\ origin' = cur /\ cur' = cur /\ lo' = lo /\ capture' = capture /\ pc' = "decode"
      /\ match_array' = match_array
  BY DEF ScanMatch, InPass, fixed, chunk
<1>2. lo <= cur /\ cur \in Nat
  BY ScanConstants DEF Searching, Rewound, Shaped, TypeOK
<1>3. OldPinsAt(cur) = [c \in Channels |-> capture[c][cur]]
  BY <1>1, <1>2, SampleIsRight
<1>4. Returned'
  BY <1>1, <1>2, <1>3 DEF Returned
<1>5. NoneBefore(cur) /\ match_array = RefConds(cur)
  <2>1. CASE Searching
    <3>1. NoneBefore(cur) /\ Decided
      BY <1>1, <2>1 DEF Searching
    <3>2. at_cond = Len(conds) + 1 /\ Len(conds) \in Nat
      BY <1>1, Listed DEF Shaped, TypeOK
    <3>3. at_cond - 1 = Len(conds)
      BY <3>2
    <3>4. RefConds(cur) \subseteq 1 .. Len(conds)
      BY Listed, RefCondsIs DEF Shaped
    <3>5. QED
      BY <3>1, <3>3, <3>4 DEF Decided
  <2>2. CASE Rewound
    <3>1. origin = cur /\ match_array = RefConds(cur)
      BY <2>2 DEF Rewound
    <3>2. NoneBefore(cur)
      BY <1>2, <3>1 DEF NoneBefore
    <3>3. QED
      BY <3>1, <3>2
  <2>3. QED
    BY <2>1, <2>2
<1>6. AgreesWithReference
  BY <1>1, <1>3, <1>5 DEF AgreesWithReference
<1>7. QED
  BY <1>4, <1>6

\* On a channel that does not change only a level can hold.
LEMMA SteadyLevel ==
  ASSUME NEW b \in Bit, NEW type \in LevelTypes, type # "no_edge", RefLevel(type, b, b)
  PROVE  type = "high" \/ type = "low"
<1>1. type \in {"high", "low", "rising", "falling", "either"}
  BY DEF LevelTypes
<1>2. CASE type = "rising"
  BY <1>2 DEF RefLevel, Bit
<1>3. CASE type = "falling"
  BY <1>3 DEF RefLevel, Bit
<1>4. CASE type = "either"
  BY <1>4 DEF RefLevel
<1>5. QED
  BY <1>1, <1>2, <1>3, <1>4

\* A condition that fails on a constant channel fails in the rest of the chunk.
LEMMA StuckInChunk ==
  ASSUME Shaped, Searching, pc = "scan", cur < hi, all_skip_allow, at_cond > Len(conds),
         RefConds(cur) = {}, NEW m \in cur .. hi - 1
  PROVE  RefConds(m) = {}
<1>0. /\ conds \in Seq(Seq(AnyTerm)) /\ Len(conds) \in Nat /\ cur \in Nat
      /\ hi \in 0 .. Length /\ lo \in 0 .. Length /\ origin \in Int /\ origin < cur /\ lo <= cur
      /\ \A i \in 1 .. Len(conds) : conds[i] \in Seq(AnyTerm)
      /\ m \in Nat
  BY Listed, SearchPlace, ScanConstants DEF Shaped, TypeOK, Searching
<1>1. SUFFICES ASSUME NEW i \in RefConds(m) PROVE FALSE
  OBVIOUS
<1>2. /\ i \in 1 .. Len(conds) /\ conds[i] # <<>>
      /\ \A j \in 1 .. Len(conds[i]) : RefTerm(conds[i][j], m)
  BY <1>0, RefCondsIs
<1> DEFINE u == conds[i][1]
<1>3. 1 \in 1 .. Len(conds[i]) /\ Len(conds[i]) \in Nat
  <2>1. conds[i] \in Seq(AnyTerm)
    BY <1>0, <1>2
  <2>2. QED
    BY <1>2, <2>1
<1>4. ~IsSkip(u) /\ u.channel \in constant
  <2>1. Decided
    BY DEF Searching
  <2>2. at_cond = Len(conds) + 1
    BY <1>0 DEF Shaped, TypeOK
  <2>3. i \in 1 .. at_cond - 1
    BY <1>0, <1>2, <2>2
  <2>4. QED
    BY <1>3, <2>1, <2>3 DEF Decided
<1>5. sends_const
  BY <1>4 DEF Shaped, Borders
<1>6. Len(conds[i]) = 1 /\ u.type # "no_edge"
  BY <1>2, <1>3, <1>5 DEF Shaped, Terms, WellFormed
<1>7. u \in AnyTerm /\ u.channel \in Channels
  <2>1. conds[i] \in Seq(AnyTerm)
    BY <1>0, <1>2
  <2>2. u \in AnyTerm
    BY <1>3, <2>1
  <2>3. QED
    BY <1>4, <2>2 DEF Shaped, TypeOK
<1>8. RefTerm(u, m)
  BY <1>2, <1>3
<1>9. ~RefTerm(u, cur)
  <2>1. i \notin RefConds(cur)
    OBVIOUS
  <2>2. \E j \in 1 .. Len(conds[i]) : ~RefTerm(conds[i][j], cur)
    BY <1>0, <1>2, <2>1, RefCondsIs
  <2>3. PICK j \in 1 .. Len(conds[i]) : ~RefTerm(conds[i][j], cur)
    BY <2>2
  <2>4. j = 1
    BY <1>3, <1>6, <2>3, Alone
  <2>5. QED
    BY <2>3, <2>4
<1> HIDE DEF u
<1>10. m # cur
  BY <1>8, <1>9
<1>11. PICK c : c = u.channel
  OBVIOUS
<1>12. capture[c][m] = capture[c][cur] /\ capture[c][m - 1] = capture[c][cur]
  <2>1. \A k \in lo .. hi - 1 : capture[c][k] = capture[c][lo]
    BY <1>4, <1>11 DEF Shaped, Borders
  <2>2. m \in lo .. hi - 1 /\ m - 1 \in lo .. hi - 1 /\ cur \in lo .. hi - 1
    BY <1>0, <1>10
  <2>3. QED
    BY <2>1, <2>2
<1>13. m > 0 /\ Before(c, m) = capture[c][m - 1]
  BY <1>0, <1>10 DEF Before
<1>14. u.type \in LevelTypes
  BY <1>4, <1>7 DEF AnyTerm, IsSkip
<1>15. RefLevel(u.type, capture[c][cur], capture[c][cur])
  BY <1>4, <1>8, <1>11, <1>12, <1>13 DEF RefTerm, IsSkip
<1>16. capture[c][cur] \in Bit
  BY <1>7, <1>11, SearchPlace, BitsInside DEF Shaped
<1>17. u.type = "high" \/ u.type = "low"
  <2>1. PICK type, b : type = u.type /\ b = capture[c][cur]
    OBVIOUS
  <2>2. type \in LevelTypes /\ type # "no_edge" /\ b \in Bit /\ RefLevel(type, b, b)
    BY <1>6, <1>14, <1>15, <1>16, <2>1 DEF u
  <2>3. QED
    BY <2>1, <2>2, SteadyLevel
<1>18. RefLevel(u.type, Before(c, cur), capture[c][cur])
  BY <1>15, <1>17 DEF RefLevel
<1>19. RefTerm(u, cur)
  BY <1>0, <1>4, <1>11, <1>18 DEF RefTerm, IsSkip
<1>20. QED
  BY <1>9, <1>19

\* A pass without a match leaves out no sample.
LEMMA MissTracks ==
  ASSUME Shaped, Shaped', Searching, ScanMiss
  PROVE  Searching'
<1>1. /\ pc = "scan" /\ pc' = "scan" /\ cur < hi /\ at_cond > Len(conds) /\ match_array = {}
      /\ old_pins' = OldPinsAt(cur) /\ cur_matched' = FALSE
      /\ cur' = IF all_skip_allow THEN hi ELSE cur + 1
      /\ at_cond' = 1 /\ at_term' = 1 /\ match_array' = {}
      /\ capture' = capture /\ initial' = initial /\ lo' = lo /\ origin' = origin
      /\ conds' = conds
  BY DEF ScanMiss, InPass, Advance, fixed, chunk
<1>2. /\ cur \in Nat /\ lo <= cur /\ origin < cur /\ origin \in Int /\ hi \in Nat
      /\ Base \in Nat /\ Base <= cur
      /\ OldPinsAt(cur) = [c \in Channels |-> capture[c][cur]]
      /\ conds \in Seq(Seq(AnyTerm)) /\ Len(conds) \in Nat
      /\ at_cond = Len(conds) + 1
      /\ Decided /\ Counters /\ NoneBefore(cur)
  <2>1. hi \in Nat /\ at_cond = Len(conds) + 1
    BY <1>1, Listed, ScanConstants DEF Shaped, TypeOK
  <2>2. lo <= cur /\ Decided /\ Counters /\ NoneBefore(cur)
    BY <1>1 DEF Searching
  <2>3. QED
    BY <1>1, <2>1, <2>2, SearchPlace, Listed DEF Shaped
<1>3. RefConds(cur) = {}
  <2>1. at_cond - 1 = Len(conds)
    BY <1>2
  <2>2. RefConds(cur) \subseteq 1 .. Len(conds)
    BY <1>2, RefCondsIs
  <2>3. QED
    BY <1>1, <1>2, <2>1, <2>2 DEF Decided
<1>4. cur < cur' /\ cur' \in Nat
  BY <1>1, <1>2
<1>5. \A m \in Base .. cur' - 1 : RefConds(m) = {}
  <2> SUFFICES ASSUME NEW m \in Base .. cur' - 1 PROVE RefConds(m) = {}
    OBVIOUS
  <2>1. CASE m < cur
    <3>1. m \in Base .. cur - 1
      BY <1>2, <1>4, <2>1
    <3>2. QED
      BY <1>2, <3>1 DEF NoneBefore, Base
  <2>2. CASE m = cur
    BY <1>3, <2>2
  <2>3. CASE m > cur
    <3>1. all_skip_allow /\ m \in cur .. hi - 1
      BY <1>1, <1>2, <2>3
    <3>2. QED
      BY <1>1, <1>3, <3>1, StuckInChunk
  <2>4. QED
    BY <1>2, <1>4, <2>1, <2>2, <2>3
<1>6. NoneBefore(cur)'
  <2>1. \A n : RefConds(n)' = RefConds(n)
    BY <1>1 DEF RefConds, RefTerm, Before
  <2>2. QED
    BY <1>1, <1>5, <2>1 DEF NoneBefore, Base
<1>7. \A c \in Used' : old_pins'[c] = Before(c, cur)'
  <2> SUFFICES ASSUME NEW c \in Used PROVE capture[c][cur] = Before(c, cur)'
    BY <1>1, <1>2 DEF Used
  <2>1. Before(c, cur)' = capture[c][cur' - 1]
    BY <1>1, <1>2, <1>4 DEF Before
  <2>2. CASE ~all_skip_allow
    BY <1>1, <1>2, <2>1, <2>2
  <2>3. CASE all_skip_allow
    <3>0. PICK i \in 1 .. Len(conds) : \E j \in 1 .. Len(conds[i]) : conds[i][j].channel = c
      BY DEF Used
    <3>1. PICK j \in 1 .. Len(conds[i]) : conds[i][j].channel = c
      BY <3>0
    <3>2. i \in 1 .. at_cond - 1
      BY <1>2
    <3>3. c \in constant
      BY <1>2, <2>3, <3>1, <3>2 DEF Decided
    <3>4. \A k \in lo .. hi - 1 : capture[c][k] = capture[c][lo]
      BY <3>3 DEF Shaped, Borders
    <3>5. cur \in lo .. hi - 1 /\ hi - 1 \in lo .. hi - 1 /\ lo \in Nat
      BY <1>1, <1>2, ScanConstants DEF Shaped, TypeOK
    <3>6. QED
      BY <1>1, <2>1, <2>3, <3>4, <3>5
  <2>4. QED
    BY <2>2, <2>3
<1>8. Counters'
  <2> SUFFICES ASSUME NEW i \in 1 .. Len(conds), NEW j \in 1 .. Len(conds[i]),
                      IsSkip(conds[i][j])
               PROVE  conds[i][j].already = cur' - Base
    <3>1. \A i \in 1 .. Len(conds) : ~(i < at_cond')
      BY <1>1
    <3>2. conds' = conds /\ (cur - Base)' = cur' - Base
      BY <1>1 DEF Base
    <3>3. QED
      BY <3>1, <3>2 DEF Counters
  <2>1. i < at_cond /\ i \in 1 .. at_cond - 1 /\ 1 \in 1 .. Len(conds[i])
    BY <1>2
  <2>2. ~all_skip_allow
    BY <1>2, <2>1 DEF Decided
  <2>3. Len(conds[i]) = 1 /\ j = 1
    BY DEF Shaped, Terms, WellFormed
  <2>4. cur - Base # conds[i][j].to_skip
    <3>1. SUFFICES ASSUME cur - Base = conds[i][j].to_skip PROVE FALSE
      OBVIOUS
    <3>2. RefTerm(conds[i][j], cur)
      BY <1>2, <3>1 DEF RefTerm, IsSkip, Base
    <3>3. \A k \in 1 .. Len(conds[i]) : RefTerm(conds[i][k], cur)
      BY <2>3, <3>2
    <3>4. conds[i] # <<>>
      BY <2>3
    <3>5. i \in RefConds(cur)
      BY <1>2, <3>3, <3>4, RefCondsIs
    <3>6. QED
      BY <1>3, <3>5
  <2>5. conds[i][j].already = cur - Base + 1
    BY <1>2, <2>1, <2>4 DEF Counters
  <2>6. cur' = cur + 1
    BY <1>1, <2>2
  <2>7. QED
    BY <1>2, <2>5, <2>6
<1>9. Decided'
  BY <1>1 DEF Decided
<1>10. \E i \in 1 .. Len(conds') : conds'[i] # <<>>
  BY <1>1 DEF Searching
<1>11. lo' <= cur' /\ origin' < cur'
  <2>1. lo \in Nat
    BY ScanConstants DEF Shaped, TypeOK
  <2>2. QED
    BY <1>1, <1>2, <1>4, <2>1
<1>12. ~cur_matched' /\ pc' = "scan"
  BY <1>1
<1>13. QED
  BY <1>6, <1>7, <1>8, <1>9, <1>10, <1>11, <1>12 DEF Searching

-----------------------------------------------------------------------------
(* The other steps.                                                        *)

\* A skip of zero samples is the only term of its wait.
LEMMA ZeroIsFirst ==
  ASSUME TypeOK, Terms, ZeroSkip
  PROVE  /\ Len(conds) = 1 /\ Len(conds[1]) = 1 /\ conds[1] # <<>>
         /\ IsSkip(conds[1][1]) /\ conds[1][1].to_skip = 0 /\ conds[1][1].already = 0
<1>1. PICK i \in 1 .. Len(conds) : \E j \in 1 .. Len(conds[i]) :
         IsSkip(conds[i][j]) /\ conds[i][j].to_skip = 0
  BY DEF ZeroSkip
<1>2. PICK j \in 1 .. Len(conds[i]) : IsSkip(conds[i][j]) /\ conds[i][j].to_skip = 0
  BY <1>1
<1>3. Len(conds[i]) = 1 /\ Len(conds) = 1 /\ conds[i][j].already <= conds[i][j].to_skip
  BY <1>2 DEF Terms, WellFormed, SkipsBounded
<1>4. i = 1
  BY <1>3, Alone
<1>5. j = 1
  BY <1>2, <1>3, Alone
<1>6. conds[1] \in Seq(AnyTerm) /\ 1 \in 1 .. Len(conds[1])
  BY <1>3, <1>4, Listed
<1>7. conds[1][1] \in AnyTerm
  BY <1>6
<1>8. conds[1][1].already \in Nat
  BY <1>7, TermNats
<1>9. QED
  BY <1>2, <1>3, <1>4, <1>5, <1>6, <1>8

\* It is found at once and the scanner steps back.
LEMMA RewindTracks ==
  ASSUME Shaped, Rewinding, TermMatches
  PROVE  Rewound'
<1> DEFINE t == conds[at_cond][at_term]
<1>1. /\ pc = "scan" /\ pc' = "scan" /\ conds' = conds /\ cur_matched' = cur_matched
      /\ origin' = origin /\ lo' = lo /\ capture' = capture /\ initial' = initial
      /\ at_cond <= Len(conds) /\ conds[at_cond] # <<>>
  BY DEF TermMatches, InPass, fixed, chunk
<1>2. /\ Len(conds) = 1 /\ Len(conds[1]) = 1 /\ IsSkip(conds[1][1])
      /\ conds[1][1].to_skip = 0 /\ conds[1] # <<>>
  BY ZeroIsFirst DEF Shaped, Rewinding
<1>3. at_cond = 1 /\ at_term = 1 /\ match_array = {} /\ cur_matched /\ origin = cur - 1
      /\ lo <= origin
  BY <1>1, <1>2, AtTerm, Alone DEF Rewinding
<1>4. SkipZero(t)
  BY <1>2, <1>3 DEF SkipZero, IsSkip
<1>5. cur' = cur - 1 /\ match_array' = {1} /\ at_cond' = 2
  <2>1. ~(at_term < Len(conds[at_cond]))
    <3>1. conds[at_cond] = conds[1] /\ at_term = 1
      BY <1>3
    <3>2. PICK n : n = Len(conds[1])
      OBVIOUS
    <3>3. Len(conds[at_cond]) = n
      BY <3>1, <3>2
    <3>4. n = 1
      BY <1>2, <3>2
    <3>5. QED
      BY <3>1, <3>3, <3>4
  <2>2. cur' = (IF SkipZero(t) THEN cur - 1 ELSE cur) /\ match_array' = match_array \cup {at_cond}
        /\ at_cond' = at_cond + 1
    BY <2>1 DEF TermMatches, NextCond
  <2> HIDE DEF t
  <2>3. QED
    BY <1>3, <1>4, <2>2
<1>6. origin \in Nat /\ origin = cur'
  BY <1>3, <1>5, ScanConstants DEF Shaped, TypeOK
<1>7. RefTerm(conds[1][1], origin)
  <2>1. (IF origin = -1 THEN 0 ELSE origin) + 0 = origin
    <3>1. PICK o \in Nat : o = origin
      BY <1>6
    <3>2. (IF o = -1 THEN 0 ELSE o) + 0 = o
      OBVIOUS
    <3>3. QED
      BY <3>1, <3>2
  <2>2. conds[1][1].type = "skip" /\ conds[1][1].to_skip = 0
    BY <1>2 DEF IsSkip
  <2>3. PICK u : u = conds[1][1]
    OBVIOUS
  <2>4. RefTerm(u, origin)
    BY <2>1, <2>2, <2>3 DEF RefTerm
  <2>5. QED
    BY <2>3, <2>4
<1>8. RefConds(origin) = {1}
  <2>1. \A j \in 1 .. Len(conds[1]) : RefTerm(conds[1][j], origin)
    BY <1>2, <1>7
  <2>2. RefConds(origin) = { i \in 1 .. 1 : conds[i] # <<>>
                             /\ \A j \in 1 .. Len(conds[i]) : RefTerm(conds[i][j], origin) }
    BY <1>2, Listed, RefCondsIs DEF Shaped
  <2>3. \A i \in 1 .. 1 : i = 1
    OBVIOUS
  <2>4. QED
    BY <1>2, <2>1, <2>2, <2>3
<1>9. RefConds(cur)' = {1}
  <2>1. RefConds(cur)' = RefConds(origin)
    BY <1>1, <1>6 DEF RefConds, RefTerm, Before
  <2>2. QED
    BY <1>8, <2>1
<1>10. at_cond' > Len(conds')
  BY <1>1, <1>2, <1>5
<1>11. QED
  BY <1>1, <1>3, <1>5, <1>6, <1>9, <1>10 DEF Rewound

\* Nothing else can happen to it in the chunk.
LEMMA RewindOnly ==
  ASSUME Shaped, Rewinding
  PROVE  ~PassOver /\ ~TermFails /\ ~ScanMatch /\ ~ScanMiss
<1>1. /\ Len(conds) = 1 /\ Len(conds[1]) = 1 /\ IsSkip(conds[1][1])
      /\ conds[1][1].to_skip = 0 /\ conds[1] # <<>> /\ conds[1][1].already = 0
      /\ at_cond = 1
  BY ZeroIsFirst DEF Shaped, Rewinding
<1>2. at_cond <= Len(conds) /\ conds[at_cond] # <<>>
  BY <1>1
<1>3. at_term = 1
  BY <1>1, <1>2, AtTerm, Alone
<1>4. TermHolds(conds[at_cond][at_term])
  BY <1>1, <1>3 DEF TermHolds, IsSkip
<1>5. QED
  BY <1>1, <1>2, <1>4 DEF PassOver, TermFails, ScanMatch, ScanMiss

\* find_match() starts with the sample after the match.
LEMMA EnterTracks ==
  ASSUME Shaped, Shaped', OnTrack, Enter
  PROVE  ~first_pos' /\ (Rewinding \/ Searching)'
<1>0. /\ capture' = capture /\ initial' = initial /\ lo' = lo /\ hi' = hi
      /\ constant' = constant /\ sends_const' = sends_const
      /\ at_cond' = 1 /\ at_term' = 1 /\ all_skip_allow' /\ ~first_pos'
      /\ pc = "enter" /\ pc' = "scan" /\ origin' = origin /\ match_array' = {}
      /\ cur_matched' = cur_matched
      /\ \E i \in DOMAIN conds : conds[i] # <<>>
      /\ old_pins' = IF first_pos THEN InitialPinsAt(cur) ELSE old_pins
  BY DEF Enter, Shaped, Place, fixed, chunk, place
<1>1. /\ SameTerms(conds, conds')
      /\ \A i \in 1 .. Len(conds) : \A j \in 1 .. Len(conds[i]) :
              IsSkip(conds[i][j]) /\ cur_matched =>
                conds'[i][j].already = IF conds[i][j].to_skip > 0 THEN 1 ELSE 0
  BY EnterShaped
<1>2. /\ conds \in Seq(Seq(AnyTerm)) /\ conds' \in Seq(Seq(AnyTerm)) /\ Len(conds) \in Nat
      /\ \A i \in 1 .. Len(conds) : conds[i] \in Seq(AnyTerm) /\ Len(conds[i]) \in Nat
      /\ cur \in Nat /\ hi \in Nat /\ lo \in Nat /\ lo < hi /\ origin \in Int
  <2>1. conds' \in Seq(Seq(AnyTerm))
    BY DEF Shaped, TypeOK
  <2>2. cur \in Nat /\ hi \in Nat /\ lo \in Nat /\ lo < hi /\ origin \in Int
    BY <1>0, ScanConstants DEF Shaped, TypeOK, Borders
  <2>3. QED
    BY <2>1, <2>2, Listed DEF Shaped
<1>3. \E i \in 1 .. Len(conds') : conds'[i] # <<>>
  <2>1. PICK i \in 1 .. Len(conds) : conds[i] # <<>>
    BY <1>0, <1>2
  <2>2. conds'[i] \in Seq(AnyTerm) /\ Len(conds'[i]) = Len(conds[i]) /\ Len(conds') = Len(conds)
    BY <1>1, <1>2 DEF SameTerms
  <2>3. conds'[i] # <<>>
    BY <1>2, <2>1, <2>2
  <2>4. QED
    BY <2>2, <2>3
<1>4. Decided'
  BY <1>0 DEF Decided
<1>5. \A n : RefConds(n)' = RefConds(n)
  BY <1>0, <1>1, <1>2, RefSame
<1>6. CASE first_pos
  <2>1. /\ cur = 0 /\ lo = 0 /\ origin = -1 /\ ~cur_matched /\ old_pins = initial
        /\ NewlyWritten(conds)
    BY <1>6 DEF OnTrack, Fresh
  <2>2. cur' = 0 /\ conds' = conds
    BY <2>1 DEF Enter
  <2>3. OldPinsAt(0) = [c \in Channels |-> capture[c][0]]
    BY <1>0, <1>2, <2>1, SampleIsRight
  <2>4. \A c \in Channels : old_pins'[c] = Before(c, cur)'
    BY <1>0, <1>6, <2>1, <2>2, <2>3 DEF InitialPinsAt, Before
  <2>5. NoneBefore(cur)'
    BY <1>0, <2>1, <2>2 DEF NoneBefore
  <2>6. Counters'
    <3>1. cur' - Base' = 0
      BY <1>0, <2>1, <2>2 DEF Base
    <3>2. \A i \in 1 .. Len(conds) : ~(i < at_cond')
      BY <1>0
    <3>3. \A i \in 1 .. Len(conds) : \A j \in 1 .. Len(conds[i]) : conds[i][j].already = 0
      BY <2>1 DEF NewlyWritten
    <3>4. QED
      BY <2>2, <3>1, <3>2, <3>3 DEF Counters
  <2>7. Searching'
    BY <1>0, <1>3, <1>4, <2>1, <2>2, <2>4, <2>5, <2>6 DEF Searching, Used
  <2>8. QED
    BY <1>0, <2>7
<1>7. CASE ~first_pos /\ Searching
  <2>1. ~cur_matched /\ cur' = cur /\ conds' = conds
    BY <1>0, <1>7 DEF Searching, Enter
  <2>2. \A c \in Used' : old_pins'[c] = Before(c, cur)'
    BY <1>0, <1>7, <2>1 DEF Searching, Used, Before
  <2>3. NoneBefore(cur)'
    BY <1>0, <1>5, <1>7, <2>1 DEF Searching, NoneBefore
  <2>4. Counters'
    <3>1. at_cond = 1 /\ Base' = Base
      BY <1>0 DEF Shaped, Place, Base
    <3>2. QED
      BY <1>0, <1>7, <2>1, <3>1 DEF Searching, Counters
  <2>5. lo' <= cur' /\ origin' < cur'
    BY <1>0, <1>7, <2>1 DEF Searching
  <2>6. Searching'
    BY <1>0, <1>3, <1>4, <2>1, <2>2, <2>3, <2>4, <2>5 DEF Searching
  <2>7. QED
    BY <1>0, <2>6
<1>8. CASE ~first_pos /\ Returned
  <2>1. /\ cur_matched /\ origin = cur /\ lo <= cur /\ cur' = cur + 1
        /\ \A c \in Channels : old_pins[c] = capture[c][cur]
    BY <1>8 DEF Returned, Enter
  <2>2. origin' = cur' - 1 /\ lo' <= origin' /\ origin' < cur' /\ lo' <= cur'
    BY <1>0, <1>2, <2>1
  <2>3. CASE ZeroSkip
    <3>1. /\ Len(conds) = 1 /\ Len(conds[1]) = 1 /\ IsSkip(conds[1][1])
          /\ conds[1][1].to_skip = 0
      BY <2>3, ZeroIsFirst DEF Shaped
    <3>2. /\ Len(conds') = 1 /\ Len(conds'[1]) = 1 /\ IsSkip(conds'[1][1])
          /\ conds'[1][1].to_skip = 0
      BY <1>1, <3>1 DEF SameTerms, IsSkip
    <3>3. ZeroSkip'
      <4>1. PICK ds : ds = conds'
        OBVIOUS
      <4>2. 1 \in 1 .. Len(ds) /\ 1 \in 1 .. Len(ds[1])
            /\ IsSkip(ds[1][1]) /\ ds[1][1].to_skip = 0
        BY <3>2, <4>1
      <4>3. \E i \in 1 .. Len(ds) : \E j \in 1 .. Len(ds[i]) :
               IsSkip(ds[i][j]) /\ ds[i][j].to_skip = 0
        BY <4>2
      <4>4. QED
        BY <4>1, <4>3 DEF ZeroSkip
    <3>4. Rewinding'
      BY <1>0, <2>1, <2>2, <3>3 DEF Rewinding
    <3>5. QED
      BY <1>0, <3>4
  <2>4. CASE ~ZeroSkip
    <3>1. \A i \in 1 .. Len(conds) : \A j \in 1 .. Len(conds[i]) :
             IsSkip(conds[i][j]) => conds[i][j].to_skip > 0
      <4>1. \A i \in 1 .. Len(conds) : \A j \in 1 .. Len(conds[i]) :
               conds[i][j] \in AnyTerm
        BY <1>2
      <4>2. \A i \in 1 .. Len(conds) : \A j \in 1 .. Len(conds[i]) :
               IsSkip(conds[i][j]) => conds[i][j].to_skip # 0 /\ conds[i][j].to_skip \in Nat
        BY <2>4, <4>1, TermNats DEF ZeroSkip
      <4>3. QED
        BY <4>2
    <3>2. ~ZeroSkip'
      <4>1. PICK ds : ds = conds'
        OBVIOUS
      <4>2. \A i \in 1 .. Len(ds) : \A j \in 1 .. Len(ds[i]) :
               IsSkip(ds[i][j]) => ds[i][j].to_skip # 0
        BY <1>1, <3>1, <4>1 DEF SameTerms, IsSkip
      <4>3. QED
        BY <4>1, <4>2 DEF ZeroSkip
    <3>3. \A c \in Used' : old_pins'[c] = Before(c, cur)'
      <4>1. cur' > 0 /\ cur' - 1 = cur
        BY <1>2, <2>1
      <4>2. QED
        BY <1>0, <1>8, <2>1, <4>1 DEF Used, Before
    <3>4. RefConds(cur) = {}
      <4>1. SUFFICES ASSUME NEW i \in RefConds(cur) PROVE FALSE
        OBVIOUS
      <4>2. /\ i \in 1 .. Len(conds) /\ conds[i] # <<>>
            /\ \A j \in 1 .. Len(conds[i]) : RefTerm(conds[i][j], cur)
        BY <1>2, RefCondsIs
      <4>3. 1 \in 1 .. Len(conds[i])
        BY <1>2, <4>2
      <4>4. RefTerm(conds[i][1], cur)
        BY <4>2, <4>3
      <4>5. CASE IsSkip(conds[i][1])
        <5>1. conds[i][1].to_skip > 0 /\ conds[i][1] \in AnyTerm
          BY <1>2, <3>1, <4>2, <4>3, <4>5
        <5>2. conds[i][1].to_skip \in Nat
          BY <5>1, TermNats
        <5>3. cur = origin + conds[i][1].to_skip
          BY <1>2, <2>1, <4>4, <4>5 DEF RefTerm, IsSkip
        <5>4. PICK k : k = conds[i][1].to_skip
          OBVIOUS
        <5>5. k \in Nat /\ k > 0 /\ cur = cur + k /\ cur \in Nat
          BY <1>2, <2>1, <5>1, <5>2, <5>3, <5>4
        <5>6. QED
          BY <5>5
      <4>6. CASE ~IsSkip(conds[i][1])
        BY <1>2, <2>1, <4>4, <4>6 DEF RefTerm, IsSkip
      <4>7. QED
        BY <4>5, <4>6
    <3>5. NoneBefore(cur)'
      <4>1. \A m \in cur .. cur' - 1 : m = cur
        BY <1>2, <2>1
      <4>2. (IF origin' = -1 THEN 0 ELSE origin') = cur
        BY <1>0, <1>2, <2>1
      <4>3. QED
        BY <1>5, <3>4, <4>1, <4>2 DEF NoneBefore
    <3>6. Counters'
      <4>1. Base' = cur /\ cur' - Base' = 1
        BY <1>0, <1>2, <2>1 DEF Base
      <4>2. \A i \in 1 .. Len(conds) : ~(i < at_cond')
        BY <1>0
      <4>3. PICK ds : ds = conds'
        OBVIOUS
      <4>4. \A i \in 1 .. Len(ds) : \A j \in 1 .. Len(ds[i]) :
               IsSkip(ds[i][j]) => ds[i][j].already = 1 /\ ~(i < at_cond')
        <5> SUFFICES ASSUME NEW i \in 1 .. Len(ds), NEW j \in 1 .. Len(ds[i]), IsSkip(ds[i][j])
                     PROVE  ds[i][j].already = 1 /\ ~(i < at_cond')
          OBVIOUS
        <5>1. i \in 1 .. Len(conds) /\ j \in 1 .. Len(conds[i])
          BY <1>1, <4>3 DEF SameTerms
        <5>2. IsSkip(conds[i][j])
          BY <1>1, <4>3, <5>1 DEF SameTerms, IsSkip
        <5>3. ds[i][j].already = IF conds[i][j].to_skip > 0 THEN 1 ELSE 0
          BY <1>1, <2>1, <4>3, <5>1, <5>2
        <5>4. conds[i][j].to_skip > 0
          BY <3>1, <5>1, <5>2
        <5>5. QED
          BY <4>2, <5>1, <5>3, <5>4
      <4>5. QED
        BY <4>1, <4>3, <4>4 DEF Counters
    <3>7. Searching'
      BY <1>0, <1>3, <1>4, <2>2, <3>2, <3>3, <3>5, <3>6 DEF Searching
    <3>8. QED
      BY <1>0, <3>7
  <2>5. QED
    BY <2>3, <2>4
<1>9. ~Rewinding /\ ~Rewound
  BY <1>0 DEF Rewinding, Rewound
<1>10. QED
  BY <1>6, <1>7, <1>8, <1>9 DEF OnTrack

\* A new wait starts from where the last one was left.
LEMMA NewWaitTracks ==
  ASSUME Shaped, OnTrack, pc = "decode", pc' = "enter",
         UNCHANGED <<fixed, chunk, cur, cur_matched, first_pos, skip_zero,
                     old_pins, match_array, all_skip_allow, place, pins, origin, upset>>,
         ~cur_matched /\ NewlyWritten(conds) => NewlyWritten(conds')
  PROVE  OnTrack'
<1>1. /\ capture' = capture /\ initial' = initial /\ lo' = lo
  BY DEF fixed, chunk
<1>2. CASE first_pos
  <2>1. Fresh
    BY <1>2 DEF OnTrack
  <2>2. Fresh'
    BY <1>1, <2>1 DEF Fresh
  <2>3. QED
    BY <1>2, <2>2 DEF OnTrack
<1>3. CASE ~first_pos
  <2>1. Returned
    BY <1>3 DEF OnTrack, Rewinding, Rewound, Searching
  <2>2. Returned'
    BY <1>1, <2>1 DEF Returned
  <2>3. QED
    BY <1>3, <2>2 DEF OnTrack
<1>4. QED
  BY <1>2, <1>3

\* A match without a condition leaves everything where it was, unless the C
\* library forgets that sample 0 has not been looked at.
LEMMA AutoMatchTracks ==
  ASSUME Shaped, OnTrack, AutoMatch
  PROVE  (upset \/ OnTrack)'
<1>1. /\ capture' = capture /\ initial' = initial /\ lo' = lo /\ cur' = cur
      /\ cur_matched' = cur_matched /\ origin' = origin /\ old_pins' = old_pins
      /\ conds' = conds /\ pc = "enter" /\ pc' = "decode"
      /\ first_pos' = (IF language = "c" THEN FALSE ELSE first_pos)
      /\ upset' = (upset \/ (first_pos /\ language = "c"))
  BY DEF AutoMatch, Upset, fixed, chunk
<1>2. CASE first_pos
  <2>1. Fresh
    BY <1>2 DEF OnTrack
  <2>2. Fresh'
    BY <1>1, <2>1 DEF Fresh
  <2>3. QED
    BY <1>1, <1>2, <2>2 DEF OnTrack
<1>3. CASE ~first_pos
  <2>1. ~Searching
    <3>1. \A i \in DOMAIN conds : conds[i] = <<>>
      BY DEF AutoMatch
    <3>2. DOMAIN conds = 1 .. Len(conds)
      BY Listed DEF Shaped
    <3>3. QED
      BY <3>1, <3>2 DEF Searching
  <2>2. Returned
    BY <1>1, <1>3, <2>1 DEF OnTrack, Rewinding, Rewound
  <2>3. Returned'
    BY <1>1, <2>2 DEF Returned
  <2>4. ~first_pos'
    BY <1>1, <1>3
  <2>5. QED
    BY <2>3, <2>4 DEF OnTrack
<1>4. QED
  BY <1>2, <1>3

\* The reference reads the capture, the wait and where it began, nothing else.
LEMMA RefUntouched ==
  ASSUME conds' = conds, capture' = capture, initial' = initial, origin' = origin, NEW n
  PROVE  RefConds(n)' = RefConds(n)
<1>1. \A t : RefTerm(t, n)' <=> RefTerm(t, n)
  BY DEF RefTerm, RefLevel, Before
<1>2. QED
  BY <1>1 DEF RefConds

\* A chunk is handed back while a search goes on, or directly after a match.
LEMMA HandBackTracks ==
  ASSUME Shaped, OnTrack, HandBack
  PROVE  (upset \/ OnTrack)'
<1>1. /\ capture' = capture /\ initial' = initial /\ lo' = lo /\ cur' = cur /\ hi' = hi
      /\ cur_matched' = cur_matched /\ origin' = origin /\ old_pins' = old_pins
      /\ conds' = conds /\ pc = "scan" /\ pc' = "handed" /\ first_pos' = first_pos
      /\ at_cond' = at_cond /\ upset' = (upset \/ cur_matched) /\ cur >= hi
  BY DEF HandBack, Upset, fixed, chunk, place
<1>2. ~first_pos /\ ~Returned
  BY <1>1 DEF OnTrack, Fresh, Returned
<1>3. CASE cur_matched
  BY <1>1, <1>3
<1>4. CASE ~cur_matched
  <2>1. Searching
    BY <1>2, <1>4 DEF OnTrack, Rewinding, Rewound
  <2>2. NoneBefore(cur)' /\ Counters'
    <3>1. \A m : RefConds(m)' = RefConds(m)
      BY <1>1, RefUntouched
    <3>2. NoneBefore(cur)'
      BY <1>1, <2>1, <3>1 DEF Searching, NoneBefore
    <3>3. Base' = Base
      BY <1>1 DEF Base
    <3>4. Counters
      BY <2>1 DEF Searching
    <3>5. Counters'
      BY <1>1, <3>3, <3>4 DEF Counters
    <3>6. QED
      BY <3>2, <3>5
  <2>3. \A c \in Used' : old_pins'[c] = Before(c, cur)'
    BY <1>1, <2>1 DEF Searching, Used, Before
  <2>4. Searching'
    BY <1>1, <1>4, <2>1, <2>2, <2>3 DEF Searching
  <2>5. QED
    BY <1>1, <1>2, <2>4 DEF OnTrack
<1>5. QED
  BY <1>3, <1>4

\* The next chunk begins where the search was interrupted.
LEMMA ChunkTracks ==
  ASSUME Shaped, OnTrack, NEW n, NEW cs, Chunk(n, cs)
  PROVE  OnTrack'
<1>1. /\ capture' = capture /\ initial' = initial /\ lo' = hi /\ cur' = cur
      /\ cur_matched' = cur_matched /\ origin' = origin /\ old_pins' = old_pins
      /\ conds' = conds /\ first_pos' = first_pos /\ at_cond' = at_cond
      /\ pc \in {"idle", "handed"} /\ cur = hi
      /\ pc' = IF pc = "idle" THEN "decode" ELSE "enter"
  BY DEF Chunk, fixed, place
<1>2. CASE first_pos
  <2>1. Fresh
    BY <1>2 DEF OnTrack
  <2>2. Fresh'
    BY <1>1, <2>1 DEF Fresh
  <2>3. QED
    BY <1>1, <1>2, <2>2 DEF OnTrack
<1>3. CASE ~first_pos
  <2>1. Searching /\ pc = "handed"
    BY <1>1, <1>3 DEF OnTrack, Returned, Rewinding, Rewound, Searching
  <2>2. NoneBefore(cur)' /\ Counters'
    <3>1. \A m : RefConds(m)' = RefConds(m)
      BY <1>1, RefUntouched
    <3>2. NoneBefore(cur)'
      BY <1>1, <2>1, <3>1 DEF Searching, NoneBefore
    <3>3. Base' = Base
      BY <1>1 DEF Base
    <3>4. Counters
      BY <2>1 DEF Searching
    <3>5. Counters'
      BY <1>1, <3>3, <3>4 DEF Counters
    <3>6. QED
      BY <3>2, <3>5
  <2>3. \A c \in Used' : old_pins'[c] = Before(c, cur)'
    BY <1>1, <2>1 DEF Searching, Used, Before
  <2>4. lo' <= cur' /\ pc' = "enter" /\ ~cur_matched'
    BY <1>1, <2>1, ScanConstants DEF Shaped, TypeOK, Searching
  <2>5. Searching'
    BY <1>1, <2>1, <2>2, <2>3, <2>4 DEF Searching
  <2>6. QED
    BY <1>1, <1>3, <2>5 DEF OnTrack
<1>4. QED
  BY <1>2, <1>3

\* The steps inside a pass: the scanner is searching or finding a skip of zero.
LEMMA PassTracks ==
  ASSUME Shaped, Shaped', OnTrack,
         PassOver \/ TermMatches \/ TermFails \/ ScanMatch \/ ScanMiss
  PROVE  OnTrack' /\ (ScanMatch => AgreesWithReference)
<1>1. pc = "scan" /\ cur < hi /\ first_pos' = first_pos
  BY DEF PassOver, TermMatches, TermFails, ScanMatch, ScanMiss, InPass
<1>2. ~first_pos /\ (Searching \/ Rewinding \/ Rewound)
  BY <1>1 DEF OnTrack, Fresh, Returned
<1>3. ~first_pos'
  BY <1>1, <1>2
<1>4. CASE ScanMatch
  <2>1. ~Rewinding
    BY <1>4, RewindOnly
  <2>2. QED
    BY <1>2, <1>3, <1>4, <2>1, MatchTracks DEF OnTrack
<1>5. CASE ~ScanMatch
  <2>1. CASE Searching
    BY <1>3, <1>5, <2>1, PassOverTracks, TermMatchesTracks, TermFailsTracks, MissTracks
       DEF OnTrack
  <2>2. CASE Rewinding
    BY <1>3, <1>5, <2>2, RewindOnly, RewindTracks DEF OnTrack
  <2>3. CASE Rewound
    <3>1. ~(at_cond <= Len(conds)) /\ match_array # {}
      BY <2>3, Listed DEF Rewound, Shaped
    <3>2. QED
      BY <1>5, <3>1 DEF PassOver, TermMatches, TermFails, ScanMiss
  <2>4. QED
    BY <1>2, <2>1, <2>2, <2>3
<1>6. QED
  BY <1>4, <1>5

-----------------------------------------------------------------------------
(* The theorems.                                                           *)

\* Every step keeps the invariant.
LEMMA InvStep ==
  ASSUME WaitsAreSound, Inv, [Next]_vars
  PROVE  Inv'
<1>1. Shaped /\ Shaped'
  BY ShapedStep DEF Inv
<1>2. upset => upset'
  BY DEF Next, Wait, WaitAgain, WaitAny, AutoMatch, Enter, PassOver, TermMatches,
     TermFails, ScanMatch, ScanMiss, HandBack, Chunk, Done, vars
<1>3. SUFFICES ASSUME ~upset PROVE (upset \/ OnTrack)'
  BY <1>1, <1>2 DEF Inv
<1>4. OnTrack
  BY <1>3 DEF Inv
<1>5. ASSUME NEW w \in Waits(sends_const), Wait(w) PROVE OnTrack'
  <2>1. ~cur_matched => NewlyWritten(conds')
    BY <1>1, <1>5, WaitShaped
  <2>2. QED
    BY <1>1, <1>4, <1>5, <2>1, NewWaitTracks DEF Wait
<1>6. CASE WaitAgain
  BY <1>1, <1>4, <1>6, NewWaitTracks DEF WaitAgain
<1>7. CASE WaitAny
  <2>1. ~cur_matched => NewlyWritten(conds')
    BY <1>1, <1>7, WaitAnyShaped
  <2>2. QED
    BY <1>1, <1>4, <1>7, <2>1, NewWaitTracks DEF WaitAny
<1>8. CASE AutoMatch
  BY <1>1, <1>4, <1>8, AutoMatchTracks
<1>9. CASE Enter
  BY <1>1, <1>4, <1>9, EnterTracks DEF OnTrack
<1>10. CASE PassOver \/ TermMatches \/ TermFails \/ ScanMatch \/ ScanMiss
  BY <1>1, <1>4, <1>10, PassTracks
<1>11. CASE HandBack
  BY <1>1, <1>4, <1>11, HandBackTracks
<1>12. ASSUME NEW n \in ChunkSizes,
              NEW cs \in IF sends_const THEN SUBSET Channels ELSE {{}}, Chunk(n, cs)
       PROVE  OnTrack'
  BY <1>1, <1>4, <1>12, ChunkTracks
<1>13. CASE UNCHANGED vars
  <2>1. OnTrack'
    BY <1>4, <1>13 DEF OnTrack, Fresh, Returned, Rewinding, Rewound, Searching, Counters,
       Decided, NoneBefore, RefConds, RefTerm, Before, Used, ZeroSkip, Base,
       vars, fixed, chunk, place
  <2>2. QED
    BY <2>1
<1>14. QED
  BY <1>5, <1>6, <1>7, <1>8, <1>9, <1>10, <1>11, <1>12, <1>13 DEF Next, Done

\* The inductive invariant holds in every state.
LEMMA InvInvariant ==
  ASSUME WaitsAreSound
  PROVE  Spec => []Inv
<1>1. Init => Inv
  <2> SUFFICES ASSUME Init PROVE Inv
    OBVIOUS
  <2>1. Fresh /\ first_pos
    BY DEF Init, Fresh, NewlyWritten
  <2>2. QED
    BY <2>1, ShapedInit DEF Inv, OnTrack
<1>2. Inv /\ [Next]_vars => Inv'
  BY InvStep
<1>3. QED
  BY <1>1, <1>2, PTL DEF Spec

\* The type invariant of the scanner, for every capture and chunking: counters
\* stay within their goals and the scanner within the samples.
THEOREM TypeCorrect ==
  ASSUME WaitsAreSound
  PROVE  Spec => []TypeOK
<1>1. Inv => TypeOK
  BY DEF Inv, Shaped
<1>2. QED
  BY <1>1, InvInvariant, PTL

\* find_match() hands a chunk back only when no sample of it was due, for every
\* capture, every cut into chunks and every well-formed wait: the search goes
\* on in the next chunk as if there were no border.
THEOREM NothingMissed ==
  ASSUME WaitsAreSound
  PROVE  Spec => []NothingMissedInside
<1>1. Inv => NothingMissedInside
  <2> SUFFICES ASSUME Inv, pc = "handed", ~upset PROVE NoneBefore(hi)
    BY DEF NothingMissedInside
  <2>1. Searching
    BY DEF Inv, OnTrack, Fresh, Returned, Rewinding, Rewound
  <2>2. cur = hi
    BY DEF Inv, Shaped, Position
  <2>3. NoneBefore(cur)
    BY <2>1 DEF Searching
  <2>4. QED
    BY <2>2, <2>3
<1>2. QED
  BY <1>1, InvInvariant, PTL

\* wait() returns the first sample after the previous match that satisfies a
\* condition, with exactly the conditions that hold there and the pins of that
\* sample, for every capture, chunking and sequence of well-formed waits.
THEOREM MatchIsFirstProved ==
  ASSUME WaitsAreSound
  PROVE  Spec => MatchIsFirstInside
<1>1. Inv /\ [Next]_vars => [Matches /\ ~upset => AgreesWithReference]_vars
  <2> SUFFICES ASSUME Inv, Next, Matches, ~upset PROVE AgreesWithReference
    OBVIOUS
  <2>1. ScanMatch
    BY DEF Matches, Next, Wait, WaitAgain, WaitAny, AutoMatch, Enter, PassOver,
       TermMatches, TermFails, ScanMiss, HandBack, Chunk, Done, vars
  <2>2. Shaped /\ Shaped' /\ OnTrack
    BY ShapedStep DEF Inv
  <2>3. QED
    BY <2>1, <2>2, PassTracks
<1>2. QED
  BY <1>1, InvInvariant, PTL DEF Spec, MatchIsFirstInside
=============================================================================
