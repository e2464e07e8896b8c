------------------------------ MODULE Captures ------------------------------
(***************************************************************************)
(* One decoder on a capture.  A decoder is a pure function of its state    *)
(* and of what the next return of c_wait() finds on its channels (or, for  *)
(* a stacked decoder, the next packet): ResetOf(d) is the state after      *)
(* reset() and start(), StepOf(d, s, e) the state after the event e.       *)
(*                                                                         *)
(* The capture begins anywhere.  It holds noise, correct frames, frames    *)
(* that are cut off and frames with a wrong event in them, and the line    *)
(* may be idle in between.  frame is the number of the frame that is sent  *)
(* (0: none) and sent the number of its events so far; clean says that the *)
(* decoder was at rest when it began and that nothing went wrong since.    *)
(* quiet is the number of idle events up to here.                          *)
(***************************************************************************)
EXTENDS Wires

(***************************************************************************)
(* A case: the idle line, after how many idle events the decoder must be   *)
(* at rest (0: it waits for ever), the events of noise and correct frames  *)
(* with what is to be reported for each.                                   *)
(***************************************************************************)
Case(line, limit, noise, list) == [idle |-> line, quiet |-> limit, events |-> noise, frames |-> list]
Frame(list, shown) == [events |-> list, shows |-> shown]

\* The empty sequence makes TLC compute the others once.
BitsOf(n, width) == [i \in 1 .. width |-> (n \div 2^(width - i)) % 2] \o <<>>
BitsLsb(n, width) == [i \in 1 .. width |-> (n \div 2^(i - 1)) % 2] \o <<>>
Ones(n) == [i \in 1 .. n |-> 1] \o <<>>
Times(n, x) == [i \in 1 .. n |-> x] \o <<>>
RECURSIVE BitsFrom(_, _, _)
BitsFrom(xs, i, width) == IF i > Len(xs) THEN <<>> ELSE BitsOf(xs[i], width) \o BitsFrom(xs, i + 1, width)
BytesMsb(xs) == BitsFrom(xs, 1, 8)

CONSTANTS
    Decoders,         \* the decoders that are looked at
    ResetOf(_),       \* their states after reset() and start()
    StepOf(_, _, _),  \* what they make of an event
    AtRestIn(_, _),   \* states in which a frame is expected to begin
    CaseOf(_),        \* captures for each decoder: see Case
    NoiseOf(_),       \* bound: events that belong to no frame
    FramesPerRun(_)   \* bound: frames, each of them whole or not

VARIABLES dec, s, frame, sent, clean, quiet, budget

vars == <<dec, s, frame, sent, clean, quiet, budget>>

Init ==
    /\ dec \in Decoders
    /\ s = ResetOf(dec)
    /\ frame = 0 /\ sent = 0 /\ clean = FALSE
    /\ quiet = 0
    /\ budget = [noise |-> NoiseOf(dec), frames |-> FramesPerRun(dec)]

Events == CaseOf(dec).frames[frame].events      \* of the frame that is sent
Sending == frame # 0 /\ sent < Len(Events)

\* Anything, while no frame is sent.
Noise(e) ==
    /\ ~Sending /\ budget.noise > 0 /\ e \in CaseOf(dec).events \ {CaseOf(dec).idle}
    /\ budget' = [budget EXCEPT !.noise = @ - 1]
    /\ frame' = 0 /\ sent' = 0 /\ clean' = FALSE /\ quiet' = 0

Idle(e) ==
    /\ ~Sending /\ e = CaseOf(dec).idle /\ quiet < CaseOf(dec).quiet
    /\ quiet' = quiet + 1
    /\ frame' = 0 /\ sent' = 0 /\ clean' = FALSE
    /\ UNCHANGED budget

Begin(f, e) ==
    /\ ~Sending /\ e = CaseOf(dec).frames[f].events[1] /\ budget.frames > 0
    /\ frame' = f /\ sent' = 1
    /\ clean' = AtRestIn(dec, s) /\ quiet' = 0
    /\ budget' = [budget EXCEPT !.frames = @ - 1]

Send(e) ==
    /\ Sending /\ e = Events[sent + 1]
    /\ sent' = sent + 1
    /\ UNCHANGED <<frame, clean, quiet, budget>>

\* One event of the frame is another one.
Disturb(e) ==
    /\ Sending /\ budget.noise > 0 /\ e \in CaseOf(dec).events \ {Events[sent + 1]}
    /\ sent' = sent + 1
    /\ clean' = FALSE
    /\ budget' = [budget EXCEPT !.noise = @ - 1]
    /\ UNCHANGED <<frame, quiet>>

\* The rest of the frame is never sent.
Cut ==
    /\ Sending /\ budget.noise > 0
    /\ frame' = 0 /\ sent' = 0 /\ clean' = FALSE
    /\ budget' = [budget EXCEPT !.noise = @ - 1]
    /\ UNCHANGED <<dec, s, quiet>>

\* What may be on the line now.
Possible ==
    CaseOf(dec).events
    \cup (IF Sending THEN {Events[sent + 1]}
          ELSE {CaseOf(dec).idle} \cup {CaseOf(dec).frames[f].events[1] : f \in DOMAIN CaseOf(dec).frames})

\* The decoder sees the event e; what it reports is kept while one frame is sent.
Hear(e) ==
    /\ \/ Noise(e) \/ Idle(e) \/ Send(e) \/ Disturb(e)
       \/ \E f \in DOMAIN CaseOf(dec).frames : Begin(f, e)
    /\ s' = StepOf(dec, IF Sending THEN s ELSE [s EXCEPT !.rep = <<>>], e)
    /\ UNCHANGED dec

Next == (\E e \in Possible : Hear(e)) \/ Cut

Spec == Init /\ [][Next]_vars

(***************************************************************************)
(* Properties                                                              *)
(***************************************************************************)
\* A correct frame that begins while the decoder is at rest is reported with
\* exactly the values that were sent, whatever the decoder saw before.
FrameReported == clean /\ ~Sending => s.rep = CaseOf(dec).frames[frame].shows

\* After an idle line every decoder that gives up waiting is at rest again.
Resynchronized == quiet > 0 /\ quiet = CaseOf(dec).quiet => AtRestIn(dec, s)
=============================================================================
