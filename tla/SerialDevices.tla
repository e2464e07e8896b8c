--------------------------- MODULE SerialDevices ---------------------------
(***************************************************************************)
(* One decoder stacked on the UART decoder.  A line goes through the parts *)
(* of a character (start bit, data bits, stop bit), and the packets of two *)
(* lines are interleaved; c_proto() hands each to the stacked decoder      *)
(* before it returns.  A character may follow after a gap, its stop bit    *)
(* may be wrong, the line may be held low (BREAK) or be idle (IDLE).       *)
(*                                                                         *)
(* What a line sends is noise, or a correct frame: todo is the rest of it, *)
(* clean says that the decoder was at rest when it began and nothing went  *)
(* wrong since.  The variable hist holds the bytes of a stream since the   *)
(* reset: a line, or both where the decoder does not tell them apart.      *)
(* shown is how far the reports have come in it (-1: a report shows        *)
(* something else).                                                        *)
(***************************************************************************)
EXTENDS SerialTrace

CONSTANTS
    Uppers,       \* the decoders that are stacked
    LinesOf(_),   \* lines that are in use
    BytesOf(_),   \* bytes that are sent, for each of them
    NoiseOf(_),   \* bound: bytes that belong to no frame
    MaxFrames,    \* bound: frames, each of them whole or cut off
    FramesOf(_, _),  \* frames that the decoder must show on a line
    FaultsOf(_)   \* stop bits that are sent: TRUE for a good one

VARIABLES upper, s, line, todo, clean, budget, hist, shown, last

vars == <<upper, s, line, todo, clean, budget, hist, shown, last>>

ResetOf(u) ==
    CASE u = "modbus" -> modbus_reset       [] u = "midi" -> midi_reset
      [] u = "boost" -> boost_reset         [] u = "lin" -> lin_reset
      [] u = "j1708" -> j1708_reset         [] u = "scs" -> scs_reset
      [] u = "streletz" -> streletz_reset   [] u = "bluetooth_h4" -> bluetooth_h4_reset
      [] u = "pn532" -> pn532_reset         [] u = "ufcs" -> ufcs_reset
      [] u = "crsf" -> crsf_reset           [] u = "pan1321" -> pan1321_reset
      [] u = "arm_itm" -> arm_itm_reset     [] u = "arm_etmv3" -> arm_etmv3_reset
      [] u = "arm_tpiu" -> arm_tpiu_reset   [] u = "sbus" -> sbus_reset
      [] u = "amulet" -> amulet_reset

Recv(u, st, p) ==
    CASE u = "modbus" -> modbus_recv(st, p)       [] u = "midi" -> midi_recv(st, p)
      [] u = "boost" -> boost_recv(st, p)         [] u = "lin" -> lin_recv(st, p)
      [] u = "j1708" -> j1708_recv(st, p)         [] u = "scs" -> scs_recv(st, p)
      [] u = "streletz" -> streletz_recv(st, p)   [] u = "bluetooth_h4" -> bluetooth_h4_recv(st, p)
      [] u = "pn532" -> pn532_recv(st, p)         [] u = "ufcs" -> ufcs_recv(st, p)
      [] u = "crsf" -> crsf_recv(st, p)           [] u = "pan1321" -> pan1321_recv(st, p)
      [] u = "arm_itm" -> arm_itm_recv(st, p)     [] u = "arm_etmv3" -> arm_etmv3_recv(st, p)
      [] u = "arm_tpiu" -> arm_tpiu_recv(st, p)   [] u = "sbus" -> sbus_recv(st, p)
      [] u = "amulet" -> amulet_recv(st, p)

\* Decoders that keep the two lines apart.
PerLine == {"modbus", "boost", "bluetooth_h4", "pan1321", "streletz"}
\* Decoders with a limit for the idle time inside a packet.
Timed == {"modbus", "arm_itm", "arm_etmv3", "arm_tpiu"}

\* Decoders whose packets end with the last byte of a frame; the others wait
\* for a gap, a BREAK or bytes that only close the frame.
Chained == {"midi", "boost", "streletz", "bluetooth_h4", "ufcs", "crsf", "pan1321", "arm_itm",
            "arm_etmv3", "arm_tpiu", "amulet"}

Stream(l) == IF upper \in PerLine THEN l ELSE 0

\* The decoder expects the first byte of a frame on the stream.
AtRest(u, st, x) ==
    CASE u = "modbus" -> st.adu[x].data = <<>> /\ st.state = "bitlength"
      [] u = "boost" -> st.message[x] = <<>>
      [] u = "bluetooth_h4" -> st.line[x].state = "WAIT_PKT_TYPE"
      [] u = "pan1321" -> st.cmd[x] = <<>>
      [] u = "streletz" -> st.buf_pos = 0
      [] u = "scs" -> st.idx = 0
      [] u = "lin" -> st.state = "SYNC"
      [] u = "pn532" -> st.state = "START_FRAME" /\ st.start_frame = <<>>
      [] u = "ufcs" -> st.dataidx = 0
      [] u \in {"arm_itm", "arm_etmv3"} -> st.buf = <<>>
      [] u = "arm_tpiu" -> st.frame = <<>> /\ st.stream = 1 /\ \hFF \notin ToSet(st.syncbuf)
      [] u = "amulet" -> st.state = 0
      [] u = "midi" -> st.state = "IDLE"
      [] u = "crsf" -> st.state = "WAIT_SYNC"
      [] u = "sbus" -> st.num_bits = 0 /\ st.sent_fields = 0 /\ ~st.failed
      [] OTHER -> FALSE

\* Frames that begin with what the decoder recognizes in whatever state it
\* is: the start of a packet, or nothing but the synchronization pattern.
Synchronizes(u, frame) ==
    \/ u = "ufcs" /\ Head(frame) = \hAA
    \/ u = "arm_itm" /\ frame = arm_itm_sync
    \/ u = "arm_etmv3" /\ frame = arm_etmv3_sync

(***************************************************************************)
(* The lines                                                               *)
(***************************************************************************)
Nothing == [cmd |-> "", f |-> <<>>, gap |-> FALSE]

Init ==
    /\ upper \in Uppers
    /\ s = ResetOf(upper)
    /\ line = [l \in Lines |-> [phase |-> "idle", gap |-> FALSE, byte |-> 0]]
    /\ todo = [l \in Lines |-> <<>>]
    /\ clean = [l \in Lines |-> FALSE]
    /\ budget = [noise |-> NoiseOf(upper), frames |-> MaxFrames]
    /\ hist = [l \in Lines |-> <<>>]
    /\ shown = [l \in Lines |-> 0]
    /\ last = Nothing

\* A synchronization pattern is shown as a whole when its last byte is there.
IsPattern(report) == report.reg \in {"sync", "a_sync"} /\ Len(report.bytes) > 1

\* How far the reports have come when the bytes of one more are looked for: a
\* pattern ends with the last byte of the stream, other bytes follow those
\* that were shown before.
Place(h, pos, report) ==
    LET n == Len(report.bytes)
        from == IF IsPattern(report) THEN Len(h) - n ELSE pos
        places == {j \in from .. Len(h) - n : SubSeq(h, j + 1, j + n) = report.bytes}
    IN  IF pos = -1 \/ places = {} THEN -1 ELSE Min(places) + n

RECURSIVE Advance(_, _, _)
Advance(h, pos, reports) ==
    IF reports = <<>> THEN pos ELSE Advance(h, Place(h, pos, Head(reports)), Tail(reports))

RECURSIVE RecvAll(_, _, _)
RecvAll(u, st, packets) ==
    IF packets = <<>> THEN st ELSE RecvAll(u, Recv(u, st, Head(packets)), Tail(packets))

Deliver(l, packets) ==
    LET x == Stream(l) IN
    /\ last.cmd # "EOF"
    /\ s' = RecvAll(upper, [s EXCEPT !.rep = <<>>], packets)
    /\ shown' = [shown EXCEPT ![x] = Advance(hist'[x], @, s'.rep)]
    /\ last' = Last(packets)
    /\ UNCHANGED upper

\* Bytes of the line that the decoder looks at.
Record(l, b) ==
    hist' = IF upper = "j1708" /\ l = 1 THEN hist ELSE [hist EXCEPT ![Stream(l)] = Append(@, b)]

Packet(cmd, l) == [cmd |-> cmd, f |-> <<l>>, gap |-> FALSE]
Data(l, b, gap) == [cmd |-> "DATA", f |-> <<b, l>>, gap |-> gap]

\* uart_c sends the line first in its FRAME packets, uart_fast the byte.
EndPackets(l, b, ok) ==
    LET v == IF ok THEN 1 ELSE 0
        fields == IF upper = "streletz" THEN <<b, l, v>> ELSE <<l, b, v>>
    IN  (IF ok THEN <<>> ELSE <<Packet("INVALID STOPBIT", l)>>)
        \o <<Packet("STOPBIT", l), [cmd |-> "FRAME", f |-> fields, gap |-> FALSE]>>

\* A whole character, for decoders that do not look between its parts.
Character(l, b, gap, ok) ==
    /\ upper # "j1708"
    /\ line[l].phase \in {"idle", "low"}
    /\ line' = [line EXCEPT ![l].phase = IF ~ok /\ b = 0 THEN "low" ELSE "idle"]
    /\ Record(l, b)
    /\ Deliver(l, <<[Packet("STARTBIT", l) EXCEPT !.gap = gap], Data(l, b, gap)>> \o EndPackets(l, b, ok))

\* streletz takes a byte on one line for the end of a packet on the other.
Mark(l, value) == [k \in Lines |-> IF k = l THEN value ELSE clean[k] /\ upper # "streletz"]

\* Any byte, good or bad, while no frame is on its way.
Noise(l, b, gap, ok) ==
    /\ todo[l] = <<>> /\ budget.noise > 0
    /\ Character(l, b, gap, ok)
    /\ budget' = [budget EXCEPT !.noise = @ - 1]
    /\ clean' = Mark(l, FALSE)
    /\ UNCHANGED todo

\* A correct frame begins, after a gap or not; at rest is also a decoder that
\* has had nothing else since it was sent another correct frame.
Begin(l, frame, gap) ==
    /\ todo[l] = <<>> /\ budget.frames > 0
    /\ Character(l, Head(frame), gap, TRUE)
    /\ budget' = [budget EXCEPT !.frames = @ - 1]
    /\ todo' = [todo EXCEPT ![l] = Tail(frame)]
    /\ clean' = Mark(l, \/ AtRest(upper, s, Stream(l)) \/ (upper \in Timed /\ gap)
                        \/ Synchronizes(upper, frame)
                        \/ (upper \in Chained /\ clean[l]))

\* It goes on, with a gap or a wrong stop bit where there should be none.
Send(l, gap, ok) ==
    /\ todo[l] # <<>>
    /\ Character(l, Head(todo[l]), gap, ok)
    /\ todo' = [todo EXCEPT ![l] = Tail(@)]
    /\ clean' = Mark(l, clean[l] /\ ok /\ (upper \in Timed => ~gap))
    /\ UNCHANGED budget

\* The rest of it is never sent.
Cut(l) ==
    /\ todo[l] # <<>>
    /\ todo' = [todo EXCEPT ![l] = <<>>]
    /\ clean' = [clean EXCEPT ![l] = FALSE]
    /\ UNCHANGED <<upper, s, line, budget, hist, shown, last>>

\* The parts of a character, with those of the other line in between.
StartBit(l, gap) ==
    /\ upper = "j1708" /\ line[l].phase \in {"idle", "low"}
    /\ gap => \A k \in Lines : line[k].phase = "idle"
    /\ line' = [line EXCEPT ![l] = [phase |-> "data", gap |-> gap, byte |-> 0]]
    /\ UNCHANGED <<todo, clean, budget, hist>>
    /\ Deliver(l, <<[Packet("STARTBIT", l) EXCEPT !.gap = gap]>>)

DataBits(l, b) ==
    /\ line[l].phase = "data" /\ budget.noise > 0
    /\ line' = [line EXCEPT ![l].phase = "stop", ![l].byte = b]
    /\ budget' = [budget EXCEPT !.noise = @ - 1]
    /\ Record(l, b)
    /\ UNCHANGED <<todo, clean>>
    /\ Deliver(l, <<Data(l, b, line[l].gap)>>)

StopBit(l, ok) ==
    /\ line[l].phase = "stop"
    /\ line' = [line EXCEPT ![l].phase = IF ~ok /\ line[l].byte = 0 THEN "low" ELSE "idle"]
    /\ UNCHANGED <<todo, clean, budget, hist>>
    /\ Deliver(l, EndPackets(l, line[l].byte, ok))

\* The line rises again after a character of zeros without a stop bit.
Break(l) ==
    /\ line[l].phase = "low"
    /\ line' = [line EXCEPT ![l].phase = "idle"]
    /\ clean' = [clean EXCEPT ![l] = FALSE]
    /\ UNCHANGED <<todo, budget, hist>>
    /\ Deliver(l, <<Packet("BREAK", l)>>)

\* The packet starts where the line became idle.
Idle(l) ==
    /\ line[l].phase = "idle" /\ todo[l] = <<>> /\ last.cmd # "IDLE"
    /\ UNCHANGED <<line, todo, clean, budget, hist>>
    /\ Deliver(l, <<Packet("IDLE", l)>>)

\* srd_session_end() calls end() of every instance of the stack.
End ==
    /\ upper \in {"lin", "j1708"}
    /\ last.cmd # "EOF"
    /\ s' = LET t == [s EXCEPT !.rep = <<>>] IN IF upper = "lin" THEN lin_end(t) ELSE j1708_end(t)
    /\ last' = [Nothing EXCEPT !.cmd = "EOF"]
    /\ shown' = [shown EXCEPT ![0] = Advance(hist[0], @, s'.rep)]
    /\ UNCHANGED <<upper, line, todo, clean, budget, hist>>

Next ==
    \/ \E l \in LinesOf(upper) :
          \/ \E gap \in BOOLEAN :
                \/ \E b \in BytesOf(upper), ok \in FaultsOf(upper) : Noise(l, b, gap, ok)
                \/ \E frame \in FramesOf(upper, l) : Begin(l, frame, gap)
                \/ \E ok \in FaultsOf(upper) : Send(l, gap, ok)
                \/ StartBit(l, gap)
          \/ \E b \in BytesOf(upper) : DataBits(l, b)
          \/ \E ok \in FaultsOf(upper) : StopBit(l, ok)
          \/ Cut(l) \/ Break(l) \/ Idle(l)
    \/ End

Spec == Init /\ [][Next]_vars

(***************************************************************************)
(* Properties                                                              *)
(***************************************************************************)
\* Reports that show something else than bytes of the stream one after the
\* other: zeros for garbage, messages with realtime bytes in them, bits that
\* are put together anew, and as many bytes as a type of message should have,
\* which are the checksum and bytes of earlier packets in a shorter one (ufcs).
Misquoting == {"midi", "arm_tpiu", "sbus", "ufcs"}

\* What a decoder shows are bytes of its stream in the order in which they
\* came: none is shown twice, none belongs to the other line.  Only a
\* synchronization pattern (arm_itm_c.c, arm_etmv3_c.c) is shown once more as
\* a whole, with the byte that completes it.
Quoted == upper \notin Misquoting => \A l \in Lines : shown[l] # -1

Good == {"frame", "message", "packet", "checksum", "line", "short", "software", "branch",
         "i_sync", "data"}

\* A correct frame that begins while the decoder is at rest, after a gap, or
\* (Chained) right after another correct one, is shown as such with its last
\* byte, whatever came before it; a synchronization pattern is in any state.
FrameShown ==
    last.cmd = "FRAME" =>
        LET l == last.f[IF upper = "streletz" THEN 2 ELSE 1] IN
        clean[l] /\ todo[l] = <<>> =>
            \E i \in DOMAIN s.rep : s.rep[i].reg \in Good \/ IsPattern(s.rep[i])

\* Four decoders index arrays without a test beside the access (header and
\* rsp of lin, buf of streletz, start_frame and length of pn532, the fields of
\* sbus): what they do before it keeps the index inside the array.
InBounds ==
    /\ upper = "lin" => Len(s.header) <= 2 /\ Len(s.rsp) <= 9
    /\ upper = "streletz" => s.packet_size <= streletz_MAX_PKT /\ s.buf_pos <= streletz_MAX_PKT
    /\ upper = "pn532" => Len(s.start_frame) <= 3 /\ Len(s.length) <= 2
    /\ upper = "sbus" => s.sent_fields <= sbus_FIELDS

\* A fifth one does not: ufcs reads the checksum at the place that the length
\* of the packet says, which may lie behind datapkt (ufcs_c.c:349).  A packet
\* of 137 bytes violates this, which no run claims.
PacketFits == upper = "ufcs" /\ s.plen > 0 /\ s.dataidx = s.plen => s.plen <= ufcs_MAX_PKT

\* A message whose frames are all valid is shown with its footer.
FooterShown ==
    clean[0] /\ todo[0] = <<>> /\ last.cmd = "FRAME" =>
        \E i \in DOMAIN s.rep : s.rep[i].reg = "frame"
=============================================================================
