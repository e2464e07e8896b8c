-------------------------- MODULE DecodeHandshake --------------------------
(***************************************************************************)
(* The monitor between the thread that feeds samples to a decoder instance *)
(* (srd_inst_decode) and the worker thread that runs the decoder's         *)
(* decode() method and pulls samples with wait() or, for C decoders, with  *)
(* the packed pair c_fetch_packed_multi / c_consume_samples.  Termination  *)
(* (srd_inst_terminate_reset, srd_inst_free) is part of it.                *)
(*                                                                         *)
(* A critical section that does not block is one action, guarded by        *)
(* data_mutex being free.  The mutex variable records the one section in   *)
(* which a thread blocks on something else while it holds data_mutex: the  *)
(* Python wait() re-acquires the GIL before it looks at the match.         *)
(* Condition variables are modelled by the set of threads blocked on them; *)
(* g_cond_signal wakes one, and a wake-up may be spurious.                 *)
(*                                                                         *)
(* What find_match() finds is abstracted: any sample from the scan         *)
(* position on may match, or the current one again (module ConditionScan   *)
(* has the matching itself).                                               *)
(*                                                                         *)
(* Definitions whose name ends in Bug are wrong variants of the one that   *)
(* follows them; the specification does not use them.                      *)
(***************************************************************************)
EXTENDS Integers

CONSTANTS
    Kinds,            \* decoder implementations to consider, within AllKinds
    MaxSample,        \* bound: samples in one capture
    MaxChunk,         \* bound: samples in one chunk
    MaxResets,        \* bound: terminate_reset calls
    InclusiveEnd,     \* the client passes the last sample's number as the end
    ConcurrentAbort   \* terminate_reset may run on a second client thread

AllKinds == {"c", "python"}

ASSUME ConstantsAssumption ==
    /\ Kinds \subseteq AllKinds
    /\ MaxSample \in Nat
    /\ MaxChunk \in Nat
    /\ MaxResets \in Nat
    /\ InclusiveEnd \in BOOLEAN
    /\ ConcurrentAbort \in BOOLEAN

VARIABLES
    kind,                 \* which operations vtable the instance has
    \* Fields of struct srd_decoder_inst.
    abs_start_samplenum, abs_end_samplenum, abs_cur_samplenum,
    inbuf,                \* the lent buffer, named by its first sample, or NULL
    got_new_samples, handled_all_samples, want_wait_terminate,
    is_task_stop_signal, first_pos, abs_cur_matched,
    proc_error,           \* python_proc_error is set
    thread_handle,        \* thread_handle is non-NULL
    \* Locks and condition variables.
    data_mutex, gil,      \* who holds them across steps
    blocked,              \* threads inside g_cond_wait
    \* Threads.
    cpc, lo, hi, ret,     \* feeding thread: control, chunk being sent, result
    wpc, held,            \* worker: control, buffer its packed pointers point to
    tpc, resets,          \* terminating thread: control, resets so far
    started, next,        \* the client's view: start called, next sample to send
    crashed               \* history: decode() raised and nobody was told yet

fields  == <<abs_start_samplenum, abs_end_samplenum, inbuf>>
scan    == <<abs_cur_samplenum, abs_cur_matched, first_pos>>
flags   == <<got_new_samples, handled_all_samples, want_wait_terminate>>
caller  == <<cpc, lo, hi, ret, next, started>>
ending  == <<tpc, resets>>
vars    == <<kind, fields, scan, flags, is_task_stop_signal, proc_error,
             thread_handle, data_mutex, gil, blocked, caller, wpc, held,
             ending, crashed>>

NULL == -1
Free == "nobody"

\* Numbers of the samples of a capture.
Samples == 0 .. MaxSample - 1

CallerPC == {"idle", "relock", "wait", "extract"}
WorkerPC == {"none", "start", "decode", "wait", "found", "notfound",
             "fetch", "packed", "finish", "signal", "ended"}
EndPC    == {"idle", "join_reset", "reset", "join_free", "free", "freed"}
Results  == {"SRD_OK", "SRD_ERR_ARG", "SRD_ERR_TERM_REQ", "SRD_ERR_PYTHON"}

SampleNumbers ==
    /\ abs_start_samplenum \in Nat
    /\ abs_end_samplenum \in Nat
    /\ abs_cur_samplenum \in Nat
    /\ inbuf \in Nat \cup {NULL}
    /\ lo \in Nat
    /\ hi \in Nat
    /\ next \in Nat
    /\ held \in Nat \cup {NULL}
    /\ resets \in 0 .. MaxResets

Flags ==
    /\ got_new_samples \in BOOLEAN
    /\ handled_all_samples \in BOOLEAN
    /\ want_wait_terminate \in BOOLEAN
    /\ is_task_stop_signal \in BOOLEAN
    /\ first_pos \in BOOLEAN
    /\ abs_cur_matched \in BOOLEAN
    /\ proc_error \in BOOLEAN
    /\ thread_handle \in BOOLEAN
    /\ started \in BOOLEAN
    /\ crashed \in BOOLEAN

Control ==
    /\ kind \in Kinds
    /\ data_mutex \in {Free, "worker"}
    /\ gil \in {Free, "worker"}
    /\ blocked \subseteq {"caller", "worker"}
    /\ cpc \in CallerPC
    /\ ret \in Results
    /\ wpc \in WorkerPC
    /\ tpc \in EndPC

\* Every field, flag and program counter stays within its type.
TypeOK == SampleNumbers /\ Flags /\ Control

Init ==
    /\ kind \in Kinds
    /\ abs_start_samplenum = 0
    /\ abs_end_samplenum = 0
    /\ abs_cur_samplenum = 0
    /\ inbuf = NULL
    /\ got_new_samples = FALSE
    /\ handled_all_samples = FALSE
    /\ want_wait_terminate = FALSE
    /\ is_task_stop_signal = FALSE
    /\ first_pos = FALSE
    /\ abs_cur_matched = FALSE
    /\ proc_error = FALSE
    /\ thread_handle = FALSE
    /\ data_mutex = Free
    /\ gil = Free
    /\ blocked = {}
    /\ cpc = "idle"
    /\ lo = 0
    /\ hi = 0
    /\ ret = "SRD_OK"
    /\ wpc = "none"
    /\ held = NULL
    /\ tpc = "idle"
    /\ resets = 0
    /\ started = FALSE
    /\ next = 0
    /\ crashed = FALSE

-----------------------------------------------------------------------------
(* Client calls: start, metadata and decode on the feeding thread.         *)

\* The client makes one call at a time (see MayTerminate for the exception).
MayCall == cpc = "idle" /\ tpc = "idle"

\* srd_inst_start: prepares the scanner flags, then runs the decoder's
\* start(), which only a Python decoder can fail.
Start(ok) ==
    /\ MayCall
    /\ ~started
    /\ kind = "python" => gil = Free
    /\ kind = "c" => ok
    /\ first_pos' = TRUE
    /\ abs_cur_matched' = FALSE
    /\ started' = ok
    /\ ret' = IF ok THEN "SRD_OK" ELSE "SRD_ERR_PYTHON"
    /\ UNCHANGED <<kind, fields, abs_cur_samplenum, flags, is_task_stop_signal,
                   proc_error, thread_handle, data_mutex, gil, blocked, cpc,
                   lo, hi, next, wpc, held, ending, crashed>>

\* srd_inst_send_meta: an exception of a Python metadata() is stored in
\* python_proc_error; whatever is stored there is taken out and reported.
Metadata(raises) ==
    /\ MayCall
    /\ started
    /\ kind = "python" => gil = Free
    /\ raises => kind = "python"
    /\ proc_error' = FALSE
    /\ ret' = IF proc_error \/ raises THEN "SRD_ERR_TERM_REQ" ELSE "SRD_OK"
    /\ UNCHANGED <<kind, fields, scan, flags, is_task_stop_signal,
                   thread_handle, data_mutex, gil, blocked, cpc, lo, hi, next,
                   started, wpc, held, ending, crashed>>

\* The end sample number the client passes for a chunk of n samples at s: one
\* past the last sample, or the last one when it reads the ends as inclusive.
ChunkEnd(s, n) == IF InclusiveEnd THEN s + n - 1 ELSE s + n

\* srd_inst_decode up to the first unlock.  The position the chunk must start
\* at is the scanner's, except for the first chunk.
ExpectedBug(s) == IF first_pos THEN s ELSE abs_end_samplenum

Expected(s) == IF first_pos THEN s ELSE abs_cur_samplenum

DecodeReject(n) ==
    /\ MayCall
    /\ started
    /\ next + n <= MaxSample
    /\ data_mutex = Free
    /\ next # Expected(next)
    /\ abs_cur_samplenum' = Expected(next)
    /\ next' = next + n
    /\ ret' = "SRD_ERR_ARG"
    /\ UNCHANGED <<kind, fields, abs_cur_matched, first_pos, flags,
                   is_task_stop_signal, proc_error, thread_handle, data_mutex,
                   gil, blocked, cpc, lo, hi, started, wpc, held, ending,
                   crashed>>

PostSamplesBug ==
    /\ got_new_samples' = TRUE
    /\ blocked' = blocked \ {"worker"}
    /\ UNCHANGED handled_all_samples

\* Lends the chunk and wakes the worker.
PostSamples ==
    /\ got_new_samples' = TRUE
    /\ handled_all_samples' = FALSE
    /\ blocked' = blocked \ {"worker"}

DecodePost(n) ==
    /\ MayCall
    /\ started
    /\ next + n <= MaxSample
    /\ data_mutex = Free
    /\ next = Expected(next)
    /\ abs_cur_samplenum' = next
    /\ thread_handle' = TRUE
    /\ wpc' = IF thread_handle THEN wpc ELSE "start"
    /\ abs_start_samplenum' = next
    /\ abs_end_samplenum' = ChunkEnd(next, n)
    /\ inbuf' = next
    /\ PostSamples
    /\ lo' = next
    /\ hi' = ChunkEnd(next, n)
    /\ next' = next + n
    /\ cpc' = "relock"
    /\ UNCHANGED <<kind, abs_cur_matched, first_pos, want_wait_terminate,
                   is_task_stop_signal, proc_error, data_mutex, gil, ret,
                   started, held, ending, crashed>>

DecodeDoneBug == handled_all_samples

\* What srd_inst_decode waits for.
DecodeDone == handled_all_samples \/ want_wait_terminate

\* The wait loop of srd_inst_decode: on entry and after every wake-up.
DecodeWait ==
    /\ cpc \in {"relock", "wait"}
    /\ "caller" \notin blocked
    /\ data_mutex = Free
    /\ IF DecodeDone
       THEN cpc' = "extract" /\ UNCHANGED blocked
       ELSE cpc' = "wait" /\ blocked' = blocked \cup {"caller"}
    /\ UNCHANGED <<kind, fields, scan, flags, is_task_stop_signal, proc_error,
                   thread_handle, data_mutex, gil, lo, hi, ret, next, started,
                   wpc, held, ending, crashed>>

\* The rest of srd_inst_decode: takes the stored error, if any, and returns.
DecodeReturn ==
    /\ cpc = "extract"
    /\ cpc' = "idle"
    /\ proc_error' = FALSE
    /\ ret' = IF proc_error THEN "SRD_ERR_TERM_REQ" ELSE "SRD_OK"
    /\ crashed' = (crashed /\ ~proc_error)
    /\ UNCHANGED <<kind, fields, scan, flags, is_task_stop_signal,
                   thread_handle, data_mutex, gil, blocked, lo, hi, next,
                   started, wpc, held, ending>>

-----------------------------------------------------------------------------
(* The worker thread: c_di_thread and di_thread.                           *)

\* The thread function enters decode(); a Python worker takes the GIL first.
WorkerStart ==
    /\ wpc = "start"
    /\ kind = "python" => gil = Free
    /\ gil' = IF kind = "python" THEN "worker" ELSE gil
    /\ wpc' = "decode"
    /\ UNCHANGED <<kind, fields, scan, flags, is_task_stop_signal, proc_error,
                   thread_handle, data_mutex, blocked, caller, held, ending,
                   crashed>>

\* decode() calls wait(); the Python binding refuses when it sees a request to
\* terminate (set_new_condition_list), and else releases the GIL meanwhile.
CallWait ==
    /\ wpc = "decode"
    /\ IF kind = "python" /\ want_wait_terminate
       THEN wpc' = "finish" /\ UNCHANGED gil
       ELSE wpc' = "wait" /\ gil' = Free
    /\ UNCHANGED <<kind, fields, scan, flags, is_task_stop_signal, proc_error,
                   thread_handle, data_mutex, blocked, caller, held, ending,
                   crashed>>

\* The worker is inside wait() or fetch, not blocked, and takes data_mutex.
Awake(where) == wpc = where /\ "worker" \notin blocked /\ data_mutex = Free

HasWork == got_new_samples \/ want_wait_terminate

\* while (!got_new_samples && !want_wait_terminate) g_cond_wait(...)
WaitBlock ==
    /\ Awake("wait") \/ Awake("fetch")
    /\ ~HasWork
    /\ blocked' = blocked \cup {"worker"}
    /\ UNCHANGED <<kind, fields, scan, flags, is_task_stop_signal, proc_error,
                   thread_handle, data_mutex, gil, caller, wpc, held, ending,
                   crashed>>

\* process_samples_until_condition_match, as far as the handshake sees it: the
\* scan starts after a sample that matched, and stops at a match or at the end
\* of the chunk.  When it starts at or past the end nothing is looked at, and
\* abs_cur_matched keeps its value.
ScanFrom == IF abs_cur_matched THEN abs_cur_samplenum + 1 ELSE abs_cur_samplenum

ScanMatchBug(m) ==
    /\ m \in ScanFrom .. abs_end_samplenum
    /\ abs_cur_samplenum' = m
    /\ abs_cur_matched' = TRUE
    /\ first_pos' = FALSE

ScanMatch(m) ==
    /\ m \in ScanFrom .. abs_end_samplenum - 1
    /\ abs_cur_samplenum' = m
    /\ abs_cur_matched' = TRUE
    /\ first_pos' = FALSE

ScanNoMatchBug ==
    /\ abs_cur_samplenum' = abs_end_samplenum - 1
    /\ abs_cur_matched' = FALSE
    /\ first_pos' = FALSE

ScanNoMatch ==
    /\ IF ScanFrom < abs_end_samplenum
       THEN abs_cur_samplenum' = abs_end_samplenum /\ abs_cur_matched' = FALSE
       ELSE abs_cur_samplenum' = ScanFrom /\ UNCHANGED abs_cur_matched
    /\ first_pos' = FALSE

MarkHandledNewBug ==
    /\ handled_all_samples' = TRUE
    /\ abs_start_samplenum' = 0
    /\ abs_end_samplenum' = 0
    /\ inbuf' = NULL
    /\ blocked' = blocked \ {"caller"}
    /\ UNCHANGED got_new_samples

MarkHandledEndBug ==
    /\ got_new_samples' = FALSE
    /\ handled_all_samples' = TRUE
    /\ abs_start_samplenum' = 0
    /\ abs_end_samplenum' = NULL
    /\ inbuf' = NULL
    /\ blocked' = blocked \ {"caller"}

\* The chunk has been handled: forget it and signal handled_all_samples_cond.
MarkHandled ==
    /\ got_new_samples' = FALSE
    /\ handled_all_samples' = TRUE
    /\ abs_start_samplenum' = 0
    /\ abs_end_samplenum' = 0
    /\ inbuf' = NULL
    /\ blocked' = blocked \ {"caller"}

\* c_decoder_wait_impl: a match returns to decode() ...
CWaitMatch(m) ==
    /\ kind = "c"
    /\ Awake("wait")
    /\ got_new_samples /\ ~want_wait_terminate
    /\ ScanMatch(m)
    /\ wpc' = "decode"
    /\ UNCHANGED <<kind, fields, flags, is_task_stop_signal, proc_error,
                   thread_handle, data_mutex, gil, blocked, caller, held,
                   ending, crashed>>

\* ... as does a wait that stays where it is: a skip of zero samples after a
\* match, or a condition list without any condition ...
CWaitInPlace ==
    /\ kind = "c"
    /\ Awake("wait")
    /\ got_new_samples /\ ~want_wait_terminate
    /\ first_pos' = FALSE
    /\ wpc' = "decode"
    /\ UNCHANGED <<kind, fields, abs_cur_samplenum, abs_cur_matched, flags,
                   is_task_stop_signal, proc_error, thread_handle, data_mutex,
                   gil, blocked, caller, held, ending, crashed>>

\* ... no match hands the chunk back and waits for the next one ...
CWaitNoMatch ==
    /\ kind = "c"
    /\ Awake("wait")
    /\ got_new_samples /\ ~want_wait_terminate
    /\ ScanNoMatch
    /\ MarkHandled
    /\ UNCHANGED <<kind, want_wait_terminate, is_task_stop_signal, proc_error,
                   thread_handle, data_mutex, gil, caller, wpc, held, ending,
                   crashed>>

\* ... and a termination request leaves at once; decode() then returns.
CWaitTerm ==
    /\ kind = "c"
    /\ Awake("wait")
    /\ want_wait_terminate
    /\ wpc' = "finish"
    /\ UNCHANGED <<kind, fields, scan, flags, is_task_stop_signal, proc_error,
                   thread_handle, data_mutex, gil, blocked, caller, held,
                   ending, crashed>>

\* Decoder_wait: the scan runs without the GIL and keeps data_mutex.
PyWaitScan ==
    /\ kind = "python"
    /\ Awake("wait")
    /\ HasWork
    /\ \/ /\ want_wait_terminate
          /\ wpc' = "notfound"
          /\ UNCHANGED scan
       \/ /\ ~want_wait_terminate
          /\ ScanNoMatch
          /\ wpc' = "notfound"
       \/ /\ ~want_wait_terminate
          /\ \E m \in Samples : ScanMatch(m)
          /\ wpc' = "found"
    /\ data_mutex' = "worker"
    /\ UNCHANGED <<kind, fields, flags, is_task_stop_signal, proc_error,
                   thread_handle, gil, blocked, caller, held, ending, crashed>>

PyWaitInPlace ==
    /\ kind = "python"
    /\ Awake("wait")
    /\ got_new_samples /\ ~want_wait_terminate
    /\ wpc' = "found"
    /\ data_mutex' = "worker"
    /\ UNCHANGED <<kind, fields, scan, flags, is_task_stop_signal, proc_error,
                   thread_handle, gil, blocked, caller, held, ending, crashed>>

\* With the GIL back, a match is stored in the Python object and wait returns.
PyWaitFound ==
    /\ wpc = "found"
    /\ gil = Free
    /\ gil' = "worker"
    /\ data_mutex' = Free
    /\ wpc' = "decode"
    /\ UNCHANGED <<kind, fields, scan, flags, is_task_stop_signal, proc_error,
                   thread_handle, blocked, caller, held, ending, crashed>>

\* Without a match the chunk is handed back; wait() goes on waiting, with the
\* GIL released again, or raises when termination was requested.
PyWaitNotFound ==
    /\ wpc = "notfound"
    /\ gil = Free
    /\ MarkHandled
    /\ data_mutex' = Free
    /\ wpc' = IF want_wait_terminate THEN "finish" ELSE "wait"
    /\ gil' = IF want_wait_terminate THEN "worker" ELSE Free
    /\ UNCHANGED <<kind, scan, want_wait_terminate, is_task_stop_signal,
                   proc_error, thread_handle, caller, held, ending, crashed>>

\* c_fetch_packed_multi: blocks like wait(), then hands out pointers into the
\* lent buffer.  It returns 0 on termination and when nothing is left, which
\* makes the decoder leave decode().
CallFetch ==
    /\ kind = "c"
    /\ wpc = "decode"
    /\ wpc' = "fetch"
    /\ UNCHANGED <<kind, fields, scan, flags, is_task_stop_signal, proc_error,
                   thread_handle, data_mutex, gil, blocked, caller, held,
                   ending, crashed>>

FetchPacked ==
    /\ Awake("fetch")
    /\ HasWork
    /\ ~want_wait_terminate
    /\ abs_cur_samplenum < abs_end_samplenum
    /\ wpc' = "packed"
    /\ held' = inbuf
    /\ first_pos' = FALSE
    /\ UNCHANGED <<kind, fields, abs_cur_samplenum, abs_cur_matched, flags,
                   is_task_stop_signal, proc_error, thread_handle, data_mutex,
                   gil, blocked, caller, ending, crashed>>

FetchNothing ==
    /\ Awake("fetch")
    /\ HasWork
    /\ want_wait_terminate \/ abs_cur_samplenum >= abs_end_samplenum
    /\ wpc' = "finish"
    /\ UNCHANGED <<kind, fields, scan, flags, is_task_stop_signal, proc_error,
                   thread_handle, data_mutex, gil, blocked, caller, held,
                   ending, crashed>>

\* c_consume_samples after working on the pointers for a while.  A result
\* other than SRD_OK makes the decoder leave decode().
ConsumeSamples(n) ==
    /\ wpc = "packed"
    /\ data_mutex = Free
    /\ held' = NULL
    /\ \/ /\ ~got_new_samples \/ n > abs_end_samplenum - abs_cur_samplenum
          /\ wpc' = "finish"
          /\ UNCHANGED <<fields, abs_cur_samplenum, abs_cur_matched,
                         got_new_samples, handled_all_samples, blocked>>
       \/ /\ got_new_samples /\ n <= abs_end_samplenum - abs_cur_samplenum
          /\ abs_cur_samplenum' = abs_cur_samplenum + n
          /\ abs_cur_matched' = FALSE
          /\ IF abs_cur_samplenum + n >= abs_end_samplenum \/ want_wait_terminate
             THEN MarkHandled
             ELSE UNCHANGED <<fields, got_new_samples, handled_all_samples,
                              blocked>>
          /\ wpc' = IF want_wait_terminate THEN "finish" ELSE "decode"
    /\ UNCHANGED <<kind, first_pos, want_wait_terminate, is_task_stop_signal,
                   proc_error, thread_handle, data_mutex, gil, caller, ending,
                   crashed>>

DecodeLeavesBug ==
    /\ UNCHANGED proc_error
    /\ crashed' = (crashed \/ (kind = "python" /\ wpc = "decode"))

\* decode() is left: after a termination request, or of its own accord.  A
\* Python decode() that returns anything is an error; one that raises is an
\* error unless the instance has been told to stop.
DecodeLeaves ==
    \/ /\ kind = "c"
       /\ UNCHANGED <<proc_error, crashed>>
    \/ /\ kind = "python"
       /\ proc_error' = TRUE
       /\ UNCHANGED crashed
    \/ /\ kind = "python"
       /\ proc_error' = (proc_error \/ ~is_task_stop_signal)
       /\ crashed' = (crashed \/ wpc = "decode")

WorkerLeave ==
    /\ wpc \in {"decode", "finish"}
    /\ DecodeLeaves
    /\ wpc' = "signal"
    /\ UNCHANGED <<kind, fields, scan, flags, is_task_stop_signal,
                   thread_handle, data_mutex, gil, blocked, caller, held,
                   ending>>

\* The end of the thread function: declare the instance terminated.
WorkerEnd ==
    /\ wpc = "signal"
    /\ data_mutex = Free
    /\ want_wait_terminate' = TRUE
    /\ handled_all_samples' = TRUE
    /\ blocked' = blocked \ {"caller"}
    /\ gil' = Free
    /\ wpc' = "ended"
    /\ UNCHANGED <<kind, fields, scan, got_new_samples, is_task_stop_signal,
                   proc_error, thread_handle, data_mutex, caller, held, ending,
                   crashed>>

-----------------------------------------------------------------------------
(* Termination: srd_inst_terminate_reset, and srd_inst_free_all with       *)
(* srd_inst_free when the session is destroyed.                            *)

\* A client that aborts does so while a srd_inst_decode call is pending.
MayTerminate == tpc = "idle" /\ (ConcurrentAbort \/ cpc = "idle")

StopWorkerBug ==
    /\ want_wait_terminate' = TRUE
    /\ is_task_stop_signal' = TRUE
    /\ UNCHANGED blocked

\* The worker is told to stop and woken.
StopWorker ==
    /\ want_wait_terminate' = TRUE
    /\ is_task_stop_signal' = TRUE
    /\ blocked' = blocked \ {"worker"}

\* join_thread up to g_thread_join: nothing to do without a worker thread.
RequestStop(joining, joined) ==
    /\ data_mutex = Free
    /\ IF thread_handle
       THEN StopWorker /\ tpc' = joining
       ELSE /\ tpc' = joined
            /\ UNCHANGED <<want_wait_terminate, is_task_stop_signal, blocked>>
    /\ UNCHANGED <<kind, fields, scan, got_new_samples, handled_all_samples,
                   proc_error, thread_handle, data_mutex, gil, caller, wpc,
                   held, crashed>>

Terminate ==
    /\ MayTerminate
    /\ resets < MaxResets
    /\ resets' = resets + 1
    /\ RequestStop("join_reset", "reset")

Destroy ==
    /\ tpc = "idle" /\ cpc = "idle"
    /\ RequestStop("join_free", "free")
    /\ UNCHANGED resets

JoinableBug == wpc \in WorkerPC

\* g_thread_join returns once the thread function has returned.
Joinable == wpc = "ended"

Join ==
    /\ tpc \in {"join_reset", "join_free"}
    /\ Joinable
    /\ thread_handle' = FALSE
    /\ wpc' = "none"
    /\ tpc' = IF tpc = "join_reset" THEN "reset" ELSE "free"
    /\ UNCHANGED <<kind, fields, scan, flags, is_task_stop_signal, proc_error,
                   data_mutex, gil, blocked, caller, held, resets, crashed>>

\* srd_inst_reset_state; is_task_stop_signal and python_proc_error stay.
ResetState ==
    /\ abs_start_samplenum' = 0
    /\ abs_end_samplenum' = 0
    /\ inbuf' = NULL
    /\ abs_cur_samplenum' = 0
    /\ got_new_samples' = FALSE
    /\ handled_all_samples' = FALSE
    /\ want_wait_terminate' = FALSE

\* The end of srd_inst_terminate_reset; reset() of a Python decoder may raise.
Reset(raises) ==
    /\ tpc = "reset"
    /\ kind = "python" => gil = Free
    /\ raises => kind = "python"
    /\ ResetState
    /\ proc_error' = (proc_error \/ raises)
    /\ tpc' = "idle"
    /\ started' = FALSE
    /\ next' = 0
    /\ UNCHANGED <<kind, abs_cur_matched, first_pos, is_task_stop_signal,
                   thread_handle, data_mutex, gil, blocked, cpc, lo, hi, ret,
                   wpc, held, resets, crashed>>

\* The end of srd_inst_free.
Release ==
    /\ tpc = "free"
    /\ kind = "python" => gil = Free
    /\ ResetState
    /\ tpc' = "freed"
    /\ started' = FALSE
    /\ UNCHANGED <<kind, abs_cur_matched, first_pos, is_task_stop_signal,
                   proc_error, thread_handle, data_mutex, gil, blocked, cpc,
                   lo, hi, ret, next, wpc, held, resets, crashed>>

\* g_cond_wait may return without a signal.
SpuriousWakeup(t) ==
    /\ t \in blocked
    /\ blocked' = blocked \ {t}
    /\ UNCHANGED <<kind, fields, scan, flags, is_task_stop_signal, proc_error,
                   thread_handle, data_mutex, gil, caller, wpc, held, ending,
                   crashed>>

-----------------------------------------------------------------------------
Call ==
    \/ \E ok \in BOOLEAN : Start(ok)
    \/ \E raises \in BOOLEAN : Metadata(raises)
    \/ \E n \in 1 .. MaxChunk : DecodeReject(n) \/ DecodePost(n)
    \/ Terminate
    \/ Destroy

CallerStep == DecodeWait \/ DecodeReturn

\* A wait() that moves on, or hands the chunk back.
WaitMoves ==
    \/ \E m \in Samples : CWaitMatch(m)
    \/ CWaitNoMatch
    \/ PyWaitScan

WorkerStep ==
    \/ WorkerStart
    \/ CallWait
    \/ WaitBlock
    \/ WaitMoves
    \/ CWaitInPlace
    \/ CWaitTerm
    \/ PyWaitInPlace
    \/ PyWaitFound
    \/ PyWaitNotFound
    \/ CallFetch
    \/ FetchPacked
    \/ FetchNothing
    \/ \E n \in 1 .. MaxChunk : ConsumeSamples(n)
    \/ WorkerLeave
    \/ WorkerEnd

EndStep == Join \/ (\E raises \in BOOLEAN : Reset(raises)) \/ Release

\* The instance is gone and nothing is left to do.
Freed == tpc = "freed" /\ UNCHANGED vars

Next ==
    \/ Call
    \/ CallerStep
    \/ WorkerStep
    \/ EndStep
    \/ \E t \in {"caller", "worker"} : SpuriousWakeup(t)
    \/ Freed

\* Threads that can run do run; nobody forces the client to make calls.  A
\* decoder does not keep waiting in place for ever (strong fairness of moving
\* on): that is up to the decoder, and one that does never lets a send return.
Fairness ==
    /\ WF_vars(CallerStep)
    /\ WF_vars(WorkerStep)
    /\ SF_vars(WaitMoves)
    /\ WF_vars(EndStep)

Spec == Init /\ [][Next]_vars /\ Fairness

-----------------------------------------------------------------------------
(* Properties.                                                             *)

InCall == cpc \in {"relock", "wait", "extract"}

\* The comment above c_fetch_packed_multi: while a decoder works on the packed
\* pointers, the thread that lent the buffer is still blocked in
\* srd_inst_decode with that very chunk, so the pointers are valid.
PointersValid ==
    wpc = "packed" => cpc \in {"relock", "wait"} /\ held = lo

\* Samples are only looked at while they are lent: when the worker is scanning
\* or may scan (got_new_samples, no termination), inbuf is the chunk of the
\* srd_inst_decode call in progress.
ScansLentBuffer ==
    (got_new_samples /\ ~want_wait_terminate) \/ wpc = "found"
        => cpc \in {"relock", "wait"} /\ inbuf = lo

\* When srd_inst_decode stops waiting, the worker has not ended and the
\* instance has not been reset meanwhile, every sample of the chunk has been
\* taken.
ChunkHandled ==
    cpc = "extract" /\ started /\ ~want_wait_terminate
        => abs_cur_samplenum = hi /\ inbuf = NULL

\* A client that sends its chunks without gaps is never refused with
\* SRD_ERR_ARG while the worker lives: the position srd_inst_decode expects is
\* the client's next sample.
ConsecutiveAccepted ==
    cpc = "idle" /\ started /\ ~want_wait_terminate => Expected(next) = next

\* A decode() that raises is reported by the srd_inst_decode call during which
\* it raised.
FailureReported ==
    [][cpc = "extract" /\ cpc' = "idle" /\ crashed => ret' # "SRD_OK"]_vars

\* The same until the instance is first told to stop.
FirstFailureReported ==
    [][cpc = "extract" /\ cpc' = "idle" /\ crashed /\ ~is_task_stop_signal
         => ret' # "SRD_OK"]_vars

\* The instance is only reset or freed while no worker thread runs and nobody
\* sleeps on its condition variables.
QuietReset ==
    tpc \in {"reset", "free", "freed"}
        => wpc = "none" /\ data_mutex = Free /\ blocked = {} /\ ~InCall

(* Why these hold.  Ownership is inductive for every client and implies    *)
(* ScansLentBuffer; Patient is, when termination waits for the pending     *)
(* call, and together they imply PointersValid and QuietReset.             *)

\* Who is inside the critical section in which the worker waits for the GIL.
MutexHeld == data_mutex = "worker" <=> wpc \in {"found", "notfound"}

\* thread_handle tells whether a worker has been created and not yet joined.
OneThread == thread_handle <=> wpc # "none"

\* Where threads sleep on the condition variables.
Sleepers ==
    /\ "worker" \in blocked => wpc \in {"wait", "fetch"}
    /\ "caller" \in blocked => cpc = "wait"

\* A stop request stands from the end of the worker, or from the beginning of
\* a termination, to the end of the reset.
StopRequested ==
    /\ want_wait_terminate
         => wpc = "ended" \/ tpc \in {"join_reset", "join_free", "reset", "free"}
    /\ wpc = "ended" \/ tpc \in {"join_reset", "join_free"}
         => want_wait_terminate

\* New samples belong to the pending call, and a worker that has them in its
\* hands implies they are still there.
SamplesLent ==
    /\ got_new_samples /\ ~want_wait_terminate
         => cpc \in {"relock", "wait"} /\ ~handled_all_samples /\ inbuf = lo
    /\ wpc \in {"found", "packed"} => got_new_samples
    /\ wpc = "found" => ~want_wait_terminate
    /\ wpc = "packed" => held = lo

\* Reset and free start without a worker, and free without a call.
Joined ==
    /\ tpc \in {"reset", "free", "freed"} => wpc = "none"
    /\ tpc \in {"join_free", "free", "freed"} => cpc = "idle"

Protocol ==
    /\ MutexHeld
    /\ OneThread
    /\ Sleepers
    /\ StopRequested
    /\ SamplesLent
    /\ Joined

Ownership == TypeOK /\ Protocol

\* Termination starts between calls, and so never while a decoder works on
\* packed pointers.
CallsFirst == tpc # "idle" => cpc = "idle"

Patient ==
    /\ CallsFirst
    /\ wpc = "packed" => ~want_wait_terminate
    /\ InCall => started

(* Accounting is inductive when the client passes the end of a chunk the   *)
(* way srd_inst_decode reads it, and implies ChunkHandled and              *)
(* ConsecutiveAccepted.                                                    *)

\* While a chunk is lent the scanner is inside it.
InsideChunk ==
    /\ got_new_samples /\ ~want_wait_terminate
         => /\ abs_end_samplenum = hi
            /\ lo <= abs_cur_samplenum /\ abs_cur_samplenum <= hi
            /\ abs_cur_matched /\ wpc # "notfound" => abs_cur_samplenum < hi
    /\ wpc = "notfound" /\ ~want_wait_terminate
         => got_new_samples /\ abs_cur_samplenum = hi

\* Once the worker has handed it back, it has been taken to its end.
TakenToEnd ==
    /\ InCall /\ started => next = hi /\ hi <= lo + MaxChunk
    /\ InCall /\ started /\ ~want_wait_terminate /\ ~got_new_samples
         => abs_cur_samplenum = hi /\ inbuf = NULL

\* Between calls the scanner is where the client goes on, and so it is once
\* the instance has been reset.
InStep ==
    /\ cpc = "idle" \/ ~started
         => tpc = "freed" \/ want_wait_terminate \/ abs_cur_samplenum = next
    /\ tpc = "freed" => ~started
    /\ got_new_samples /\ ~want_wait_terminate => started

\* Whoever has the samples, scanner, caller and client agree on how many of
\* them have been taken, so none is lost or taken twice between two calls.
Accounting == Ownership /\ InsideChunk /\ TakenToEnd /\ InStep

\* Every srd_inst_decode call returns.
SendReturns == InCall ~> ~InCall

\* The threads, flags and condition variables together are the service of
\* SendService: its state is what the caller can tell from the sample numbers,
\* which mean nothing any more once the worker has been told to terminate.
Service == INSTANCE SendService WITH
    busy    <- InCall,
    pos     <- IF want_wait_terminate THEN 0 ELSE abs_cur_samplenum,
    limit   <- CASE want_wait_terminate -> 0
                 [] ~want_wait_terminate /\ InCall -> hi
                 [] OTHER -> abs_cur_samplenum,
    stopped <- want_wait_terminate

\* Feeding samples through the monitor behaves like the plain service.
ImplementsService == Service!Spec

\* Joining the worker thread ends, whatever the worker is doing.
TerminateReturns == tpc = "join_reset" ~> tpc = "idle"
=============================================================================
