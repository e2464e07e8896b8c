----------------------- MODULE DecodeHandshakeProofs -----------------------
(***************************************************************************)
(* Proofs about DecodeHandshake, for every bound and every decoder kind.   *)
(*   Type correctness and Ownership of the lent samples hold whatever the  *)
(*   client does: a second thread may call terminate_reset at any time.    *)
(*   Until the instance is first told to stop, a decode() that raises is   *)
(*   reported, whatever the client does.                                   *)
(*   Counting of the samples (Accounting) needs a client that passes one   *)
(*   past the last sample as the end of a chunk.                           *)
(*   That packed pointers stay valid and that a reset finds no call needs  *)
(*   a client that terminates between calls (Patient).  With both, each    *)
(*   step is one of the plain service SendService, or none.                *)
(* Each step lemma has one case per action.                                *)
(***************************************************************************)
EXTENDS DecodeHandshake, TLAPS

\* Sample numbers stay natural numbers, and resets within their bound.
LEMMA NumbersStep == TypeOK /\ [Next]_vars => SampleNumbers'
<1> SUFFICES ASSUME TypeOK, [Next]_vars
             PROVE  SampleNumbers'
  OBVIOUS
<1> USE ConstantsAssumption
        DEF TypeOK, SampleNumbers, NULL, Flags, fields, scan, flags, caller, ending
<1>1. ASSUME NEW ok \in BOOLEAN, Start(ok) PROVE SampleNumbers'
  BY <1>1, SMT DEF Start
<1>2. ASSUME NEW raises \in BOOLEAN, Metadata(raises) PROVE SampleNumbers'
  BY <1>2, SMT DEF Metadata
<1>3. ASSUME NEW n \in 1 .. MaxChunk, DecodeReject(n) PROVE SampleNumbers'
  BY <1>3, SMT DEF DecodeReject, Expected
<1>4. ASSUME NEW n \in 1 .. MaxChunk, DecodePost(n) PROVE SampleNumbers'
  BY <1>4, SMT DEF DecodePost, PostSamples, ChunkEnd
<1>5. CASE DecodeWait
  BY <1>5, SMT DEF DecodeWait
<1>6. CASE DecodeReturn
  BY <1>6, SMT DEF DecodeReturn
<1>7. CASE WorkerStart
  BY <1>7, SMT DEF WorkerStart
<1>8. CASE CallWait
  BY <1>8, SMT DEF CallWait
<1>9. CASE WaitBlock
  BY <1>9, SMT DEF WaitBlock
<1>10. ASSUME NEW m \in Samples, CWaitMatch(m) PROVE SampleNumbers'
  BY <1>10, SMT DEF CWaitMatch, ScanMatch, Samples
<1>11. CASE CWaitNoMatch
  BY <1>11, SMT DEF CWaitNoMatch, ScanNoMatch, ScanFrom, MarkHandled
<1>12. CASE CWaitInPlace
  BY <1>12, SMT DEF CWaitInPlace
<1>13. CASE CWaitTerm
  BY <1>13, SMT DEF CWaitTerm
<1>14. CASE PyWaitScan
  BY <1>14, SMT DEF PyWaitScan, ScanMatch, ScanNoMatch, ScanFrom, Samples
<1>15. CASE PyWaitInPlace
  BY <1>15, SMT DEF PyWaitInPlace
<1>16. CASE PyWaitFound
  BY <1>16, SMT DEF PyWaitFound
<1>17. CASE PyWaitNotFound
  BY <1>17, SMT DEF PyWaitNotFound, MarkHandled
<1>18. CASE CallFetch
  BY <1>18, SMT DEF CallFetch
<1>19. CASE FetchPacked
  BY <1>19, SMT DEF FetchPacked
<1>20. CASE FetchNothing
  BY <1>20, SMT DEF FetchNothing
<1>21. ASSUME NEW n \in 1 .. MaxChunk, ConsumeSamples(n) PROVE SampleNumbers'
  BY <1>21, SMT DEF ConsumeSamples, MarkHandled
<1>22. CASE WorkerLeave
  BY <1>22, SMT DEF WorkerLeave, DecodeLeaves
<1>23. CASE WorkerEnd
  BY <1>23, SMT DEF WorkerEnd
<1>24. CASE Terminate
  BY <1>24, SMT DEF Terminate, RequestStop, StopWorker
<1>25. CASE Destroy
  BY <1>25, SMT DEF Destroy, RequestStop, StopWorker
<1>26. CASE Join
  BY <1>26, SMT DEF Join
<1>27. ASSUME NEW raises \in BOOLEAN, Reset(raises) PROVE SampleNumbers'
  BY <1>27, SMT DEF Reset, ResetState
<1>28. CASE Release
  BY <1>28, SMT DEF Release, ResetState
<1>29. ASSUME NEW t \in {"caller", "worker"}, SpuriousWakeup(t) PROVE SampleNumbers'
  BY <1>29, SMT DEF SpuriousWakeup
<1>30. CASE UNCHANGED vars
  BY <1>30, SMT DEF vars
<1>31. QED
  BY <1>1, <1>2, <1>3, <1>4, <1>5, <1>6, <1>7, <1>8, <1>9, <1>10, <1>11,
     <1>12, <1>13, <1>14, <1>15, <1>16, <1>17, <1>18, <1>19, <1>20, <1>21,
     <1>22, <1>23, <1>24, <1>25, <1>26, <1>27, <1>28, <1>29, <1>30
     DEF Next, Call, CallerStep, WorkerStep, WaitMoves, EndStep, Freed

\* Flags stay Boolean.
LEMMA FlagsStep == TypeOK /\ [Next]_vars => Flags'
<1> SUFFICES ASSUME TypeOK, [Next]_vars
             PROVE  Flags'
  OBVIOUS
<1> USE DEF TypeOK, Flags, fields, scan, flags, caller, ending
<1>1. ASSUME NEW ok \in BOOLEAN, Start(ok) PROVE Flags'
  BY <1>1, Zenon DEF Start
<1>2. ASSUME NEW raises \in BOOLEAN, Metadata(raises) PROVE Flags'
  BY <1>2, Zenon DEF Metadata
<1>3. ASSUME NEW n \in 1 .. MaxChunk, DecodeReject(n) PROVE Flags'
  BY <1>3, Zenon DEF DecodeReject, Expected
<1>4. ASSUME NEW n \in 1 .. MaxChunk, DecodePost(n) PROVE Flags'
  BY <1>4, Zenon DEF DecodePost, PostSamples, ChunkEnd
<1>5. CASE DecodeWait
  BY <1>5, Zenon DEF DecodeWait
<1>6. CASE DecodeReturn
  BY <1>6, Zenon DEF DecodeReturn
<1>7. CASE WorkerStart
  BY <1>7, Zenon DEF WorkerStart
<1>8. CASE CallWait
  BY <1>8, Zenon DEF CallWait
<1>9. CASE WaitBlock
  BY <1>9, Zenon DEF WaitBlock
<1>10. ASSUME NEW m \in Samples, CWaitMatch(m) PROVE Flags'
  BY <1>10, Zenon DEF CWaitMatch, ScanMatch, Samples
<1>11. CASE CWaitNoMatch
  BY <1>11, Zenon DEF CWaitNoMatch, ScanNoMatch, ScanFrom, MarkHandled
<1>12. CASE CWaitInPlace
  BY <1>12, Zenon DEF CWaitInPlace
<1>13. CASE CWaitTerm
  BY <1>13, Zenon DEF CWaitTerm
<1>14. CASE PyWaitScan
  BY <1>14, Zenon DEF PyWaitScan, ScanMatch, ScanNoMatch, ScanFrom, Samples
<1>15. CASE PyWaitInPlace
  BY <1>15, Zenon DEF PyWaitInPlace
<1>16. CASE PyWaitFound
  BY <1>16, Zenon DEF PyWaitFound
<1>17. CASE PyWaitNotFound
  BY <1>17, Zenon DEF PyWaitNotFound, MarkHandled
<1>18. CASE CallFetch
  BY <1>18, Zenon DEF CallFetch
<1>19. CASE FetchPacked
  BY <1>19, Zenon DEF FetchPacked
<1>20. CASE FetchNothing
  BY <1>20, Zenon DEF FetchNothing
<1>21. ASSUME NEW n \in 1 .. MaxChunk, ConsumeSamples(n) PROVE Flags'
  BY <1>21, Zenon DEF ConsumeSamples, MarkHandled
<1>22. CASE WorkerLeave
  BY <1>22, Zenon DEF WorkerLeave, DecodeLeaves
<1>23. CASE WorkerEnd
  BY <1>23, Zenon DEF WorkerEnd
<1>24. CASE Terminate
  BY <1>24, Zenon DEF Terminate, RequestStop, StopWorker
<1>25. CASE Destroy
  BY <1>25, Zenon DEF Destroy, RequestStop, StopWorker
<1>26. CASE Join
  BY <1>26, Zenon DEF Join
<1>27. ASSUME NEW raises \in BOOLEAN, Reset(raises) PROVE Flags'
  BY <1>27, Zenon DEF Reset, ResetState
<1>28. CASE Release
  BY <1>28, Zenon DEF Release, ResetState
<1>29. ASSUME NEW t \in {"caller", "worker"}, SpuriousWakeup(t) PROVE Flags'
  BY <1>29, Zenon DEF SpuriousWakeup
<1>30. CASE UNCHANGED vars
  BY <1>30, Zenon DEF vars
<1>31. QED
  BY <1>1, <1>2, <1>3, <1>4, <1>5, <1>6, <1>7, <1>8, <1>9, <1>10, <1>11,
     <1>12, <1>13, <1>14, <1>15, <1>16, <1>17, <1>18, <1>19, <1>20, <1>21,
     <1>22, <1>23, <1>24, <1>25, <1>26, <1>27, <1>28, <1>29, <1>30
     DEF Next, Call, CallerStep, WorkerStep, WaitMoves, EndStep, Freed

\* Locks, wait sets and program counters stay within their sets.
LEMMA ControlStep == TypeOK /\ [Next]_vars => Control'
<1> SUFFICES ASSUME TypeOK, [Next]_vars
             PROVE  Control'
  OBVIOUS
<1> USE DEF TypeOK, Control, CallerPC, WorkerPC, EndPC, Results, Free,
            fields, scan, flags, caller, ending
<1>1. ASSUME NEW ok \in BOOLEAN, Start(ok) PROVE Control'
  BY <1>1, Zenon DEF Start
<1>2. ASSUME NEW raises \in BOOLEAN, Metadata(raises) PROVE Control'
  BY <1>2, Zenon DEF Metadata
<1>3. ASSUME NEW n \in 1 .. MaxChunk, DecodeReject(n) PROVE Control'
  BY <1>3, Zenon DEF DecodeReject, Expected
<1>4. ASSUME NEW n \in 1 .. MaxChunk, DecodePost(n) PROVE Control'
  BY <1>4, Zenon DEF DecodePost, PostSamples, ChunkEnd
<1>5. CASE DecodeWait
  BY <1>5, Zenon DEF DecodeWait
<1>6. CASE DecodeReturn
  BY <1>6, Zenon DEF DecodeReturn
<1>7. CASE WorkerStart
  BY <1>7, Zenon DEF WorkerStart
<1>8. CASE CallWait
  BY <1>8, Zenon DEF CallWait
<1>9. CASE WaitBlock
  BY <1>9, Zenon DEF WaitBlock
<1>10. ASSUME NEW m \in Samples, CWaitMatch(m) PROVE Control'
  BY <1>10, Zenon DEF CWaitMatch, ScanMatch, Samples
<1>11. CASE CWaitNoMatch
  BY <1>11, Zenon DEF CWaitNoMatch, ScanNoMatch, ScanFrom, MarkHandled
<1>12. CASE CWaitInPlace
  BY <1>12, Zenon DEF CWaitInPlace
<1>13. CASE CWaitTerm
  BY <1>13, Zenon DEF CWaitTerm
<1>14. CASE PyWaitScan
  BY <1>14, Zenon DEF PyWaitScan, ScanMatch, ScanNoMatch, ScanFrom, Samples
<1>15. CASE PyWaitInPlace
  BY <1>15, Zenon DEF PyWaitInPlace
<1>16. CASE PyWaitFound
  BY <1>16, Zenon DEF PyWaitFound
<1>17. CASE PyWaitNotFound
  BY <1>17, Zenon DEF PyWaitNotFound, MarkHandled
<1>18. CASE CallFetch
  BY <1>18, Zenon DEF CallFetch
<1>19. CASE FetchPacked
  BY <1>19, Zenon DEF FetchPacked
<1>20. CASE FetchNothing
  BY <1>20, Zenon DEF FetchNothing
<1>21. ASSUME NEW n \in 1 .. MaxChunk, ConsumeSamples(n) PROVE Control'
  BY <1>21, Zenon DEF ConsumeSamples, MarkHandled
<1>22. CASE WorkerLeave
  BY <1>22, Zenon DEF WorkerLeave, DecodeLeaves
<1>23. CASE WorkerEnd
  BY <1>23, Zenon DEF WorkerEnd
<1>24. CASE Terminate
  BY <1>24, Zenon DEF Terminate, RequestStop, StopWorker
<1>25. CASE Destroy
  BY <1>25, Zenon DEF Destroy, RequestStop, StopWorker
<1>26. CASE Join
  BY <1>26, Zenon DEF Join
<1>27. ASSUME NEW raises \in BOOLEAN, Reset(raises) PROVE Control'
  BY <1>27, Zenon DEF Reset, ResetState
<1>28. CASE Release
  BY <1>28, Zenon DEF Release, ResetState
<1>29. ASSUME NEW t \in {"caller", "worker"}, SpuriousWakeup(t) PROVE Control'
  BY <1>29, Zenon DEF SpuriousWakeup
<1>30. CASE UNCHANGED vars
  BY <1>30, Zenon DEF vars
<1>31. QED
  BY <1>1, <1>2, <1>3, <1>4, <1>5, <1>6, <1>7, <1>8, <1>9, <1>10, <1>11,
     <1>12, <1>13, <1>14, <1>15, <1>16, <1>17, <1>18, <1>19, <1>20, <1>21,
     <1>22, <1>23, <1>24, <1>25, <1>26, <1>27, <1>28, <1>29, <1>30
     DEF Next, Call, CallerStep, WorkerStep, WaitMoves, EndStep, Freed

\* Every step keeps the types.
LEMMA TypeStep == TypeOK /\ [Next]_vars => TypeOK'
  BY NumbersStep, FlagsStep, ControlStep DEF TypeOK

\* The initial state has its types.
LEMMA TypeInit == Init => TypeOK
<1>1. Init => SampleNumbers
  BY ConstantsAssumption DEF Init, SampleNumbers, NULL
<1>2. Init => Flags
  BY DEF Init, Flags
<1>3. Init => Control
  BY DEF Init, Control, CallerPC, WorkerPC, EndPC, Results, Free
<1>4. QED
  BY <1>1, <1>2, <1>3 DEF TypeOK

\* Type correctness of the instance's fields and of the threads' control, for
\* every value of the constants.
THEOREM TypeCorrect == Spec => []TypeOK
  BY TypeInit, TypeStep, PTL DEF Spec

-----------------------------------------------------------------------------
(* Ownership of the lent samples.                                          *)

\* Every step keeps to the protocol: who holds data_mutex, who sleeps where, and
\* whose samples the worker may touch.
LEMMA ProtocolStep == Ownership /\ [Next]_vars => Protocol'
<1> SUFFICES ASSUME Ownership, [Next]_vars
             PROVE  Protocol'
  OBVIOUS
<1> USE DEF Ownership, TypeOK, Flags, Control, Free, Protocol, MutexHeld,
            OneThread, Sleepers, StopRequested, SamplesLent, Joined,
            fields, scan, flags, caller, ending
<1>1. ASSUME NEW ok \in BOOLEAN, Start(ok) PROVE Protocol'
  BY <1>1, Zenon DEF Start, MayCall
<1>2. ASSUME NEW raises \in BOOLEAN, Metadata(raises) PROVE Protocol'
  BY <1>2, Zenon DEF Metadata, MayCall
<1>3. ASSUME NEW n \in 1 .. MaxChunk, DecodeReject(n) PROVE Protocol'
  BY <1>3, Zenon DEF DecodeReject, Expected, MayCall
<1>4. ASSUME NEW n \in 1 .. MaxChunk, DecodePost(n) PROVE Protocol'
  BY <1>4, Zenon DEF DecodePost, PostSamples, ChunkEnd, MayCall
<1>5. CASE DecodeWait
  BY <1>5, Zenon DEF DecodeWait, DecodeDone
<1>6. CASE DecodeReturn
  BY <1>6, Zenon DEF DecodeReturn
<1>7. CASE WorkerStart
  BY <1>7, Zenon DEF WorkerStart
<1>8. CASE CallWait
  BY <1>8, Zenon DEF CallWait
<1>9. CASE WaitBlock
  BY <1>9, Zenon DEF WaitBlock, Awake, HasWork
<1>10. ASSUME NEW m \in Samples, CWaitMatch(m) PROVE Protocol'
  BY <1>10, Zenon DEF CWaitMatch, ScanMatch, Samples, Awake, ScanFrom
<1>11. CASE CWaitNoMatch
  BY <1>11, Zenon DEF CWaitNoMatch, ScanNoMatch, ScanFrom, MarkHandled, Awake
<1>12. CASE CWaitInPlace
  BY <1>12, Zenon DEF CWaitInPlace, Awake
<1>13. CASE CWaitTerm
  BY <1>13, Zenon DEF CWaitTerm, Awake
<1>14. CASE PyWaitScan
  BY <1>14, Zenon DEF PyWaitScan, ScanMatch, ScanNoMatch, ScanFrom, Samples,
     Awake, HasWork
<1>15. CASE PyWaitInPlace
  BY <1>15, Zenon DEF PyWaitInPlace, Awake
<1>16. CASE PyWaitFound
  BY <1>16, Zenon DEF PyWaitFound
<1>17. CASE PyWaitNotFound
  BY <1>17, Zenon DEF PyWaitNotFound, MarkHandled
<1>18. CASE CallFetch
  BY <1>18, Zenon DEF CallFetch
<1>19. CASE FetchPacked
  BY <1>19, Zenon DEF FetchPacked, Awake, HasWork
<1>20. CASE FetchNothing
  BY <1>20, Zenon DEF FetchNothing, Awake, HasWork
<1>21. ASSUME NEW n \in 1 .. MaxChunk, ConsumeSamples(n) PROVE Protocol'
  BY <1>21, Zenon DEF ConsumeSamples, MarkHandled
<1>22. CASE WorkerLeave
  BY <1>22, Zenon DEF WorkerLeave, DecodeLeaves
<1>23. CASE WorkerEnd
  BY <1>23, Zenon DEF WorkerEnd
<1>24. CASE Terminate
  BY <1>24, Zenon DEF Terminate, RequestStop, StopWorker, MayTerminate
<1>25. CASE Destroy
  BY <1>25, Zenon DEF Destroy, RequestStop, StopWorker
<1>26. CASE Join
  BY <1>26, Zenon DEF Join, Joinable
<1>27. ASSUME NEW raises \in BOOLEAN, Reset(raises) PROVE Protocol'
  BY <1>27, Zenon DEF Reset, ResetState
<1>28. CASE Release
  BY <1>28, Zenon DEF Release, ResetState
<1>29. ASSUME NEW t \in {"caller", "worker"}, SpuriousWakeup(t) PROVE Protocol'
  BY <1>29, Zenon DEF SpuriousWakeup
<1>30. CASE UNCHANGED vars
  BY <1>30, Zenon DEF vars
<1>31. QED
  BY <1>1, <1>2, <1>3, <1>4, <1>5, <1>6, <1>7, <1>8, <1>9, <1>10, <1>11,
     <1>12, <1>13, <1>14, <1>15, <1>16, <1>17, <1>18, <1>19, <1>20, <1>21,
     <1>22, <1>23, <1>24, <1>25, <1>26, <1>27, <1>28, <1>29, <1>30
     DEF Next, Call, CallerStep, WorkerStep, WaitMoves, EndStep, Freed

\* Before the first send nothing is lent and nobody waits.
LEMMA OwnershipInit == Init => Ownership
<1>1. Init => Protocol
  BY DEF Init, Protocol, MutexHeld, OneThread, Sleepers, StopRequested,
         SamplesLent, Joined, Free
<1>2. QED
  BY <1>1, TypeInit DEF Ownership

\* Every step keeps the hand-over discipline.
LEMMA OwnershipStep == Ownership /\ [Next]_vars => Ownership'
  BY TypeStep, ProtocolStep DEF Ownership

\* The hand-over discipline holds always, whatever the client does.
LEMMA OwnershipInvariant == Spec => []Ownership
  BY OwnershipInit, OwnershipStep, PTL DEF Spec

\* wait() scans no samples but those of the srd_inst_decode call in progress,
\* even when another thread aborts the session meanwhile.
THEOREM OnlyLentScanned == Spec => []ScansLentBuffer
<1>1. Ownership => ScansLentBuffer
  BY DEF Ownership, Protocol, SamplesLent, ScansLentBuffer
<1>2. QED
  BY <1>1, OwnershipInvariant, PTL

\* Until termination is requested, the thread that lent the buffer of packed
\* pointers is blocked in srd_inst_decode with that chunk, whatever the client
\* does.  (PackedPointersValid is about a client that does not terminate while
\* a decoder works on packed pointers.)
THEOREM PackedUntilStopped == Spec => [](want_wait_terminate \/ PointersValid)
<1>1. Ownership => want_wait_terminate \/ PointersValid
  BY DEF Ownership, Protocol, SamplesLent, PointersValid
<1>2. QED
  BY <1>1, OwnershipInvariant, PTL

\* Once srd_inst_terminate_reset or srd_inst_free has joined the worker, no
\* worker runs and none holds data_mutex or sleeps, whatever the client does;
\* only the thread inside srd_inst_decode can still be about.
THEOREM JoinedIsGone ==
  Spec => [](tpc \in {"reset", "free", "freed"}
               => wpc = "none" /\ data_mutex = Free /\ "worker" \notin blocked)
<1>1. Ownership => (tpc \in {"reset", "free", "freed"}
                      => wpc = "none" /\ data_mutex = Free /\ "worker" \notin blocked)
  BY DEF Ownership, TypeOK, Control, Protocol, MutexHeld, Sleepers, Joined, Free
<1>2. QED
  BY <1>1, OwnershipInvariant, PTL

\* A client that waits for its send to return before it terminates: a
\* termination starts between calls, and so never while a decoder works on
\* packed pointers, and a call ends on the instance it was begun on.
LEMMA PatientStep ==
  ASSUME ConcurrentAbort = FALSE
  PROVE  Ownership /\ Patient /\ [Next]_vars => Patient'
<1> SUFFICES ASSUME Ownership, Patient, [Next]_vars
             PROVE  Patient'
  OBVIOUS
<1> USE DEF Ownership, TypeOK, Control, Protocol, SamplesLent, StopRequested,
            Joined, Patient, CallsFirst, InCall, EndPC, CallerPC, fields, scan,
            flags, caller, ending
<1>1. CallsFirst'
  BY DEF Next, Call, CallerStep, WorkerStep, WaitMoves, EndStep, Freed, vars,
         Start, Metadata, DecodeReject, DecodePost, MayCall, DecodeWait,
         DecodeReturn, WorkerStart, CallWait, WaitBlock, CWaitMatch,
         CWaitNoMatch, CWaitInPlace, CWaitTerm, PyWaitScan, PyWaitInPlace,
         PyWaitFound, PyWaitNotFound, CallFetch, FetchPacked, FetchNothing,
         ConsumeSamples, WorkerLeave, WorkerEnd, Terminate, MayTerminate,
         Destroy, RequestStop, StopWorker, Join, Reset, Release,
         SpuriousWakeup
<1>2. (wpc = "packed" => ~want_wait_terminate)'
  BY DEF Next, Call, CallerStep, WorkerStep, WaitMoves, EndStep, Freed, vars,
         Start, Metadata, DecodeReject, DecodePost, MayCall, DecodeWait,
         DecodeReturn, WorkerStart, CallWait, WaitBlock, CWaitMatch,
         CWaitNoMatch, CWaitInPlace, CWaitTerm, PyWaitScan, PyWaitInPlace,
         PyWaitFound, PyWaitNotFound, CallFetch, FetchPacked, FetchNothing,
         ConsumeSamples, WorkerLeave, WorkerEnd, Terminate, MayTerminate,
         Destroy, RequestStop, StopWorker, Join, Reset, ResetState, Release,
         SpuriousWakeup
<1>3. (InCall => started)'
  BY DEF Next, Call, CallerStep, WorkerStep, WaitMoves, EndStep, Freed, vars,
         Start, Metadata, DecodeReject, DecodePost, MayCall, DecodeWait,
         DecodeReturn, WorkerStart, CallWait, WaitBlock, CWaitMatch,
         CWaitNoMatch, CWaitInPlace, CWaitTerm, PyWaitScan, PyWaitInPlace,
         PyWaitFound, PyWaitNotFound, CallFetch, FetchPacked, FetchNothing,
         ConsumeSamples, WorkerLeave, WorkerEnd, Terminate, MayTerminate,
         Destroy, RequestStop, StopWorker, Join, Reset, Release,
         SpuriousWakeup
<1>4. QED
  BY <1>1, <1>2, <1>3 DEF Patient

\* Such a client is patient always.
LEMMA PatientInvariant ==
  ASSUME ConcurrentAbort = FALSE
  PROVE  Spec => []Patient
<1>1. Init => Patient
  BY DEF Init, Patient, CallsFirst, InCall
<1>2. Ownership /\ Patient /\ [Next]_vars => Patient'
  BY PatientStep
<1>3. QED
  BY <1>1, <1>2, OwnershipInvariant, PTL DEF Spec

\* While a C decoder works on the pointers c_fetch_packed_multi gave it, the
\* thread that lent the buffer is blocked in srd_inst_decode with that chunk.
THEOREM PackedPointersValid ==
  ASSUME ConcurrentAbort = FALSE
  PROVE  Spec => []PointersValid
<1>1. Ownership /\ Patient => PointersValid
  BY DEF Ownership, Protocol, SamplesLent, Patient, PointersValid
<1>2. QED
  BY <1>1, OwnershipInvariant, PatientInvariant, PTL

\* srd_inst_reset_state and srd_inst_free, which take no lock, run when there is
\* no worker, nobody holds data_mutex or sleeps, and no call is in progress.
THEOREM ResetIsQuiet ==
  ASSUME ConcurrentAbort = FALSE
  PROVE  Spec => []QuietReset
<1>1. Ownership /\ Patient => QuietReset
  BY DEF Ownership, TypeOK, Control, Protocol, MutexHeld, Sleepers, CallsFirst,
         Joined, Patient, QuietReset, InCall, Free
<1>2. QED
  BY <1>1, OwnershipInvariant, PatientInvariant, PTL

-----------------------------------------------------------------------------
(* Failures are reported.                                                  *)

\* What makes a failure reach the caller: a Python decode() runs only on the
\* samples of a pending call, and one that has raised leaves the error where
\* that call finds it.  Only a worker that was told to stop is joined.
Watched ==
    /\ InCall => thread_handle
    /\ kind = "python" /\ wpc \in {"start", "decode"} => got_new_samples
    /\ crashed => /\ proc_error
                  /\ InCall
                  /\ \/ wpc = "signal" /\ got_new_samples
                     \/ wpc = "ended"
    /\ tpc \in {"join_reset", "join_free"} => is_task_stop_signal
    /\ wpc \in {"fetch", "packed"} => kind = "c"

\* No call is pending when an instance without a worker thread is terminated;
\* with one, termination gives the stop signal.
LEMMA UntoldCallsFirst ==
  Ownership /\ CallsFirst /\ Watched /\ [Next]_vars /\ ~is_task_stop_signal'
    => CallsFirst'
<1> SUFFICES ASSUME Ownership, CallsFirst, Watched, [Next]_vars,
                    ~is_task_stop_signal'
             PROVE  CallsFirst'
  OBVIOUS
<1> USE DEF Ownership, TypeOK, Control, Protocol, CallsFirst, OneThread, Watched,
            InCall, CallerPC, EndPC, fields, scan, flags, caller, ending
<1>1. QED
  BY DEF Next, Call, CallerStep, WorkerStep, WaitMoves, EndStep, Freed, vars,
         Start, Metadata, DecodeReject, DecodePost, MayCall, DecodeWait,
         DecodeReturn, WorkerStart, CallWait, WaitBlock, CWaitMatch,
         CWaitNoMatch, CWaitInPlace, CWaitTerm, PyWaitScan, PyWaitInPlace,
         PyWaitFound, PyWaitNotFound, CallFetch, FetchPacked, FetchNothing,
         ConsumeSamples, WorkerLeave, WorkerEnd, Terminate, MayTerminate,
         Destroy, RequestStop, StopWorker, Join, Reset, Release,
         SpuriousWakeup

\* Every step keeps a failure within reach of the send that has to report it.
LEMMA WatchedStep ==
  Ownership /\ CallsFirst /\ Watched /\ [Next]_vars /\ ~is_task_stop_signal'
    => Watched'
<1> SUFFICES ASSUME Ownership, CallsFirst, Watched, [Next]_vars,
                    ~is_task_stop_signal'
             PROVE  Watched'
  OBVIOUS
<1> USE DEF Ownership, TypeOK, Flags, Control, Free, Protocol, MutexHeld,
            OneThread, Sleepers, StopRequested, SamplesLent, CallsFirst, Joined,
            Watched, InCall, fields, scan, flags, caller, ending
<1>1. ASSUME NEW ok \in BOOLEAN, Start(ok) PROVE Watched'
  BY <1>1, Zenon DEF Start, MayCall
<1>2. ASSUME NEW raises \in BOOLEAN, Metadata(raises) PROVE Watched'
  BY <1>2, Zenon DEF Metadata, MayCall
<1>3. ASSUME NEW n \in 1 .. MaxChunk, DecodeReject(n) PROVE Watched'
  BY <1>3, Zenon DEF DecodeReject, Expected, MayCall
<1>4. ASSUME NEW n \in 1 .. MaxChunk, DecodePost(n) PROVE Watched'
  BY <1>4, Zenon DEF DecodePost, PostSamples, ChunkEnd, MayCall
<1>5. CASE DecodeWait
  BY <1>5, Zenon DEF DecodeWait, DecodeDone
<1>6. CASE DecodeReturn
  BY <1>6, Zenon DEF DecodeReturn
<1>7. CASE WorkerStart
  BY <1>7, Zenon DEF WorkerStart
<1>8. CASE CallWait
  BY <1>8, Zenon DEF CallWait
<1>9. CASE WaitBlock
  BY <1>9, Zenon DEF WaitBlock, Awake, HasWork
<1>10. ASSUME NEW m \in Samples, CWaitMatch(m) PROVE Watched'
  BY <1>10, Zenon DEF CWaitMatch, ScanMatch, Samples, Awake, ScanFrom
<1>11. CASE CWaitNoMatch
  BY <1>11, Zenon DEF CWaitNoMatch, ScanNoMatch, ScanFrom, MarkHandled, Awake
<1>12. CASE CWaitInPlace
  BY <1>12, Zenon DEF CWaitInPlace, Awake
<1>13. CASE CWaitTerm
  BY <1>13, Zenon DEF CWaitTerm, Awake
<1>14. CASE PyWaitScan
  BY <1>14, Zenon DEF PyWaitScan, ScanMatch, ScanNoMatch, ScanFrom, Samples,
     Awake, HasWork
<1>15. CASE PyWaitInPlace
  BY <1>15, Zenon DEF PyWaitInPlace, Awake
<1>16. CASE PyWaitFound
  BY <1>16, Zenon DEF PyWaitFound
<1>17. CASE PyWaitNotFound
  BY <1>17, Zenon DEF PyWaitNotFound, MarkHandled
<1>18. CASE CallFetch
  BY <1>18, Zenon DEF CallFetch
<1>19. CASE FetchPacked
  BY <1>19, Zenon DEF FetchPacked, Awake, HasWork
<1>20. CASE FetchNothing
  BY <1>20, Zenon DEF FetchNothing, Awake, HasWork
<1>21. ASSUME NEW n \in 1 .. MaxChunk, ConsumeSamples(n) PROVE Watched'
  BY <1>21, Zenon DEF ConsumeSamples, MarkHandled
<1>22. CASE WorkerLeave
  <2>1. /\ wpc' = "signal"
        /\ UNCHANGED <<cpc, tpc, got_new_samples, want_wait_terminate, kind,
                       is_task_stop_signal, thread_handle>>
    BY <1>22, Zenon DEF WorkerLeave
  <2>2. \/ ~crashed /\ crashed' = crashed
        \/ wpc = "decode" /\ proc_error' = TRUE /\ kind = "python"
    BY <1>22, Zenon DEF WorkerLeave, DecodeLeaves
  <2>3. ASSUME wpc = "decode", kind = "python" PROVE got_new_samples /\ InCall
    BY <2>1, <2>3, Zenon
  <2>4. QED
    BY <2>1, <2>2, <2>3, SMT DEF Watched, InCall
<1>23. CASE WorkerEnd
  BY <1>23, Zenon DEF WorkerEnd
<1>24. CASE Terminate
  BY <1>24, Zenon DEF Terminate, RequestStop, StopWorker, MayTerminate
<1>25. CASE Destroy
  BY <1>25, Zenon DEF Destroy, RequestStop, StopWorker
<1>26. CASE Join
  BY <1>26, Zenon DEF Join, Joinable
<1>27. ASSUME NEW raises \in BOOLEAN, Reset(raises) PROVE Watched'
  BY <1>27, Zenon DEF Reset, ResetState
<1>28. CASE Release
  BY <1>28, Zenon DEF Release, ResetState
<1>29. ASSUME NEW t \in {"caller", "worker"}, SpuriousWakeup(t) PROVE Watched'
  BY <1>29, Zenon DEF SpuriousWakeup
<1>30. CASE UNCHANGED vars
  BY <1>30, Zenon DEF vars
<1>31. QED
  BY <1>1, <1>2, <1>3, <1>4, <1>5, <1>6, <1>7, <1>8, <1>9, <1>10, <1>11,
     <1>12, <1>13, <1>14, <1>15, <1>16, <1>17, <1>18, <1>19, <1>20, <1>21,
     <1>22, <1>23, <1>24, <1>25, <1>26, <1>27, <1>28, <1>29, <1>30
     DEF Next, Call, CallerStep, WorkerStep, WaitMoves, EndStep, Freed

\* Nothing takes the stop signal back.
LEMMA ToldStep == is_task_stop_signal /\ [Next]_vars => is_task_stop_signal'
  BY DEF Next, Call, CallerStep, WorkerStep, WaitMoves, EndStep, Freed, vars,
         Start, Metadata, DecodeReject, DecodePost, MayCall, DecodeWait,
         DecodeReturn, WorkerStart, CallWait, WaitBlock, CWaitMatch,
         CWaitNoMatch, CWaitInPlace, CWaitTerm, PyWaitScan, PyWaitInPlace,
         PyWaitFound, PyWaitNotFound, CallFetch, FetchPacked, FetchNothing,
         ConsumeSamples, WorkerLeave, WorkerEnd, Terminate, MayTerminate,
         Destroy, RequestStop, StopWorker, Join, Reset, Release,
         SpuriousWakeup

\* Until the instance is first told to stop, the srd_inst_decode call during
\* which decode() raised does not return SRD_OK: whatever the client does,
\* concurrent terminations and misread chunk ends included.
THEOREM FirstFailureIsReported == Spec => FirstFailureReported
<1> DEFINE Untold == ~is_task_stop_signal => CallsFirst /\ Watched
<1>1. Init => Ownership /\ Untold
  BY OwnershipInit DEF Init, CallsFirst, Watched, InCall
<1>2. Ownership /\ Untold /\ [Next]_vars => Ownership' /\ Untold'
  <2> SUFFICES ASSUME Ownership, Untold, [Next]_vars
               PROVE  Ownership' /\ Untold'
    OBVIOUS
  <2>1. Ownership'
    BY OwnershipStep
  <2>2. ASSUME ~is_task_stop_signal' PROVE CallsFirst' /\ Watched'
    <3>1. CallsFirst /\ Watched
      BY <2>2, ToldStep
    <3>2. QED
      BY <2>2, <3>1, UntoldCallsFirst, WatchedStep
  <2>3. QED
    BY <2>1, <2>2
<1>3. Ownership /\ Untold /\ [Next]_vars
        => [cpc = "extract" /\ cpc' = "idle" /\ crashed /\ ~is_task_stop_signal
              => ret' # "SRD_OK"]_vars
  <2> SUFFICES ASSUME Watched, cpc = "extract", cpc' = "idle", crashed, Next
               PROVE  ret' # "SRD_OK"
    BY DEF Untold
  <2>1. DecodeReturn
    BY DEF Next, Call, CallerStep, WorkerStep, WaitMoves, EndStep, Freed, vars,
           Start, Metadata, DecodeReject, DecodePost, MayCall, DecodeWait,
           WorkerStart, CallWait, WaitBlock, CWaitMatch, CWaitNoMatch,
           CWaitInPlace, CWaitTerm, PyWaitScan, PyWaitInPlace, PyWaitFound,
           PyWaitNotFound, CallFetch, FetchPacked, FetchNothing,
           ConsumeSamples, WorkerLeave, WorkerEnd, Terminate, Destroy,
           RequestStop, Join, Reset, Release, SpuriousWakeup, caller
  <2>2. QED
    BY <2>1 DEF DecodeReturn, Watched
<1>4. QED
  BY <1>1, <1>2, <1>3, PTL DEF Spec, FirstFailureReported

-----------------------------------------------------------------------------
(* Counting the samples.                                                   *)

\* Every step keeps scanner, caller and client in agreement.
LEMMA CountStep ==
  ASSUME InclusiveEnd = FALSE
  PROVE  Accounting /\ [Next]_vars => (InsideChunk /\ TakenToEnd /\ InStep)'
<1> SUFFICES ASSUME Accounting, [Next]_vars
             PROVE  (InsideChunk /\ TakenToEnd /\ InStep)'
  OBVIOUS
<1> USE ConstantsAssumption
        DEF Accounting, Ownership, TypeOK, SampleNumbers, Flags, Control, Free,
            NULL, Protocol, MutexHeld, OneThread, Sleepers, StopRequested,
            SamplesLent, Joined, InsideChunk, TakenToEnd, InStep,
            InCall, Expected, fields, scan, flags, caller, ending
<1>1. ASSUME NEW ok \in BOOLEAN, Start(ok) PROVE (InsideChunk /\ TakenToEnd /\ InStep)'
  BY <1>1, SMT DEF Start, MayCall
<1>2. ASSUME NEW raises \in BOOLEAN, Metadata(raises) PROVE (InsideChunk /\ TakenToEnd /\ InStep)'
  BY <1>2, SMT DEF Metadata, MayCall
<1>3. ASSUME NEW n \in 1 .. MaxChunk, DecodeReject(n) PROVE (InsideChunk /\ TakenToEnd /\ InStep)'
  BY <1>3, SMT DEF DecodeReject, MayCall
<1>4. ASSUME NEW n \in 1 .. MaxChunk, DecodePost(n) PROVE (InsideChunk /\ TakenToEnd /\ InStep)'
  BY <1>4, SMT DEF DecodePost, PostSamples, ChunkEnd, MayCall
<1>5. CASE DecodeWait
  BY <1>5, SMT DEF DecodeWait, DecodeDone
<1>6. CASE DecodeReturn
  BY <1>6, SMT DEF DecodeReturn
<1>7. CASE WorkerStart
  BY <1>7, SMT DEF WorkerStart
<1>8. CASE CallWait
  BY <1>8, SMT DEF CallWait
<1>9. CASE WaitBlock
  BY <1>9, SMT DEF WaitBlock, Awake, HasWork
<1>10. ASSUME NEW m \in Samples, CWaitMatch(m) PROVE (InsideChunk /\ TakenToEnd /\ InStep)'
  BY <1>10, SMT DEF CWaitMatch, ScanMatch, Samples, Awake, ScanFrom
<1>11. CASE CWaitNoMatch
  BY <1>11, SMT DEF CWaitNoMatch, ScanNoMatch, ScanFrom, MarkHandled, Awake
<1>12. CASE CWaitInPlace
  BY <1>12, SMT DEF CWaitInPlace, Awake
<1>13. CASE CWaitTerm
  BY <1>13, SMT DEF CWaitTerm, Awake
<1>14. CASE PyWaitScan
  BY <1>14, SMT DEF PyWaitScan, ScanMatch, ScanNoMatch, ScanFrom, Samples,
     Awake, HasWork
<1>15. CASE PyWaitInPlace
  BY <1>15, SMT DEF PyWaitInPlace, Awake
<1>16. CASE PyWaitFound
  BY <1>16, SMT DEF PyWaitFound
<1>17. CASE PyWaitNotFound
  BY <1>17, SMT DEF PyWaitNotFound, MarkHandled
<1>18. CASE CallFetch
  BY <1>18, SMT DEF CallFetch
<1>19. CASE FetchPacked
  BY <1>19, SMT DEF FetchPacked, Awake, HasWork
<1>20. CASE FetchNothing
  BY <1>20, SMT DEF FetchNothing, Awake, HasWork
<1>21. ASSUME NEW n \in 1 .. MaxChunk, ConsumeSamples(n) PROVE (InsideChunk /\ TakenToEnd /\ InStep)'
  <2>1. /\ want_wait_terminate' = want_wait_terminate
        /\ UNCHANGED <<cpc, tpc, lo, hi, next, started>>
    BY <1>21, Zenon DEF ConsumeSamples
  <2>2. wpc = "packed" /\ got_new_samples
    BY <1>21, Zenon DEF ConsumeSamples
  <2>3. CASE want_wait_terminate
    <3>1. wpc' = "finish"
      BY <1>21, <2>3, Zenon DEF ConsumeSamples
    <3>2. QED
      BY <2>1, <2>3, <3>1, SMT
  <2>4. CASE ~want_wait_terminate
    <3>1. /\ wpc = "packed" /\ got_new_samples /\ ~want_wait_terminate
          /\ cpc \in {"relock", "wait"} /\ started
          /\ abs_end_samplenum = hi
          /\ lo <= abs_cur_samplenum /\ abs_cur_samplenum <= hi
      BY <2>2, <2>4, SMT
    <3>2. CASE n > abs_end_samplenum - abs_cur_samplenum
      <4>1. ~(n <= abs_end_samplenum - abs_cur_samplenum)
        BY <3>2, SMT
      <4>2. /\ wpc' = "finish"
            /\ UNCHANGED <<abs_end_samplenum, inbuf, abs_cur_samplenum,
                           abs_cur_matched, got_new_samples>>
        BY <1>21, <4>1, Zenon DEF ConsumeSamples
      <4>3. QED
        BY <3>1, <2>1, <4>2, SMT
    <3>3. CASE n <= abs_end_samplenum - abs_cur_samplenum
      <4>1. ~(n > abs_end_samplenum - abs_cur_samplenum)
        BY <3>3, SMT
      <4>2. /\ abs_cur_samplenum' = abs_cur_samplenum + n
            /\ abs_cur_matched' = FALSE
            /\ wpc' = "decode"
        BY <1>21, <3>1, <4>1, Zenon DEF ConsumeSamples
      <4>3. CASE abs_cur_samplenum + n >= abs_end_samplenum
        <5>1. got_new_samples' = FALSE /\ inbuf' = NULL
          BY <1>21, <3>1, <4>1, <4>3, Zenon DEF ConsumeSamples, MarkHandled
        <5>2. QED
          BY <3>1, <2>1, <3>3, <4>2, <4>3, <5>1, SMT
      <4>4. CASE ~(abs_cur_samplenum + n >= abs_end_samplenum)
        <5>1. UNCHANGED <<abs_end_samplenum, inbuf, got_new_samples>>
          BY <1>21, <3>1, <4>1, <4>4, Zenon DEF ConsumeSamples
        <5>2. QED
          BY <3>1, <2>1, <3>3, <4>2, <4>4, <5>1, SMT
      <4>5. QED
        BY <4>3, <4>4
    <3>4. QED
      BY <3>2, <3>3, SMT
  <2>5. QED
    BY <2>3, <2>4
<1>22. CASE WorkerLeave
  BY <1>22, SMT DEF WorkerLeave, DecodeLeaves
<1>23. CASE WorkerEnd
  BY <1>23, SMT DEF WorkerEnd
<1>24. CASE Terminate
  BY <1>24, SMT DEF Terminate, RequestStop, StopWorker, MayTerminate
<1>25. CASE Destroy
  BY <1>25, SMT DEF Destroy, RequestStop, StopWorker
<1>26. CASE Join
  BY <1>26, SMT DEF Join, Joinable
<1>27. ASSUME NEW raises \in BOOLEAN, Reset(raises) PROVE (InsideChunk /\ TakenToEnd /\ InStep)'
  BY <1>27, SMT DEF Reset, ResetState
<1>28. CASE Release
  BY <1>28, SMT DEF Release, ResetState
<1>29. ASSUME NEW t \in {"caller", "worker"}, SpuriousWakeup(t) PROVE (InsideChunk /\ TakenToEnd /\ InStep)'
  BY <1>29, SMT DEF SpuriousWakeup
<1>30. CASE UNCHANGED vars
  BY <1>30, SMT DEF vars
<1>31. QED
  BY <1>1, <1>2, <1>3, <1>4, <1>5, <1>6, <1>7, <1>8, <1>9, <1>10, <1>11,
     <1>12, <1>13, <1>14, <1>15, <1>16, <1>17, <1>18, <1>19, <1>20, <1>21,
     <1>22, <1>23, <1>24, <1>25, <1>26, <1>27, <1>28, <1>29, <1>30
     DEF Next, Call, CallerStep, WorkerStep, WaitMoves, EndStep, Freed

\* Whoever has the samples, scanner, caller and client agree on how many have
\* been taken: none is lost or taken twice between two srd_inst_decode calls.
THEOREM AccountingInvariant ==
  ASSUME InclusiveEnd = FALSE
  PROVE  Spec => []Accounting
<1>1. Init => Accounting
  BY OwnershipInit DEF Accounting, Init, InsideChunk, TakenToEnd, InStep, InCall
<1>2. Accounting /\ [Next]_vars => Accounting'
  BY OwnershipStep, CountStep DEF Accounting
<1>3. QED
  BY <1>1, <1>2, PTL DEF Spec

\* When srd_inst_decode stops waiting, the worker still lives and the instance
\* has not been reset meanwhile, the worker has taken every sample of the chunk
\* and no longer refers to the buffer.
THEOREM WholeChunkTaken ==
  ASSUME InclusiveEnd = FALSE
  PROVE  Spec => []ChunkHandled
<1>1. Accounting => ChunkHandled
  BY SMT DEF Accounting, Ownership, Protocol, SamplesLent, TakenToEnd, InCall,
             ChunkHandled
<1>2. QED
  BY <1>1, AccountingInvariant, PTL

\* A client that sends consecutive chunks is never refused while the worker
\* lives: srd_inst_decode expects exactly the sample the client goes on with.
THEOREM NeverRefused ==
  ASSUME InclusiveEnd = FALSE
  PROVE  Spec => []ConsecutiveAccepted
<1>1. Accounting => ConsecutiveAccepted
  BY SMT DEF Accounting, Ownership, TypeOK, Control, InStep, Expected,
             ConsecutiveAccepted
<1>2. QED
  BY <1>1, AccountingInvariant, PTL

-----------------------------------------------------------------------------
(* The monitor implements SendService, step by step.                       *)

\* The initial states map to initial states.
LEMMA ServiceInit == Init => Service!Init
  BY DEF Init, Service!Init, InCall

\* A step that changes none of the mapped variables.
LEMMA ServiceStutter ==
  ASSUME UNCHANGED <<cpc, want_wait_terminate, abs_cur_samplenum, hi>>
  PROVE  UNCHANGED Service!vars
  BY DEF Service!vars, InCall

\* The scanner moves on within the chunk it has been lent.
LEMMA ServiceTake ==
  ASSUME Accounting, NEW p \in Nat,
         got_new_samples, ~want_wait_terminate,
         abs_cur_samplenum <= p, p <= hi,
         abs_cur_samplenum' = p,
         UNCHANGED <<cpc, want_wait_terminate, hi>>
  PROVE  [Service!Next]_(Service!vars)
<1> USE DEF Accounting, Ownership, TypeOK, SampleNumbers, Protocol, SamplesLent,
            InsideChunk, TakenToEnd, InStep, InCall
<1>1. CASE p = abs_cur_samplenum
  BY <1>1, ServiceStutter
<1>2. CASE p # abs_cur_samplenum
  <2>1. p - abs_cur_samplenum \in 1 .. MaxChunk
    BY <1>2, ConstantsAssumption, SMT
  <2>2. InCall /\ InCall'
    BY DEF InCall
  <2>3. Service!Take(p - abs_cur_samplenum)
    BY <2>1, <2>2, SMT DEF Service!Take
  <2>4. QED
    BY <2>1, <2>3 DEF Service!Next
<1>3. QED
  BY <1>1, <1>2

\* The decoder stops: the sample numbers no longer mean anything.
LEMMA ServiceStop ==
  ASSUME want_wait_terminate', UNCHANGED cpc
  PROVE  Service!Next
  BY DEF Service!Next, Service!Stop, InCall

\* Every step of the monitor is one of the service, or none.
LEMMA ServiceStep ==
  ASSUME ConcurrentAbort = FALSE, InclusiveEnd = FALSE
  PROVE  Accounting /\ Patient /\ [Next]_vars => [Service!Next]_(Service!vars)
<1> SUFFICES ASSUME Accounting, Patient, [Next]_vars
             PROVE  [Service!Next]_(Service!vars)
  OBVIOUS
<1> USE DEF fields, scan, flags, caller, ending
<1>1. ASSUME NEW ok \in BOOLEAN, Start(ok) PROVE [Service!Next]_(Service!vars)
  BY <1>1, ServiceStutter, Zenon DEF Start
<1>2. ASSUME NEW raises \in BOOLEAN, Metadata(raises) PROVE [Service!Next]_(Service!vars)
  BY <1>2, ServiceStutter, Zenon DEF Metadata
<1>3. ASSUME NEW n \in 1 .. MaxChunk, DecodeReject(n) PROVE [Service!Next]_(Service!vars)
  <2>1. abs_cur_samplenum' = abs_cur_samplenum
    BY <1>3 DEF DecodeReject, Expected
  <2>2. QED
    BY <1>3, <2>1, ServiceStutter, Zenon DEF DecodeReject
<1>4. ASSUME NEW n \in 1 .. MaxChunk, DecodePost(n) PROVE [Service!Next]_(Service!vars)
  <2>1. /\ ~InCall /\ InCall'
        /\ next + n <= MaxSample
        /\ abs_cur_samplenum' = next
        /\ hi' = next + n
        /\ UNCHANGED want_wait_terminate
        /\ tpc = "idle"
    BY <1>4, Zenon DEF DecodePost, PostSamples, MayCall, ChunkEnd, InCall
  <2>2. ~want_wait_terminate => abs_cur_samplenum = next
    BY <1>4, Zenon DEF DecodePost, MayCall, Accounting, InStep
  <2>3. next \in Nat /\ n \in Nat /\ MaxSample \in Nat
    BY ConstantsAssumption, SMT DEF Accounting, Ownership, TypeOK, SampleNumbers
  <2>4. Service!Lend(n)
    BY <2>1, <2>2, <2>3, SMT DEF Service!Lend
  <2>5. QED
    BY <1>4, <2>4 DEF Service!Next
<1>5. CASE DecodeWait
  <2>1. InCall /\ InCall' /\ UNCHANGED <<want_wait_terminate, abs_cur_samplenum, hi>>
    BY <1>5, Zenon DEF DecodeWait, InCall
  <2>2. UNCHANGED Service!vars
    BY <2>1 DEF Service!vars
  <2>3. QED
    BY <2>2
<1>6. CASE DecodeReturn
  <2>1. InCall /\ ~InCall' /\ UNCHANGED <<want_wait_terminate, abs_cur_samplenum, hi>>
    BY <1>6, Zenon DEF DecodeReturn, InCall
  <2>2. ~want_wait_terminate => abs_cur_samplenum = hi
    BY <1>6, <2>1 DEF DecodeReturn, Accounting, Ownership, Protocol, SamplesLent,
                      TakenToEnd, Patient
  <2>3. Service!Return
    BY <2>1, <2>2 DEF Service!Return
  <2>4. QED
    BY <2>3 DEF Service!Next
<1>7. CASE WorkerStart
  BY <1>7, ServiceStutter, Zenon DEF WorkerStart
<1>8. CASE CallWait
  BY <1>8, ServiceStutter, Zenon DEF CallWait
<1>9. CASE WaitBlock
  BY <1>9, ServiceStutter, Zenon DEF WaitBlock
<1>10. ASSUME NEW m \in Samples, CWaitMatch(m) PROVE [Service!Next]_(Service!vars)
  <2>1. /\ abs_cur_samplenum' = m /\ m \in Nat
        /\ abs_cur_samplenum <= m /\ m <= hi
        /\ got_new_samples /\ ~want_wait_terminate
    BY <1>10, SMT DEF CWaitMatch, ScanMatch, Samples, Accounting, Ownership,
                      TypeOK, SampleNumbers, Flags, InsideChunk, ScanFrom
  <2>2. QED
    BY <1>10, <2>1, ServiceTake, Zenon DEF CWaitMatch
<1>11. CASE CWaitNoMatch
  <2>1. /\ abs_cur_samplenum' = hi /\ hi \in Nat
        /\ abs_cur_samplenum <= hi /\ hi <= hi
        /\ got_new_samples /\ ~want_wait_terminate
    BY <1>11, SMT DEF CWaitNoMatch, ScanNoMatch, Accounting, Ownership, TypeOK,
                      SampleNumbers, Flags, InsideChunk, ScanFrom, Awake
  <2>2. UNCHANGED <<cpc, want_wait_terminate, hi>>
    BY <1>11, Zenon DEF CWaitNoMatch
  <2>3. QED
    BY <2>1, <2>2, ServiceTake, Zenon
<1>12. CASE CWaitInPlace
  BY <1>12, ServiceStutter, Zenon DEF CWaitInPlace
<1>13. CASE CWaitTerm
  BY <1>13, ServiceStutter, Zenon DEF CWaitTerm
<1>14. CASE PyWaitScan
  <2>1. UNCHANGED <<cpc, want_wait_terminate, hi>>
    BY <1>14, Zenon DEF PyWaitScan
  <2>2. CASE want_wait_terminate
    BY <1>14, <2>1, <2>2, ServiceStutter, Zenon DEF PyWaitScan
  <2>3. CASE ~want_wait_terminate
    <3>1. got_new_samples /\ wpc = "wait"
      BY <1>14, <2>3, Zenon DEF PyWaitScan, HasWork, Awake
    <3>2. /\ abs_cur_samplenum' \in Nat
          /\ abs_cur_samplenum <= abs_cur_samplenum'
          /\ abs_cur_samplenum' <= hi
      BY <1>14, <2>3, <3>1, SMT DEF PyWaitScan, ScanMatch, ScanNoMatch, Samples,
         Accounting, Ownership, TypeOK, SampleNumbers, Flags, InsideChunk,
         ScanFrom
    <3>3. QED
      BY <2>1, <2>3, <3>1, <3>2, ServiceTake, Zenon
  <2>4. QED
    BY <2>2, <2>3
<1>15. CASE PyWaitInPlace
  BY <1>15, ServiceStutter, Zenon DEF PyWaitInPlace
<1>16. CASE PyWaitFound
  BY <1>16, ServiceStutter, Zenon DEF PyWaitFound
<1>17. CASE PyWaitNotFound
  BY <1>17, ServiceStutter, Zenon DEF PyWaitNotFound
<1>18. CASE CallFetch
  BY <1>18, ServiceStutter, Zenon DEF CallFetch
<1>19. CASE FetchPacked
  BY <1>19, ServiceStutter, Zenon DEF FetchPacked
<1>20. CASE FetchNothing
  BY <1>20, ServiceStutter, Zenon DEF FetchNothing
<1>21. ASSUME NEW n \in 1 .. MaxChunk, ConsumeSamples(n) PROVE [Service!Next]_(Service!vars)
  <2>1. /\ wpc = "packed" /\ got_new_samples /\ ~want_wait_terminate
        /\ UNCHANGED <<cpc, want_wait_terminate, hi>>
    BY <1>21, Zenon DEF ConsumeSamples, Accounting, Ownership, Protocol,
                        SamplesLent, Patient
  <2>2. \/ abs_cur_samplenum' = abs_cur_samplenum
        \/ /\ n <= abs_end_samplenum - abs_cur_samplenum
           /\ abs_cur_samplenum' = abs_cur_samplenum + n
    BY <1>21, Zenon DEF ConsumeSamples
  <2>3. /\ abs_cur_samplenum' \in Nat
        /\ abs_cur_samplenum <= abs_cur_samplenum'
        /\ abs_cur_samplenum' <= hi
    BY <2>1, <2>2, SMT DEF Accounting, Ownership, TypeOK, SampleNumbers,
                           InsideChunk
  <2>4. QED
    BY <2>1, <2>3, ServiceTake, Zenon
<1>22. CASE WorkerLeave
  BY <1>22, ServiceStutter, Zenon DEF WorkerLeave
<1>23. CASE WorkerEnd
  BY <1>23, ServiceStop, Zenon DEF WorkerEnd
<1>24. CASE Terminate
  <2>1. CASE thread_handle
    BY <1>24, <2>1, ServiceStop, Zenon DEF Terminate, RequestStop, StopWorker
  <2>2. CASE ~thread_handle
    BY <1>24, <2>2, ServiceStutter, Zenon DEF Terminate, RequestStop
  <2>3. QED
    BY <2>1, <2>2
<1>25. CASE Destroy
  <2>1. CASE thread_handle
    BY <1>25, <2>1, ServiceStop, Zenon DEF Destroy, RequestStop, StopWorker
  <2>2. CASE ~thread_handle
    BY <1>25, <2>2, ServiceStutter, Zenon DEF Destroy, RequestStop
  <2>3. QED
    BY <2>1, <2>2
<1>26. CASE Join
  BY <1>26, ServiceStutter, Zenon DEF Join
<1>27. ASSUME NEW raises \in BOOLEAN, Reset(raises) PROVE [Service!Next]_(Service!vars)
  <2>1. /\ cpc = "idle" /\ cpc' = "idle" /\ abs_cur_samplenum' = 0
        /\ ~want_wait_terminate'
    BY <1>27 DEF Reset, ResetState, Patient, CallsFirst
  <2>2. Service!Restart
    BY <2>1 DEF Service!Restart, InCall
  <2>3. QED
    BY <2>2 DEF Service!Next
<1>28. CASE Release
  <2>1. /\ cpc = "idle" /\ cpc' = "idle" /\ abs_cur_samplenum' = 0
        /\ ~want_wait_terminate'
    BY <1>28 DEF Release, ResetState, Patient, CallsFirst
  <2>2. Service!Restart
    BY <2>1 DEF Service!Restart, InCall
  <2>3. QED
    BY <2>2 DEF Service!Next
<1>29. ASSUME NEW t \in {"caller", "worker"}, SpuriousWakeup(t) PROVE [Service!Next]_(Service!vars)
  BY <1>29, ServiceStutter, Zenon DEF SpuriousWakeup
<1>30. CASE UNCHANGED vars
  BY <1>30, ServiceStutter, Zenon DEF vars
<1>31. QED
  BY <1>1, <1>2, <1>3, <1>4, <1>5, <1>6, <1>7, <1>8, <1>9, <1>10, <1>11,
     <1>12, <1>13, <1>14, <1>15, <1>16, <1>17, <1>18, <1>19, <1>20, <1>21,
     <1>22, <1>23, <1>24, <1>25, <1>26, <1>27, <1>28, <1>29, <1>30
     DEF Next, Call, CallerStep, WorkerStep, WaitMoves, EndStep, Freed

\* Feeding samples through the monitor is a behaviour of the plain service: a
\* call lends the next samples, they are taken in order and only while they are
\* lent, and the call returns when all are taken or the decoder has stopped.
\* (ImplementsService without its fairness.)
THEOREM StepsImplementService ==
  ASSUME ConcurrentAbort = FALSE, InclusiveEnd = FALSE
  PROVE  Spec => Service!Init /\ [][Service!Next]_(Service!vars)
  BY ServiceInit, ServiceStep, AccountingInvariant, PatientInvariant, PTL DEF Spec
=============================================================================
