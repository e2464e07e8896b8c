--------------------------- MODULE AnnBatchProofs ---------------------------
(***************************************************************************)
(* Proofs about AnnBatch, for every number of stacks, size of batch, block *)
(* and pool.                                                               *)
(*                                                                         *)
(* No lock protects the batch.  Control says what does: the loops of       *)
(* session.c let one worker run at a time, except where terminate_reset    *)
(* runs beside a send and where srd_session_destroy stops all workers at   *)
(* once; between Python decoders the GIL does it everywhere.  A session is *)
(* Calm where at most one thread can be inside a put or a flush, and the   *)
(* contents of the batch (Ledger) are proved for calm sessions.  The arena *)
(* keeps its bounds (ArenaSound) in every session.                         *)
(***************************************************************************)
EXTENDS AnnBatch, TLAPS, FiniteSetTheorems, SequenceTheorems

-----------------------------------------------------------------------------
(* The inductive invariant.                                                *)

AllPython == \A w \in Workers : Lang[w] = "python"

\* At most one thread is inside a put or a flush: one stack, the GIL, or a
\* session that is neither being destroyed nor reset beside a send.
Calm == N <= 1 \/ AllPython \/ (~ConcurrentAbort /\ Listed)

Flushing == {"deliver", "recycle", "zero"}

Active == {"run"} \cup Busy

\* The types, except that n may pass the end of the array if threads race.
BaseTypes ==
    /\ callbacks \in Seq({"legacy", "wrapper"})
    /\ cb \in BOOLEAN
    /\ items \in [0 .. MaxBatch - 1 -> Items]
    /\ n \in Nat
    /\ arena \subseteq Blocks
    /\ pool \subseteq Blocks
    /\ head \in Blocks \cup {NULL}
    /\ used \in [Blocks -> Nat]
    /\ cap \in [Blocks -> Nat]
    /\ pc \in [Threads -> PCs]
    /\ need \in [Threads -> Seq(Nat)]
    /\ mine \in [Threads -> SUBSET Blocks]
    /\ number \in [Threads -> Nat]
    /\ slot \in [Threads -> Nat]
    /\ count \in [Threads -> Nat]
    /\ after \in [Threads -> {"run", "take", "ended"}]
    /\ gil \in Threads \cup {Free}
    /\ cpc \in {"idle", "send", "sending", "end"}
    /\ turn \in Workers \cup {0}
    /\ tpc \in {"idle", "reset", "join_reset", "join_all", "flush", "gone"}
    /\ tturn \in Workers \cup {0}
    /\ puts \in Nat
    /\ delivered \in Nat
    /\ fails \in Nat

\* The client's thread runs end() methods and, at last, the final flush.
ClientPhases ==
    /\ cpc = "end" => tpc = "idle" /\ pc[0] \in Active
    /\ ~Listed => cpc = "idle"
    /\ pc[0] # "none" => cpc = "end" \/ tpc \in {"flush", "gone"}
    /\ tpc \in {"flush", "gone"} =>
          /\ \A w \in Workers : pc[w] = "none"
          /\ pc[0] \in Flushing \cup {"none", "ended"}
    /\ tpc = "gone" => pc[0] = "ended"
    /\ pc[0] \in Flushing => (after[0] = "ended" <=> tpc = "flush")

\* A worker runs only while a loop of session.c waits for it.
Scheduled ==
    /\ cpc \in {"send", "sending"} => turn \in Workers
    /\ tpc \in {"reset", "join_reset"} => tturn \in Workers
    /\ \A w \in Workers : pc[w] \in Active =>
          \/ cpc = "sending" /\ turn = w
          \/ tpc = "join_reset" /\ tturn = w
          \/ tpc = "join_all"
    /\ ~ConcurrentAbort => cpc = "idle" \/ tpc = "idle"

\* Among Python decoders whoever is inside a put or a flush holds the GIL,
\* except the client's final flush, which has the session for itself.
GilHeld ==
    AllPython =>
        /\ \A t \in Threads : pc[t] \in Busy =>
              gil = t \/ tpc \in {"flush", "gone"}
        /\ gil # Free => pc[gil] \in Busy /\ tpc \notin {"flush", "gone"}

\* Without a batch callback nothing enters the batch.
NoBatch == ~cb => n = 0 /\ \A t \in Threads : pc[t] \notin Busy

Control == BaseTypes /\ ClientPhases /\ Scheduled /\ GilHeld /\ NoBatch

\* The arena: the current block is in the chain, no block is in the chain and
\* in the pool, and nothing exceeds its bound.
ArenaSound ==
    /\ IsFiniteSet(arena) /\ IsFiniteSet(pool)
    /\ head # NULL => head \in arena
    /\ arena \cap pool = {}
    /\ BlocksFit
    /\ PoolBounded

\* The batch holds, in order, what was put and not delivered.
Ledger ==
    /\ n <= MaxBatch
    /\ n = MaxBatch => \E t \in Threads : pc[t] \in Flushing
    /\ (\A t \in Threads : pc[t] \notin {"recycle", "zero"}) =>
          \A i \in 0 .. n - 1 : /\ items[i].ann = delivered + i
                                /\ items[i].blocks \subseteq arena
    /\ (\A t \in Threads : pc[t] \notin {"take", "store", "recycle", "zero"}) =>
          puts = delivered + n
    /\ \A t \in Threads :
          /\ pc[t] \in {"take", "store"} =>
                number[t] = delivered + n /\ puts = delivered + n + 1
          /\ pc[t] \in {"recycle", "zero"} => puts = delivered
          /\ pc[t] \in {"alloc", "take", "store"} => mine[t] \subseteq arena
          /\ pc[t] = "store" => slot[t] = n
          /\ pc[t] = "deliver" => count[t] = n
          /\ pc[t] \in Flushing => after[t] # "take"
    /\ tpc = "flush" /\ pc[0] = "ended" => n = 0
    /\ tpc = "gone" => n = 0

-----------------------------------------------------------------------------
(* srd_ann_arena_alloc.                                                    *)

\* An allocation goes to a block of the chain that has room for it, and takes
\* from the pool what it moves to the chain.
LEMMA PlaceSound ==
    ASSUME BaseTypes, ArenaSound, NEW size \in Nat, Place(size)
    PROVE  /\ head' \in arena' /\ head' \in Blocks
           /\ arena' = arena \cup {head'}
           /\ pool' \subseteq pool /\ arena' \cap pool' = {}
           /\ used' \in [Blocks -> Nat] /\ cap' \in [Blocks -> Nat]
           /\ \A b \in arena' : used'[b] <= cap'[b]
<1> USE DEF BaseTypes, ArenaSound, BlocksFit
<1>1. CASE head # NULL /\ Room(head, size)
  <2>1. /\ used' = [used EXCEPT ![head] = used[head] + size]
        /\ UNCHANGED <<arena, head, pool, cap>>
    BY <1>1 DEF Place
  <2>2. head \in Blocks /\ used[head] + size <= cap[head]
    BY <1>1 DEF Room
  <2>3. QED
    BY <1>1, <2>1, <2>2, SMT
<1>2. ASSUME NEW b \in Blocks, b \notin arena, pool' \subseteq pool,
             b \notin pool', Begin(b, size), cap' \in [Blocks -> Nat],
             \A c \in Blocks : c # b => cap'[c] = cap[c], size <= cap'[b]
      PROVE  /\ head' \in arena' /\ head' \in Blocks
             /\ arena' = arena \cup {head'}
             /\ pool' \subseteq pool /\ arena' \cap pool' = {}
             /\ used' \in [Blocks -> Nat] /\ cap' \in [Blocks -> Nat]
             /\ \A c \in arena' : used'[c] <= cap'[c]
  BY <1>2 DEF Begin
<1>3. ASSUME NEW taken, arena \subseteq taken, pool' \subseteq pool \cap taken,
             NewBlock(taken, size)
      PROVE  \E b \in Blocks :
                /\ b \notin arena /\ b \notin pool' /\ Begin(b, size)
                /\ cap' \in [Blocks -> Nat] /\ size <= cap'[b]
                /\ \A c \in Blocks : c # b => cap'[c] = cap[c]
  <2>1. PICK b \in Blocks \ taken :
            /\ Begin(b, size)
            /\ cap' = [cap EXCEPT ![b] = IF size > BlockCap THEN size ELSE BlockCap]
    BY <1>3 DEF NewBlock
  <2>2. cap' \in [Blocks -> Nat] /\ size <= cap'[b]
    BY <2>1, BatchAssumption, SMT
  <2>3. QED
    BY <1>3, <2>1, <2>2
<1>4. CASE ~ (head # NULL /\ Room(head, size))
  <2>1. \/ \E b \in pool :
              /\ pool' = pool \ {b}
              /\ IF cap[b] < size
                 THEN NewBlock(arena \cup pool', size)
                 ELSE Begin(b, size) /\ UNCHANGED cap
        \/ pool = {} /\ NewBlock(arena, size) /\ UNCHANGED pool
    BY <1>4 DEF Place
  <2>2. CASE pool = {} /\ NewBlock(arena, size) /\ UNCHANGED pool
    BY <1>2, <1>3, <2>2
  <2>3. ASSUME NEW b \in pool, pool' = pool \ {b}, cap[b] < size,
               NewBlock(arena \cup pool', size)
        PROVE  \E c \in Blocks :
                  /\ c \notin arena /\ c \notin pool' /\ Begin(c, size)
                  /\ cap' \in [Blocks -> Nat] /\ size <= cap'[c]
                  /\ \A e \in Blocks : e # c => cap'[e] = cap[e]
    BY <1>3, <2>3
  <2>4. ASSUME NEW b \in pool, pool' = pool \ {b}, ~ (cap[b] < size),
               Begin(b, size), UNCHANGED cap
        PROVE  size <= cap'[b] /\ b \in Blocks /\ b \notin arena
    BY <2>4, SMT
  <2>5. QED
    BY <1>2, <2>1, <2>2, <2>3, <2>4
<1>5. QED
  BY <1>1, <1>4

-----------------------------------------------------------------------------
(* Threads.                                                                *)

\* Thread 0 is no worker, and the loops of session.c count through the workers.
LEMMA Numbers ==
    /\ Workers \subseteq Threads /\ 0 \in Threads /\ 0 \notin Workers
    /\ Free \notin Threads
    /\ N > 0 => 1 \in Workers
    /\ \A w \in Workers : w < N => w + 1 \in Workers
    /\ Threads = Workers \cup {0}
  BY BatchAssumption, SMT DEF Workers, Threads, Free

\* A thread enters flush_state with the number of items and a place to go on,
\* or passes an empty batch.
LEMMA FlushShape ==
    ASSUME BaseTypes, NEW t \in Threads, NEW where \in {"run", "take", "ended"},
           Flush(t, where)
    PROVE  /\ n = 0 => pc' = [pc EXCEPT ![t] = where]
                       /\ UNCHANGED <<count, after>>
           /\ n # 0 => /\ pc' = [pc EXCEPT ![t] = "deliver"]
                       /\ count' = [count EXCEPT ![t] = n]
                       /\ after' = [after EXCEPT ![t] = where]
           /\ pc' \in [Threads -> PCs]
           /\ count' \in [Threads -> Nat]
           /\ after' \in [Threads -> {"run", "take", "ended"}]
  BY DEF Flush, BaseTypes, PCs

\* What a step inside decoder code does to the control of its thread.
ThreadControl(t) ==
    /\ pc[t] \in Active
    /\ UNCHANGED <<cpc, turn, tpc, tturn>>
    /\ \A u \in Threads \ {t} : pc'[u] = pc[u] /\ after'[u] = after[u]
    /\ \/ /\ pc[t] \notin Flushing
          /\ pc'[t] \in Active
          /\ pc'[t] \in Flushing => after'[t] # "ended"
       \/ /\ pc[t] \in {"deliver", "recycle"}
          /\ pc'[t] \in Flushing
          /\ after'[t] = after[t]
       \/ pc[t] = "zero" /\ pc'[t] = after[t]

\* Every step inside decoder code is of this shape.
LEMMA ThreadShape ==
    ASSUME BaseTypes, NEW t \in Threads, ThreadStep(t)
    PROVE  ThreadControl(t)
<1> USE DEF BaseTypes, ThreadControl, Active, Flushing, Busy, session, locals, history
<1>1. ASSUME NEW lang \in {"c", "python"}, PutLegacy(t, lang)
      PROVE  ThreadControl(t)
  BY <1>1 DEF PutLegacy
<1>2. ASSUME NEW lang \in {"c", "python"}, NEW s \in Strings,
             PutBatch(t, lang, s)
      PROVE  ThreadControl(t)
  BY <1>2 DEF PutBatch
<1>3. CASE Alloc(t)
  BY <1>3 DEF Alloc
<1>4. CASE PutFails(t)
  BY <1>4 DEF PutFails
<1>5. CASE AppendItem(t)
  BY <1>5 DEF AppendItem, Flush
<1>6. CASE TakeSlot(t)
  BY <1>6 DEF TakeSlot
<1>7. CASE StoreItem(t)
  BY <1>7 DEF StoreItem
<1>8. CASE Deliver(t)
  BY <1>8 DEF Deliver
<1>9. CASE Recycle(t)
  BY <1>9 DEF Recycle
<1>10. CASE Zero(t)
  BY <1>10 DEF Zero
<1>11. QED
  BY <1>1, <1>2, <1>3, <1>4, <1>5, <1>6, <1>7, <1>8, <1>9, <1>10 DEF ThreadStep

-----------------------------------------------------------------------------
(* Types and control.                                                      *)

\* Every step keeps everything within its type.
LEMMA BaseTypesStep ==
    ASSUME Control, ArenaSound, [Next]_vars
    PROVE  BaseTypes'
<1> USE DEF BaseTypes, batch, heap, alloc, locals, session, history
<1> BaseTypes
  BY DEF Control
<1>1. ASSUME NEW t \in Threads, NEW lang \in {"c", "python"}, PutLegacy(t, lang)
      PROVE  BaseTypes'
  <2>1. puts' \in Nat /\ delivered' \in Nat
    BY <1>1 DEF PutLegacy
  <2>2. QED
    BY <1>1, <2>1 DEF PutLegacy
<1>2. ASSUME NEW t \in Threads, NEW lang \in {"c", "python"}, NEW s \in Strings,
             PutBatch(t, lang, s)
      PROVE  BaseTypes'
  BY <1>2, BatchAssumption DEF PutBatch, TakeGil, PCs
<1>3. ASSUME NEW t \in Threads, Alloc(t) PROVE BaseTypes'
  <2>1. Head(need[t]) \in Nat /\ Tail(need[t]) \in Seq(Nat) /\ Place(Head(need[t]))
    BY <1>3 DEF Alloc
  <2>2. QED
    BY <1>3, <2>1, PlaceSound DEF Alloc
<1>4. ASSUME NEW t \in Threads, PutFails(t) PROVE BaseTypes'
  BY <1>4 DEF PutFails, PCs
<1>5. ASSUME NEW t \in Threads, AppendItem(t) PROVE BaseTypes'
  <2>1. /\ pc' \in [Threads -> PCs] /\ count' \in [Threads -> Nat]
        /\ after' \in [Threads -> {"run", "take", "ended"}]
    BY <1>5, FlushShape DEF AppendItem, PCs
  <2>2. number' \in [Threads -> Nat] /\ puts' \in Nat
    BY <1>5 DEF AppendItem
  <2>3. QED
    BY <1>5, <2>1, <2>2 DEF AppendItem
<1>6. ASSUME NEW t \in Threads, TakeSlot(t) PROVE BaseTypes'
  BY <1>6 DEF TakeSlot, PCs
<1>7. ASSUME NEW t \in Threads, StoreItem(t) PROVE BaseTypes'
  <2>1. slot[t] \in Nat /\ slot[t] + 1 \in Nat /\ n' \in Nat
    BY <1>7 DEF StoreItem
  <2>2. items' \in [0 .. MaxBatch - 1 -> Items]
    BY <1>7 DEF StoreItem, Items
  <2>3. /\ pc' \in [Threads -> PCs] /\ count' \in [Threads -> Nat]
        /\ after' \in [Threads -> {"run", "take", "ended"}]
        /\ gil' \in Threads \cup {Free}
    <3>1. CASE Full(slot[t] + 1)
      <4>1. /\ pc' = [pc EXCEPT ![t] = "deliver"]
            /\ count' = [count EXCEPT ![t] = slot[t] + 1]
            /\ after' = [after EXCEPT ![t] = "run"]
            /\ gil' = gil
        BY <1>7, <3>1 DEF StoreItem
      <4>2. QED
        BY <2>1, <4>1 DEF PCs
    <3>2. CASE ~Full(slot[t] + 1)
      BY <1>7, <2>1, <3>2 DEF StoreItem, Drop, PCs
    <3>3. QED
      BY <3>1, <3>2
  <2>4. QED
    BY <1>7, <2>1, <2>2, <2>3 DEF StoreItem
<1>8. ASSUME NEW t \in Threads, Deliver(t) PROVE BaseTypes'
  <2>1. delivered' \in Nat
    BY <1>8 DEF Deliver
  <2>2. QED
    BY <1>8, <2>1 DEF Deliver, PCs
<1>9. ASSUME NEW t \in Threads, Recycle(t) PROVE BaseTypes'
  <2>1. /\ pool' \subseteq Blocks /\ arena' = {} /\ head' = NULL
        /\ used' \in [Blocks -> Nat] /\ cap' \in [Blocks -> Nat]
    BY <1>9 DEF Recycle
  <2>2. QED
    BY <1>9, <2>1 DEF Recycle, PCs
<1>10. ASSUME NEW t \in Threads, Zero(t) PROVE BaseTypes'
  BY <1>10 DEF Zero, Drop, PCs
<1>11. ASSUME NEW w \in Workers, HandBack(w) PROVE BaseTypes'
  BY <1>11, Numbers DEF HandBack, PCs
<1>12. ASSUME NEW w \in Workers, Leave(w) PROVE BaseTypes'
  <2>1. w \in Threads
    BY Numbers
  <2>2. /\ pc' \in [Threads -> PCs] /\ count' \in [Threads -> Nat]
        /\ after' \in [Threads -> {"run", "take", "ended"}]
    BY <1>12, <2>1, FlushShape DEF Leave
  <2>3. QED
    BY <1>12, <2>1, <2>2 DEF Leave
<1>13. CASE AddCallback
  BY <1>13 DEF AddCallback, MayCall
<1>14. CASE AddBatch
  <2>1. <<"wrapper">> \o callbacks \in Seq({"legacy", "wrapper"})
    <3>1. <<"wrapper">> \in Seq({"legacy", "wrapper"})
      OBVIOUS
    <3>2. QED
      BY <3>1, ConcatProperties
  <2>2. QED
    BY <1>14, <2>1 DEF AddBatch
<1>15. CASE Send
  BY <1>15, Numbers DEF Send
<1>16. CASE SendTo
  BY <1>16 DEF SendTo, PCs
<1>17. ASSUME NEW ok \in BOOLEAN, SendNext(ok) PROVE BaseTypes'
  <2>1. cpc' \in {"idle", "send"} /\ turn' \in Workers \cup {0}
    BY <1>17, Numbers DEF SendNext, Control, Scheduled
  <2>2. QED
    BY <1>17, <2>1 DEF SendNext
<1>18. CASE End
  BY <1>18 DEF End, PCs
<1>19. CASE EndReturns
  BY <1>19 DEF EndReturns, PCs
<1>20. CASE Terminate
  BY <1>20, Numbers DEF Terminate
<1>21. CASE StopWorker
  BY <1>21 DEF StopWorker, PCs
<1>22. CASE JoinWorker
  <2>1. tpc' \in {"idle", "reset"} /\ tturn' \in Workers \cup {0}
    BY <1>22, Numbers DEF JoinWorker, Control, Scheduled
  <2>2. pc' \in [Threads -> PCs]
    BY <1>22, Numbers DEF JoinWorker, PCs
  <2>3. QED
    BY <1>22, <2>1, <2>2 DEF JoinWorker
<1>23. CASE Destroy
  BY <1>23 DEF Destroy, PCs
<1>24. CASE JoinAll
  BY <1>24 DEF JoinAll, PCs
<1>25. CASE FinalFlush
  <2>1. /\ pc' \in [Threads -> PCs] /\ count' \in [Threads -> Nat]
        /\ after' \in [Threads -> {"run", "take", "ended"}]
    BY <1>25, Numbers, FlushShape DEF FinalFlush
  <2>2. QED
    BY <1>25, <2>1 DEF FinalFlush
<1>26. CASE BatchDestroy
  BY <1>26 DEF BatchDestroy
<1>27. CASE UNCHANGED vars
  BY <1>27 DEF vars
<1>28. QED
  BY <1>1, <1>2, <1>3, <1>4, <1>5, <1>6, <1>7, <1>8, <1>9, <1>10, <1>11,
     <1>12, <1>13, <1>14, <1>15, <1>16, <1>17, <1>18, <1>19, <1>20, <1>21,
     <1>22, <1>23, <1>24, <1>25, <1>26, <1>27 DEF Next, ThreadStep, Gone

\* The client's thread runs decoder code only in srd_session_end, and then
\* alone, and flushes last.
LEMMA ClientPhasesStep ==
    ASSUME Control, [Next]_vars
    PROVE  ClientPhases'
<1> USE DEF ClientPhases, Active, Flushing, Busy, Listed, session
<1>0. BaseTypes /\ ClientPhases
  BY DEF Control
<1>1. ASSUME UNCHANGED <<cpc, tpc, after>>, pc'[0] = pc[0],
             tpc \notin {"flush", "gone"}
      PROVE  ClientPhases'
  BY <1>0, <1>1
<1>2. ASSUME NEW t \in Threads, ThreadStep(t) PROVE ClientPhases'
  <2>1. ThreadControl(t)
    BY <1>0, <1>2, ThreadShape
  <2>2. CASE t = 0
    BY <1>0, <2>1, <2>2, Numbers DEF ThreadControl, BaseTypes
  <2>3. CASE t # 0
    <3>1. /\ UNCHANGED <<cpc, tpc>> /\ pc'[0] = pc[0] /\ after'[0] = after[0]
          /\ tpc \notin {"flush", "gone"}
      BY <1>0, <2>1, <2>3, Numbers DEF ThreadControl
    <3>2. QED
      BY <1>0, <3>1
  <2>4. QED
    BY <2>2, <2>3
<1>3. ASSUME NEW w \in Workers, HandBack(w) PROVE ClientPhases'
  BY <1>0, <1>1, <1>3, Numbers DEF HandBack, BaseTypes, locals
<1>4. ASSUME NEW w \in Workers, Leave(w) PROVE ClientPhases'
  <2>1. /\ UNCHANGED <<cpc, tpc>> /\ pc'[0] = pc[0] /\ after'[0] = after[0]
        /\ tpc \notin {"flush", "gone"}
    BY <1>0, <1>4, Numbers DEF Leave, Flush, BaseTypes
  <2>2. QED
    BY <1>0, <2>1
<1>5. CASE AddCallback \/ AddBatch \/ Send
  BY <1>0, <1>1, <1>5 DEF AddCallback, AddBatch, Send, MayCall, locals
<1>6. CASE SendTo
  <2>1. /\ cpc' = "sending" /\ UNCHANGED <<tpc, after>> /\ pc'[0] = pc[0]
        /\ tpc \notin {"flush", "gone", "join_all"} /\ cpc # "end"
    BY <1>0, <1>6, Numbers DEF SendTo, BaseTypes, locals, Control, Scheduled
  <2>2. QED
    BY <1>0, <2>1
<1>7. ASSUME NEW ok \in BOOLEAN, SendNext(ok) PROVE ClientPhases'
  <2>1. /\ cpc' \in {"send", "idle"} /\ UNCHANGED <<tpc, after, pc>>
        /\ tpc \notin {"flush", "gone", "join_all"} /\ cpc # "end"
    BY <1>0, <1>7 DEF SendNext, locals
  <2>2. QED
    BY <1>0, <2>1
<1>8. CASE End \/ EndReturns
  BY <1>0, <1>8, Numbers DEF End, EndReturns, MayCall, BaseTypes, locals
<1>9. CASE Terminate
  BY <1>0, <1>9 DEF Terminate, locals
<1>10. CASE StopWorker \/ JoinWorker
  <2>1. /\ tpc' \in {"idle", "reset", "join_reset"} /\ UNCHANGED <<cpc, after>>
        /\ pc'[0] = pc[0] /\ tpc \in {"reset", "join_reset"}
    BY <1>0, <1>10, Numbers
       DEF StopWorker, JoinWorker, BaseTypes, locals, Control, Scheduled
  <2>2. QED
    BY <1>0, <2>1
<1>11. CASE Destroy
  BY <1>0, <1>11, Numbers DEF Destroy, MayCall, BaseTypes, locals
<1>12. CASE JoinAll
  BY <1>0, <1>12, Numbers DEF JoinAll, BaseTypes, locals
<1>13. CASE FinalFlush
  <2>1. /\ tpc = "flush" /\ UNCHANGED <<cpc, tpc>>
        /\ \A w \in Workers : pc'[w] = pc[w]
        /\ pc'[0] = "ended" \/ (pc'[0] = "deliver" /\ after'[0] = "ended")
    BY <1>0, <1>13, Numbers DEF FinalFlush, Flush, BaseTypes
  <2>2. QED
    BY <1>0, <2>1
<1>14. CASE BatchDestroy
  BY <1>0, <1>14 DEF BatchDestroy, locals
<1>15. CASE UNCHANGED vars
  BY <1>0, <1>15 DEF vars, locals
<1>16. QED
  BY <1>2, <1>3, <1>4, <1>5, <1>6, <1>7, <1>8, <1>9, <1>10, <1>11, <1>12,
     <1>13, <1>14, <1>15 DEF Next, Gone

\* A worker is woken only by the loop that then waits for it.
LEMMA ScheduledStep ==
    ASSUME Control, [Next]_vars
    PROVE  Scheduled'
<1> USE DEF Scheduled, session
<1>0. BaseTypes /\ ClientPhases /\ Scheduled
  BY DEF Control
<1>1. ASSUME UNCHANGED <<cpc, turn, tpc, tturn>>,
             \A w \in Workers : pc'[w] \in Active => pc[w] \in Active
      PROVE  Scheduled'
  BY <1>0, <1>1
<1>2. ASSUME NEW t \in Threads, ThreadStep(t) PROVE Scheduled'
  <2>1. ThreadControl(t)
    BY <1>0, <1>2, ThreadShape
  <2>2. QED
    BY <1>1, <2>1, Numbers DEF ThreadControl
<1>3. ASSUME NEW w \in Workers, HandBack(w) PROVE Scheduled'
  BY <1>0, <1>1, <1>3 DEF HandBack, BaseTypes, Active, Busy
<1>4. ASSUME NEW w \in Workers, Leave(w) PROVE Scheduled'
  <2>1. pc[w] \in Active /\ \A v \in Workers : v # w => pc'[v] = pc[v]
    BY <1>0, <1>4, Numbers DEF Leave, Flush, BaseTypes, Active
  <2>2. QED
    BY <1>1, <1>4, <2>1 DEF Leave
<1>5. CASE AddCallback \/ AddBatch \/ BatchDestroy
  <2>1. CASE AddCallback \/ AddBatch
    BY <1>1, <2>1 DEF AddCallback, AddBatch
  <2>2. CASE BatchDestroy
    BY <1>0, <2>2 DEF BatchDestroy, ClientPhases, Active, Busy
  <2>3. QED
    BY <1>5, <2>1, <2>2
<1>6. CASE Send
  BY <1>0, <1>6, Numbers DEF Send, MayCall
<1>7. CASE SendTo
  <2>1. /\ cpc = "send" /\ cpc' = "sending" /\ UNCHANGED <<turn, tpc, tturn>>
        /\ \A w \in Workers : w # turn => pc'[w] = pc[w]
    BY <1>0, <1>7, Numbers DEF SendTo, BaseTypes
  <2>2. QED
    BY <1>0, <2>1
<1>8. ASSUME NEW ok \in BOOLEAN, SendNext(ok) PROVE Scheduled'
  <2>1. /\ cpc = "sending" /\ pc[turn] \notin Active /\ UNCHANGED <<pc, tpc, tturn>>
        /\ cpc' = "idle" \/ (cpc' = "send" /\ turn' \in Workers)
    BY <1>0, <1>8, Numbers DEF SendNext, Active, Busy
  <2>2. QED
    BY <1>0, <2>1
<1>9. CASE End
  BY <1>0, <1>9, Numbers DEF End, MayCall, BaseTypes
<1>10. CASE EndReturns
  BY <1>0, <1>10, Numbers DEF EndReturns, BaseTypes
<1>11. CASE Terminate
  BY <1>0, <1>11, Numbers DEF Terminate
<1>12. CASE StopWorker
  <2>1. /\ tpc = "reset" /\ tpc' = "join_reset" /\ UNCHANGED <<cpc, turn, tturn>>
        /\ \A w \in Workers : w # tturn => pc'[w] = pc[w]
    BY <1>0, <1>12, Numbers DEF StopWorker, BaseTypes
  <2>2. QED
    BY <1>0, <2>1
<1>13. CASE JoinWorker
  <2>1. /\ tpc = "join_reset" /\ tturn \in Workers /\ UNCHANGED <<cpc, turn>>
        /\ tpc' = "idle" \/ (tpc' = "reset" /\ tturn' \in Workers)
        /\ pc'[tturn] \notin Active
        /\ \A w \in Workers : w # tturn => pc'[w] = pc[w]
    BY <1>0, <1>13, Numbers DEF JoinWorker, BaseTypes, Active, Busy
  <2>2. QED
    BY <1>0, <2>1
<1>14. CASE Destroy
  BY <1>0, <1>14 DEF Destroy, MayCall
<1>15. CASE JoinAll
  <2>1. /\ \A w \in Workers : pc'[w] = "none"
        /\ tpc' = "flush" /\ cpc' = "idle"
    BY <1>0, <1>15, Numbers DEF JoinAll, ClientPhases, Listed
  <2>2. QED
    BY <2>1 DEF Active, Busy
<1>16. CASE FinalFlush
  <2>1. \A w \in Workers : pc'[w] = pc[w]
    BY <1>0, <1>16, Numbers DEF FinalFlush, Flush, BaseTypes
  <2>2. QED
    BY <1>1, <1>16, <2>1 DEF FinalFlush
<1>17. CASE UNCHANGED vars
  BY <1>1, <1>17 DEF vars
<1>18. QED
  BY <1>2, <1>3, <1>4, <1>5, <1>6, <1>7, <1>8, <1>9, <1>10, <1>11, <1>12,
     <1>13, <1>14, <1>15, <1>16, <1>17 DEF Next, Gone

\* The GIL is taken on the way into a put or a flush, and given up on the way
\* out.
LEMMA GilHeldStep ==
    ASSUME Control, [Next]_vars
    PROVE  GilHeld'
<1> SUFFICES ASSUME AllPython
             PROVE  /\ \A t \in Threads : pc'[t] \in Busy =>
                          gil' = t \/ tpc' \in {"flush", "gone"}
                    /\ gil' # Free => pc'[gil'] \in Busy /\ tpc' \notin {"flush", "gone"}
  BY DEF GilHeld
<1> DEFINE Goal == /\ \A t \in Threads : pc'[t] \in Busy =>
                         gil' = t \/ tpc' \in {"flush", "gone"}
                   /\ gil' # Free => pc'[gil'] \in Busy /\ tpc' \notin {"flush", "gone"}
<1> USE DEF Busy, session
<1>0. /\ BaseTypes /\ ClientPhases
      /\ \A t \in Threads : pc[t] \in Busy => gil = t \/ tpc \in {"flush", "gone"}
      /\ gil # Free => pc[gil] \in Busy /\ tpc \notin {"flush", "gone"}
      /\ gil \in Threads \cup {Free}
  BY DEF Control, GilHeld, BaseTypes
<1>1. ASSUME gil' = gil, tpc' \in {"flush", "gone"} <=> tpc \in {"flush", "gone"},
             \A t \in Threads : pc'[t] \in Busy <=> pc[t] \in Busy
      PROVE  Goal
  BY <1>0, <1>1
<1>2. ASSUME NEW t \in Threads, NEW lang \in {"c", "python"}, PutLegacy(t, lang)
      PROVE  Goal
  BY <1>1, <1>2 DEF PutLegacy
<1>3. ASSUME NEW t \in Threads, NEW lang \in {"c", "python"}, NEW s \in Strings,
             PutBatch(t, lang, s)
      PROVE  Goal
  <2>1. lang = "python"
    BY <1>3, Numbers DEF PutBatch, Speaks, AllPython
  <2>2. /\ gil = Free /\ gil' = t /\ tpc' = tpc /\ pc' = [pc EXCEPT ![t] = "alloc"]
        /\ tpc \notin {"flush", "gone"}
    BY <1>3, <2>1 DEF PutBatch, TakeGil, Listed
  <2>3. \A u \in Threads : pc[u] \notin Busy
    BY <1>0, <2>2, Numbers
  <2>4. QED
    BY <1>0, <2>2, <2>3 DEF BaseTypes
<1>4. ASSUME NEW t \in Threads, pc[t] \in Busy, pc'[t] \in Busy, gil' = gil, tpc' = tpc,
             \A u \in Threads \ {t} : pc'[u] = pc[u]
      PROVE  Goal
  BY <1>1, <1>4
<1>5. ASSUME NEW t \in Threads, pc[t] \in Busy, pc'[t] \notin Busy, gil' = Drop(t),
             tpc' = tpc, \A u \in Threads \ {t} : pc'[u] = pc[u]
      PROVE  Goal
  BY <1>0, <1>5, Numbers DEF Drop
<1>6. ASSUME NEW t \in Threads, Alloc(t) PROVE Goal
  BY <1>0, <1>4, <1>6 DEF Alloc, BaseTypes
<1>7. ASSUME NEW t \in Threads, PutFails(t) PROVE Goal
  BY <1>0, <1>5, <1>7 DEF PutFails, Drop, BaseTypes
<1>8. ASSUME NEW t \in Threads, AppendItem(t) PROVE Goal
  <2>1. pc[t] = "alloc" /\ pc'[t] \in {"take", "deliver"} /\ gil' = gil /\ tpc' = tpc
        /\ \A u \in Threads \ {t} : pc'[u] = pc[u]
    BY <1>0, <1>8 DEF AppendItem, Flush, BaseTypes
  <2>2. QED
    BY <1>4, <2>1
<1>9. ASSUME NEW t \in Threads, TakeSlot(t) PROVE Goal
  BY <1>0, <1>4, <1>9 DEF TakeSlot, BaseTypes
<1>10. ASSUME NEW t \in Threads, StoreItem(t) PROVE Goal
  <2>1. /\ pc[t] = "store" /\ tpc' = tpc
        /\ \A u \in Threads \ {t} : pc'[u] = pc[u]
        /\ \/ pc'[t] = "deliver" /\ gil' = gil
           \/ pc'[t] = "run" /\ gil' = Drop(t)
    BY <1>0, <1>10 DEF StoreItem, BaseTypes
  <2>2. QED
    BY <1>4, <1>5, <2>1
<1>11. ASSUME NEW t \in Threads, Deliver(t) PROVE Goal
  BY <1>0, <1>4, <1>11 DEF Deliver, BaseTypes
<1>12. ASSUME NEW t \in Threads, Recycle(t) PROVE Goal
  BY <1>0, <1>4, <1>12 DEF Recycle, BaseTypes
<1>13. ASSUME NEW t \in Threads, Zero(t) PROVE Goal
  <2>1. /\ pc[t] = "zero" /\ tpc' = tpc
        /\ \A u \in Threads \ {t} : pc'[u] = pc[u]
        /\ \/ pc'[t] = "take" /\ gil' = gil
           \/ pc'[t] \in {"run", "ended"} /\ gil' = Drop(t)
    BY <1>0, <1>13 DEF Zero, BaseTypes
  <2>2. QED
    BY <1>4, <1>5, <2>1
<1>14. ASSUME NEW w \in Workers, HandBack(w) PROVE Goal
  BY <1>0, <1>1, <1>14 DEF HandBack, BaseTypes
<1>15. ASSUME NEW w \in Workers, Leave(w) PROVE Goal
  <2>1. /\ w \in Threads /\ gil = Free /\ tpc' = tpc /\ pc[w] = "run"
        /\ \A u \in Threads \ {w} : pc'[u] = pc[u]
        /\ \/ pc'[w] = "ended" /\ gil' = gil
           \/ pc'[w] = "deliver" /\ gil' = w
    BY <1>0, <1>15, Numbers DEF Leave, Flush, BaseTypes, AllPython
  <2>2. tpc \notin {"flush", "gone"}
    BY <1>0, <2>1 DEF ClientPhases
  <2>3. \A u \in Threads : pc[u] \notin Busy
    BY <1>0, <2>1, <2>2, Numbers
  <2>4. QED
    BY <2>1, <2>2, <2>3
<1>16. CASE AddCallback \/ AddBatch \/ Send
  BY <1>1, <1>16 DEF AddCallback, AddBatch, Send
<1>17. CASE SendTo
  BY <1>0, <1>1, <1>17 DEF SendTo, BaseTypes
<1>18. ASSUME NEW ok \in BOOLEAN, SendNext(ok) PROVE Goal
  BY <1>1, <1>18 DEF SendNext
<1>19. CASE End \/ EndReturns
  <2>1. pc[0] \notin Busy
    BY <1>0, <1>19 DEF End, EndReturns, MayCall, ClientPhases
  <2>2. QED
    BY <1>0, <1>1, <1>19, <2>1 DEF End, EndReturns, BaseTypes
<1>20. CASE Terminate
  BY <1>1, <1>20 DEF Terminate
<1>21. CASE StopWorker
  BY <1>0, <1>1, <1>21 DEF StopWorker, BaseTypes
<1>22. CASE JoinWorker
  <2>1. /\ gil' = gil /\ tpc \notin {"flush", "gone"} /\ tpc' \notin {"flush", "gone"}
        /\ pc[tturn] \in {"none", "ended"} /\ pc' = [pc EXCEPT ![tturn] = "none"]
    BY <1>22 DEF JoinWorker
  <2>2. QED
    BY <1>0, <1>1, <2>1 DEF BaseTypes
<1>23. CASE Destroy
  BY <1>0, <1>1, <1>23 DEF Destroy, MayCall, BaseTypes
<1>24. CASE JoinAll
  <2>1. \A t \in Threads : pc[t] \notin Busy
    BY <1>0, <1>24, Numbers DEF JoinAll, ClientPhases, Listed
  <2>2. gil = Free
    BY <1>0, <2>1
  <2>3. \A t \in Threads : pc'[t] = "none"
    BY <1>24 DEF JoinAll
  <2>4. QED
    BY <1>24, <2>2, <2>3 DEF JoinAll
<1>25. CASE FinalFlush
  BY <1>0, <1>25 DEF FinalFlush
<1>26. CASE BatchDestroy
  BY <1>0, <1>26 DEF BatchDestroy
<1>27. CASE UNCHANGED vars
  BY <1>1, <1>27 DEF vars
<1>28. QED
  BY <1>2, <1>3, <1>6, <1>7, <1>8, <1>9, <1>10, <1>11, <1>12, <1>13, <1>14,
     <1>15, <1>16, <1>17, <1>18, <1>19, <1>20, <1>21, <1>22, <1>23, <1>24,
     <1>25, <1>26, <1>27 DEF Next, ThreadStep, Gone

\* Only a put with a batch callback fills the batch.
LEMMA NoBatchStep ==
    ASSUME Control, [Next]_vars
    PROVE  NoBatch'
<1> SUFFICES ASSUME ~cb' PROVE n' = 0 /\ \A t \in Threads : pc'[t] \notin Busy
  BY DEF NoBatch
<1> USE DEF Busy, session, batch
<1>0. BaseTypes
  BY DEF Control
<1>1. ~cb
  BY DEF Next, ThreadStep, Gone, vars, PutLegacy, PutBatch, Alloc, PutFails,
         AppendItem, TakeSlot, StoreItem, Deliver, Recycle, Zero, HandBack, Leave,
         AddCallback, AddBatch, Send, SendTo, SendNext, End, EndReturns, Terminate,
         StopWorker, JoinWorker, Destroy, JoinAll, FinalFlush, BatchDestroy
<1>2. n = 0 /\ \A t \in Threads : pc[t] \notin Busy
  BY <1>1 DEF Control, NoBatch
<1>3. ASSUME NEW t \in Threads, ThreadStep(t)
      PROVE  n' = 0 /\ \A u \in Threads : pc'[u] \notin Busy
  BY <1>1, <1>2, <1>3
     DEF ThreadStep, PutLegacy, PutBatch, Alloc, PutFails, AppendItem, TakeSlot,
         StoreItem, Deliver, Recycle, Zero
<1>4. ASSUME NEW w \in Workers, HandBack(w) \/ Leave(w)
      PROVE  n' = 0 /\ \A u \in Threads : pc'[u] \notin Busy
  BY <1>0, <1>2, <1>4 DEF HandBack, Leave, Flush, BaseTypes
<1>5. CASE AddCallback \/ AddBatch \/ Send \/ SendTo \/ \E ok \in BOOLEAN : SendNext(ok)
  BY <1>0, <1>2, <1>5 DEF AddCallback, AddBatch, Send, SendTo, SendNext, BaseTypes
<1>6. CASE End \/ EndReturns \/ Terminate \/ StopWorker \/ JoinWorker
  BY <1>0, <1>2, <1>6 DEF End, EndReturns, Terminate, StopWorker, JoinWorker, BaseTypes
<1>7. CASE Destroy \/ JoinAll \/ FinalFlush \/ BatchDestroy
  BY <1>0, <1>2, <1>7 DEF Destroy, JoinAll, FinalFlush, Flush, BatchDestroy, BaseTypes
<1>8. CASE UNCHANGED vars
  BY <1>2, <1>8 DEF vars
<1>9. QED
  BY <1>3, <1>4, <1>5, <1>6, <1>7, <1>8 DEF Next, Gone

\* The arena keeps its bounds, whoever races for it.
LEMMA ArenaStep ==
    ASSUME Control, ArenaSound, [Next]_vars
    PROVE  ArenaSound'
<1> USE DEF heap
<1>0. BaseTypes
  BY DEF Control
<1>1. ASSUME UNCHANGED <<arena, head, pool, used, cap>> PROVE ArenaSound'
  BY <1>1 DEF ArenaSound, BlocksFit, PoolBounded
<1>2. ASSUME NEW t \in Threads, Alloc(t) PROVE ArenaSound'
  <2>1. Head(need[t]) \in Nat /\ Place(Head(need[t]))
    BY <1>0, <1>2 DEF Alloc, BaseTypes
  <2>2. /\ arena' = arena \cup {head'} /\ pool' \subseteq pool /\ arena' \cap pool' = {}
        /\ \A b \in arena' : used'[b] <= cap'[b]
    BY <1>0, <2>1, PlaceSound
  <2>3. IsFiniteSet(arena')
    BY <2>2, FS_AddElement DEF ArenaSound
  <2>4. IsFiniteSet(pool') /\ Cardinality(pool') <= Cardinality(pool)
    BY <2>2, FS_Subset DEF ArenaSound
  <2>5. Cardinality(pool') <= PoolCap
    <3>1. Cardinality(pool) \in Nat /\ Cardinality(pool') \in Nat
      BY <2>4, FS_CardinalityType DEF ArenaSound
    <3>2. QED
      BY <2>4, <3>1, BatchAssumption, SMT DEF ArenaSound, PoolBounded
  <2>6. QED
    BY <2>2, <2>3, <2>4, <2>5 DEF ArenaSound, BlocksFit, PoolBounded
<1>3. ASSUME NEW t \in Threads, Recycle(t) PROVE ArenaSound'
  <2>1. PICK kept \in SUBSET arena : Keeps(kept) /\ pool' = pool \cup kept
    BY <1>3 DEF Recycle
  <2>2. arena' = {} /\ head' = NULL
    BY <1>3 DEF Recycle
  <2>3. IsFiniteSet(pool') /\ IsFiniteSet(arena')
    BY <2>1, <2>2, FS_Subset, FS_Union, FS_EmptySet DEF ArenaSound
  <2>4. Cardinality(pool') <= PoolCap
    <3>1. CASE kept = {}
      <4>1. pool' = pool
        BY <2>1, <3>1
      <4>2. QED
        BY <4>1 DEF ArenaSound, PoolBounded
    <3>2. QED
      BY <2>1, <3>1 DEF Keeps
  <2>5. QED
    BY <2>2, <2>3, <2>4 DEF ArenaSound, BlocksFit, PoolBounded
<1>4. CASE BatchDestroy
  <2>1. arena' = {} /\ head' = NULL /\ pool' = {}
    BY <1>4 DEF BatchDestroy
  <2>2. QED
    BY <2>1, FS_EmptySet, BatchAssumption DEF ArenaSound, BlocksFit, PoolBounded
<1>5. QED
  BY <1>1, <1>2, <1>3, <1>4
     DEF Next, ThreadStep, Gone, vars, PutLegacy, PutBatch, PutFails, AppendItem,
         TakeSlot, StoreItem, Deliver, Zero, HandBack, Leave, AddCallback, AddBatch,
         Send, SendTo, SendNext, End, EndReturns, Terminate, StopWorker, JoinWorker,
         Destroy, JoinAll, FinalFlush

\* Nothing runs and nothing is allocated in a new session.
LEMMA SoundInit == Init => Control /\ ArenaSound
<1> SUFFICES ASSUME Init PROVE Control /\ ArenaSound
  OBVIOUS
<1>1. BaseTypes
  <2>1. callbacks \in Seq({"legacy", "wrapper"}) /\ need \in [Threads -> Seq(Nat)]
    BY DEF Init
  <2>2. items \in [0 .. MaxBatch - 1 -> Items]
    BY DEF Init, Items
  <2>3. gil \in Threads \cup {Free}
    BY DEF Init
  <2>4. QED
    BY <2>1, <2>2, <2>3 DEF Init, BaseTypes, PCs
<1>2. ClientPhases /\ Scheduled
  BY Numbers DEF Init, ClientPhases, Scheduled, Active, Busy, Flushing, Listed
<1>3. GilHeld /\ NoBatch
  BY DEF Init, GilHeld, NoBatch, Busy
<1>4. ArenaSound
  BY FS_EmptySet, BatchAssumption DEF Init, ArenaSound, BlocksFit, PoolBounded
<1>5. QED
  BY <1>1, <1>2, <1>3, <1>4 DEF Control

\* Control and arena, for every session and every client.
THEOREM SoundInvariant == Spec => [](Control /\ ArenaSound)
<1>1. Control /\ ArenaSound /\ [Next]_vars => (Control /\ ArenaSound)'
  BY BaseTypesStep, ClientPhasesStep, ScheduledStep, GilHeldStep, NoBatchStep,
     ArenaStep DEF Control
<1>2. QED
  BY SoundInit, <1>1, PTL DEF Spec

\* Allocations stay inside their blocks, also when threads race for the arena.
THEOREM BlocksFitInvariant == Spec => []BlocksFit
<1>1. ArenaSound => BlocksFit
  BY DEF ArenaSound
<1>2. QED
  BY SoundInvariant, <1>1, PTL

\* The pool keeps to SRD_ANN_ARENA_POOL_CAP blocks.
THEOREM PoolBoundedInvariant == Spec => []PoolBounded
<1>1. ArenaSound => PoolBounded
  BY DEF ArenaSound
<1>2. QED
  BY SoundInvariant, <1>1, PTL

-----------------------------------------------------------------------------
(* Who is inside a put or a flush.                                         *)

\* A thread that runs decoder code, and can enter a put or a flush, finds no
\* other inside; so at most one is.
LEMMA Alone ==
    ASSUME Control, Calm
    PROVE  /\ \A t, u \in Threads : pc[t] \in Busy /\ pc[u] \in Busy => t = u
           /\ \A t \in Threads : pc[t] = "run" /\ (AllPython => gil = Free) =>
                 \A u \in Threads : pc[u] \notin Busy
<1> USE DEF Active
<1>1. BaseTypes /\ ClientPhases /\ Scheduled /\ GilHeld
  BY DEF Control
<1>2. CASE AllPython
  <2>1. tpc \in {"flush", "gone"} =>
            \A t \in Threads : pc[t] # "run" /\ (pc[t] \in Busy => t = 0)
    BY <1>1, Numbers DEF ClientPhases, Flushing, Busy
  <2>2. tpc \notin {"flush", "gone"} => \A t \in Threads : pc[t] \in Busy => gil = t
    BY <1>1, <1>2 DEF GilHeld
  <2>3. QED
    BY <1>2, <2>1, <2>2, Numbers
<1>3. ASSUME N <= 1 \/ (~ConcurrentAbort /\ Listed)
      PROVE  \A t, u \in Threads : pc[t] \in Active /\ pc[u] \in Active => t = u
  <2>1. \A w \in Workers : pc[w] \in Active => pc[0] \notin Active
    BY <1>1, Numbers DEF ClientPhases, Scheduled, Busy, Flushing
  <2>2. CASE N <= 1
    <3>1. \A v, w \in Workers : v = w
      BY <2>2, BatchAssumption, SMT DEF Workers
    <3>2. QED
      BY <2>1, <3>1, Numbers
  <2>3. CASE ~ConcurrentAbort /\ Listed
    <3>1. \A v, w \in Workers : pc[v] \in Active /\ pc[w] \in Active => v = w
      BY <1>1, <2>3 DEF Scheduled, Listed
    <3>2. QED
      BY <2>1, <3>1, Numbers
  <2>4. QED
    BY <1>3, <2>2, <2>3
<1>4. CASE N <= 1 \/ (~ConcurrentAbort /\ Listed)
  <2>1. \A t \in Threads : pc[t] = "run" => pc[t] \notin Busy
    BY DEF Busy
  <2>2. QED
    BY <1>3, <1>4, <2>1
<1>5. QED
  BY <1>2, <1>4 DEF Calm

-----------------------------------------------------------------------------
(* The contents of the batch.                                              *)

\* A session that is calm after a step was calm before it.
LEMMA CalmBefore ==
    ASSUME Control, [Next]_vars, Calm'
    PROVE  Calm
<1> USE DEF Listed, session
<1>1. ASSUME NEW t \in Threads, ThreadStep(t) PROVE Listed' => Listed
  BY <1>1, ThreadShape DEF Control, ThreadControl
<1>2. ASSUME NEW w \in Workers, HandBack(w) \/ Leave(w) PROVE Listed' => Listed
  BY <1>2 DEF HandBack, Leave
<1>3. ASSUME NEW ok \in BOOLEAN, SendNext(ok) PROVE Listed' => Listed
  BY <1>3 DEF SendNext
<1>4. ASSUME AddCallback \/ AddBatch \/ Send \/ SendTo \/ End \/ EndReturns
      PROVE  Listed' => Listed
  BY <1>4 DEF AddCallback, AddBatch, Send, SendTo, End, EndReturns
<1>5. ASSUME Terminate \/ StopWorker \/ JoinWorker
      PROVE  Listed' => Listed
  BY <1>5 DEF Terminate, StopWorker, JoinWorker
<1>6. ASSUME Destroy \/ JoinAll \/ FinalFlush \/ BatchDestroy
      PROVE  Listed' => Listed
  BY <1>6 DEF Destroy, MayCall, JoinAll, FinalFlush, BatchDestroy
<1>7. ASSUME UNCHANGED vars
      PROVE  Listed' => Listed
  BY <1>7 DEF vars
<1>8. Listed' => Listed
  BY <1>1, <1>2, <1>3, <1>4, <1>5, <1>6, <1>7 DEF Next, Gone
<1>9. QED
  BY <1>8 DEF Calm, AllPython

\* A put appends exactly what was put next, and a flush delivers exactly what
\* the batch holds.
LEMMA LedgerStep ==
    ASSUME Control, ArenaSound, Ledger, Calm, [Next]_vars
    PROVE  Ledger'
<1> USE DEF Busy, Flushing, batch, heap, alloc, locals, session, history
<1>0. BaseTypes /\ ClientPhases
  BY DEF Control
<1>1. ASSUME UNCHANGED <<items, n, arena, mine, number, slot, count, puts, delivered>>,
             \A t \in Threads : \/ pc'[t] = pc[t] /\ after'[t] = after[t]
                                \/ pc[t] \notin Busy /\ pc'[t] \notin Busy,
             tpc' \in {"flush", "gone"} => tpc' = tpc /\ pc'[0] = pc[0]
      PROVE  Ledger'
  <2>1. \A t \in Threads : \A x \in Busy : pc'[t] = x <=> pc[t] = x
    BY <1>1
  <2>2. \A t \in Threads : pc'[t] \in Flushing => after'[t] = after[t]
    BY <1>1
  <2>3. QED
    BY <1>1, <2>1, <2>2, Numbers DEF Ledger
\* The steps of the one thread that is inside.
<1>2. ASSUME NEW t \in Threads, pc[t] \in Busy
      PROVE  \A u \in Threads \ {t} : pc[u] \notin Busy
  BY <1>2, Alone
<1>3. ASSUME NEW t \in Threads, NEW lang \in {"c", "python"}, PutLegacy(t, lang)
      PROVE  Ledger'
  <2>1. n = 0 /\ \A u \in Threads : pc[u] \notin Busy
    BY <1>3 DEF PutLegacy, Control, NoBatch
  <2>2. /\ puts' = puts + 1 /\ delivered' = delivered + 1 /\ n' = n /\ pc' = pc
        /\ tpc' = tpc
    BY <1>3 DEF PutLegacy
  <2>3. puts' = delivered' + n'
    BY <1>0, <2>1, <2>2 DEF Ledger, BaseTypes
  <2>4. QED
    BY <2>1, <2>2, <2>3, BatchAssumption, SMT DEF Ledger
<1>4. ASSUME NEW t \in Threads, NEW lang \in {"c", "python"}, NEW s \in Strings,
             PutBatch(t, lang, s)
      PROVE  Ledger'
  <2>1. \A u \in Threads : pc[u] \notin Busy
    <3>1. AllPython => gil = Free
      BY <1>4, Numbers DEF PutBatch, TakeGil, Speaks, AllPython
    <3>2. QED
      BY <1>4, <3>1, Alone DEF PutBatch
  <2>2. /\ UNCHANGED <<items, n, arena, puts, delivered, tpc>>
        /\ pc' = [pc EXCEPT ![t] = "alloc"] /\ mine'[t] = {}
        /\ tpc \notin {"flush", "gone"}
    BY <1>0, <1>4, Numbers DEF PutBatch, BaseTypes, ClientPhases
  <2>3. \A u \in Threads : pc'[u] \in Busy => u = t /\ pc'[u] = "alloc"
    BY <1>0, <2>1, <2>2 DEF BaseTypes
  <2>4. QED
    BY <2>1, <2>2, <2>3 DEF Ledger
<1>5. ASSUME NEW t \in Threads, Alloc(t) PROVE Ledger'
  <2>1. arena \subseteq arena' /\ head' \in arena'
    <3>1. Head(need[t]) \in Nat /\ Place(Head(need[t]))
      BY <1>0, <1>5 DEF Alloc, BaseTypes
    <3>2. QED
      BY <1>0, <3>1, PlaceSound
  <2>2. /\ UNCHANGED <<items, n, pc, number, slot, count, after, puts, delivered, tpc>>
        /\ mine' = [mine EXCEPT ![t] = mine[t] \cup {head'}] /\ pc[t] = "alloc"
    BY <1>5 DEF Alloc
  <2>3. \A u \in Threads : pc[u] \in {"alloc", "take", "store"} => mine'[u] \subseteq arena'
    BY <1>0, <2>1, <2>2 DEF BaseTypes, Ledger
  <2>4. QED
    BY <2>1, <2>2, <2>3 DEF Ledger
<1>6. ASSUME NEW t \in Threads, PutFails(t) PROVE Ledger'
  <2>1. /\ UNCHANGED <<items, n, arena, puts, delivered, tpc>>
        /\ pc[t] = "alloc" /\ pc' = [pc EXCEPT ![t] = "run"]
        /\ \A u \in Threads \ {t} : pc[u] \notin Busy
    BY <1>2, <1>6 DEF PutFails
  <2>2. \A u \in Threads : pc'[u] \notin Busy /\ pc[u] \notin Busy \ {"alloc"}
    BY <1>0, <2>1 DEF BaseTypes
  <2>3. tpc \notin {"flush", "gone"}
    BY <1>0, <2>1, Numbers DEF ClientPhases
  <2>4. QED
    BY <2>1, <2>2, <2>3 DEF Ledger
<1>7. ASSUME NEW t \in Threads, AppendItem(t) PROVE Ledger'
  <2>1. pc[t] = "alloc" /\ \A u \in Threads \ {t} : pc[u] \notin Busy
    BY <1>2, <1>7 DEF AppendItem
  <2>2. n < MaxBatch /\ puts = delivered + n
    <3>1. n # MaxBatch /\ n <= MaxBatch /\ puts = delivered + n
      BY <2>1 DEF Ledger
    <3>2. QED
      BY <1>0, <3>1, BatchAssumption, SMT DEF BaseTypes
  <2>3. /\ UNCHANGED <<items, n, arena, mine, slot, delivered, tpc>>
        /\ pc' = [pc EXCEPT ![t] = "take"] /\ number'[t] = puts /\ puts' = puts + 1
    BY <1>0, <1>7, <2>2, BatchAssumption DEF AppendItem, Full, BaseTypes
  <2>4. \A u \in Threads : pc'[u] \in Busy => u = t /\ pc'[u] = "take"
    BY <1>0, <2>1, <2>3 DEF BaseTypes
  <2>5. tpc \notin {"flush", "gone"} /\ pc'[t] = "take" /\ mine[t] \subseteq arena
    BY <1>0, <2>1, <2>3, Numbers DEF ClientPhases, BaseTypes, Ledger
  <2>6. QED
    BY <2>1, <2>2, <2>3, <2>4, <2>5 DEF Ledger
<1>8. ASSUME NEW t \in Threads, TakeSlot(t) PROVE Ledger'
  <2>1. pc[t] = "take" /\ \A u \in Threads \ {t} : pc[u] \notin Busy
    BY <1>2, <1>8 DEF TakeSlot
  <2>2. /\ UNCHANGED <<items, n, arena, mine, number, puts, delivered, tpc>>
        /\ pc' = [pc EXCEPT ![t] = "store"] /\ slot'[t] = n
    BY <1>0, <1>8 DEF TakeSlot, BaseTypes
  <2>3. \A u \in Threads : pc'[u] \in Busy => u = t /\ pc'[u] = "store"
    BY <1>0, <2>1, <2>2 DEF BaseTypes
  <2>4. /\ tpc \notin {"flush", "gone"} /\ pc'[t] = "store" /\ mine[t] \subseteq arena
        /\ number[t] = delivered + n /\ puts = delivered + n + 1 /\ n # MaxBatch
    BY <1>0, <2>1, <2>2, Numbers DEF ClientPhases, BaseTypes, Ledger
  <2>5. QED
    BY <2>1, <2>2, <2>3, <2>4 DEF Ledger
<1>9. ASSUME NEW t \in Threads, StoreItem(t) PROVE Ledger'
  <2>1. pc[t] = "store" /\ \A u \in Threads \ {t} : pc[u] \notin Busy
    BY <1>2, <1>9 DEF StoreItem
  <2>2. /\ slot[t] = n /\ number[t] = delivered + n /\ puts = delivered + n + 1
        /\ mine[t] \subseteq arena /\ n # MaxBatch /\ n <= MaxBatch
    BY <2>1 DEF Ledger
  <2>3. /\ n' = n + 1 /\ UNCHANGED <<arena, puts, delivered, tpc>>
        /\ items' = [items EXCEPT ![n] = [ann |-> delivered + n, blocks |-> mine[t]]]
    BY <1>9, <2>2 DEF StoreItem
  <2>4. \/ pc' = [pc EXCEPT ![t] = "run"] /\ n + 1 < MaxBatch
        \/ /\ pc' = [pc EXCEPT ![t] = "deliver"]
           /\ count'[t] = n + 1 /\ after'[t] = "run"
    BY <1>0, <1>9, <2>2, BatchAssumption DEF StoreItem, Full, BaseTypes
  <2>5. \A u \in Threads : pc'[u] \in Busy => u = t /\ pc'[u] = "deliver"
    BY <1>0, <2>1, <2>4 DEF BaseTypes
  <2>6. tpc \notin {"flush", "gone"}
    BY <1>0, <2>1, Numbers DEF ClientPhases
  <2>7. \A i \in 0 .. n' - 1 : items'[i].ann = delivered' + i
                               /\ items'[i].blocks \subseteq arena'
    <3>1. n \in 0 .. MaxBatch - 1
      BY <1>0, <2>2, BatchAssumption, SMT DEF BaseTypes
    <3>2. items'[n].ann = delivered + n /\ items'[n].blocks \subseteq arena
      BY <1>0, <2>2, <2>3, <3>1 DEF BaseTypes
    <3>3. ASSUME NEW i \in 0 .. n - 1
          PROVE  items'[i].ann = delivered + i /\ items'[i].blocks \subseteq arena
      <4>1. i \in 0 .. MaxBatch - 1 /\ i # n
        BY <1>0, <3>1, BatchAssumption, SMT DEF BaseTypes
      <4>2. items'[i] = items[i]
        BY <1>0, <2>3, <4>1 DEF BaseTypes
      <4>3. QED
        BY <2>1, <4>2 DEF Ledger
    <3>4. \A i \in 0 .. (n + 1) - 1 : i = n \/ i \in 0 .. n - 1
      BY <3>1, BatchAssumption, SMT
    <3>5. QED
      BY <2>3, <3>2, <3>3, <3>4
  <2>8. /\ n' <= MaxBatch /\ (n' = MaxBatch => pc'[t] \in Flushing)
        /\ puts' = delivered' + n'
    <3>1. pc'[t] = "deliver" \/ n + 1 < MaxBatch
      BY <1>0, <2>4 DEF BaseTypes
    <3>2. n + 1 <= MaxBatch /\ puts = delivered + (n + 1)
      BY <1>0, <2>2, BatchAssumption, SMT DEF BaseTypes
    <3>3. n + 1 < MaxBatch => n + 1 # MaxBatch
      BY <1>0, BatchAssumption, SMT DEF BaseTypes
    <3>4. QED
      BY <2>3, <3>1, <3>2, <3>3
  <2>9. pc'[t] = "deliver" => count'[t] = n' /\ after'[t] # "take"
    BY <1>0, <2>3, <2>4 DEF BaseTypes
  <2>10. QED
    BY <2>3, <2>5, <2>6, <2>7, <2>8, <2>9 DEF Ledger
<1>10. ASSUME NEW t \in Threads, Deliver(t) PROVE Ledger'
  <2>1. pc[t] = "deliver" /\ \A u \in Threads \ {t} : pc[u] \notin Busy
    BY <1>2, <1>10 DEF Deliver
  <2>2. count[t] = n /\ puts = delivered + n /\ after[t] # "take" /\ n <= MaxBatch
    BY <2>1 DEF Ledger
  <2>3. /\ UNCHANGED <<n, after, puts, tpc>>
        /\ delivered' = delivered + n /\ pc' = [pc EXCEPT ![t] = "recycle"]
    BY <1>10, <2>2 DEF Deliver
  <2>4. pc'[t] = "recycle" /\ \A u \in Threads \ {t} : pc'[u] = pc[u]
    BY <1>0, <2>3 DEF BaseTypes
  <2>5. tpc # "gone" /\ ~ (tpc = "flush" /\ pc'[0] = "ended")
    BY <1>0, <2>1, <2>4, Numbers DEF ClientPhases
  <2>6. QED
    BY <2>1, <2>2, <2>3, <2>4, <2>5 DEF Ledger
<1>11. ASSUME NEW t \in Threads, Recycle(t) PROVE Ledger'
  <2>1. pc[t] = "recycle" /\ \A u \in Threads \ {t} : pc[u] \notin Busy
    BY <1>2, <1>11 DEF Recycle
  <2>2. /\ UNCHANGED <<n, after, puts, delivered, tpc>>
        /\ pc' = [pc EXCEPT ![t] = "zero"]
    BY <1>11 DEF Recycle
  <2>3. pc'[t] = "zero" /\ \A u \in Threads \ {t} : pc'[u] = pc[u]
    BY <1>0, <2>2 DEF BaseTypes
  <2>4. tpc # "gone" /\ ~ (tpc = "flush" /\ pc'[0] = "ended")
    BY <1>0, <2>1, <2>3, Numbers DEF ClientPhases
  <2>5. QED
    BY <2>1, <2>2, <2>3, <2>4 DEF Ledger
<1>12. ASSUME NEW t \in Threads, Zero(t) PROVE Ledger'
  <2>1. pc[t] = "zero" /\ \A u \in Threads \ {t} : pc[u] \notin Busy
    BY <1>2, <1>12 DEF Zero
  <2>2. puts = delivered /\ after[t] \in {"run", "ended"}
    BY <1>0, <2>1 DEF Ledger, BaseTypes
  <2>3. UNCHANGED <<puts, delivered>> /\ n' = 0 /\ pc' = [pc EXCEPT ![t] = after[t]]
    BY <1>12 DEF Zero
  <2>4. \A u \in Threads : pc'[u] \notin Busy
    BY <1>0, <2>1, <2>2, <2>3 DEF BaseTypes
  <2>5. puts' = delivered' + n' /\ n' <= MaxBatch /\ n' # MaxBatch
    BY <1>0, <2>2, <2>3, BatchAssumption, SMT DEF BaseTypes
  <2>6. \A i \in 0 .. n' - 1 : FALSE
    BY <2>3, SMT
  <2>7. QED
    BY <2>3, <2>4, <2>5, <2>6 DEF Ledger
\* Entering and passing flush_state, with nobody inside.
<1>13. ASSUME NEW t \in Threads, \A u \in Threads : pc[u] \notin Busy,
              Flush(t, "ended"), UNCHANGED <<items, n, arena, puts, delivered, tpc>>,
              tpc # "gone"
       PROVE  Ledger'
  <2>1. /\ n = 0 => pc' = [pc EXCEPT ![t] = "ended"]
        /\ n # 0 => /\ pc' = [pc EXCEPT ![t] = "deliver"]
                    /\ count' = [count EXCEPT ![t] = n]
                    /\ after' = [after EXCEPT ![t] = "ended"]
    BY <1>0, <1>13, FlushShape
  <2>2. CASE n = 0
    <3>1. \A u \in Threads : pc'[u] \notin Busy
      BY <1>0, <1>13, <2>1, <2>2 DEF BaseTypes
    <3>2. QED
      BY <1>13, <2>2, <3>1, BatchAssumption DEF Ledger
  <2>3. CASE n # 0
    <3>1. /\ pc'[t] = "deliver" /\ count'[t] = n /\ after'[t] = "ended"
          /\ \A u \in Threads \ {t} : pc'[u] = pc[u]
      BY <1>0, <2>1, <2>3 DEF BaseTypes
    <3>2. ~ (tpc = "flush" /\ pc'[0] = "ended")
      BY <1>13, <2>3, <3>1, Numbers DEF Ledger
    <3>3. QED
      BY <1>13, <3>1, <3>2 DEF Ledger
  <2>4. QED
    BY <2>2, <2>3
<1>14. ASSUME NEW w \in Workers, Leave(w) PROVE Ledger'
  <2>1. w \in Threads
    BY Numbers
  <2>2. \A u \in Threads : pc[u] \notin Busy
    BY <1>14, <2>1, Alone DEF Leave, AllPython
  <2>3. tpc # "gone"
    BY <1>0, <1>14 DEF ClientPhases, Leave
  <2>4. QED
    BY <1>13, <1>14, <2>1, <2>2, <2>3 DEF Leave
<1>15. CASE FinalFlush
  <2>1. \A u \in Threads : pc[u] \notin Busy
    BY <1>0, <1>15, Numbers DEF FinalFlush, ClientPhases
  <2>2. QED
    BY <1>13, <1>15, <2>1, Numbers DEF FinalFlush
\* The loops of session.c leave the batch alone.
<1>16. ASSUME NEW w \in Workers, HandBack(w) PROVE Ledger'
  <2>1. /\ \A t \in Threads :
              pc'[t] = pc[t] \/ (pc[t] \notin Busy /\ pc'[t] \notin Busy)
        /\ pc'[0] = pc[0]
    BY <1>0, <1>16, Numbers DEF HandBack, BaseTypes
  <2>2. QED
    BY <1>1, <1>16, <2>1 DEF HandBack
<1>17. CASE AddCallback \/ AddBatch \/ Send \/ Terminate
  BY <1>1, <1>17 DEF AddCallback, AddBatch, Send, Terminate
<1>18. ASSUME NEW ok \in BOOLEAN, SendNext(ok) PROVE Ledger'
  BY <1>1, <1>18 DEF SendNext
<1>19. CASE SendTo \/ StopWorker \/ JoinWorker
  <2>1. /\ \A t \in Threads :
              pc'[t] = pc[t] \/ (pc[t] \notin Busy /\ pc'[t] \notin Busy)
        /\ tpc' \notin {"flush", "gone"}
    BY <1>0, <1>19 DEF SendTo, StopWorker, JoinWorker, BaseTypes, ClientPhases, Listed
  <2>2. QED
    BY <1>1, <1>19, <2>1 DEF SendTo, StopWorker, JoinWorker
<1>20. CASE End \/ EndReturns
  <2>1. /\ \A t \in Threads :
              pc'[t] = pc[t] \/ (pc[t] \notin Busy /\ pc'[t] \notin Busy)
        /\ tpc' \notin {"flush", "gone"}
    BY <1>0, <1>20 DEF End, EndReturns, MayCall, BaseTypes, ClientPhases
  <2>2. QED
    BY <1>1, <1>20, <2>1 DEF End, EndReturns
<1>21. CASE Destroy
  BY <1>0, <1>1, <1>21 DEF Destroy, BaseTypes
<1>22. CASE JoinAll
  <2>1. \A t \in Threads : pc[t] \notin Busy /\ pc'[t] = "none"
    BY <1>0, <1>22, Numbers DEF JoinAll, ClientPhases, Listed
  <2>2. QED
    BY <1>22, <2>1, Numbers DEF JoinAll, Ledger
<1>23. CASE BatchDestroy
  <2>1. n = 0 /\ n' = 0 /\ \A t \in Threads : pc[t] \notin Busy
    BY <1>0, <1>23, Numbers DEF BatchDestroy, Ledger, ClientPhases
  <2>2. QED
    BY <1>23, <2>1 DEF BatchDestroy, Ledger
<1>24. CASE UNCHANGED vars
  BY <1>1, <1>24 DEF vars
<1>25. QED
  BY <1>3, <1>4, <1>5, <1>6, <1>7, <1>8, <1>9, <1>10, <1>11, <1>12, <1>14,
     <1>15, <1>16, <1>17, <1>18, <1>19, <1>20, <1>21, <1>22, <1>23, <1>24
     DEF Next, ThreadStep, Gone

\* In a calm session the batch holds, in order, exactly what was put and not
\* delivered: everywhere with one stack or with Python decoders only, and for
\* all others until srd_session_destroy stops the workers, if terminate_reset
\* does not run beside a send.
THEOREM LedgerInvariant == Spec => [](Calm => Ledger)
<1>1. Init => Ledger
  <2> SUFFICES ASSUME Init PROVE Ledger
    OBVIOUS
  <2>1. n = 0 /\ delivered = 0 /\ puts = 0 /\ tpc = "idle"
        /\ \A t \in Threads : pc[t] = "none"
    BY DEF Init
  <2>2. 0 <= MaxBatch /\ 0 # MaxBatch /\ 0 .. 0 - 1 = {} /\ 0 = 0 + 0
    BY BatchAssumption, SMT
  <2>3. QED
    BY <2>1, <2>2 DEF Ledger, Flushing
<1>2. Control /\ ArenaSound /\ (Calm => Ledger) /\ [Next]_vars => (Calm => Ledger)'
  BY CalmBefore, LedgerStep
<1>3. QED
  BY SoundInvariant, <1>1, <1>2, PTL DEF Spec

\* Where the batch is shared without a lock it is shared safely: sessions with
\* one stack and sessions whose decoders are all Python.
OneOrPython == N <= 1 \/ AllPython

\* The batch never outgrows its array, and everything stays within its type.
THEOREM TypeCorrect ==
    ASSUME OneOrPython
    PROVE  Spec => []TypeOK
<1>1. Control /\ (Calm => Ledger) => TypeOK
  <2> SUFFICES ASSUME Control, Calm => Ledger PROVE TypeOK
    OBVIOUS
  <2>1. n \in Nat /\ n <= MaxBatch
    BY DEF OneOrPython, Calm, Ledger, Control, BaseTypes
  <2>2. n \in 0 .. MaxBatch
    BY <2>1, BatchAssumption, SMT
  <2>3. QED
    BY <2>2 DEF TypeOK, Control, BaseTypes
<1>2. QED
  BY SoundInvariant, LedgerInvariant, <1>1, PTL

\* What the ledger says of a batch that is being delivered.
LEMMA LedgerDelivers ==
    ASSUME Control, ArenaSound, Calm, Ledger
    PROVE  DeliversNext /\ TextsLive
<1> SUFFICES ASSUME NEW t \in Threads, pc[t] = "deliver",
                    NEW i \in 0 .. count[t] - 1
             PROVE  /\ items[i].ann = delivered + i
                    /\ items[i].blocks \subseteq arena \ pool
  BY DEF DeliversNext, TextsLive
<1>1. \A u \in Threads : pc[u] \notin {"recycle", "zero"}
  <2>1. \A u \in Threads : pc[u] \in Busy => u = t
    BY Alone DEF Busy
  <2>2. QED
    BY <2>1 DEF Busy
<1>2. count[t] = n
  BY DEF Ledger
<1>3. items[i].ann = delivered + i /\ items[i].blocks \subseteq arena
  BY <1>1, <1>2 DEF Ledger
<1>4. QED
  BY <1>3 DEF ArenaSound

\* The host gets every annotation once and in the order of the puts.
THEOREM DeliversNextInvariant ==
    ASSUME OneOrPython
    PROVE  Spec => []DeliversNext
<1>1. Control /\ ArenaSound /\ (Calm => Ledger) => DeliversNext
  BY LedgerDelivers DEF OneOrPython, Calm
<1>2. QED
  BY SoundInvariant, LedgerInvariant, <1>1, PTL

\* The strings the host reads are in blocks that nobody else may get.
THEOREM TextsLiveInvariant ==
    ASSUME OneOrPython
    PROVE  Spec => []TextsLive
<1>1. Control /\ ArenaSound /\ (Calm => Ledger) => TextsLive
  BY LedgerDelivers DEF OneOrPython, Calm
<1>2. QED
  BY SoundInvariant, LedgerInvariant, <1>1, PTL

\* With any number of stacks in any languages, deliveries are right until
\* srd_session_destroy, as long as terminate_reset does not run beside a send.
THEOREM RightUntilDestroyed ==
    ASSUME ConcurrentAbort = FALSE
    PROVE  Spec => [](Listed => DeliversNext /\ TextsLive)
<1>1. Control /\ ArenaSound /\ (Calm => Ledger) => (Listed => DeliversNext /\ TextsLive)
  BY LedgerDelivers DEF Calm
<1>2. QED
  BY SoundInvariant, LedgerInvariant, <1>1, PTL

\* A destroyed session has delivered everything that was put.
THEOREM DrainedInvariant ==
    ASSUME OneOrPython
    PROVE  Spec => []Drained
<1>1. Control /\ (Calm => Ledger) => Drained
  <2> SUFFICES ASSUME Control, Calm => Ledger, tpc = "gone"
               PROVE  delivered = puts
    BY DEF Drained
  <2>1. Ledger /\ BaseTypes /\ ClientPhases
    BY DEF OneOrPython, Calm, Control
  <2>2. \A t \in Threads : pc[t] \in {"none", "ended"}
    BY <2>1, Numbers DEF ClientPhases
  <2>3. n = 0 /\ puts = delivered + n
    BY <2>1, <2>2 DEF Ledger
  <2>4. QED
    BY <2>1, <2>3, SMT DEF BaseTypes
<1>2. QED
  BY SoundInvariant, LedgerInvariant, <1>1, PTL

\* A worker that ends has flushed: what it and all others put before is
\* delivered.
THEOREM WorkersLeaveNothing ==
    ASSUME OneOrPython
    PROVE  Spec => LeavesNothing
<1> DEFINE Left == \A w \in Workers : pc[w] # "ended" /\ pc'[w] = "ended"
                       => delivered' = puts'
<1>1. Control /\ (Calm => Ledger) /\ [Next]_vars => [Left]_vars
  <2> SUFFICES ASSUME Control, Ledger, Calm, [Next]_vars,
                      NEW w \in Workers, pc[w] # "ended", pc'[w] = "ended"
               PROVE  delivered' = puts'
    BY DEF OneOrPython, Calm
  <2> USE DEF session, history
  <2>0. BaseTypes /\ ClientPhases /\ w \in Threads
    BY Numbers DEF Control
  <2>1. ASSUME n = 0, \A u \in Threads : pc[u] \notin Busy, UNCHANGED <<puts, delivered>>
        PROVE  delivered' = puts'
    <3>1. puts = delivered + n
      BY <2>1 DEF Ledger, Busy
    <3>2. QED
      BY <2>0, <2>1, <3>1, SMT DEF BaseTypes
  <2>2. ASSUME NEW v \in Workers, Leave(v) PROVE delivered' = puts'
    <3>1. v \in Threads
      BY Numbers
    <3>2. \A u \in Threads : pc[u] \notin Busy
      BY <2>2, <3>1, Alone DEF Leave, AllPython
    <3>3. n = 0
      BY <2>0, <2>2, <3>1, FlushShape DEF Leave, BaseTypes
    <3>4. QED
      BY <2>1, <2>2, <3>2, <3>3 DEF Leave
  <2>3. ASSUME NEW t \in Threads, ThreadStep(t) PROVE delivered' = puts'
    <3>1. ThreadControl(t)
      BY <2>0, <2>3, ThreadShape
    <3>2. t = w /\ pc[w] = "zero"
      BY <2>0, <3>1 DEF ThreadControl, Active, Busy, Flushing
    <3>3. UNCHANGED <<puts, delivered>>
      BY <2>3, <3>2 DEF ThreadStep, PutLegacy, PutBatch, Alloc, PutFails, AppendItem,
                        TakeSlot, StoreItem, Deliver, Recycle, Zero
    <3>4. QED
      BY <2>0, <3>2, <3>3 DEF Ledger
  <2>4. ASSUME NEW v \in Workers, HandBack(v) PROVE FALSE
    BY <2>0, <2>4 DEF HandBack, BaseTypes
  <2>5. CASE AddCallback \/ AddBatch \/ Send \/ SendTo \/ End \/ EndReturns
    BY <2>0, <2>5 DEF AddCallback, AddBatch, Send, SendTo, End, EndReturns, BaseTypes
  <2>6. ASSUME NEW ok \in BOOLEAN, SendNext(ok) PROVE FALSE
    BY <2>6 DEF SendNext
  <2>7. CASE Terminate \/ StopWorker \/ JoinWorker \/ Destroy \/ JoinAll
    BY <2>0, <2>7 DEF Terminate, StopWorker, JoinWorker, Destroy, JoinAll, BaseTypes
  <2>8. CASE FinalFlush
    BY <2>0, <2>8, Numbers DEF FinalFlush, Flush, BaseTypes
  <2>9. CASE BatchDestroy \/ UNCHANGED vars
    BY <2>9 DEF BatchDestroy, vars
  <2>10. QED
    BY <2>2, <2>3, <2>4, <2>5, <2>6, <2>7, <2>8, <2>9 DEF Next, Gone
<1>2. QED
  BY SoundInvariant, LedgerInvariant, <1>1, PTL DEF Spec, LeavesNothing
=============================================================================
