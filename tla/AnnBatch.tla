------------------------------ MODULE AnnBatch ------------------------------
(***************************************************************************)
(* Delivery of annotations to the host (ann_batch.c, the callback list of  *)
(* session.c): every put() of every decoder of a session copies its        *)
(* strings into the session's arena and appends an item to the session's   *)
(* one batch, which is flushed when it is full, at the end of each worker  *)
(* thread and when the session is destroyed.  No lock protects the batch.  *)
(*                                                                         *)
(* Who may run decoder code follows session.c: srd_session_send and        *)
(* srd_session_terminate_reset go through the instances one by one and     *)
(* wait for each; srd_session_destroy stops all workers at once.  What     *)
(* happens inside one such wait is DecodeHandshake.                        *)
(* A decoder is taken to put nothing between handing a chunk back and      *)
(* asking for the next one, which only c_consume_samples would let it do.  *)
(* Thread 0 is the client, which runs the end() methods itself and flushes *)
(* on destruction; thread w > 0 is the worker of the w-th instance.        *)
(*                                                                         *)
(* An annotation is the number of its put, its strings are sizes.  The     *)
(* chains of arena blocks are sets: the code always takes the first block  *)
(* of the pool, the model any.  An allocation is one step, finer steps     *)
(* would only add races between threads that already race here.            *)
(*                                                                         *)
(* Definitions whose name ends in Bug are wrong variants of the one that   *)
(* follows them; the specification does not use them.                      *)
(***************************************************************************)
EXTENDS Integers, Sequences, FiniteSets

CONSTANTS
    N,                \* number of instances (stacks) of the session
    Lang,             \* their languages
    MaxBatch,         \* SRD_ANN_BATCH_MAX
    BlockCap,         \* SRD_ANN_ARENA_BLOCK_CAP
    PoolCap,          \* SRD_ANN_ARENA_POOL_CAP
    Blocks,           \* addresses of arena blocks
    NULL,             \* no block
    Strings,          \* what an annotation allocates: sequences of sizes
    MaxPuts,          \* bound: annotations
    MaxFails,         \* bound: puts that fail half-way
    MaxCallbacks,     \* bound: registered callbacks
    ConcurrentAbort   \* terminate_reset may run on a second client thread

Workers == 1 .. N
Threads == 0 .. N

ASSUME BatchAssumption ==
    /\ N \in Nat
    /\ Lang \in [Workers -> {"c", "python"}]
    /\ MaxBatch \in Nat \ {0}
    /\ BlockCap \in Nat
    /\ PoolCap \in Nat
    /\ NULL \notin Blocks
    /\ Strings \subseteq Seq(Nat)
    /\ MaxPuts \in Nat
    /\ MaxFails \in Nat
    /\ MaxCallbacks \in Nat
    /\ ConcurrentAbort \in BOOLEAN

VARIABLES
    callbacks,                  \* SRD_OUTPUT_ANN entries of sess->callbacks
    cb,                         \* a batch callback is set, the wrapper installed
    items, n,                   \* the batch
    arena, head, pool,          \* in-flight chain, its first block, the pool
    used, cap,                  \* per block
    pc,                         \* per thread
    need, mine,                 \* put(): sizes to allocate, blocks written to
    number, slot, count, after, \* locals of append_item and flush_state
    gil,                        \* the thread that holds it through a put or flush
    cpc, turn,                  \* the client's loop over the instances
    tpc, tturn,                 \* the loop that terminates them
    puts, delivered, fails      \* history: annotations taken, handed over, lost

batch    == <<items, n>>
heap     == <<arena, head, pool, used, cap>>
alloc    == <<need, mine>>
locals   == <<number, slot, count, after>>
session  == <<callbacks, cb, cpc, turn, tpc, tturn>>
history  == <<puts, delivered, fails>>
vars     == <<batch, heap, pc, alloc, locals, gil, session, history>>

Free == -1

PCs == {"none", "wait", "run", "ended", "alloc", "take", "store",
        "deliver", "recycle", "zero"}

\* A thread is inside a put or a flush.
Busy == {"alloc", "take", "store", "deliver", "recycle", "zero"}

Items == [ann : Nat, blocks : SUBSET Blocks]

\* Everything stays within its type; the batch never outgrows its array.
TypeOK ==
    /\ callbacks \in Seq({"legacy", "wrapper"})
    /\ cb \in BOOLEAN
    /\ items \in [0 .. MaxBatch - 1 -> Items]
    /\ n \in 0 .. MaxBatch
    /\ arena \subseteq Blocks
    /\ pool \subseteq Blocks
    /\ head \in Blocks \cup {NULL}
    /\ used \in [Blocks -> Nat]
    /\ cap \in [Blocks -> Nat]
    /\ pc \in [Threads -> PCs]
    /\ need \in [Threads -> Seq(Nat)]
    /\ mine \in [Threads -> SUBSET Blocks]
    /\ number \in [Threads -> Nat]
    /\ slot \in [Threads -> Nat]
    /\ count \in [Threads -> Nat]
    /\ after \in [Threads -> {"run", "take", "ended"}]
    /\ gil \in Threads \cup {Free}
    /\ cpc \in {"idle", "send", "sending", "end"}
    /\ turn \in Workers \cup {0}
    /\ tpc \in {"idle", "reset", "join_reset", "join_all", "flush", "gone"}
    /\ tturn \in Workers \cup {0}
    /\ puts \in Nat
    /\ delivered \in Nat
    /\ fails \in Nat

Init ==
    /\ callbacks = <<>>
    /\ cb = FALSE
    /\ items = [i \in 0 .. MaxBatch - 1 |-> [ann |-> 0, blocks |-> {}]]
    /\ n = 0
    /\ arena = {}
    /\ head = NULL
    /\ pool = {}
    /\ used = [b \in Blocks |-> 0]
    /\ cap = [b \in Blocks |-> 0]
    /\ pc = [t \in Threads |-> "none"]
    /\ need = [t \in Threads |-> <<>>]
    /\ mine = [t \in Threads |-> {}]
    /\ number = [t \in Threads |-> 0]
    /\ slot = [t \in Threads |-> 0]
    /\ count = [t \in Threads |-> 0]
    /\ after = [t \in Threads |-> "run"]
    /\ gil = Free
    /\ cpc = "idle"
    /\ turn = 0
    /\ tpc = "idle"
    /\ tturn = 0
    /\ puts = 0
    /\ delivered = 0
    /\ fails = 0

-----------------------------------------------------------------------------
(* Registration of callbacks.                                              *)

MayCall == cpc = "idle" /\ tpc = "idle"

\* srd_pd_output_callback_add: goes to the end of the list.
AddCallback ==
    /\ MayCall
    /\ Len(callbacks) < MaxCallbacks
    /\ callbacks' = Append(callbacks, "legacy")
    /\ UNCHANGED <<batch, heap, pc, alloc, locals, gil, cb, cpc, turn, tpc,
                   tturn, history>>

\* srd_pd_output_callback_add_batch: the wrapper goes to the front, once.
AddBatch ==
    /\ MayCall
    /\ cb' = TRUE
    /\ callbacks' = IF cb THEN callbacks ELSE <<"wrapper">> \o callbacks
    /\ UNCHANGED <<batch, heap, pc, alloc, locals, gil, cpc, turn, tpc, tturn,
                   history>>

\* srd_pd_output_callback_find: the first one.
Find == IF callbacks = <<>> THEN "none" ELSE Head(callbacks)

-----------------------------------------------------------------------------
(* srd_ann_batch_flush_state.                                              *)

\* Thread t enters flush_state and goes on at "where" after it; an empty batch
\* is left alone.
Flush(t, where) ==
    IF n = 0
    THEN pc' = [pc EXCEPT ![t] = where] /\ UNCHANGED <<count, after>>
    ELSE /\ pc' = [pc EXCEPT ![t] = "deliver"]
         /\ count' = [count EXCEPT ![t] = n]
         /\ after' = [after EXCEPT ![t] = where]

\* The host's callback gets the items.
Deliver(t) ==
    /\ pc[t] = "deliver"
    /\ delivered' = delivered + count[t]
    /\ pc' = [pc EXCEPT ![t] = "recycle"]
    /\ UNCHANGED <<batch, heap, alloc, locals, gil, session, puts, fails>>

KeepsBug(kept) ==
    /\ kept \subseteq arena
    /\ kept = arena \/ Cardinality(kept) = PoolCap

\* Blocks of the chain move to the pool until that has PoolCap of them; the
\* others are freed.
Keeps(kept) ==
    /\ kept \subseteq arena
    /\ Cardinality(pool \cup kept) <= PoolCap \/ kept = {}
    /\ kept = arena \/ Cardinality(pool \cup kept) >= PoolCap

RecycleBug(t) ==
    /\ pc[t] = "recycle"
    /\ \E kept \in SUBSET arena : Keeps(kept) /\ pool' = pool \cup kept
    /\ pc' = [pc EXCEPT ![t] = "zero"]
    /\ UNCHANGED <<batch, arena, head, used, cap, alloc, locals, gil, session,
                   history>>

Recycle(t) ==
    /\ pc[t] = "recycle"
    /\ \E kept \in SUBSET arena :
          /\ Keeps(kept)
          /\ pool' = pool \cup kept
          /\ used' = [b \in Blocks |-> IF b \in arena \ kept THEN 0 ELSE used[b]]
          /\ cap' = [b \in Blocks |-> IF b \in arena \ kept THEN 0 ELSE cap[b]]
    /\ arena' = {}
    /\ head' = NULL
    /\ pc' = [pc EXCEPT ![t] = "zero"]
    /\ UNCHANGED <<batch, alloc, locals, gil, session, history>>

\* A thread that goes back to Python code, or ends, gives up the GIL.
Drop(t) == IF gil = t THEN Free ELSE gil

\* The batch is empty again.
Zero(t) ==
    /\ pc[t] = "zero"
    /\ n' = 0
    /\ pc' = [pc EXCEPT ![t] = after[t]]
    /\ gil' = IF after[t] = "take" THEN gil ELSE Drop(t)
    /\ count' = [count EXCEPT ![t] = 0]
    /\ after' = [after EXCEPT ![t] = "run"]
    /\ UNCHANGED <<items, heap, alloc, number, slot, session, history>>

-----------------------------------------------------------------------------
(* put(): c_decoder_put through the wrapper, or py_put_ann_batch.          *)

Speaks(t, lang) == IF t = 0 THEN \E w \in Workers : Lang[w] = lang
                            ELSE Lang[t] = lang

TakeGilBug(t, lang) == UNCHANGED gil

\* A Python decoder holds the GIL from here to the end of the put.
TakeGil(t, lang) ==
    /\ lang = "python" => gil = Free
    /\ gil' = IF lang = "python" THEN t ELSE gil

\* The session is in the list of sessions, in which a Python put() looks for
\* its instance (srd_inst_find_by_obj); srd_session_destroy takes it out first.
Listed == tpc \notin {"join_all", "flush", "gone"}

\* Without a batch callback the first registered callback gets the annotation
\* at once.
PutLegacy(t, lang) ==
    /\ pc[t] = "run"
    /\ puts < MaxPuts
    /\ Speaks(t, lang)
    /\ lang = "python" => Listed
    /\ ~cb
    /\ Find = "legacy"
    /\ puts' = puts + 1
    /\ delivered' = delivered + 1
    /\ UNCHANGED <<batch, heap, pc, alloc, locals, gil, session, fails>>

\* C annotations always have a string vector to allocate.
PutBatch(t, lang, s) ==
    /\ pc[t] = "run"
    /\ puts < MaxPuts
    /\ Speaks(t, lang)
    /\ lang = "python" => Listed
    /\ cb
    /\ lang = "c" => s # <<>>
    /\ TakeGil(t, lang)
    /\ pc' = [pc EXCEPT ![t] = "alloc"]
    /\ need' = [need EXCEPT ![t] = s]
    /\ mine' = [mine EXCEPT ![t] = {}]
    /\ UNCHANGED <<batch, heap, locals, session, history>>

\* srd_ann_arena_alloc.
Room(b, size) == used[b] + size <= cap[b]

Begin(b, size) ==
    /\ head' = b
    /\ arena' = arena \cup {b}
    /\ used' = [used EXCEPT ![b] = size]

\* A new block, large enough for an oversized allocation.
NewBlock(taken, size) ==
    \E b \in Blocks \ taken :
        /\ Begin(b, size)
        /\ cap' = [cap EXCEPT ![b] = IF size > BlockCap THEN size ELSE BlockCap]

\* The current block, a block of the pool (one that is too small is replaced),
\* or a new one.
PlaceBug(size) ==
    IF head # NULL /\ Room(head, size)
    THEN /\ used' = [used EXCEPT ![head] = used[head] + size]
         /\ UNCHANGED <<arena, head, pool, cap>>
    ELSE \/ \E b \in pool :
               pool' = pool \ {b} /\ Begin(b, size) /\ UNCHANGED cap
         \/ pool = {} /\ NewBlock(arena, size) /\ UNCHANGED pool

Place(size) ==
    IF head # NULL /\ Room(head, size)
    THEN /\ used' = [used EXCEPT ![head] = used[head] + size]
         /\ UNCHANGED <<arena, head, pool, cap>>
    ELSE \/ \E b \in pool :
               /\ pool' = pool \ {b}
               /\ IF cap[b] < size
                  THEN NewBlock(arena \cup pool', size)
                  ELSE Begin(b, size) /\ UNCHANGED cap
         \/ pool = {} /\ NewBlock(arena, size) /\ UNCHANGED pool

Alloc(t) ==
    /\ pc[t] = "alloc"
    /\ need[t] # <<>>
    /\ Place(Head(need[t]))
    /\ need' = [need EXCEPT ![t] = Tail(need[t])]
    /\ mine' = [mine EXCEPT ![t] = mine[t] \cup {head'}]
    /\ UNCHANGED <<batch, pc, locals, gil, session, history>>

\* A string that does not convert ends py_put_ann_batch; what it has allocated
\* stays in the arena.
PutFails(t) ==
    /\ pc[t] = "alloc"
    /\ gil = t
    /\ mine[t] # {} /\ need[t] # <<>>
    /\ fails < MaxFails
    /\ fails' = fails + 1
    /\ gil' = Free
    /\ pc' = [pc EXCEPT ![t] = "run"]
    /\ need' = [need EXCEPT ![t] = <<>>]
    /\ mine' = [mine EXCEPT ![t] = {}]
    /\ UNCHANGED <<batch, heap, locals, session, puts, delivered>>

Full(m) == m >= MaxBatch

\* srd_ann_batch_append_item: flush a full batch first ...
AppendItem(t) ==
    /\ pc[t] = "alloc"
    /\ need[t] = <<>>
    /\ number' = [number EXCEPT ![t] = puts]
    /\ puts' = puts + 1
    /\ IF Full(n)
       THEN Flush(t, "take")
       ELSE pc' = [pc EXCEPT ![t] = "take"] /\ UNCHANGED <<count, after>>
    /\ UNCHANGED <<batch, heap, alloc, slot, gil, session, delivered,
                   fails>>

\* ... read n ...
TakeSlot(t) ==
    /\ pc[t] = "take"
    /\ slot' = [slot EXCEPT ![t] = n]
    /\ pc' = [pc EXCEPT ![t] = "store"]
    /\ UNCHANGED <<batch, heap, alloc, number, count, after, gil, session,
                   history>>

\* ... store the item, write n + 1, and flush the batch if that fills it.
StoreItem(t) ==
    /\ pc[t] = "store"
    /\ items' = [items EXCEPT ![slot[t]] =
                    [ann |-> number[t], blocks |-> mine[t]]]
    /\ n' = slot[t] + 1
    /\ IF Full(slot[t] + 1)
       THEN /\ pc' = [pc EXCEPT ![t] = "deliver"]
            /\ count' = [count EXCEPT ![t] = slot[t] + 1]
            /\ after' = [after EXCEPT ![t] = "run"]
            /\ UNCHANGED gil
       ELSE /\ pc' = [pc EXCEPT ![t] = "run"]
            /\ gil' = Drop(t)
            /\ UNCHANGED <<count, after>>
    /\ number' = [number EXCEPT ![t] = 0]
    /\ slot' = [slot EXCEPT ![t] = 0]
    /\ mine' = [mine EXCEPT ![t] = {}]
    /\ UNCHANGED <<heap, need, session, history>>

-----------------------------------------------------------------------------
(* The loops of session.c.                                                 *)

Send ==
    /\ MayCall
    /\ N > 0
    /\ cpc' = "send"
    /\ turn' = 1
    /\ UNCHANGED <<batch, heap, pc, alloc, locals, gil, callbacks, cb, tpc,
                   tturn, history>>

\* srd_inst_decode creates or wakes the worker, if that has not ended ...
SendTo ==
    /\ cpc = "send"
    /\ cpc' = "sending"
    /\ pc' = IF pc[turn] \in {"none", "wait"}
             THEN [pc EXCEPT ![turn] = "run"] ELSE pc
    /\ UNCHANGED <<batch, heap, alloc, locals, gil, callbacks, cb, turn, tpc,
                   tturn, history>>

\* ... and returns when the worker has handed the chunk back or ended, if it
\* returns (an aborted one may hang, see DecodeHandshake).  The loop stops at
\* the first error.
SendNext(ok) ==
    /\ cpc = "sending"
    /\ pc[turn] \in {"none", "wait", "ended"}
    /\ IF ok /\ turn < N
       THEN cpc' = "send" /\ turn' = turn + 1
       ELSE cpc' = "idle" /\ turn' = 0
    /\ UNCHANGED <<batch, heap, pc, alloc, locals, gil, callbacks, cb, tpc,
                   tturn, history>>

\* The instance is being terminated: its wait() does not block any more.
Stopping(w) == tpc = "join_all" \/ (tpc = "join_reset" /\ tturn = w)

HandBack(w) ==
    /\ pc[w] = "run"
    /\ ~Stopping(w)
    /\ pc' = [pc EXCEPT ![w] = "wait"]
    /\ UNCHANGED <<batch, heap, alloc, locals, gil, session, history>>

LeaveBug(w) ==
    /\ pc[w] = "run"
    /\ pc' = [pc EXCEPT ![w] = "ended"]
    /\ UNCHANGED <<batch, heap, alloc, locals, gil, session, history>>

\* decode() returns; the thread function flushes the batch, di_thread with the
\* GIL, and ends.
Leave(w) ==
    /\ pc[w] = "run"
    /\ Lang[w] = "python" => gil = Free
    /\ Flush(w, "ended")
    /\ gil' = IF Lang[w] = "python" /\ n # 0 THEN w ELSE gil
    /\ UNCHANGED <<batch, heap, alloc, number, slot, session, history>>

\* srd_session_end: the end() methods run on the client's thread.
End ==
    /\ MayCall
    /\ cpc' = "end"
    /\ pc' = [pc EXCEPT ![0] = "run"]
    /\ UNCHANGED <<batch, heap, alloc, locals, gil, callbacks, cb, turn, tpc,
                   tturn, history>>

EndReturns ==
    /\ cpc = "end"
    /\ pc[0] = "run"
    /\ cpc' = "idle"
    /\ pc' = [pc EXCEPT ![0] = "none"]
    /\ UNCHANGED <<batch, heap, alloc, locals, gil, callbacks, cb, turn, tpc,
                   tturn, history>>

\* srd_session_terminate_reset: stop, join and reset one instance at a time.
Terminate ==
    /\ tpc = "idle" /\ N > 0
    /\ cpc = "idle" \/ (ConcurrentAbort /\ cpc \in {"send", "sending"})
    /\ tpc' = "reset"
    /\ tturn' = 1
    /\ UNCHANGED <<batch, heap, pc, alloc, locals, gil, callbacks, cb, cpc,
                   turn, history>>

\* A stopped worker returns from the wait() it is blocked in.
StopWorker ==
    /\ tpc = "reset"
    /\ tpc' = "join_reset"
    /\ pc' = IF pc[tturn] = "wait" THEN [pc EXCEPT ![tturn] = "run"] ELSE pc
    /\ UNCHANGED <<batch, heap, alloc, locals, gil, callbacks, cb, cpc, turn,
                   tturn, history>>

JoinWorker ==
    /\ tpc = "join_reset"
    /\ pc[tturn] \in {"none", "ended"}
    /\ pc' = [pc EXCEPT ![tturn] = "none"]
    /\ IF tturn < N
       THEN tpc' = "reset" /\ tturn' = tturn + 1
       ELSE tpc' = "idle" /\ tturn' = 0
    /\ UNCHANGED <<batch, heap, alloc, locals, gil, callbacks, cb, cpc, turn,
                   history>>

\* srd_session_destroy: unlist the session, stop all instances at once
\* (srd_inst_free_all), join them, flush the batch and destroy it.
Destroy ==
    /\ MayCall
    /\ tpc' = "join_all"
    /\ pc' = [t \in Threads |-> IF pc[t] = "wait" THEN "run" ELSE pc[t]]
    /\ UNCHANGED <<batch, heap, alloc, locals, gil, callbacks, cb, cpc, turn,
                   tturn, history>>

JoinAll ==
    /\ tpc = "join_all"
    /\ \A w \in Workers : pc[w] \in {"none", "ended"}
    /\ tpc' = "flush"
    /\ pc' = [t \in Threads |-> "none"]
    /\ UNCHANGED <<batch, heap, alloc, locals, gil, callbacks, cb, cpc, turn,
                   tturn, history>>

FinalFlushBug ==
    /\ tpc = "flush"
    /\ pc[0] = "none"
    /\ pc' = [pc EXCEPT ![0] = "ended"]
    /\ UNCHANGED <<batch, heap, alloc, locals, gil, session, history>>

FinalFlush ==
    /\ tpc = "flush"
    /\ pc[0] = "none"
    /\ Flush(0, "ended")
    /\ UNCHANGED <<batch, heap, alloc, number, slot, gil, session, history>>

\* srd_ann_batch_destroy: the heap goes with everything in it.
BatchDestroy ==
    /\ tpc = "flush"
    /\ pc[0] = "ended"
    /\ tpc' = "gone"
    /\ n' = 0
    /\ arena' = {}
    /\ head' = NULL
    /\ pool' = {}
    /\ UNCHANGED <<items, used, cap, pc, alloc, locals, gil, callbacks, cb,
                   cpc, turn, tturn, history>>

\* Nothing is left to do.
Gone == tpc = "gone" /\ UNCHANGED vars

ThreadStep(t) ==
    \/ \E lang \in {"c", "python"} :
          PutLegacy(t, lang) \/ \E s \in Strings : PutBatch(t, lang, s)
    \/ Alloc(t)
    \/ PutFails(t)
    \/ AppendItem(t)
    \/ TakeSlot(t)
    \/ StoreItem(t)
    \/ Deliver(t)
    \/ Recycle(t)
    \/ Zero(t)

Next ==
    \/ \E t \in Threads : ThreadStep(t)
    \/ \E w \in Workers : HandBack(w) \/ Leave(w)
    \/ AddCallback \/ AddBatch
    \/ Send \/ SendTo \/ \E ok \in BOOLEAN : SendNext(ok)
    \/ End \/ EndReturns
    \/ Terminate \/ StopWorker \/ JoinWorker
    \/ Destroy \/ JoinAll \/ FinalFlush \/ BatchDestroy \/ Gone

Spec == Init /\ [][Next]_vars

-----------------------------------------------------------------------------
(* Properties.                                                             *)

\* Every callback gets exactly the annotations that follow the ones delivered
\* before, in the order they were put: flush_state neither repeats, loses nor
\* reorders any, although the batch is shared by all decoders of the session.
DeliversNext ==
    \A t \in Threads : pc[t] = "deliver" =>
        \A i \in 0 .. count[t] - 1 : items[i].ann = delivered + i

\* While the host reads a batch, the strings of its items are in blocks of the
\* in-flight chain, none of which the pool may hand out again.
TextsLive ==
    \A t \in Threads : pc[t] = "deliver" =>
        \A i \in 0 .. count[t] - 1 : items[i].blocks \subseteq arena \ pool

\* Allocations stay inside their block, oversized ones and recycled blocks
\* included.
BlocksFit == \A b \in arena : used[b] <= cap[b]

\* flush_state returns blocks beyond SRD_ANN_ARENA_POOL_CAP to the heap.
PoolBounded == Cardinality(pool) <= PoolCap

\* Once the session is destroyed everything has been delivered, what end()
\* methods put after the last worker ended included: srd_session_destroy joins
\* the workers first and flushes before it drops the heap.
Drained == tpc = "gone" => delivered = puts

\* A worker thread that ends leaves no annotation in the batch.
LeavesNothing ==
    [][\A w \in Workers : pc[w] # "ended" /\ pc'[w] = "ended"
            => delivered' = puts']_vars
=============================================================================
