------------------------------ MODULE Journal ------------------------------
(***************************************************************************)
(* Journal of vfs/cpp/journal: the front end that filesystem threads call  *)
(* and the promises it puts on the background thread.  CommitTransaction,  *)
(* Sync and the destructor run on the callers' threads; every promise runs *)
(* on one executor thread, one at a time, in any order the sequencer and   *)
(* the barrier allow.  The JournalWriter is reduced to what a caller can   *)
(* tell: which transactions are in its queue, and whether it still writes. *)
(***************************************************************************)
EXTENDS Integers, Sequences, FiniteSets, FiniteSetsExt

CONSTANTS
    Thread,            \* threads that call the journal
    Capacity,          \* blocks in journal_buffer_
    Lengths,           \* block counts of transactions: at least one block, a
                       \* header and a commit block; some exceed Capacity
    DeviceMayFail,     \* may a device request fail?
    DataMayFail,       \* may a data_promise fail without a device failure?
    MaxTransactions,   \* bound: transactions
    MaxSyncs           \* bound: calls of Sync

ASSUME CapacityAssumption == Capacity \in Nat
ASSUME LengthsAssumption == Lengths \subseteq {n \in Nat : n >= 3}
ASSUME FailAssumption == DeviceMayFail \in BOOLEAN /\ DataMayFail \in BOOLEAN
ASSUME BoundsAssumption == MaxTransactions \in Nat /\ MaxSyncs \in Nat

VARIABLES
    thread,                 \* what each caller is doing
    pending,                \* pending_
    free,                   \* free blocks of journal_buffer_
    txns,                   \* transactions in the order in which they were wrapped
    sequencer,              \* the promises wrapped by journal_sequencer_, in order
    journal_data_barrier,   \* place of the held promise in the sequencer, or 0
    flushes,                \* data_barrier_.sync() tasks that have not run
    pending_work_items,     \* transactions in the writer's queue
    writeback_enabled

vars == <<thread, pending, free, txns, sequencer, journal_data_barrier, flushes,
          pending_work_items, writeback_enabled>>

\* A transaction.  data: "none", "waiting" for its write, "written" to the
\* device, "flushed" to it, or "failed".  stage: "queued" in the journal buffer,
\* "journaled", "complete", or "dropped".
Txn(len, data) == [len |-> len, data |-> data, stage |-> "queued"]

\* A place in the sequencer.  ready: the executor has been given the promise.
Slot(kind, txn, ready) == [kind |-> kind, txn |-> txn, ready |-> ready, done |-> FALSE]

\* A caller.  pc: "idle", blocked in "reserve", at "copy" with its blocks
\* reserved, holding the promise of "sync", in "close" (~Journal) or "closed".
\* seen: the value of pending_ that "pending_ += block_count" adds to.
Caller(pc, len, data, seen) == [pc |-> pc, len |-> len, data |-> data, seen |-> seen]

Idle == Caller("idle", 0, "none", 0)

-----------------------------------------------------------------------------
(* The writer, as its callers see it.  A Flush reaches the device's cache  *)
(* flush, then the queue in order; a failure disables writeback and the    *)
(* whole queue is destroyed, which releases the blocks.                    *)

Stored(xs) == MapThenSumSet(LAMBDA x : txns[x].len, xs)

\* The transactions once the device is flushed, the first n of the queue are
\* in place, and the rest of the queue is destroyed.
Flushed(n) ==
    [x \in DOMAIN txns |->
        [txns[x] EXCEPT
            !.data = IF @ = "written" THEN "flushed" ELSE @,
            !.stage = IF \E i \in 1..n : pending_work_items[i] = x THEN "complete"
                      ELSE IF x \in Range(pending_work_items) THEN "dropped" ELSE @]]

\* The queue destroyed with nothing written.
Cleared ==
    [x \in DOMAIN txns |->
        [txns[x] EXCEPT !.stage = IF x \in Range(pending_work_items) THEN "dropped" ELSE @]]

\* What a JournalWriter operation may make of (txns, queue, enabled) by the
\* time its own part starts: nothing, a flush (on the way to the info block),
\* or a failure.
Nothing == [txns |-> txns, queue |-> pending_work_items, enabled |-> writeback_enabled]
FlushOk == [txns |-> Flushed(Len(pending_work_items)), queue |-> <<>>, enabled |-> TRUE]
FlushFailures ==
    {[txns |-> t, queue |-> <<>>, enabled |-> FALSE] :
        t \in {Cleared} \cup {Flushed(n) : n \in 0..Len(pending_work_items)}}

\* JournalWriter::Flush.
WriterFlush ==
    IF ~writeback_enabled THEN {[txns |-> Cleared, queue |-> <<>>, enabled |-> FALSE]}
    ELSE {FlushOk} \cup (IF DeviceMayFail THEN FlushFailures ELSE {})

\* An operation that may write the info block first: it flushes the queue or
\* leaves it alone.  A request of its own that fails disables writeback.
WriterFailures ==
    IF ~writeback_enabled THEN {Nothing} \cup WriterFlush
    ELSE IF DeviceMayFail
         THEN {[w EXCEPT !.enabled = FALSE] : w \in {Nothing, FlushOk}} \cup FlushFailures
         ELSE {}
WriterStarts == IF writeback_enabled THEN {Nothing, FlushOk} ELSE {}

\* JournalWriter::Sync: refused, nothing to do, or the info block is written.
WriterSync ==
    IF ~writeback_enabled THEN {Nothing}
    ELSE {FlushOk} \cup (IF pending_work_items = <<>> THEN {Nothing} ELSE {})
                   \cup WriterFailures

\* Blocks that come back to journal_buffer_ between two sets of transactions.
Holds(ts) == {x \in DOMAIN ts : ts[x].stage \in {"queued", "journaled"}}

Writer(w) ==
    /\ txns' = w.txns
    /\ pending_work_items' = w.queue
    /\ writeback_enabled' = w.enabled
    /\ free' = free + Stored(Holds(txns) \ Holds(w.txns))

-----------------------------------------------------------------------------
(* The callers.                                                            *)

\* FlushPending, followed by the promises that the caller wraps next.
FlushPending(next) ==
    IF pending = 0
    THEN /\ sequencer' = sequencer \o next
         /\ UNCHANGED <<pending, journal_data_barrier, flushes>>
    ELSE /\ flushes' = IF journal_data_barrier = 0 THEN flushes
                       ELSE flushes \cup {[after |-> Len(txns), slot |-> journal_data_barrier]}
         /\ journal_data_barrier' = 0
         /\ sequencer' = Append(sequencer, Slot("flush", 0, TRUE)) \o next
         /\ pending' = 0

\* Nobody calls a journal that is being destroyed.
Open == \A u \in Thread : thread[u].pc \notin {"close", "closed"}

\* Mutant: a caller that does not fit goes to Reserve without flushing.
CommitTransaction_NoFlush(t, len, data) ==
    /\ thread[t] = Idle
    /\ Open
    /\ writeback_enabled
    /\ Len(txns) + Cardinality({u \in Thread : thread[u].pc \in {"reserve", "copy"}})
           < MaxTransactions
    /\ thread' = [thread EXCEPT ![t] = Caller("reserve", len, data, 0)]
    /\ UNCHANGED <<pending, sequencer, journal_data_barrier, flushes,
                   free, txns, pending_work_items, writeback_enabled>>

\* CommitTransaction up to the call of Reserve.  A transaction without
\* metadata changes nothing; one that finds writeback disabled is refused.
CommitTransaction(t, len, data) ==
    /\ thread[t] = Idle
    /\ Open
    /\ writeback_enabled
    /\ Len(txns) + Cardinality({u \in Thread : thread[u].pc \in {"reserve", "copy"}})
           < MaxTransactions
    /\ thread' = [thread EXCEPT ![t] = Caller("reserve", len, data, 0)]
    /\ IF pending + len > Capacity THEN FlushPending(<<>>)
       ELSE UNCHANGED <<pending, sequencer, journal_data_barrier, flushes>>
    /\ UNCHANGED <<free, txns, pending_work_items, writeback_enabled>>

\* Reserve returns: with the blocks, or with an error for what never fits.
Reserve(t) ==
    /\ thread[t].pc = "reserve"
    /\ \/ /\ thread[t].len <= free
          /\ free' = free - thread[t].len
          /\ thread' = [thread EXCEPT ![t].pc = "copy", ![t].seen = pending]
       \/ /\ thread[t].len > Capacity
          /\ thread' = [thread EXCEPT ![t] = Idle]
          /\ UNCHANGED free
    /\ UNCHANGED <<pending, txns, sequencer, journal_data_barrier, flushes,
                   pending_work_items, writeback_enabled>>

\* The rest of CommitTransaction: the transaction takes its place in the
\* sequencer, behind a held promise when data must be flushed first.
Enqueue(t) ==
    LET hold == journal_data_barrier = 0 /\ thread[t].data # "none"
        held == IF hold THEN Append(sequencer, Slot("barrier", 0, FALSE)) ELSE sequencer
    IN /\ thread[t].pc = "copy"
       /\ journal_data_barrier' = IF hold THEN Len(held) ELSE journal_data_barrier
       /\ pending' = thread[t].seen + thread[t].len
       /\ txns' = Append(txns, Txn(thread[t].len, thread[t].data))
       /\ sequencer' = Append(held, Slot("meta", Len(txns) + 1, TRUE))
       /\ thread' = [thread EXCEPT ![t] = Idle]
       /\ UNCHANGED <<free, flushes, pending_work_items, writeback_enabled>>

\* CopyRequests fails: the reservation is released.
CopyFails(t) ==
    /\ thread[t].pc = "copy"
    /\ free' = free + thread[t].len
    /\ thread' = [thread EXCEPT ![t] = Idle]
    /\ UNCHANGED <<pending, txns, sequencer, journal_data_barrier, flushes,
                   pending_work_items, writeback_enabled>>

Syncs == {i \in DOMAIN sequencer : sequencer[i].kind = "sync"}

\* Sync: the promise has its place; its caller has still to schedule it.
Sync(t) ==
    /\ thread[t] = Idle
    /\ Open
    /\ Cardinality(Syncs) < MaxSyncs
    /\ FlushPending(<<Slot("sync", t, FALSE)>>)
    /\ thread' = [thread EXCEPT ![t].pc = "sync"]
    /\ UNCHANGED <<free, txns, pending_work_items, writeback_enabled>>

\* schedule_task(Sync()...).
Schedule(t) ==
    /\ thread[t].pc = "sync"
    /\ sequencer' = [i \in DOMAIN sequencer |->
           IF sequencer[i].kind = "sync" /\ sequencer[i].txn = t
           THEN [sequencer[i] EXCEPT !.ready = TRUE] ELSE sequencer[i]]
    /\ thread' = [thread EXCEPT ![t] = Idle]
    /\ UNCHANGED <<pending, free, txns, journal_data_barrier, flushes,
                   pending_work_items, writeback_enabled>>

\* ~Journal: schedules Sync() and waits for it.
Close(t) ==
    /\ \A u \in Thread : thread[u] = Idle
    /\ FlushPending(<<Slot("close", t, TRUE)>>)
    /\ thread' = [thread EXCEPT ![t].pc = "close"]
    /\ UNCHANGED <<free, txns, pending_work_items, writeback_enabled>>

\* The wait of ~Journal is over.
Closed(t) ==
    /\ thread[t].pc = "close"
    /\ sequencer[Len(sequencer)].done
    /\ thread' = [thread EXCEPT ![t].pc = "closed"]
    /\ UNCHANGED <<pending, free, txns, sequencer, journal_data_barrier, flushes,
                   pending_work_items, writeback_enabled>>

-----------------------------------------------------------------------------
(* The executor.  A promise of the sequencer runs when the one before it   *)
(* has finished or has been destroyed.                                     *)

CanRun(i) ==
    /\ sequencer[i].ready
    /\ ~sequencer[i].done
    /\ i > 1 => sequencer[i - 1].done

Finish(i) == sequencer' = [sequencer EXCEPT ![i].done = TRUE]

SlotOf(x) == CHOOSE i \in DOMAIN sequencer : sequencer[i].kind = "meta" /\ sequencer[i].txn = x

\* The data_promise of a transaction succeeds.
WriteData(x) ==
    /\ txns[x].data = "waiting"
    /\ \E w \in WriterStarts : Writer([w EXCEPT !.txns[x].data = "written"])
    /\ UNCHANGED <<thread, pending, sequencer, journal_data_barrier, flushes>>

\* The data_promise fails: and_then destroys the metadata's promise, which
\* releases its blocks and its place in the sequencer.
DataFails(x) ==
    /\ txns[x].data = "waiting"
    /\ \E w \in WriterFailures \cup (IF DataMayFail THEN {Nothing} ELSE {}) :
           Writer([w EXCEPT !.txns[x].data = "failed", !.txns[x].stage = "dropped"])
    /\ Finish(SlotOf(x))
    /\ UNCHANGED <<thread, pending, journal_data_barrier, flushes>>

\* Mutant: the flush does not wait for the data.
FlushData_NoSync(f) ==
    /\ \E w \in WriterFlush :
           /\ Writer(w)
           /\ sequencer' = IF w.enabled THEN [sequencer EXCEPT ![f.slot].ready = TRUE]
                           ELSE [sequencer EXCEPT ![f.slot].done = TRUE]
    /\ flushes' = flushes \ {f}
    /\ UNCHANGED <<thread, pending, journal_data_barrier>>

\* Mutant: a failed flush leaves the held promise where it is.
FlushData_ErrorHolds(f) ==
    /\ \A x \in 1..f.after : txns[x].data # "waiting"
    /\ \E w \in WriterFlush :
           /\ Writer(w)
           /\ sequencer' = IF w.enabled THEN [sequencer EXCEPT ![f.slot].ready = TRUE]
                           ELSE sequencer
    /\ flushes' = flushes \ {f}
    /\ UNCHANGED <<thread, pending, journal_data_barrier>>

\* data_barrier_.sync(), Flush, and then the held promise.
FlushData(f) ==
    /\ \A x \in 1..f.after : txns[x].data # "waiting"
    /\ \E w \in WriterFlush :
           /\ Writer(w)
           /\ sequencer' = IF w.enabled THEN [sequencer EXCEPT ![f.slot].ready = TRUE]
                           ELSE [sequencer EXCEPT ![f.slot].done = TRUE]
    /\ flushes' = flushes \ {f}
    /\ UNCHANGED <<thread, pending, journal_data_barrier>>

\* The held promise itself does nothing.
RunBarrier(i) ==
    /\ CanRun(i) /\ sequencer[i].kind = "barrier"
    /\ Finish(i)
    /\ UNCHANGED <<thread, pending, free, txns, journal_data_barrier, flushes,
                   pending_work_items, writeback_enabled>>

\* Mutant: metadata is scheduled without the sequencer.
WriteMetadata_Unordered(i) ==
    LET x == sequencer[i].txn
    IN /\ ~sequencer[i].done /\ sequencer[i].kind = "meta"
       /\ txns[x].data # "waiting"
       /\ \/ \E w \in WriterStarts :
                 Writer([w EXCEPT !.txns[x].stage = "journaled", !.queue = Append(@, x)])
          \/ \E w \in WriterFailures : Writer([w EXCEPT !.txns[x].stage = "dropped"])
       /\ Finish(i)
       /\ UNCHANGED <<thread, pending, journal_data_barrier, flushes>>

\* WriteMetadata: the entry is journaled and queued, or it fails and is dropped.
WriteMetadata(i) ==
    LET x == sequencer[i].txn
    IN /\ CanRun(i) /\ sequencer[i].kind = "meta"
       /\ txns[x].data # "waiting"
       /\ \/ \E w \in WriterStarts :
                 Writer([w EXCEPT !.txns[x].stage = "journaled", !.queue = Append(@, x)])
          \/ \E w \in WriterFailures : Writer([w EXCEPT !.txns[x].stage = "dropped"])
       /\ Finish(i)
       /\ UNCHANGED <<thread, pending, journal_data_barrier, flushes>>

\* The flush that FlushPending puts behind the metadata.
RunFlush(i) ==
    /\ CanRun(i) /\ sequencer[i].kind = "flush"
    /\ \E w \in IF pending_work_items = <<>> THEN {Nothing} ELSE WriterFlush : Writer(w)
    /\ Finish(i)
    /\ UNCHANGED <<thread, pending, journal_data_barrier, flushes>>

\* Mutant: Sync is scheduled without the sequencer.
RunSync_Unordered(i) ==
    /\ sequencer[i].ready /\ ~sequencer[i].done /\ sequencer[i].kind \in {"sync", "close"}
    /\ \E w \in WriterSync : Writer(w)
    /\ Finish(i)
    /\ UNCHANGED <<thread, pending, journal_data_barrier, flushes>>

\* The promise of Sync.
RunSync(i) ==
    /\ CanRun(i) /\ sequencer[i].kind \in {"sync", "close"}
    /\ \E w \in WriterSync : Writer(w)
    /\ Finish(i)
    /\ UNCHANGED <<thread, pending, journal_data_barrier, flushes>>

-----------------------------------------------------------------------------
Init ==
    /\ thread = [t \in Thread |-> Idle]
    /\ pending = 0
    /\ free = Capacity
    /\ txns = <<>>
    /\ sequencer = <<>>
    /\ journal_data_barrier = 0
    /\ flushes = {}
    /\ pending_work_items = <<>>
    /\ writeback_enabled = TRUE

Return(t) == Reserve(t) \/ Enqueue(t) \/ CopyFails(t) \/ Schedule(t) \/ Closed(t)
RunSlot(i) == RunBarrier(i) \/ WriteMetadata(i) \/ RunFlush(i) \/ RunSync(i)
RunData(x) == WriteData(x) \/ DataFails(x)

Next ==
    \/ \E t \in Thread :
          \/ \E len \in Lengths, data \in {"none", "waiting"} : CommitTransaction(t, len, data)
          \/ Sync(t) \/ Close(t) \/ Return(t)
    \/ \E x \in DOMAIN txns : RunData(x)
    \/ \E f \in flushes : FlushData(f)
    \/ \E i \in DOMAIN sequencer : RunSlot(i)

Spec == Init /\ [][Next]_vars

\* The executor runs every promise that can run, device requests return, and
\* a caller that is not blocked goes on.  Nobody has to call the journal.
Fairness ==
    /\ \A t \in Thread : WF_vars(Return(t))
    /\ \A x \in 1..MaxTransactions : WF_vars(x \in DOMAIN txns /\ RunData(x))
    /\ WF_vars(\E f \in flushes : FlushData(f))
    /\ WF_vars(\E i \in DOMAIN sequencer : RunSlot(i))

FairSpec == Spec /\ Fairness

-----------------------------------------------------------------------------
Stage == {"queued", "journaled", "complete", "dropped"}
DataState == {"none", "waiting", "written", "flushed", "failed"}

\* The state of the journal is well formed; the blocks that journal_buffer_
\* has handed out are exactly those of callers and of unsettled transactions.
TypeOK ==
    /\ \A t \in Thread :
          thread[t].pc \in {"idle", "reserve", "copy", "sync", "close", "closed"}
    /\ txns \in Seq([len : Lengths, data : DataState, stage : Stage])
    /\ pending \in Nat
    /\ journal_data_barrier \in 0..Len(sequencer)
    /\ free + Stored(Holds(txns))
            + MapThenSumSet(LAMBDA t : thread[t].len, {t \in Thread : thread[t].pc = "copy"})
          = Capacity

\* A transaction reaches the journal only after its own data and the data of
\* every transaction before it are flushed (journal.cc FlushPending: "Writes to
\* the journal can only proceed once all data writes have been flushed").
DataBeforeMetadata ==
    \A y \in DOMAIN txns : txns[y].stage \in {"journaled", "complete"} =>
        \A x \in 1..y : txns[x].data \in {"none", "flushed", "failed"}

\* A transaction reaches the journal only after every transaction committed
\* before it has (journal.h: "metadata operations are completed in the order
\* they are enqueued").
MetadataInOrder ==
    \A y \in DOMAIN txns : txns[y].stage \in {"journaled", "complete"} =>
        \A x \in 1..y : txns[x].stage # "queued"

\* The transactions in the buffer with no flush behind them.
Stuck ==
    {x \in Holds(txns) :
        \A i \in DOMAIN sequencer : sequencer[i].kind = "flush" => i < SlotOf(x)}

\* Blocks that pending_ does not count have a flush scheduled behind them
\* (journal.h: "the process to flush them has been initiated").
StuckBlocksCounted == Stored(Stuck) <= pending

\* A caller blocked in Reserve waits only for blocks that come back without
\* another call: its blocks and those with no flush behind them fit together.
WaitsForFlushesOnly ==
    \A t \in Thread : thread[t].pc = "reserve" /\ thread[t].len \in (free + 1)..Capacity =>
        Stored(Stuck) + thread[t].len <= Capacity

\* When Sync's promise, or ~Journal's, has run, every transaction committed
\* before the call is in place or has failed, as long as no request has failed
\* (journal.h: "all previous committed transcations have completed").
SyncSettles ==
    writeback_enabled => \A i \in DOMAIN sequencer :
        sequencer[i].kind \in {"sync", "close"} /\ sequencer[i].done =>
            \A j \in 1..i : sequencer[j].kind = "meta" =>
                txns[sequencer[j].txn].stage \in {"complete", "dropped"}

\* CommitTransaction returns: a caller blocked in Reserve gets its blocks.
CommitReturns == \A t \in Thread : thread[t].pc = "reserve" ~> thread[t].pc # "reserve"

\* A Sync that was scheduled completes, and so does ~Journal.
SyncCompletes ==
    \A i \in 1..(MaxSyncs + 1) :
        Cardinality(Syncs) >= i ~> Cardinality({j \in Syncs : sequencer[j].done}) >= i
CloseReturns == \A t \in Thread : thread[t].pc = "close" ~> thread[t].pc = "closed"
=============================================================================
