--------------------------- MODULE JournalProofs ---------------------------
(***************************************************************************)
(* Proofs about Journal: for any number of threads, transactions and calls *)
(* of Sync, and whatever requests but those for data fail, metadata is     *)
(* journaled in order, after the data of everything before it, and Sync    *)
(* settles what came before it.                                            *)
(***************************************************************************)
EXTENDS Journal, TLAPS

-----------------------------------------------------------------------------
(***************************************************************************)
(* The inductive invariant.                                                *)
(***************************************************************************)

TxnRec == [len : Lengths, data : DataState, stage : Stage]
SlotRec == [kind : {"barrier", "meta", "flush", "sync", "close"}, txn : Thread \cup Nat,
            ready : BOOLEAN, done : BOOLEAN]

CallerRec == [pc : {"idle", "reserve", "copy", "sync", "close", "closed"}, len : Nat,
              data : {"none", "waiting"}, seen : Nat]

CallersTyped ==
    /\ thread \in [Thread -> CallerRec] /\ pending \in Nat
    /\ \A t \in Thread : thread[t].pc \in {"reserve", "copy"} => thread[t].len \in Lengths

Typed ==
    /\ txns \in Seq(TxnRec)
    /\ sequencer \in Seq(SlotRec)
    /\ pending_work_items \in Seq(Nat)
    /\ journal_data_barrier \in Nat /\ writeback_enabled \in BOOLEAN
    /\ flushes \subseteq [after : Nat, slot : Nat]
    /\ CallersTyped

IsMeta(i) == i \in DOMAIN sequencer /\ sequencer[i].kind = "meta"

\* Every transaction has its place in the sequencer, in the order of the commits.
InPlace ==
    /\ \A i : IsMeta(i) => sequencer[i].txn \in DOMAIN txns
    /\ \A i, j : IsMeta(i) /\ IsMeta(j) /\ i < j => sequencer[i].txn < sequencer[j].txn
    /\ \A x \in DOMAIN txns : \E i : IsMeta(i) /\ sequencer[i].txn = x

\* As long as no request has failed: promises are done in order, a transaction is
\* out of the buffer when its promise is done, and in the queue until it is written.
DoneInOrder ==
    /\ \A i, j \in DOMAIN sequencer : i < j /\ sequencer[j].done => sequencer[i].done
    /\ \A i : IsMeta(i) => (sequencer[i].done <=> txns[sequencer[i].txn].stage # "queued")
    /\ \A x \in DOMAIN txns : txns[x].stage = "journaled" <=> x \in Range(pending_work_items)
    /\ Range(pending_work_items) \subseteq DOMAIN txns

\* A held promise has not been given to the executor, and has one reason to be held.
Held(i) == i \in DOMAIN sequencer /\ sequencer[i].kind = "barrier" /\ ~sequencer[i].ready /\ ~sequencer[i].done
HeldOnce ==
    /\ journal_data_barrier # 0 => Held(journal_data_barrier)
    /\ \A f \in flushes : Held(f.slot) /\ f.slot # journal_data_barrier
    /\ \A f, g \in flushes : f.slot = g.slot => f = g

\* Data that is not flushed has a held promise before its metadata, which the flush
\* to come lets go of.
Guards(i, x) == i = journal_data_barrier \/ \E f \in flushes : f.slot = i /\ x <= f.after
Guarded ==
    \A x \in DOMAIN txns : txns[x].data \in {"waiting", "written"} =>
        \E i \in DOMAIN sequencer : /\ Guards(i, x)
                                    /\ \A j : IsMeta(j) /\ sequencer[j].txn = x => i < j

WhileEnabled == DoneInOrder /\ HeldOnce /\ Guarded /\ SyncSettles

Inv ==
    /\ Typed /\ InPlace /\ MetadataInOrder /\ DataBeforeMetadata
    /\ writeback_enabled => WhileEnabled

-----------------------------------------------------------------------------
(***************************************************************************)
(* What the writer makes of the transactions.                              *)
(***************************************************************************)

\* A function on the first numbers is a sequence.
LEMMA Sequence ==
    ASSUME NEW S, NEW n \in Nat, NEW f, f = [i \in 1..n |-> f[i]], \A i \in 1..n : f[i] \in S
    PROVE  f \in Seq(S) /\ Len(f) = n
  OBVIOUS

\* A sequence with another entry is a sequence.
LEMMA Replaced ==
    ASSUME NEW S, NEW f \in Seq(S), NEW x \in DOMAIN f, NEW r \in S
    PROVE  [f EXCEPT ![x] = r] \in Seq(S) /\ DOMAIN [f EXCEPT ![x] = r] = DOMAIN f
  OBVIOUS

\* Transactions only move on: data is written or fails, what was written is flushed,
\* metadata is dropped, and what is journaled is completed.
Moved(r, s) ==
    /\ s \in TxnRec
    /\ \/ s.data = r.data
       \/ r.data = "written" /\ s.data = "flushed"
       \/ r.data = "waiting" /\ s.data \in {"written", "failed"}
    /\ s.stage = r.stage \/ s.stage = "dropped" \/ (r.stage = "journaled" /\ s.stage = "complete")

Advance(ts) ==
    /\ ts \in Seq(TxnRec) /\ DOMAIN ts = DOMAIN txns
    /\ \A x \in DOMAIN txns : Moved(txns[x], ts[x])

\* Doing nothing, and destroying the queue.
LEMMA AdvanceOf ==
    ASSUME Typed
    PROVE  Advance(txns) /\ Advance(Cleared)
  <1>1. Len(txns) \in Nat /\ DOMAIN txns = 1..Len(txns) /\ \A x \in DOMAIN txns : txns[x] \in TxnRec
    BY DEF Typed
  <1>2. Advance(txns)
    BY <1>1, Zenon DEF Advance, Moved, Typed
  <1>3. \A x \in DOMAIN txns : Moved(txns[x], Cleared[x])
    BY <1>1, Zenon DEF Cleared, Moved, TxnRec, Stage
  <1>4. Cleared = [x \in 1..Len(txns) |-> Cleared[x]]
    BY <1>1, Zenon DEF Cleared
  <1>5. Cleared \in Seq(TxnRec) /\ DOMAIN Cleared = 1..Len(txns)
    BY <1>1, <1>3, <1>4, Sequence, Zenon DEF Moved
  <1>6. Advance(Cleared)
    BY <1>1, <1>3, <1>5, Zenon DEF Advance
  <1>. QED  BY <1>2, <1>6, Zenon

\* A flush that gets through the first n transactions of the queue.
LEMMA AdvanceFlushed ==
    ASSUME Typed, DoneInOrder, NEW n \in 0..Len(pending_work_items)
    PROVE  Advance(Flushed(n))
  <1>1. Len(txns) \in Nat /\ DOMAIN txns = 1..Len(txns) /\ \A x \in DOMAIN txns : txns[x] \in TxnRec
    BY DEF Typed
  <1>2. \A x : (\E i \in 1..n : pending_work_items[i] = x) => x \in Range(pending_work_items)
    BY DEF Typed, Range
  <1>3. ASSUME NEW x \in DOMAIN txns PROVE Moved(txns[x], Flushed(n)[x])
    <2>. DEFINE d == IF txns[x].data = "written" THEN "flushed" ELSE txns[x].data
                g == IF \E i \in 1..n : pending_work_items[i] = x THEN "complete"
                     ELSE IF x \in Range(pending_work_items) THEN "dropped" ELSE txns[x].stage
    <2>1. Flushed(n)[x] = [txns[x] EXCEPT !.data = d, !.stage = g]
      BY Zenon DEF Flushed
    <2>2. d \in DataState /\ (d = txns[x].data \/ (txns[x].data = "written" /\ d = "flushed"))
      BY <1>1, Zenon DEF TxnRec, DataState
    <2>3. g \in Stage /\ (g = txns[x].stage \/ g = "dropped" \/ (txns[x].stage = "journaled" /\ g = "complete"))
      BY <1>1, <1>2, Zenon DEF TxnRec, Stage, DoneInOrder
    <2>. HIDE DEF d, g
    <2>4. /\ [txns[x] EXCEPT !.data = d, !.stage = g] \in TxnRec
          /\ [txns[x] EXCEPT !.data = d, !.stage = g].data = d
          /\ [txns[x] EXCEPT !.data = d, !.stage = g].stage = g
      BY <1>1, <2>2, <2>3, Zenon DEF TxnRec
    <2>. QED  BY <2>1, <2>2, <2>3, <2>4, Zenon DEF Moved
  <1>4. Flushed(n) = [x \in 1..Len(txns) |-> Flushed(n)[x]]
    BY <1>1, Zenon DEF Flushed
  <1>5. Flushed(n) \in Seq(TxnRec) /\ DOMAIN Flushed(n) = 1..Len(txns)
    BY <1>1, <1>3, <1>4, Sequence, Zenon DEF Moved
  <1>. QED  BY <1>1, <1>3, <1>5, Zenon DEF Advance

\* What an operation of the writer leaves when a request has failed, and when none has.
Outcome == [txns : Seq(TxnRec), queue : Seq(Nat), enabled : BOOLEAN]

Fails(w) == w \in Outcome /\ w.enabled = FALSE /\ Advance(w.txns)

Succeeds(w) ==
    /\ w \in Outcome /\ w.enabled = TRUE /\ Advance(w.txns)
    /\ Range(w.queue) \subseteq DOMAIN txns
    /\ \A x \in DOMAIN txns : /\ w.txns[x].stage = "journaled" <=> x \in Range(w.queue)
                              /\ w.txns[x].stage = "queued" <=> txns[x].stage = "queued"

\* The parts of an outcome.
Built(ts, q, e) == [txns |-> ts, queue |-> q, enabled |-> e]

\* An outcome put together from its parts is one, and has those parts.
LEMMA OutcomeOf ==
    ASSUME NEW ts \in Seq(TxnRec), NEW q \in Seq(Nat), NEW e \in BOOLEAN
    PROVE  /\ Built(ts, q, e) \in Outcome /\ Built(ts, q, e).txns = ts
           /\ Built(ts, q, e).queue = q /\ Built(ts, q, e).enabled = e
  BY Zenon DEF Outcome, Built

\* Doing nothing is a success as long as nothing has failed.
LEMMA NothingSucceeds ==
    ASSUME Inv, writeback_enabled
    PROVE  Succeeds(Nothing) /\ Nothing.txns = txns /\ Nothing.queue = pending_work_items
  <1>1. txns \in Seq(TxnRec) /\ pending_work_items \in Seq(Nat) /\ writeback_enabled \in BOOLEAN
    BY Zenon DEF Inv, Typed
  <1>2. Nothing \in Outcome /\ Nothing.txns = txns /\ Nothing.queue = pending_work_items /\ Nothing.enabled = TRUE
    <2>1. Nothing = Built(txns, pending_work_items, TRUE)
      BY <1>1, Zenon DEF Nothing, Built
    <2>2. TRUE \in BOOLEAN
      BY Zenon
    <2>. QED  BY <1>1, <2>1, <2>2, OutcomeOf, Zenon
  <1>3. Advance(txns) /\ DoneInOrder
    BY AdvanceOf, Zenon DEF Inv, WhileEnabled
  <1>. QED  BY <1>2, <1>3, Zenon DEF Succeeds, DoneInOrder

\* A whole flush leaves no data written but not flushed, and no transaction in the queue.
LEMMA FlushSucceeds ==
    ASSUME Inv, writeback_enabled
    PROVE  /\ Succeeds(FlushOk) /\ FlushOk.queue = <<>>
           /\ \A x \in DOMAIN txns : FlushOk.txns[x].data # "written" /\ FlushOk.txns[x].stage # "journaled"
  <1>. DEFINE n == Len(pending_work_items)
              ts == Flushed(n)
  <1>1. n \in 0..Len(pending_work_items)
    BY DEF Inv, Typed
  <1>2. Advance(ts)
    BY <1>1, AdvanceFlushed, Zenon DEF Inv, WhileEnabled
  <1>3. \A x : (\E i \in 1..n : pending_work_items[i] = x) <=> x \in Range(pending_work_items)
    <2>1. DOMAIN pending_work_items = 1..n
      BY DEF Inv, Typed
    <2>. QED  BY <2>1, Zenon DEF Range
  <1>4. ASSUME NEW x \in DOMAIN txns
        PROVE  /\ ts[x].data # "written" /\ ts[x].stage # "journaled"
               /\ ts[x].stage = "queued" <=> txns[x].stage = "queued"
    <2>. DEFINE d == IF txns[x].data = "written" THEN "flushed" ELSE txns[x].data
                g == IF \E i \in 1..n : pending_work_items[i] = x THEN "complete"
                     ELSE IF x \in Range(pending_work_items) THEN "dropped" ELSE txns[x].stage
    <2>1. ts[x] = [txns[x] EXCEPT !.data = d, !.stage = g]
      BY Zenon DEF Flushed
    <2>2. d # "written"
      BY Zenon
    <2>3. g # "journaled" /\ (g = "queued" <=> txns[x].stage = "queued")
      BY <1>3, Zenon DEF Inv, WhileEnabled, DoneInOrder
    <2>. HIDE DEF d, g, ts
    <2>4. txns[x] \in TxnRec
      BY DEF Inv, Typed
    <2>5. ts[x].data = d /\ ts[x].stage = g
      BY <2>1, <2>4, Zenon DEF TxnRec
    <2>. QED  BY <2>2, <2>3, <2>5, Zenon
  <1>. HIDE DEF ts
  <1>5. FlushOk = Built(ts, <<>>, TRUE)
    BY Zenon DEF FlushOk, ts, Built
  <1>6. <<>> \in Seq(Nat) /\ Range(<<>>) = {} /\ ts \in Seq(TxnRec)
    BY <1>2 DEF Range, Advance
  <1>7. FlushOk \in Outcome /\ FlushOk.txns = ts /\ FlushOk.queue = <<>> /\ FlushOk.enabled = TRUE
    <2>1. TRUE \in BOOLEAN
      BY Zenon
    <2>. QED  BY <1>5, <1>6, <2>1, OutcomeOf, Zenon
  <1>. QED  BY <1>2, <1>4, <1>6, <1>7, Zenon DEF Succeeds

\* The outcomes of the writer's operations.
LEMMA Outcomes ==
    ASSUME Inv
    PROVE  /\ \A w \in WriterFailures : Fails(w)
           /\ ~writeback_enabled => Fails(Nothing)
           /\ \A w \in WriterStarts : writeback_enabled /\ w \in {Nothing, FlushOk}
           /\ \A w \in WriterFlush : Fails(w) \/ (writeback_enabled /\ w = FlushOk)
           /\ \A w \in WriterSync : \/ Fails(w)
                                    \/ writeback_enabled /\ w = FlushOk
                                    \/ writeback_enabled /\ w = Nothing /\ pending_work_items = <<>>
  <1>. DEFINE Failed(ts, q) == Built(ts, q, FALSE)
  <1>1. ASSUME NEW ts, NEW q, Advance(ts), q \in Seq(Nat) PROVE Fails(Failed(ts, q))
    <2>1. ts \in Seq(TxnRec)
      BY <1>1, Zenon DEF Advance
    <2>. HIDE DEF Failed
    <2>2. FALSE \in BOOLEAN
      BY Zenon
    <2>3. Failed(ts, q) \in Outcome /\ Failed(ts, q).txns = ts /\ Failed(ts, q).enabled = FALSE
      BY <1>1, <2>1, <2>2, OutcomeOf, Zenon DEF Failed
    <2>. QED  BY <1>1, <2>3, Zenon DEF Fails
  <1>. HIDE DEF Failed
  <1>2. <<>> \in Seq(Nat) /\ pending_work_items \in Seq(Nat) /\ Advance(txns) /\ Advance(Cleared)
    BY AdvanceOf DEF Inv, Typed
  <1>3. ~writeback_enabled => Fails(Nothing)
    <2>1. ~writeback_enabled => Nothing = Failed(txns, pending_work_items)
      BY Zenon DEF Nothing, Failed, Inv, Typed, Built
    <2>. QED  BY <1>1, <1>2, <2>1, Zenon
  <1>4. writeback_enabled => \A w \in FlushFailures : Fails(w)
    <2>1. ASSUME writeback_enabled, NEW t \in {Cleared} \cup {Flushed(n) : n \in 0..Len(pending_work_items)}
          PROVE  Fails(Failed(t, <<>>))
      <3>1. Advance(t)
        BY <1>2, <2>1, AdvanceFlushed, Zenon DEF Inv, WhileEnabled
      <3>. QED  BY <1>1, <1>2, <3>1, Zenon
    <2>. QED  BY <2>1, Zenon DEF FlushFailures, Failed, Built
  <1>5. ~writeback_enabled => \A w \in WriterFlush : Fails(w)
    <2>1. Fails(Failed(Cleared, <<>>))
      BY <1>1, <1>2, Zenon
    <2>. QED  BY <2>1, Zenon DEF WriterFlush, Failed, Built
  <1>6. writeback_enabled => \A w \in WriterFlush : Fails(w) \/ w = FlushOk
    BY <1>4, Zenon DEF WriterFlush
  <1>7. writeback_enabled => \A w \in {Nothing, FlushOk} : Fails([w EXCEPT !.enabled = FALSE])
    <2>1. ASSUME NEW w, Succeeds(w) PROVE Fails([w EXCEPT !.enabled = FALSE])
      <3>1. w \in Outcome /\ Advance(w.txns)
        BY <2>1, Zenon DEF Succeeds
      <3>2. /\ [w EXCEPT !.enabled = FALSE] \in Outcome
            /\ [w EXCEPT !.enabled = FALSE].txns = w.txns
            /\ [w EXCEPT !.enabled = FALSE].enabled = FALSE
        BY <3>1, Zenon DEF Outcome
      <3>. QED  BY <3>1, <3>2, Zenon DEF Fails
    <2>. QED  BY <2>1, NothingSucceeds, FlushSucceeds, Zenon
  <1>8. \A w \in WriterFailures : Fails(w)
    BY <1>3, <1>4, <1>5, <1>7, Zenon DEF WriterFailures
  <1>9. \A w \in WriterStarts : writeback_enabled /\ w \in {Nothing, FlushOk}
    BY Zenon DEF WriterStarts
  <1>10. \A w \in WriterSync : \/ Fails(w)
                               \/ writeback_enabled /\ w = FlushOk
                               \/ writeback_enabled /\ w = Nothing /\ pending_work_items = <<>>
    BY <1>3, <1>8, Zenon DEF WriterSync
  <1>. QED  BY <1>3, <1>5, <1>6, <1>8, <1>9, <1>10, Zenon

-----------------------------------------------------------------------------
(***************************************************************************)
(* What holds whether or not a request has failed.                         *)
(***************************************************************************)

\* The same promises in the same places.
Slots(q) ==
    /\ q \in Seq(SlotRec) /\ DOMAIN q = DOMAIN sequencer
    /\ \A i \in DOMAIN sequencer : q[i].kind = sequencer[i].kind /\ q[i].txn = sequencer[i].txn

\* Transactions keep their places.
LEMMA PlacesKept ==
    ASSUME InPlace, DOMAIN txns' = DOMAIN txns, Slots(sequencer')
    PROVE  /\ InPlace'
           /\ \A i : (IsMeta(i)' <=> IsMeta(i)) /\ (IsMeta(i) => sequencer'[i].txn = sequencer[i].txn)
  <1>1. \A i : (IsMeta(i)' <=> IsMeta(i)) /\ (IsMeta(i) => sequencer'[i].txn = sequencer[i].txn)
    BY Zenon DEF IsMeta, Slots
  <1>. QED  BY <1>1, Zenon DEF InPlace

\* Transactions that move on in their places stay in order.
LEMMA OrderKeeps ==
    ASSUME Inv, Advance(txns'), Slots(sequencer')
    PROVE  InPlace' /\ MetadataInOrder' /\ DataBeforeMetadata'
  <1>1. DOMAIN txns' = DOMAIN txns /\ DOMAIN txns = 1..Len(txns) /\ Len(txns) \in Nat
    BY DEF Inv, Typed, Advance
  <1>4. InPlace'
    BY <1>1, PlacesKept, Zenon DEF Inv
  <1>5. \A x \in DOMAIN txns : Moved(txns[x], txns'[x])
    BY Zenon DEF Advance
  <1>6. MetadataInOrder'
    <2>1. SUFFICES ASSUME NEW y \in DOMAIN txns, txns'[y].stage \in {"journaled", "complete"}, NEW x \in 1..y
                   PROVE  txns'[x].stage # "queued"
      BY <1>1, Zenon DEF MetadataInOrder
    <2>2. x \in DOMAIN txns
      BY <1>1
    <2>3. txns[y].stage \in {"journaled", "complete"}
      BY <1>5, <2>1, Zenon DEF Moved
    <2>4. txns[x].stage # "queued"
      BY <2>3, Zenon DEF Inv, MetadataInOrder
    <2>. QED  BY <1>5, <2>2, <2>4, Zenon DEF Moved
  <1>7. DataBeforeMetadata'
    <2>1. SUFFICES ASSUME NEW y \in DOMAIN txns, txns'[y].stage \in {"journaled", "complete"}, NEW x \in 1..y
                   PROVE  txns'[x].data \in {"none", "flushed", "failed"}
      BY <1>1, Zenon DEF DataBeforeMetadata
    <2>2. x \in DOMAIN txns
      BY <1>1
    <2>3. txns[y].stage \in {"journaled", "complete"}
      BY <1>5, <2>1, Zenon DEF Moved
    <2>4. txns[x].data \in {"none", "flushed", "failed"}
      BY <2>3, Zenon DEF Inv, DataBeforeMetadata
    <2>. QED  BY <1>5, <2>2, <2>4, Zenon DEF Moved
  <1>. QED  BY <1>4, <1>6, <1>7, Zenon

\* No promise is held anew, and the rest is of its type.
Background ==
    /\ CallersTyped' /\ pending_work_items' \in Seq(Nat) /\ writeback_enabled' \in BOOLEAN
    /\ journal_data_barrier' = journal_data_barrier /\ flushes' \subseteq flushes

\* Once a request has failed, that is all there is to keep.
LEMMA FailureKeeps ==
    ASSUME Inv, Advance(txns'), Slots(sequencer'), Background, ~writeback_enabled'
    PROVE  Inv'
  <1>1. Typed'
    BY Zenon DEF Typed, Inv, Advance, Slots, Background
  <1>. QED  BY <1>1, OrderKeeps, Zenon DEF Inv

\* A promise that finishes, or is given to the executor, keeps its place.
LEMMA SlotsKept ==
    ASSUME Typed, NEW i
    PROVE  /\ Finish(i) => Slots(sequencer')
           /\ sequencer' = [sequencer EXCEPT ![i].ready = TRUE] => Slots(sequencer')
           /\ Slots(sequencer)
  <1>1. DOMAIN sequencer = 1..Len(sequencer) /\ Len(sequencer) \in Nat /\ \A j \in DOMAIN sequencer : sequencer[j] \in SlotRec
    BY DEF Typed
  <1>2. \A r \in SlotRec : /\ [r EXCEPT !.done = TRUE] \in SlotRec /\ [r EXCEPT !.ready = TRUE] \in SlotRec
                           /\ [r EXCEPT !.done = TRUE].kind = r.kind /\ [r EXCEPT !.ready = TRUE].kind = r.kind
                           /\ [r EXCEPT !.done = TRUE].txn = r.txn /\ [r EXCEPT !.ready = TRUE].txn = r.txn
    BY Zenon DEF SlotRec
  <1>3. ASSUME NEW q, q = [sequencer EXCEPT ![i].done = TRUE] \/ q = [sequencer EXCEPT ![i].ready = TRUE]
        PROVE  Slots(q)
    <2>1. ASSUME NEW j \in DOMAIN sequencer
          PROVE  q[j] \in SlotRec /\ q[j].kind = sequencer[j].kind /\ q[j].txn = sequencer[j].txn
      <3>. DEFINE r == sequencer[j]
                  d == [r EXCEPT !.done = TRUE]
                  g == [r EXCEPT !.ready = TRUE]
      <3>1. q[j] = r \/ q[j] = d \/ q[j] = g
        BY <1>1, <1>3, Zenon
      <3>2. r \in SlotRec
        BY <1>1, Zenon
      <3>. HIDE DEF r
      <3>3. \A s \in {r, d, g} : s \in SlotRec /\ s.kind = r.kind /\ s.txn = r.txn
        BY <1>2, <3>2, Zenon
      <3>. HIDE DEF d, g
      <3>. QED  BY <3>1, <3>3, Zenon DEF r
    <2>2. q = [j \in 1..Len(sequencer) |-> q[j]]
      BY <1>1, <1>3, Zenon
    <2>3. q \in Seq(SlotRec) /\ DOMAIN q = DOMAIN sequencer
      BY <1>1, <2>1, <2>2, Sequence, Zenon
    <2>. QED  BY <2>1, <2>3, Zenon DEF Slots
  <1>4. Slots(sequencer)
    BY Zenon DEF Slots, Typed
  <1>. QED  BY <1>3, <1>4, Zenon DEF Finish

-----------------------------------------------------------------------------
(***************************************************************************)
(* What holds as long as no request has failed.                            *)
(***************************************************************************)

\* No promise but the one at i has finished; no held promise was given to the executor.
Ran(i) == \A j \in DOMAIN sequencer : sequencer'[j].done <=> (sequencer[j].done \/ j = i)
NoneReleased ==
    \A j \in DOMAIN sequencer : sequencer[j].kind = "barrier" => (sequencer'[j].ready <=> sequencer[j].ready)

\* A promise that runs finishes, and no other.
LEMMA FinishRuns ==
    ASSUME Typed, NEW i \in DOMAIN sequencer, Finish(i)
    PROVE  Ran(i) /\ NoneReleased
  <1>1. \A j \in DOMAIN sequencer : sequencer[j] \in SlotRec
    BY DEF Typed
  <1>2. \A j \in DOMAIN sequencer : sequencer'[j] = IF j = i THEN [sequencer[j] EXCEPT !.done = TRUE] ELSE sequencer[j]
    BY Zenon DEF Finish, Typed
  <1>3. \A r \in SlotRec : [r EXCEPT !.done = TRUE].done /\ ([r EXCEPT !.done = TRUE].ready <=> r.ready)
    BY Zenon DEF SlotRec
  <1>4. ASSUME NEW j \in DOMAIN sequencer
        PROVE  /\ sequencer'[j].done <=> (sequencer[j].done \/ j = i)
               /\ sequencer'[j].ready <=> sequencer[j].ready
    <2>. DEFINE r == sequencer[j]
                d == [r EXCEPT !.done = TRUE]
    <2>1. r \in SlotRec /\ sequencer'[j] = IF j = i THEN d ELSE r
      BY <1>1, <1>2, Zenon
    <2>. HIDE DEF r
    <2>2. d.done /\ (d.ready <=> r.ready)
      BY <1>3, <2>1, Zenon
    <2>. HIDE DEF d
    <2>3. CASE j = i
      BY <2>1, <2>2, <2>3, Zenon DEF r
    <2>4. CASE j # i
      BY <2>1, <2>4, Zenon DEF r
    <2>. QED  BY <2>3, <2>4, Zenon
  <1>. QED  BY <1>4, Zenon DEF Ran, NoneReleased

\* Every promise before one that can run is done.
LEMMA RunsInTurn ==
    ASSUME Typed, DoneInOrder, NEW i \in DOMAIN sequencer, CanRun(i)
    PROVE  \A j \in DOMAIN sequencer : j < i => sequencer[j].done
  <1>1. SUFFICES ASSUME NEW j \in DOMAIN sequencer, j < i PROVE sequencer[j].done
    BY Zenon
  <1>2. i > 1 /\ i - 1 \in DOMAIN sequencer /\ j <= i - 1 /\ i - 1 \in Int /\ j \in Int
    BY <1>1 DEF Typed
  <1>3. sequencer[i - 1].done
    BY <1>2, Zenon DEF CanRun
  <1>. QED  BY <1>2, <1>3 DEF DoneInOrder

\* The transactions that are out of the buffer, and those in the queue, keep to the
\* promises that are done when a promise other than a transaction's runs, or none does.
Booked ==
    /\ \A x \in DOMAIN txns : /\ txns'[x].stage = "journaled" <=> x \in Range(pending_work_items')
                              /\ txns'[x].stage = "queued" <=> txns[x].stage = "queued"
    /\ Range(pending_work_items') \subseteq DOMAIN txns

\* When no transaction's promise runs, the promises that are done are still the first
\* ones, and still the ones of the transactions that left the queue.
LEMMA DoneKeeps ==
    ASSUME Typed, DoneInOrder, InPlace, Advance(txns'), Slots(sequencer'), Booked, NEW i, Ran(i),
           i = 0 \/ (i \in DOMAIN sequencer /\ CanRun(i) /\ ~IsMeta(i))
    PROVE  DoneInOrder'
  <1>1. DOMAIN txns' = DOMAIN txns /\ DOMAIN sequencer' = DOMAIN sequencer
    BY Zenon DEF Advance, Slots
  <1>2. DOMAIN sequencer = 1..Len(sequencer) /\ Len(sequencer) \in Nat
    BY DEF Typed
  <1>3. ASSUME NEW j \in DOMAIN sequencer, NEW k \in DOMAIN sequencer, j < k, sequencer'[k].done
        PROVE  sequencer'[j].done
    <2>1. CASE sequencer[k].done
      BY <1>3, <2>1, Zenon DEF Ran, DoneInOrder
    <2>2. CASE k = i
      <3>1. i \in DOMAIN sequencer /\ CanRun(i)
        BY <1>2, <2>2
      <3>2. sequencer[j].done
        BY <1>3, <2>2, <3>1, RunsInTurn, Zenon
      <3>. QED  BY <3>2, Zenon DEF Ran
    <2>. QED  BY <1>3, <2>1, <2>2, Zenon DEF Ran
  <1>4. ASSUME NEW j, IsMeta(j)'
        PROVE  sequencer'[j].done <=> txns'[sequencer'[j].txn].stage # "queued"
    <2>1. IsMeta(j) /\ sequencer'[j].txn = sequencer[j].txn /\ j \in DOMAIN sequencer
      BY <1>4, Zenon DEF IsMeta, Slots
    <2>2. sequencer'[j].done <=> sequencer[j].done
      BY <1>2, <2>1 DEF Ran, IsMeta
    <2>3. sequencer[j].txn \in DOMAIN txns
      BY <2>1, Zenon DEF InPlace
    <2>4. txns'[sequencer[j].txn].stage = "queued" <=> txns[sequencer[j].txn].stage = "queued"
      BY <2>3, Zenon DEF Booked
    <2>. QED  BY <2>1, <2>2, <2>4, Zenon DEF DoneInOrder
  <1>. QED  BY <1>1, <1>3, <1>4, Zenon DEF DoneInOrder, Booked

\* Promises that are held stay held, and data that is not flushed stays behind them.
LEMMA HeldKeeps ==
    ASSUME Inv, WhileEnabled, DOMAIN txns' = DOMAIN txns, Slots(sequencer'), Background, flushes' = flushes,
           \A x \in DOMAIN txns : txns'[x].data \in {"waiting", "written"} => txns[x].data \in {"waiting", "written"},
           \A i : Held(i) => Held(i)'
    PROVE  HeldOnce' /\ Guarded'
  <1>1. HeldOnce'
    BY Zenon DEF HeldOnce, WhileEnabled, Background
  <1>2. DOMAIN sequencer' = DOMAIN sequencer
    BY Zenon DEF Slots
  <1>3. \A i : (IsMeta(i)' <=> IsMeta(i)) /\ (IsMeta(i) => sequencer'[i].txn = sequencer[i].txn)
    BY PlacesKept, Zenon DEF Inv
  <1>4. \A i, x : Guards(i, x)' <=> Guards(i, x)
    BY Zenon DEF Guards, Background
  <1>5. Guarded
    BY Zenon DEF WhileEnabled
  <1>6. Guarded'
    BY <1>2, <1>3, <1>4, <1>5, Zenon DEF Guarded
  <1>. QED  BY <1>1, <1>6, Zenon

\* A promise that can run is not held: running it leaves the held ones alone.
LEMMA RunKeepsHeld ==
    ASSUME Slots(sequencer'), NEW i, Ran(i), NoneReleased, i \in DOMAIN sequencer => sequencer[i].ready
    PROVE  \A j : Held(j) => Held(j)'
  BY Zenon DEF Held, Slots, Ran, NoneReleased

\* What was settled by a Sync stays settled; a Sync that runs finds everything before
\* it done, and leaves nothing in the queue.
LEMMA SettlesKeeps ==
    ASSUME Inv, writeback_enabled, Advance(txns'), Slots(sequencer'), Booked, NEW i, Ran(i),
           i = 0 \/ (i \in DOMAIN sequencer /\ CanRun(i) /\ ~IsMeta(i)),
           i \in DOMAIN sequencer /\ sequencer[i].kind \in {"sync", "close"} =>
               \A x \in DOMAIN txns : txns'[x].stage # "journaled"
    PROVE  SyncSettles'
  <1>1. DOMAIN txns' = DOMAIN txns /\ DOMAIN sequencer' = DOMAIN sequencer
        /\ DOMAIN sequencer = 1..Len(sequencer) /\ Len(sequencer) \in Nat
    BY DEF Advance, Slots, Inv, Typed
  <1>2. SUFFICES ASSUME NEW k \in DOMAIN sequencer, sequencer[k].kind \in {"sync", "close"}, sequencer'[k].done,
                        NEW j \in 1..k, sequencer[j].kind = "meta"
                 PROVE  txns'[sequencer[j].txn].stage \in {"complete", "dropped"}
    BY <1>1 DEF SyncSettles, Slots
  <1>. DEFINE x == sequencer[j].txn
  <1>3. j \in DOMAIN sequencer /\ IsMeta(j) /\ x \in DOMAIN txns
    BY <1>1, <1>2 DEF IsMeta, Inv, InPlace
  <1>4. Moved(txns[x], txns'[x])
    BY <1>3, Zenon DEF Advance
  <1>5. CASE sequencer[k].done
    <2>1. txns[x].stage \in {"complete", "dropped"}
      BY <1>2, <1>5, Zenon DEF Inv, WhileEnabled, SyncSettles
    <2>. QED  BY <1>4, <2>1, Zenon DEF Moved
  <1>6. CASE k = i
    <2>1. i \in DOMAIN sequencer /\ CanRun(i) /\ j < i
      BY <1>1, <1>2, <1>6
    <2>2. sequencer[j].done
      BY <1>3, <2>1, RunsInTurn, Zenon DEF Inv, WhileEnabled
    <2>3. txns[x].stage # "queued"
      BY <1>3, <2>2, Zenon DEF Inv, WhileEnabled, DoneInOrder
    <2>4. txns'[x].stage # "queued" /\ txns'[x].stage # "journaled"
      BY <1>2, <1>3, <1>6, <2>3, Zenon DEF Booked
    <2>5. txns'[x].stage \in Stage
      BY <1>4, Zenon DEF Moved, TxnRec
    <2>. QED  BY <2>4, <2>5, Zenon DEF Stage
  <1>. QED  BY <1>2, <1>5, <1>6, Zenon DEF Ran

\* A step that holds no promise anew and lets none go.
LEMMA SuccessKeeps ==
    ASSUME Inv, writeback_enabled, Advance(txns'), Slots(sequencer'), Background, flushes' = flushes, Booked,
           NEW i, Ran(i), NoneReleased,
           i = 0 \/ (i \in DOMAIN sequencer /\ CanRun(i) /\ ~IsMeta(i)),
           i \in DOMAIN sequencer /\ sequencer[i].kind \in {"sync", "close"} =>
               \A x \in DOMAIN txns : txns'[x].stage # "journaled"
    PROVE  Inv'
  <1>1. Typed'
    BY Zenon DEF Typed, Inv, Advance, Slots, Background
  <1>2. InPlace' /\ MetadataInOrder' /\ DataBeforeMetadata'
    BY OrderKeeps, Zenon
  <1>3. DoneInOrder'
    BY DoneKeeps, Zenon DEF Inv, WhileEnabled
  <1>4. HeldOnce' /\ Guarded'
    <2>1. i \in DOMAIN sequencer => sequencer[i].ready
      BY DEF CanRun, Inv, Typed
    <2>2. \A j : Held(j) => Held(j)'
      BY <2>1, RunKeepsHeld, Zenon
    <2>3. \A x \in DOMAIN txns : txns'[x].data \in {"waiting", "written"} => txns[x].data \in {"waiting", "written"}
      BY Zenon DEF Advance, Moved
    <2>4. DOMAIN txns' = DOMAIN txns
      BY Zenon DEF Advance
    <2>. QED  BY <2>2, <2>3, <2>4, HeldKeeps, Zenon DEF Inv
  <1>5. SyncSettles'
    BY SettlesKeeps, Zenon
  <1>. QED  BY <1>1, <1>2, <1>3, <1>4, <1>5, Zenon DEF Inv, WhileEnabled

-----------------------------------------------------------------------------
(***************************************************************************)
(* The executor.                                                           *)
(***************************************************************************)

\* The state after an operation of the writer.
LEMMA WriterLeaves ==
    ASSUME NEW w, Writer(w)
    PROVE  /\ Fails(w) => Advance(txns') /\ pending_work_items' \in Seq(Nat) /\ writeback_enabled' = FALSE
           /\ Succeeds(w) => /\ Advance(txns') /\ pending_work_items' \in Seq(Nat)
                             /\ writeback_enabled' = TRUE /\ Booked
  <1>1. txns' = w.txns /\ pending_work_items' = w.queue /\ writeback_enabled' = w.enabled
    BY Zenon DEF Writer
  <1>2. w \in Outcome => w.queue \in Seq(Nat)
    BY Zenon DEF Outcome
  <1>. QED  BY <1>1, <1>2, Zenon DEF Fails, Succeeds, Booked

\* Another record for one of the transactions.
LEMMA AdvanceAt ==
    ASSUME NEW ts, Advance(ts), NEW x \in DOMAIN txns, NEW us, NEW r,
           us = [ts EXCEPT ![x] = r], Moved(txns[x], r)
    PROVE  Advance(us)
  <1>1. ts \in Seq(TxnRec) /\ r \in TxnRec
    BY Zenon DEF Advance, Moved
  <1>2. us \in Seq(TxnRec) /\ DOMAIN us = DOMAIN ts
    BY <1>1, Replaced, Zenon DEF Advance
  <1>3. \A y \in DOMAIN txns : us[y] = IF y = x THEN r ELSE ts[y]
    BY Zenon DEF Advance
  <1>. QED  BY <1>2, <1>3, Zenon DEF Advance

\* The data of a transaction is written.
LEMMA WriteDataKeeps ==
    ASSUME Inv, NEW x \in DOMAIN txns, WriteData(x)
    PROVE  Inv'
  <1>1. PICK w \in WriterStarts : Writer([w EXCEPT !.txns[x].data = "written"])
    BY Zenon DEF WriteData
  <1>2. writeback_enabled /\ Succeeds(w)
    BY <1>1, Outcomes, NothingSucceeds, FlushSucceeds, Zenon
  <1>. DEFINE v == [w EXCEPT !.txns[x].data = "written"]
              r == [w.txns[x] EXCEPT !.data = "written"]
  <1>3. w \in Outcome /\ w.enabled = TRUE /\ Advance(w.txns)
    BY <1>2, Zenon DEF Succeeds
  <1>4. v \in Outcome /\ v.txns = [w.txns EXCEPT ![x] = r] /\ v.queue = w.queue /\ v.enabled = TRUE
    <2>1. v.txns = [w.txns EXCEPT ![x] = r] /\ v.queue = w.queue /\ v.enabled = w.enabled
      BY <1>3, Zenon DEF Outcome
    <2>2. w.txns \in Seq(TxnRec) /\ \A s \in TxnRec : [s EXCEPT !.data = "written"] \in TxnRec
      BY <1>3, Zenon DEF Advance, TxnRec, DataState
    <2>3. [w.txns EXCEPT ![x] = r] \in Seq(TxnRec)
      BY <1>3, <2>2 DEF Advance
    <2>4. v \in Outcome
      BY <1>3, <2>3, Zenon DEF Outcome
    <2>. QED  BY <1>3, <2>1, <2>4, Zenon
  <1>5. w.txns[x] \in TxnRec /\ Moved(txns[x], w.txns[x]) /\ txns[x].data = "waiting"
    BY <1>3, Zenon DEF Advance, Moved, WriteData
  <1>6. Moved(txns[x], r) /\ r.stage = w.txns[x].stage
    <2>1. r \in TxnRec /\ r.data = "written" /\ r.stage = w.txns[x].stage
      BY <1>5, Zenon DEF TxnRec, DataState
    <2>. HIDE DEF r
    <2>. QED  BY <1>5, <2>1, Zenon DEF Moved
  <1>. HIDE DEF v, r
  <1>7. Advance(v.txns)
    BY <1>3, <1>4, <1>6, AdvanceAt, Zenon
  <1>8. \A y \in DOMAIN txns : v.txns[y].stage = w.txns[y].stage
    BY <1>3, <1>4, <1>6, Zenon DEF Advance
  <1>9. Succeeds(v)
    BY <1>2, <1>4, <1>7, <1>8, Zenon DEF Succeeds
  <1>10. Writer(v)
    BY <1>1, Zenon DEF v
  <1>11. Advance(txns') /\ pending_work_items' \in Seq(Nat) /\ writeback_enabled' = TRUE /\ Booked
    BY <1>9, <1>10, WriterLeaves, Zenon
  <1>12. Slots(sequencer') /\ Ran(0) /\ NoneReleased
    BY DEF WriteData, Slots, Inv, Typed, Ran, NoneReleased
  <1>13. Background /\ flushes' = flushes
    BY <1>11, Zenon DEF Background, WriteData, Inv, Typed, CallersTyped
  <1>14. 0 \notin DOMAIN sequencer
    BY DEF Inv, Typed
  <1>. QED  BY <1>2, <1>11, <1>12, <1>13, <1>14, SuccessKeeps, Zenon

\* The data of a transaction fails: unless DataMayFail, a request has failed.
LEMMA DataFailsKeeps ==
    ASSUME ~DataMayFail, Inv, NEW x \in DOMAIN txns, DataFails(x)
    PROVE  Inv'
  <1>1. PICK w \in WriterFailures : Writer([w EXCEPT !.txns[x].data = "failed", !.txns[x].stage = "dropped"])
    BY Zenon DEF DataFails
  <1>. DEFINE v == [w EXCEPT !.txns[x].data = "failed", !.txns[x].stage = "dropped"]
              r == [w.txns[x] EXCEPT !.data = "failed", !.stage = "dropped"]
  <1>2. w \in Outcome /\ w.enabled = FALSE /\ Advance(w.txns)
    BY <1>1, Outcomes, Zenon DEF Fails
  <1>3. w.txns \in Seq(TxnRec) /\ w.txns[x] \in TxnRec /\ txns[x].data = "waiting" /\ x \in DOMAIN w.txns
    BY <1>2, Zenon DEF Advance, Moved, DataFails
  <1>4. v.txns = [w.txns EXCEPT ![x] = r] /\ v.queue = w.queue /\ v.enabled = w.enabled
    BY <1>2, <1>3, Zenon DEF Outcome
  <1>5. r \in TxnRec /\ r.data = "failed" /\ r.stage = "dropped"
    BY <1>3, Zenon DEF TxnRec, DataState, Stage
  <1>. HIDE DEF v, r
  <1>6. Moved(txns[x], r)
    BY <1>3, <1>5, Zenon DEF Moved
  <1>7. Advance(v.txns)
    BY <1>2, <1>4, <1>6, AdvanceAt, Zenon
  <1>8. txns' = v.txns /\ pending_work_items' = v.queue /\ writeback_enabled' = v.enabled
    BY <1>1, Zenon DEF v, Writer
  <1>9. v.queue \in Seq(Nat)
    BY <1>2, <1>4, Zenon DEF Outcome
  <1>10. Slots(sequencer')
    BY SlotsKept, Zenon DEF DataFails, Inv
  <1>11. writeback_enabled' = FALSE
    BY <1>2, <1>4, <1>8, Zenon
  <1>12. Background
    BY <1>8, <1>9, <1>11, Zenon DEF Background, DataFails, Inv, Typed, CallersTyped
  <1>. QED  BY <1>7, <1>8, <1>10, <1>11, <1>12, FailureKeeps, Zenon

\* A barrier, a flush or a Sync runs.
LEMMA RunKeeps ==
    ASSUME Inv, NEW i \in DOMAIN sequencer, RunBarrier(i) \/ RunFlush(i) \/ RunSync(i)
    PROVE  Inv'
  <1>1. /\ Slots(sequencer') /\ Ran(i) /\ NoneReleased
        /\ CanRun(i) /\ ~IsMeta(i)
        /\ journal_data_barrier' = journal_data_barrier /\ flushes' = flushes
        /\ thread' = thread /\ pending' = pending
    <2>1. Finish(i) /\ Typed
      BY Zenon DEF RunBarrier, RunFlush, RunSync, Inv
    <2>2. Slots(sequencer') /\ Ran(i) /\ NoneReleased
      BY <2>1, SlotsKept, FinishRuns, Zenon
    <2>. QED  BY <2>2, Zenon DEF RunBarrier, RunFlush, RunSync, IsMeta
  <1>2. CallersTyped'
    BY <1>1, Zenon DEF Inv, Typed, CallersTyped
  <1>3. ASSUME NEW w, Writer(w), Fails(w) PROVE Inv'
    <2>1. Advance(txns') /\ pending_work_items' \in Seq(Nat) /\ writeback_enabled' = FALSE
      BY <1>3, WriterLeaves, Zenon
    <2>2. Background
      BY <1>1, <1>2, <2>1, Zenon DEF Background
    <2>. QED  BY <1>1, <2>1, <2>2, FailureKeeps, Zenon
  <1>4. ASSUME NEW w, Writer(w), Succeeds(w), writeback_enabled,
               sequencer[i].kind \in {"sync", "close"} => \A x \in DOMAIN txns : w.txns[x].stage # "journaled"
        PROVE  Inv'
    <2>1. Advance(txns') /\ pending_work_items' \in Seq(Nat) /\ writeback_enabled' = TRUE /\ Booked
      BY <1>4, WriterLeaves, Zenon
    <2>2. Background
      BY <1>1, <1>2, <2>1, Zenon DEF Background
    <2>3. sequencer[i].kind \in {"sync", "close"} => \A x \in DOMAIN txns : txns'[x].stage # "journaled"
      BY <1>4, Zenon DEF Writer
    <2>. QED  BY <1>1, <1>4, <2>1, <2>2, <2>3, SuccessKeeps, Zenon
  <1>5. CASE RunBarrier(i)
    <2>2. Advance(txns')
      BY <1>5, AdvanceOf, Zenon DEF RunBarrier, Inv
    <2>3. Background
      BY <1>1, <1>2, <1>5, Zenon DEF Background, RunBarrier, Inv, Typed
    <2>4. CASE writeback_enabled
      <3>1. Booked
        BY <1>5, <2>4, Zenon DEF Booked, RunBarrier, Inv, WhileEnabled, DoneInOrder
      <3>. QED  BY <1>1, <1>5, <2>2, <2>3, <2>4, <3>1, SuccessKeeps, Zenon DEF RunBarrier
    <2>5. CASE ~writeback_enabled
      <3>1. ~writeback_enabled'
        BY <1>5, <2>5, Zenon DEF RunBarrier
      <3>. QED  BY <1>1, <2>2, <2>3, <3>1, FailureKeeps, Zenon
    <2>. QED  BY <2>4, <2>5, Zenon
  <1>6. CASE RunFlush(i)
    <2>1. sequencer[i].kind \notin {"sync", "close"}
      BY <1>6, Zenon DEF RunFlush
    <2>2. PICK w \in (IF pending_work_items = <<>> THEN {Nothing} ELSE WriterFlush) : Writer(w)
      BY <1>6, Zenon DEF RunFlush
    <2>3. Fails(w) \/ (Succeeds(w) /\ writeback_enabled)
      BY <2>2, Outcomes, NothingSucceeds, FlushSucceeds, Zenon
    <2>. QED  BY <1>3, <1>4, <2>1, <2>2, <2>3, Zenon
  <1>7. CASE RunSync(i)
    <2>1. PICK w \in WriterSync : Writer(w)
      BY <1>7, Zenon DEF RunSync
    <2>2. CASE Fails(w)
      BY <1>3, <2>1, <2>2, Zenon
    <2>3. CASE writeback_enabled /\ w = FlushOk
      BY <1>4, <2>1, <2>3, FlushSucceeds, Zenon
    <2>4. CASE writeback_enabled /\ w = Nothing /\ pending_work_items = <<>>
      <3>1. Range(<<>>) = {}
        BY DEF Range
      <3>2. Succeeds(w) /\ w.queue = <<>>
        BY <2>4, NothingSucceeds, Zenon
      <3>3. \A x \in DOMAIN txns : w.txns[x].stage # "journaled"
        BY <3>1, <3>2, Zenon DEF Succeeds
      <3>. QED  BY <1>4, <2>1, <2>4, <3>2, <3>3, Zenon
    <2>. QED  BY <2>1, <2>2, <2>3, <2>4, Outcomes, Zenon
  <1>. QED  BY <1>5, <1>6, <1>7, Zenon

\* The data before f is flushed: the promise that waits for it is let go, and no other
\* data was waiting for that promise.
LEMMA FlushDataKeeps ==
    ASSUME Inv, NEW f \in flushes, FlushData(f)
    PROVE  Inv'
  <1>1. PICK w \in WriterFlush :
            /\ Writer(w)
            /\ sequencer' = IF w.enabled THEN [sequencer EXCEPT ![f.slot].ready = TRUE]
                            ELSE [sequencer EXCEPT ![f.slot].done = TRUE]
    BY Zenon DEF FlushData
  <1>2. /\ thread' = thread /\ pending' = pending /\ journal_data_barrier' = journal_data_barrier
        /\ flushes' = flushes \ {f} /\ \A x \in 1..f.after : txns[x].data # "waiting"
    BY Zenon DEF FlushData
  <1>3. CallersTyped'
    BY <1>2, Zenon DEF Inv, Typed, CallersTyped
  <1>4. CASE Fails(w)
    <2>1. Advance(txns') /\ pending_work_items' \in Seq(Nat) /\ writeback_enabled' = FALSE
      BY <1>1, <1>4, WriterLeaves, Zenon
    <2>2. Finish(f.slot)
      BY <1>1, <1>4, Zenon DEF Fails, Finish
    <2>3. Slots(sequencer')
      BY <2>2, SlotsKept, Zenon DEF Inv
    <2>4. Background
      BY <1>2, <1>3, <2>1, Zenon DEF Background
    <2>. QED  BY <2>1, <2>3, <2>4, FailureKeeps, Zenon
  <1>5. CASE writeback_enabled /\ w = FlushOk
    <2>1. Succeeds(w) /\ \A x \in DOMAIN txns : w.txns[x].data # "written"
      BY <1>5, FlushSucceeds, Zenon
    <2>2. Advance(txns') /\ pending_work_items' \in Seq(Nat) /\ writeback_enabled' = TRUE /\ Booked
      BY <1>1, <2>1, WriterLeaves, Zenon
    <2>3. sequencer' = [sequencer EXCEPT ![f.slot].ready = TRUE]
      BY <1>1, <2>1, Zenon DEF Succeeds
    <2>4. Slots(sequencer')
      BY <2>3, SlotsKept, Zenon DEF Inv
    <2>5. Background
      BY <1>2, <1>3, <2>2, Zenon DEF Background
    <2>6. Typed'
      BY <2>2, <2>4, <2>5, Zenon DEF Typed, Inv, Advance, Slots, Background
    <2>7. InPlace' /\ MetadataInOrder' /\ DataBeforeMetadata'
      BY <2>2, <2>4, OrderKeeps, Zenon
    <2>8. /\ \A j \in DOMAIN sequencer : j # f.slot => sequencer'[j] = sequencer[j]
          /\ \A j \in DOMAIN sequencer : sequencer'[j].done <=> sequencer[j].done
      <3>1. \A j \in DOMAIN sequencer : j # f.slot => sequencer'[j] = sequencer[j]
        BY <2>3, Zenon
      <3>2. f.slot \in DOMAIN sequencer => (sequencer'[f.slot].done <=> sequencer[f.slot].done)
        <4>1. \A r \in SlotRec : [r EXCEPT !.ready = TRUE].done <=> r.done
          BY Zenon DEF SlotRec
        <4>2. f.slot \in DOMAIN sequencer => /\ sequencer'[f.slot] = [sequencer[f.slot] EXCEPT !.ready = TRUE]
                                             /\ sequencer[f.slot] \in SlotRec
          BY <2>3 DEF Inv, Typed
        <4>. QED  BY <4>1, <4>2, Zenon
      <3>. QED  BY <3>1, <3>2, Zenon
    <2>9. Ran(0) /\ 0 \notin DOMAIN sequencer
      BY <2>8 DEF Ran, Inv, Typed
    <2>10. DoneInOrder' /\ SyncSettles'
      BY <1>5, <2>2, <2>4, <2>9, DoneKeeps, SettlesKeeps, Zenon DEF Inv, WhileEnabled
    <2>11. HeldOnce /\ Guarded
      BY <1>5, Zenon DEF Inv, WhileEnabled
    <2>12. \A j : Held(j) /\ j # f.slot => Held(j)'
      BY <2>4, <2>8, Zenon DEF Held, Slots
    <2>13. HeldOnce'
      BY <1>2, <2>11, <2>12, Zenon DEF HeldOnce
    <2>14. Guarded'
      <3>1. DOMAIN txns' = DOMAIN txns /\ DOMAIN sequencer' = DOMAIN sequencer
            /\ DOMAIN txns = 1..Len(txns) /\ Len(txns) \in Nat /\ f.after \in Nat
        BY <2>2, <2>4 DEF Advance, Slots, Inv, Typed
      <3>2. SUFFICES ASSUME NEW x \in DOMAIN txns, txns'[x].data \in {"waiting", "written"}
                     PROVE  \E i \in DOMAIN sequencer :
                                Guards(i, x)' /\ \A j : IsMeta(j)' /\ sequencer'[j].txn = x => i < j
        BY <3>1, Zenon DEF Guarded
      <3>3. Moved(txns[x], txns'[x]) /\ txns'[x].data # "written"
        BY <1>1, <2>1, <2>2, Zenon DEF Advance, Writer
      <3>4. txns[x].data = "waiting"
        BY <3>2, <3>3, Zenon DEF Moved
      <3>5. PICK i \in DOMAIN sequencer : Guards(i, x) /\ \A j : IsMeta(j) /\ sequencer[j].txn = x => i < j
        BY <2>11, <3>4, Zenon DEF Guarded
      <3>6. \A j : IsMeta(j)' /\ sequencer'[j].txn = x => IsMeta(j) /\ sequencer[j].txn = x
        BY <2>4, Zenon DEF IsMeta, Slots
      <3>7. ~(x <= f.after)
        BY <1>2, <3>1, <3>4
      <3>8. Guards(i, x)'
        BY <1>2, <3>5, <3>7, Zenon DEF Guards
      <3>. QED  BY <3>5, <3>6, <3>8, Zenon
    <2>. QED  BY <2>6, <2>7, <2>10, <2>13, <2>14, Zenon DEF Inv, WhileEnabled
  <1>. QED  BY <1>1, <1>4, <1>5, Outcomes, Zenon

\* When the promise of a transaction can run, every transaction before it is out of the
\* buffer, and its data and theirs are settled.
LEMMA Turn ==
    ASSUME Inv, writeback_enabled, NEW i, IsMeta(i), CanRun(i), NEW y \in 1..sequencer[i].txn
    PROVE  /\ y # sequencer[i].txn => txns[y].stage # "queued"
           /\ txns[y].data \in {"none", "flushed", "failed"}
           /\ y \in DOMAIN txns
  <1>. DEFINE x == sequencer[i].txn
  <1>1. /\ i \in DOMAIN sequencer /\ x \in DOMAIN txns /\ DOMAIN txns = 1..Len(txns) /\ Len(txns) \in Nat
        /\ DOMAIN sequencer = 1..Len(sequencer) /\ Len(sequencer) \in Nat
    BY DEF IsMeta, Inv, Typed, InPlace
  <1>2. y \in DOMAIN txns /\ x \in Nat /\ y <= x
    BY <1>1
  <1>3. PICK j : IsMeta(j) /\ sequencer[j].txn = y
    BY <1>2, Zenon DEF Inv, InPlace
  <1>4. j \in DOMAIN sequencer
    BY <1>3, Zenon DEF IsMeta
  <1>5. j <= i
    <2>1. i < j => x < y
      BY <1>3, Zenon DEF Inv, InPlace
    <2>. QED  BY <1>1, <1>2, <1>4, <2>1
  <1>6. \A k \in DOMAIN sequencer : k < i => sequencer[k].done
    BY <1>1, RunsInTurn, Zenon DEF Inv, WhileEnabled
  <1>7. y # x => txns[y].stage # "queued"
    <2>1. y # x => j < i
      BY <1>1, <1>3, <1>4, <1>5
    <2>. QED  BY <1>3, <1>4, <1>6, <2>1, Zenon DEF Inv, WhileEnabled, DoneInOrder
  <1>8. txns[y].data \notin {"waiting", "written"}
    <2>1. SUFFICES ASSUME txns[y].data \in {"waiting", "written"} PROVE FALSE
      BY Zenon
    <2>2. PICK k \in DOMAIN sequencer : Guards(k, y) /\ \A m : IsMeta(m) /\ sequencer[m].txn = y => k < m
      BY <1>2, <2>1, Zenon DEF Inv, WhileEnabled, Guarded
    <2>3. k < i
      <3>1. k < j
        BY <1>3, <2>2, Zenon
      <3>. QED  BY <1>1, <1>4, <1>5, <2>2, <3>1
    <2>4. Held(k)
      BY <1>1, <2>2 DEF Guards, Inv, WhileEnabled, HeldOnce
    <2>. QED  BY <1>6, <2>3, <2>4, Zenon DEF Held
  <1>9. txns[y].data \in DataState
    <2>1. txns[y] \in TxnRec
      BY <1>2 DEF Inv, Typed
    <2>. QED  BY <2>1, Zenon DEF TxnRec
  <1>. QED  BY <1>2, <1>7, <1>8, <1>9, Zenon DEF DataState

\* The queue with another transaction.
LEMMA RangeAppend ==
    ASSUME NEW S, NEW q \in Seq(S), NEW x
    PROVE  Range(Append(q, x)) = Range(q) \cup {x}
  <1>1. Len(q) \in Nat /\ DOMAIN q = 1..Len(q) /\ DOMAIN Append(q, x) = 1..(Len(q) + 1)
    OBVIOUS
  <1>2. \A k \in 1..Len(q) : Append(q, x)[k] = q[k]
    OBVIOUS
  <1>3. Append(q, x)[Len(q) + 1] = x
    OBVIOUS
  <1>. QED  BY <1>1, <1>2, <1>3 DEF Range

\* A transaction is dropped because a request has failed.
LEMMA MetadataFails ==
    ASSUME Inv, NEW i, IsMeta(i), NEW w, Fails(w), Writer([w EXCEPT !.txns[sequencer[i].txn].stage = "dropped"]),
           Finish(i), UNCHANGED <<thread, pending, journal_data_barrier, flushes>>
    PROVE  Inv'
  <1>. DEFINE x == sequencer[i].txn
              v == [w EXCEPT !.txns[x].stage = "dropped"]
              r == [w.txns[x] EXCEPT !.stage = "dropped"]
  <1>1. x \in DOMAIN txns
    BY Zenon DEF Inv, InPlace
  <1>2. w \in Outcome /\ w.enabled = FALSE /\ Advance(w.txns)
    BY Zenon DEF Fails
  <1>3. w.txns[x] \in TxnRec /\ Moved(txns[x], w.txns[x])
    BY <1>1, <1>2, Zenon DEF Advance, Moved
  <1>. HIDE DEF x
  <1>4. v.txns = [w.txns EXCEPT ![x] = r] /\ v.queue = w.queue /\ v.enabled = w.enabled
    BY <1>2, Zenon DEF Outcome
  <1>5. r \in TxnRec /\ r.data = w.txns[x].data /\ r.stage = "dropped"
    BY <1>3, Zenon DEF TxnRec, Stage
  <1>. HIDE DEF v, r
  <1>6. Moved(txns[x], r)
    BY <1>3, <1>5, Zenon DEF Moved
  <1>7. Advance(v.txns)
    BY <1>1, <1>2, <1>4, <1>6, AdvanceAt, Zenon
  <1>8. txns' = v.txns /\ pending_work_items' = v.queue /\ writeback_enabled' = v.enabled
    BY Zenon DEF v, x, Writer
  <1>9. v.queue \in Seq(Nat) /\ writeback_enabled' = FALSE
    BY <1>2, <1>4, <1>8, Zenon DEF Outcome
  <1>10. Slots(sequencer')
    BY SlotsKept, Zenon DEF Inv
  <1>11. Background
    BY <1>8, <1>9, Zenon DEF Background, Inv, Typed, CallersTyped
  <1>. QED  BY <1>7, <1>8, <1>9, <1>10, <1>11, FailureKeeps, Zenon

\* A transaction is journaled: its turn has come.
LEMMA MetadataSucceeds ==
    ASSUME Inv, writeback_enabled, NEW i, IsMeta(i), CanRun(i), NEW w, Succeeds(w),
           Writer([w EXCEPT !.txns[sequencer[i].txn].stage = "journaled", !.queue = Append(@, sequencer[i].txn)]),
           Finish(i), UNCHANGED <<thread, pending, journal_data_barrier, flushes>>
    PROVE  Inv'
  <1>. DEFINE x == sequencer[i].txn
              v == [w EXCEPT !.txns[x].stage = "journaled", !.queue = Append(@, x)]
              r == [w.txns[x] EXCEPT !.stage = "journaled"]
  <1>1. x \in DOMAIN txns /\ i \in DOMAIN sequencer /\ x = sequencer[i].txn
    BY Zenon DEF Inv, InPlace, IsMeta
  <1>2. w \in Outcome /\ w.enabled = TRUE /\ Advance(w.txns)
    BY Zenon DEF Succeeds
  <1>3. w.txns[x] \in TxnRec /\ Moved(txns[x], w.txns[x]) /\ w.txns \in Seq(TxnRec) /\ x \in DOMAIN w.txns
    BY <1>1, <1>2, Zenon DEF Advance, Moved
  <1>4. \A y \in 1..x : /\ y # x => txns[y].stage # "queued"
                        /\ txns[y].data \in {"none", "flushed", "failed"}
                        /\ y \in DOMAIN txns
    BY Turn, Zenon
  <1>5. txns[x].stage = "queued" /\ w.txns[x].stage = "queued"
    <2>1. txns[x].stage = "queued"
      BY Zenon DEF Inv, WhileEnabled, DoneInOrder, CanRun
    <2>. QED  BY <1>1, <2>1, Zenon DEF Succeeds
  <1>. HIDE DEF x
  <1>6. v.txns = [w.txns EXCEPT ![x] = r] /\ v.queue = Append(w.queue, x) /\ v.enabled = w.enabled
    BY <1>2, Zenon DEF Outcome
  <1>7. r \in TxnRec /\ r.data = w.txns[x].data /\ r.stage = "journaled"
    BY <1>3, Zenon DEF TxnRec, Stage
  <1>. HIDE DEF v, r
  <1>8. txns' = v.txns /\ pending_work_items' = v.queue /\ writeback_enabled' = v.enabled
    BY Zenon DEF v, x, Writer
  <1>9. DOMAIN txns' = DOMAIN txns /\ DOMAIN w.txns = DOMAIN txns
    BY <1>2, <1>6, <1>8, Zenon DEF Advance
  <1>10. txns'[x] = r /\ \A y \in DOMAIN txns : y # x => txns'[y] = w.txns[y]
    BY <1>1, <1>6, <1>8, <1>9, Zenon
  <1>11. txns' \in Seq(TxnRec)
    <2>1. DOMAIN w.txns = 1..Len(w.txns) /\ Len(w.txns) \in Nat /\ \A y \in DOMAIN w.txns : w.txns[y] \in TxnRec
      BY <1>3
    <2>2. txns' = [y \in 1..Len(w.txns) |-> txns'[y]]
      BY <1>6, <1>8, <2>1, Zenon
    <2>3. \A y \in 1..Len(w.txns) : txns'[y] \in TxnRec
      BY <1>7, <1>9, <1>10, <2>1, Zenon
    <2>. QED  BY <2>1, <2>2, <2>3, Sequence, Zenon
  <1>12. \A y \in DOMAIN txns : Moved(txns[y], w.txns[y])
    BY <1>2, Zenon DEF Advance
  <1>13. \A y \in DOMAIN txns : txns'[y].data = w.txns[y].data
    BY <1>7, <1>10, Zenon
  <1>14. w.queue \in Seq(Nat) /\ x \in Nat /\ DOMAIN txns = 1..Len(txns) /\ Len(txns) \in Nat
    BY <1>1, <1>2 DEF Outcome, Inv, Typed
  <1>15. pending_work_items' \in Seq(Nat) /\ Range(pending_work_items') = Range(w.queue) \cup {x}
    BY <1>6, <1>8, <1>14, RangeAppend
  <1>16. Slots(sequencer') /\ Ran(i) /\ NoneReleased
    BY <1>1, SlotsKept, FinishRuns, Zenon DEF Inv
  <1>17. writeback_enabled' = TRUE
    BY <1>2, <1>6, <1>8, Zenon
  <1>18. Background /\ flushes' = flushes
    BY <1>15, <1>17, Zenon DEF Background, Inv, Typed, CallersTyped
  <1>19. Typed'
    BY <1>11, <1>16, <1>18, Zenon DEF Typed, Inv, Slots, Background
  <1>20. /\ InPlace'
         /\ \A k : (IsMeta(k)' <=> IsMeta(k)) /\ (IsMeta(k) => sequencer'[k].txn = sequencer[k].txn)
    BY <1>9, <1>16, PlacesKept, Zenon DEF Inv
  <1>21. MetadataInOrder'
    <2>1. SUFFICES ASSUME NEW y \in DOMAIN txns, txns'[y].stage \in {"journaled", "complete"}, NEW z \in 1..y
                   PROVE  txns'[z].stage # "queued"
      BY <1>9, Zenon DEF MetadataInOrder
    <2>2. z \in DOMAIN txns
      BY <1>14
    <2>3. z # x => txns[z].stage # "queued"
      <3>1. CASE y = x
        BY <1>4, <3>1, Zenon
      <3>2. CASE y # x
        <4>1. txns[y].stage \in {"journaled", "complete"}
          BY <1>10, <1>12, <2>1, <3>2, Zenon DEF Moved
        <4>. QED  BY <4>1, Zenon DEF Inv, MetadataInOrder
      <3>. QED  BY <3>1, <3>2, Zenon
    <2>. QED  BY <1>7, <1>10, <1>12, <2>2, <2>3, Zenon DEF Moved
  <1>22. DataBeforeMetadata'
    <2>1. SUFFICES ASSUME NEW y \in DOMAIN txns, txns'[y].stage \in {"journaled", "complete"}, NEW z \in 1..y
                   PROVE  txns'[z].data \in {"none", "flushed", "failed"}
      BY <1>9, Zenon DEF DataBeforeMetadata
    <2>2. z \in DOMAIN txns
      BY <1>14
    <2>3. txns[z].data \in {"none", "flushed", "failed"}
      <3>1. CASE y = x
        BY <1>4, <3>1, Zenon
      <3>2. CASE y # x
        <4>1. txns[y].stage \in {"journaled", "complete"}
          BY <1>10, <1>12, <2>1, <3>2, Zenon DEF Moved
        <4>. QED  BY <4>1, Zenon DEF Inv, DataBeforeMetadata
      <3>. QED  BY <3>1, <3>2, Zenon
    <2>. QED  BY <1>12, <1>13, <2>2, <2>3, Zenon DEF Moved
  <1>23. DoneInOrder'
    <2>1. ASSUME NEW j \in DOMAIN sequencer, NEW k \in DOMAIN sequencer, j < k, sequencer'[k].done
          PROVE  sequencer'[j].done
      <3>1. CASE sequencer[k].done
        BY <1>16, <2>1, <3>1, Zenon DEF Ran, Inv, WhileEnabled, DoneInOrder
      <3>2. CASE k = i
        <4>1. sequencer[j].done
          BY <1>1, <2>1, <3>2, RunsInTurn, Zenon DEF Inv, WhileEnabled
        <4>. QED  BY <1>16, <4>1, Zenon DEF Ran
      <3>. QED  BY <1>16, <2>1, <3>1, <3>2, Zenon DEF Ran
    <2>2. ASSUME NEW j, IsMeta(j)
          PROVE  sequencer'[j].done <=> txns'[sequencer[j].txn].stage # "queued"
      <3>1. j \in DOMAIN sequencer /\ sequencer[j].txn \in DOMAIN txns
        BY <2>2, Zenon DEF IsMeta, Inv, InPlace
      <3>2. CASE j = i
        BY <1>1, <1>7, <1>10, <1>16, <3>2, Zenon DEF Ran
      <3>3. CASE j # i
        <4>1. sequencer[j].txn # x
          <5>1. i \in Int /\ j \in Int
            BY <1>1, <3>1 DEF Inv, Typed
          <5>2. /\ i < j => x < sequencer[j].txn
                /\ j < i => sequencer[j].txn < x
            BY <1>1, <2>2, Zenon DEF Inv, InPlace
          <5>. QED  BY <1>14, <3>1, <3>3, <5>1, <5>2
        <4>2. txns'[sequencer[j].txn].stage = "queued" <=> txns[sequencer[j].txn].stage = "queued"
          BY <1>10, <3>1, <4>1, Zenon DEF Succeeds
        <4>3. sequencer'[j].done <=> sequencer[j].done
          BY <1>16, <3>1, <3>3, Zenon DEF Ran
        <4>. QED  BY <2>2, <4>2, <4>3, Zenon DEF Inv, WhileEnabled, DoneInOrder
      <3>. QED  BY <3>2, <3>3, Zenon
    <2>3. \A y \in DOMAIN txns : txns'[y].stage = "journaled" <=> y \in Range(pending_work_items')
      BY <1>7, <1>10, <1>15, Zenon DEF Succeeds
    <2>4. Range(pending_work_items') \subseteq DOMAIN txns /\ DOMAIN sequencer' = DOMAIN sequencer
      BY <1>1, <1>15, <1>16, Zenon DEF Succeeds, Slots
    <2>. QED  BY <1>9, <1>20, <2>1, <2>2, <2>3, <2>4, Zenon DEF DoneInOrder
  <1>24. HeldOnce' /\ Guarded'
    <2>1. \A y \in DOMAIN txns : txns'[y].data \in {"waiting", "written"} => txns[y].data \in {"waiting", "written"}
      BY <1>12, <1>13, Zenon DEF Moved
    <2>2. \A j : Held(j) => Held(j)'
      BY <1>16, RunKeepsHeld, Zenon DEF CanRun
    <2>. QED  BY <1>9, <1>16, <1>18, <2>1, <2>2, HeldKeeps, Zenon DEF Inv
  <1>25. SyncSettles'
    <2>1. DOMAIN sequencer' = DOMAIN sequencer /\ DOMAIN sequencer = 1..Len(sequencer) /\ Len(sequencer) \in Nat
      BY <1>16 DEF Slots, Inv, Typed
    <2>2. SUFFICES ASSUME NEW k \in DOMAIN sequencer, sequencer[k].kind \in {"sync", "close"}, sequencer'[k].done,
                          NEW j \in 1..k, sequencer[j].kind = "meta"
                   PROVE  txns'[sequencer[j].txn].stage \in {"complete", "dropped"}
      BY <1>16, <2>1 DEF SyncSettles, Slots
    <2>3. j \in DOMAIN sequencer /\ IsMeta(j) /\ sequencer[j].txn \in DOMAIN txns
      BY <2>1, <2>2 DEF IsMeta, Inv, InPlace
    <2>4. sequencer[k].done
      BY <1>16, <2>2, Zenon DEF Ran, IsMeta
    <2>5. txns[sequencer[j].txn].stage \in {"complete", "dropped"}
      BY <2>2, <2>4, Zenon DEF Inv, WhileEnabled, SyncSettles
    <2>6. sequencer[j].txn # x
      BY <1>5, <2>5, Zenon
    <2>. QED  BY <1>10, <1>12, <2>3, <2>5, <2>6 DEF Moved
  <1>. QED  BY <1>19, <1>20, <1>21, <1>22, <1>23, <1>24, <1>25, Zenon DEF Inv, WhileEnabled

-----------------------------------------------------------------------------
(***************************************************************************)
(* The callers.                                                            *)
(***************************************************************************)

\* A caller whose record changes.
LEMMA CallerKeeps ==
    ASSUME CallersTyped, NEW t \in Thread, NEW c \in CallerRec, thread' = [thread EXCEPT ![t] = c],
           c.pc \in {"reserve", "copy"} => c.len \in Lengths, pending' \in Nat
    PROVE  CallersTyped'
  BY Zenon DEF CallersTyped

\* Nothing but the callers and the free blocks changes; a Sync may be scheduled.
LEMMA OnlyCallers ==
    ASSUME Inv, CallersTyped', Slots(sequencer'), Ran(0), NoneReleased,
           UNCHANGED <<txns, journal_data_barrier, flushes, pending_work_items, writeback_enabled>>
    PROVE  Inv'
  <1>1. Advance(txns')
    BY AdvanceOf, Zenon DEF Inv
  <1>2. Background /\ flushes' = flushes
    BY Zenon DEF Background, Inv, Typed
  <1>3. CASE writeback_enabled
    <2>1. Booked
      BY <1>3, Zenon DEF Booked, Inv, WhileEnabled, DoneInOrder
    <2>2. 0 \notin DOMAIN sequencer
      BY DEF Inv, Typed
    <2>. QED  BY <1>1, <1>2, <1>3, <2>1, <2>2, SuccessKeeps, Zenon
  <1>4. CASE ~writeback_enabled
    BY <1>1, <1>2, <1>4, FailureKeeps, Zenon
  <1>. QED  BY <1>3, <1>4, Zenon

\* Promises wrapped behind the others, none of them run.
Extended(n) ==
    /\ sequencer' \in Seq(SlotRec) /\ n \in Nat /\ DOMAIN sequencer' = 1..(Len(sequencer) + n)
    /\ \A i \in DOMAIN sequencer : sequencer'[i] = sequencer[i]
    /\ \A i \in DOMAIN sequencer' : i \notin DOMAIN sequencer => ~sequencer'[i].done

\* What a new place is.
LEMMA SlotIs ==
    ASSUME NEW k, NEW x, NEW b \in BOOLEAN,
           k \in {"barrier", "meta", "flush", "sync", "close"}, x \in Thread \cup Nat
    PROVE  /\ Slot(k, x, b) \in SlotRec /\ Slot(k, x, b).kind = k /\ Slot(k, x, b).txn = x
           /\ Slot(k, x, b).ready = b /\ ~Slot(k, x, b).done
  BY Zenon DEF Slot, SlotRec

\* One promise behind the others, and then perhaps another.
LEMMA ExtendedBy ==
    ASSUME Typed, NEW a \in SlotRec, NEW b \in SlotRec, ~a.done, ~b.done
    PROVE  /\ sequencer' = sequencer => Extended(0)
           /\ sequencer' = Append(sequencer, a) => Extended(1) /\ sequencer'[Len(sequencer) + 1] = a
           /\ sequencer' = Append(Append(sequencer, a), b) =>
                  /\ Extended(2) /\ sequencer'[Len(sequencer) + 1] = a
                  /\ sequencer'[Len(sequencer) + 2] = b
  <1>. DEFINE n == Len(sequencer)
  <1>1. sequencer \in Seq(SlotRec) /\ n \in Nat /\ DOMAIN sequencer = 1..n
    BY DEF Typed
  <1>2. ASSUME NEW s \in Seq(SlotRec), NEW c \in SlotRec
        PROVE  /\ Append(s, c) \in Seq(SlotRec) /\ Len(s) \in Nat /\ Len(Append(s, c)) = Len(s) + 1
               /\ DOMAIN Append(s, c) = 1..(Len(s) + 1)
               /\ \A i \in 1..Len(s) : Append(s, c)[i] = s[i]
               /\ Append(s, c)[Len(s) + 1] = c
    OBVIOUS
  <1>3. sequencer' = sequencer => Extended(0)
    BY <1>1 DEF Extended
  <1>4. ASSUME sequencer' = Append(sequencer, a)
        PROVE  Extended(1) /\ sequencer'[n + 1] = a
    <2>1. /\ sequencer' \in Seq(SlotRec) /\ DOMAIN sequencer' = 1..(n + 1)
          /\ (\A i \in 1..n : sequencer'[i] = sequencer[i]) /\ sequencer'[n + 1] = a
      BY <1>1, <1>2, <1>4, Zenon
    <2>. HIDE DEF n
    <2>2. \A i \in DOMAIN sequencer' : i \notin DOMAIN sequencer => i = n + 1
      BY <1>1, <2>1
    <2>. QED  BY <1>1, <2>1, <2>2, Zenon DEF Extended, n
  <1>5. ASSUME sequencer' = Append(Append(sequencer, a), b)
        PROVE  Extended(2) /\ sequencer'[n + 1] = a /\ sequencer'[n + 2] = b
    <2>. DEFINE s == Append(sequencer, a)
    <2>1. s \in Seq(SlotRec) /\ Len(s) = n + 1 /\ (\A i \in 1..n : s[i] = sequencer[i]) /\ s[n + 1] = a
      BY <1>1, <1>2, Zenon
    <2>. HIDE DEF s
    <2>2. /\ sequencer' \in Seq(SlotRec) /\ DOMAIN sequencer' = 1..(n + 1 + 1)
          /\ (\A i \in 1..(n + 1) : sequencer'[i] = s[i]) /\ sequencer'[n + 1 + 1] = b
      BY <1>2, <1>5, <2>1 DEF s
    <2>. HIDE DEF n
    <2>3. \A i \in DOMAIN sequencer' : i \notin DOMAIN sequencer => i = n + 1 \/ i = n + 2
      BY <1>1, <2>2
    <2>4. sequencer'[n + 1] = a /\ sequencer'[n + 2] = b /\ (\A i \in 1..n : sequencer'[i] = sequencer[i])
          /\ n + 1 + 1 = n + 2
      BY <1>1, <2>1, <2>2
    <2>. QED  BY <1>1, <2>2, <2>3, <2>4, Zenon DEF Extended, n
  <1>. QED  BY <1>3, <1>4, <1>5, Zenon

\* A promise joined to the others is appended to them.
LEMMA Joined ==
    ASSUME NEW q \in Seq(SlotRec)
    PROVE  q \o <<>> = q /\ \A s \in SlotRec : q \o <<s>> = Append(q, s)
  <1>1. q \o <<>> = q
    OBVIOUS
  <1>2. ASSUME NEW s \in SlotRec PROVE q \o <<s>> = Append(q, s)
    OBVIOUS
  <1>. QED  BY <1>1, <1>2, Zenon

\* FlushPending, with the promise of a Sync or of ~Journal behind it or not: the promise
\* that was held for the data so far is now held for the flush of all of it.
LEMMA PendingKeeps ==
    ASSUME Inv, CallersTyped', NEW next, FlushPending(next),
           next = <<>> \/ \E s \in SlotRec : next = <<s>> /\ ~s.done /\ s.kind # "meta",
           UNCHANGED <<txns, pending_work_items, writeback_enabled>>
    PROVE  Inv'
  <1>. DEFINE n == Len(sequencer)
              flush == Slot("flush", 0, TRUE)
  <1>1. /\ sequencer \in Seq(SlotRec) /\ n \in Nat /\ DOMAIN sequencer = 1..n
        /\ DOMAIN txns = 1..Len(txns) /\ Len(txns) \in Nat
    BY DEF Inv, Typed
  <1>2. flush \in SlotRec /\ ~flush.done /\ flush.kind = "flush"
    <2>1. TRUE \in BOOLEAN /\ 0 \in Thread \cup Nat
      BY Zenon
    <2>. QED  BY <2>1, SlotIs, Zenon
  <1>. HIDE DEF flush
  <1>3. PICK m : /\ Extended(m)
                 /\ \A i \in DOMAIN sequencer' : i \notin DOMAIN sequencer => sequencer'[i].kind # "meta"
    <2>1. PICK q \in {sequencer, Append(sequencer, flush)} : sequencer' = q \o next
      BY Zenon DEF FlushPending, flush
    <2>2. q \in Seq(SlotRec) /\ q \o <<>> = q /\ \A s \in SlotRec : q \o <<s>> = Append(q, s)
      <3>1. Append(sequencer, flush) \in Seq(SlotRec)
        BY <1>1, <1>2
      <3>2. q \in Seq(SlotRec)
        BY <1>1, <2>1, <3>1, Zenon
      <3>. QED  BY <3>2, Joined, Zenon
    <2>3. CASE next = <<>>
      <3>1. sequencer' = q
        BY <2>1, <2>2, <2>3, Zenon
      <3>2. CASE q = sequencer
        <4>1. Extended(0)
          BY <1>2, <3>1, <3>2, ExtendedBy, Zenon DEF Inv
        <4>. QED  BY <3>1, <3>2, <4>1, Zenon
      <3>3. CASE q = Append(sequencer, flush)
        <4>1. Extended(1) /\ sequencer'[n + 1] = flush
          BY <1>2, <3>1, <3>3, ExtendedBy, Zenon DEF Inv
        <4>2. \A i \in DOMAIN sequencer' : i \notin DOMAIN sequencer => i = n + 1
          BY <1>1, <4>1 DEF Extended
        <4>. QED  BY <1>2, <4>1, <4>2, Zenon
      <3>. QED  BY <2>1, <3>2, <3>3, Zenon
    <2>4. ASSUME NEW s \in SlotRec, next = <<s>>, ~s.done, s.kind # "meta"
          PROVE  \E m : /\ Extended(m)
                        /\ \A i \in DOMAIN sequencer' : i \notin DOMAIN sequencer => sequencer'[i].kind # "meta"
      <3>1. sequencer' = Append(q, s)
        BY <2>1, <2>2, <2>4, Zenon
      <3>2. CASE q = sequencer
        <4>1. Extended(1) /\ sequencer'[n + 1] = s
          BY <2>4, <3>1, <3>2, ExtendedBy, Zenon DEF Inv
        <4>2. \A i \in DOMAIN sequencer' : i \notin DOMAIN sequencer => i = n + 1
          BY <1>1, <4>1 DEF Extended
        <4>. QED  BY <2>4, <4>1, <4>2, Zenon
      <3>3. CASE q = Append(sequencer, flush)
        <4>1. Extended(2) /\ sequencer'[n + 1] = flush /\ sequencer'[n + 2] = s
          BY <1>2, <2>4, <3>1, <3>3, ExtendedBy, Zenon DEF Inv
        <4>2. \A i \in DOMAIN sequencer' : i \notin DOMAIN sequencer => i = n + 1 \/ i = n + 2
          BY <1>1, <4>1 DEF Extended
        <4>. QED  BY <1>2, <2>4, <4>1, <4>2, Zenon
      <3>. QED  BY <2>1, <3>2, <3>3, Zenon
    <2>. QED  BY <2>3, <2>4, Zenon
  <1>4. \A i : (IsMeta(i)' <=> IsMeta(i)) /\ (IsMeta(i) => sequencer'[i].txn = sequencer[i].txn)
    BY <1>1, <1>3 DEF IsMeta, Extended
  <1>5. InPlace'
    BY <1>4, Zenon DEF Inv, InPlace
  <1>6. MetadataInOrder' /\ DataBeforeMetadata'
    BY Zenon DEF Inv, MetadataInOrder, DataBeforeMetadata
  <1>7. \/ pending = 0 /\ flushes' = flushes /\ journal_data_barrier' = journal_data_barrier
        \/ journal_data_barrier = 0 /\ flushes' = flushes /\ journal_data_barrier' = 0
        \/ /\ journal_data_barrier # 0 /\ journal_data_barrier' = 0
           /\ flushes' = flushes \cup {[after |-> Len(txns), slot |-> journal_data_barrier]}
    BY Zenon DEF FlushPending
  <1>8. Typed'
    BY <1>1, <1>3, <1>7 DEF Typed, Inv, Extended
  <1>9. ASSUME writeback_enabled PROVE WhileEnabled'
    <2>1. DOMAIN sequencer' = 1..(n + m) /\ m \in Nat /\ DOMAIN sequencer \subseteq DOMAIN sequencer'
      BY <1>1, <1>3 DEF Extended
    <2>2. \A i \in DOMAIN sequencer' : sequencer'[i].done => i \in DOMAIN sequencer /\ sequencer[i].done
      BY <1>3, Zenon DEF Extended
    <2>3. \A i \in DOMAIN sequencer : sequencer'[i] = sequencer[i]
      BY <1>3, Zenon DEF Extended
    <2>4. DoneInOrder'
      <3>1. DoneInOrder
        BY <1>9, Zenon DEF Inv, WhileEnabled
      <3>2. ASSUME NEW i \in DOMAIN sequencer', NEW j \in DOMAIN sequencer', i < j, sequencer'[j].done
            PROVE  sequencer'[i].done
        <4>1. j \in DOMAIN sequencer /\ sequencer[j].done
          BY <2>2, <3>2, Zenon
        <4>2. i \in DOMAIN sequencer
          BY <1>1, <2>1, <3>2, <4>1
        <4>. QED  BY <2>3, <3>1, <3>2, <4>1, <4>2, Zenon DEF DoneInOrder
      <3>3. \A i : IsMeta(i) => sequencer'[i] = sequencer[i]
        BY <2>3, Zenon DEF IsMeta
      <3>. QED  BY <1>4, <3>1, <3>2, <3>3, Zenon DEF DoneInOrder
    <2>5. HeldOnce /\ Guarded /\ SyncSettles
      BY <1>9, Zenon DEF Inv, WhileEnabled
    <2>6. \A i : Held(i) => Held(i)'
      BY <2>1, <2>3, Zenon DEF Held
    <2>7. HeldOnce'
      <3>1. CASE flushes' = flushes /\ journal_data_barrier' \in {0, journal_data_barrier}
        <4>1. \A f \in flushes : f.slot # 0
          BY <1>1, <2>5 DEF HeldOnce, Held
        <4>. QED  BY <2>5, <2>6, <3>1, <4>1, Zenon DEF HeldOnce
      <3>2. CASE /\ journal_data_barrier # 0 /\ journal_data_barrier' = 0
                 /\ flushes' = flushes \cup {[after |-> Len(txns), slot |-> journal_data_barrier]}
        <4>. DEFINE g == [after |-> Len(txns), slot |-> journal_data_barrier]
        <4>1. g.slot = journal_data_barrier /\ flushes' = flushes \cup {g}
          BY <3>2, Zenon
        <4>. HIDE DEF g
        <4>2. \A f \in flushes : f.slot # g.slot /\ Held(f.slot)
          BY <2>5, <4>1, Zenon DEF HeldOnce
        <4>3. \A f \in flushes' : Held(f.slot)' /\ f.slot # 0
          BY <1>1, <2>5, <2>6, <3>2, <4>1, <4>2 DEF HeldOnce, Held
        <4>4. \A f, h \in flushes' : f.slot = h.slot => f = h
          BY <2>5, <4>1, <4>2, Zenon DEF HeldOnce
        <4>. QED  BY <3>2, <4>3, <4>4, Zenon DEF HeldOnce
      <3>. QED  BY <1>7, <3>1, <3>2, Zenon
    <2>8. \A i \in DOMAIN sequencer, x \in DOMAIN txns : Guards(i, x) => Guards(i, x)'
      <3>1. SUFFICES ASSUME NEW i \in DOMAIN sequencer, NEW x \in DOMAIN txns, Guards(i, x) PROVE Guards(i, x)'
        BY Zenon
      <3>2. CASE i = journal_data_barrier /\ journal_data_barrier' = 0
        <4>1. i # 0 /\ x <= Len(txns)
          BY <1>1
        <4>. DEFINE g == [after |-> Len(txns), slot |-> journal_data_barrier]
        <4>2. g \in flushes' /\ g.slot = i /\ x <= g.after
          BY <1>7, <3>2, <4>1, Zenon
        <4>. QED  BY <4>2, Zenon DEF Guards
      <3>3. CASE ~(i = journal_data_barrier /\ journal_data_barrier' = 0)
        BY <1>7, <3>1, <3>3, Zenon DEF Guards
      <3>. QED  BY <3>2, <3>3, Zenon
    <2>9. Guarded'
      BY <1>4, <2>1, <2>5, <2>8, Zenon DEF Guarded
    <2>10. SyncSettles'
      <3>1. SUFFICES ASSUME NEW i \in DOMAIN sequencer', sequencer'[i].kind \in {"sync", "close"}, sequencer'[i].done,
                            NEW j \in 1..i, sequencer'[j].kind = "meta"
                     PROVE  txns[sequencer'[j].txn].stage \in {"complete", "dropped"}
        BY Zenon DEF SyncSettles
      <3>2. i \in DOMAIN sequencer /\ j \in DOMAIN sequencer
        BY <1>1, <2>2, <3>1
      <3>. QED  BY <1>9, <2>3, <2>5, <3>1, <3>2, Zenon DEF SyncSettles
    <2>. QED  BY <2>4, <2>7, <2>9, <2>10, Zenon DEF WhileEnabled
  <1>. QED  BY <1>5, <1>6, <1>8, <1>9, Zenon DEF Inv

\* A transaction takes its place behind all others; when it has data, a promise is held
\* before that place.
LEMMA EnqueueKeeps ==
    ASSUME Inv, NEW t \in Thread, Enqueue(t)
    PROVE  Inv'
  <1>. PICK n : n = Len(sequencer)
    BY Zenon
  <1>. PICK l : l = Len(txns)
    BY Zenon
  <1>. DEFINE x == l + 1
              hold == journal_data_barrier = 0 /\ thread[t].data # "none"
              bar == Slot("barrier", 0, FALSE)
              meta == Slot("meta", x, TRUE)
              new == Txn(thread[t].len, thread[t].data)
  <1>1. /\ sequencer \in Seq(SlotRec) /\ n \in Nat /\ DOMAIN sequencer = 1..n
        /\ txns \in Seq(TxnRec) /\ DOMAIN txns = 1..l /\ l \in Nat
    BY DEF Inv, Typed
  <1>2. /\ thread[t].pc = "copy" /\ thread[t] \in CallerRec /\ thread[t].len \in Lengths
        /\ thread[t].data \in {"none", "waiting"} /\ thread[t].seen \in Nat
    BY Zenon DEF Enqueue, Inv, Typed, CallersTyped, CallerRec
  <1>3. new \in TxnRec /\ new.data = thread[t].data /\ new.stage = "queued"
    BY <1>2, Zenon DEF Txn, TxnRec, DataState, Stage
  <1>4. /\ bar \in SlotRec /\ ~bar.done /\ ~bar.ready /\ bar.kind = "barrier"
        /\ meta \in SlotRec /\ ~meta.done /\ meta.kind = "meta" /\ meta.txn = x
    <2>1. TRUE \in BOOLEAN /\ FALSE \in BOOLEAN /\ 0 \in Thread \cup Nat /\ x \in Thread \cup Nat
      BY <1>1
    <2>. HIDE DEF x
    <2>3. bar \in SlotRec /\ ~bar.done /\ ~bar.ready /\ bar.kind = "barrier"
      BY <2>1, Zenon DEF Slot, SlotRec
    <2>4. meta \in SlotRec /\ ~meta.done /\ meta.kind = "meta" /\ meta.txn = x
      BY <2>1, Zenon DEF Slot, SlotRec
    <2>. QED  BY <2>3, <2>4, Zenon
  <1>5. /\ journal_data_barrier' = (IF hold THEN n + 1 ELSE journal_data_barrier)
        /\ pending' = thread[t].seen + thread[t].len
        /\ txns' = Append(txns, new)
        /\ sequencer' = (IF hold THEN Append(Append(sequencer, bar), meta) ELSE Append(sequencer, meta))
        /\ thread' = [thread EXCEPT ![t] = Idle]
        /\ UNCHANGED <<flushes, pending_work_items, writeback_enabled>>
    <2>1. Len(Append(sequencer, bar)) = n + 1
      BY <1>1, <1>4
    <2>. HIDE DEF bar, meta, new
    <2>. QED  BY <2>1, Zenon DEF Enqueue, bar, meta, new, hold
  <1>. HIDE DEF bar, meta, new
  <1>6. /\ txns' \in Seq(TxnRec) /\ DOMAIN txns' = 1..(l + 1) /\ txns'[x] = new
        /\ \A y \in 1..l : txns'[y] = txns[y]
    BY <1>1, <1>3, <1>5
  <1>. HIDE DEF x, hold
  <1>7. x \in Nat /\ x = l + 1 /\ x \notin DOMAIN txns /\ DOMAIN txns' = DOMAIN txns \cup {x}
    BY <1>1, <1>6 DEF x
  <1>8. PICK m : /\ m \in {1, 2} /\ Extended(m) /\ sequencer'[n + m] = meta
                 /\ hold => m = 2 /\ sequencer'[n + 1] = bar
                 /\ ~hold => m = 1
    <2>1. CASE hold
      BY <1>4, <1>5, <2>1, ExtendedBy, Zenon DEF Inv
    <2>2. CASE ~hold
      BY <1>4, <1>5, <2>2, ExtendedBy, Zenon DEF Inv
    <2>. QED  BY <2>1, <2>2, Zenon
  <1>9. /\ DOMAIN sequencer' = 1..(n + m) /\ sequencer' \in Seq(SlotRec)
        /\ DOMAIN sequencer \subseteq DOMAIN sequencer' /\ n + m \in DOMAIN sequencer'
        /\ n + m \notin DOMAIN sequencer
        /\ \A i \in DOMAIN sequencer : sequencer'[i] = sequencer[i] /\ i < n + m
        /\ \A i \in DOMAIN sequencer' : sequencer'[i].done => i \in DOMAIN sequencer /\ sequencer[i].done
    BY <1>1, <1>8 DEF Extended
  <1>10. \A i : IsMeta(i)' <=> IsMeta(i) \/ i = n + m
    <2>1. \A i \in DOMAIN sequencer' : i \in DOMAIN sequencer \/ i = n + m \/ (hold /\ i = n + 1)
      BY <1>1, <1>8, <1>9
    <2>. QED  BY <1>4, <1>8, <1>9, <2>1, Zenon DEF IsMeta
  <1>11. \A i : IsMeta(i) => /\ i \in DOMAIN sequencer /\ sequencer'[i] = sequencer[i] /\ i < n + m
                             /\ sequencer[i].txn \in DOMAIN txns /\ sequencer[i].txn < x
    <2>1. \A y \in DOMAIN txns : y < x
      BY <1>1, <1>7
    <2>. QED  BY <1>9, <2>1, Zenon DEF IsMeta, Inv, InPlace
  <1>12. InPlace'
    <2>1. sequencer'[n + m].txn = x /\ IsMeta(n + m)'
      BY <1>4, <1>8, <1>10, Zenon
    <2>2. \A i : IsMeta(i)' => sequencer'[i].txn \in DOMAIN txns'
      BY <1>7, <1>10, <1>11, <2>1, Zenon
    <2>3. ASSUME NEW i, NEW j, IsMeta(i)', IsMeta(j)', i < j PROVE sequencer'[i].txn < sequencer'[j].txn
      <3>1. i # n + m
        <4>1. j <= n + m /\ j \in Int
          BY <1>1, <1>9, <2>3 DEF IsMeta
        <4>2. i \in Int
          BY <1>1, <1>9, <2>3 DEF IsMeta
        <4>. QED  BY <1>1, <1>8, <2>3, <4>1, <4>2
      <3>2. IsMeta(i)
        BY <1>10, <2>3, <3>1, Zenon
      <3>3. CASE j = n + m
        BY <1>11, <2>1, <3>2, <3>3, Zenon
      <3>4. CASE IsMeta(j)
        BY <1>11, <2>3, <3>2, <3>4, Zenon DEF Inv, InPlace
      <3>. QED  BY <1>10, <2>3, <3>3, <3>4, Zenon
    <2>4. ASSUME NEW y \in DOMAIN txns' PROVE \E i : IsMeta(i)' /\ sequencer'[i].txn = y
      <3>1. CASE y = x
        BY <2>1, <3>1, Zenon
      <3>2. CASE y \in DOMAIN txns
        <4>1. PICK i : IsMeta(i) /\ sequencer[i].txn = y
          BY <3>2, Zenon DEF Inv, InPlace
        <4>. QED  BY <1>10, <1>11, <4>1, Zenon
      <3>. QED  BY <1>7, <3>1, <3>2, Zenon
    <2>. QED  BY <2>2, <2>3, <2>4, Zenon DEF InPlace
  <1>13. \A y \in DOMAIN txns' : txns'[y].stage \in {"journaled", "complete"} =>
             /\ y \in DOMAIN txns /\ txns[y].stage \in {"journaled", "complete"}
             /\ \A z \in 1..y : z \in 1..l
    BY <1>1, <1>3, <1>6, <1>7
  <1>14. MetadataInOrder' /\ DataBeforeMetadata'
    BY <1>6, <1>13, Zenon DEF Inv, MetadataInOrder, DataBeforeMetadata
  <1>15. CallersTyped'
    <2>1. Idle \in CallerRec /\ Idle.pc = "idle"
      BY Zenon DEF Idle, Caller, CallerRec
    <2>2. pending' \in Nat
      <3>1. thread[t].len \in Nat
        BY <1>2, LengthsAssumption, Zenon
      <3>. QED  BY <1>2, <1>5, <3>1
    <2>. QED  BY <1>5, <2>1, <2>2, CallerKeeps, Zenon DEF Inv, Typed
  <1>16. Typed'
    BY <1>1, <1>5, <1>6, <1>9, <1>15 DEF Typed, Inv
  <1>17. ASSUME writeback_enabled PROVE WhileEnabled'
    <2>1. DoneInOrder /\ HeldOnce /\ Guarded /\ SyncSettles
      BY <1>17, Zenon DEF Inv, WhileEnabled
    <2>2. DoneInOrder'
      <3>1. ASSUME NEW i \in DOMAIN sequencer', NEW j \in DOMAIN sequencer', i < j, sequencer'[j].done
            PROVE  sequencer'[i].done
        <4>1. j \in DOMAIN sequencer /\ sequencer[j].done
          BY <1>9, <3>1, Zenon
        <4>2. i \in DOMAIN sequencer
          BY <1>1, <1>9, <3>1, <4>1
        <4>. QED  BY <1>9, <2>1, <3>1, <4>1, <4>2, Zenon DEF DoneInOrder
      <3>2. ASSUME NEW i, IsMeta(i)'
            PROVE  sequencer'[i].done <=> txns'[sequencer'[i].txn].stage # "queued"
        <4>1. CASE i = n + m
          BY <1>3, <1>4, <1>6, <1>8, <4>1, Zenon
        <4>2. CASE IsMeta(i)
          <5>1. txns'[sequencer[i].txn] = txns[sequencer[i].txn]
            BY <1>1, <1>6, <1>11, <4>2, Zenon
          <5>. QED  BY <1>11, <2>1, <4>2, <5>1, Zenon DEF DoneInOrder
        <4>. QED  BY <1>10, <3>2, <4>1, <4>2, Zenon
      <3>3. \A y \in DOMAIN txns' : txns'[y].stage = "journaled" <=> y \in Range(pending_work_items')
        BY <1>1, <1>3, <1>5, <1>6, <1>7, <2>1 DEF DoneInOrder
      <3>4. Range(pending_work_items') \subseteq DOMAIN txns'
        BY <1>5, <1>7, <2>1, Zenon DEF DoneInOrder
      <3>. QED  BY <3>1, <3>2, <3>3, <3>4, Zenon DEF DoneInOrder
    <2>3. \A i : Held(i) => Held(i)' /\ i \in DOMAIN sequencer
      BY <1>9, Zenon DEF Held
    <2>4. hold => Held(n + 1)' /\ n + 1 \notin DOMAIN sequencer /\ journal_data_barrier = 0
      BY <1>1, <1>4, <1>8, <1>9 DEF Held, hold
    <2>5. HeldOnce'
      BY <1>5, <2>1, <2>3, <2>4, Zenon DEF HeldOnce
    <2>6. Guarded'
      <3>1. SUFFICES ASSUME NEW y \in DOMAIN txns', txns'[y].data \in {"waiting", "written"}
                     PROVE  \E i \in DOMAIN sequencer' :
                                Guards(i, y)' /\ \A j : IsMeta(j)' /\ sequencer'[j].txn = y => i < j
        BY Zenon DEF Guarded
      <3>2. CASE y \in DOMAIN txns
        <4>1. txns[y].data \in {"waiting", "written"}
          BY <1>1, <1>6, <3>1, <3>2, Zenon
        <4>2. PICK i \in DOMAIN sequencer : Guards(i, y) /\ \A j : IsMeta(j) /\ sequencer[j].txn = y => i < j
          BY <2>1, <3>2, <4>1, Zenon DEF Guarded
        <4>3. 0 \notin DOMAIN sequencer
          BY <1>1
        <4>4. Guards(i, y)'
          BY <1>5, <2>4, <4>2, <4>3, Zenon DEF Guards
        <4>5. \A j : IsMeta(j)' /\ sequencer'[j].txn = y => IsMeta(j) /\ sequencer[j].txn = y
          BY <1>4, <1>7, <1>8, <1>10, <1>11, <3>2, Zenon
        <4>. QED  BY <1>9, <4>2, <4>4, <4>5, Zenon
      <3>3. CASE y = x
        <4>1. thread[t].data # "none"
          BY <1>3, <1>6, <3>1, <3>3, Zenon
        <4>. PICK i : i = journal_data_barrier'
          BY Zenon
        <4>2. i \in DOMAIN sequencer' /\ i < n + m
          <5>1. CASE hold
            BY <1>1, <1>5, <1>8, <1>9, <5>1
          <5>2. CASE ~hold
            BY <1>5, <1>9, <2>1, <2>3, <4>1, <5>2, Zenon DEF hold, HeldOnce
          <5>. QED  BY <5>1, <5>2, Zenon
        <4>3. Guards(i, y)'
          BY Zenon DEF Guards
        <4>4. \A j : IsMeta(j)' /\ sequencer'[j].txn = y => j = n + m
          BY <1>1, <1>7, <1>10, <1>11, <3>3, Zenon
        <4>. QED  BY <4>2, <4>3, <4>4, Zenon
      <3>. QED  BY <1>7, <3>2, <3>3, Zenon
    <2>7. SyncSettles'
      <3>1. SUFFICES ASSUME NEW i \in DOMAIN sequencer', sequencer'[i].kind \in {"sync", "close"}, sequencer'[i].done,
                            NEW j \in 1..i, sequencer'[j].kind = "meta"
                     PROVE  txns'[sequencer'[j].txn].stage \in {"complete", "dropped"}
        BY Zenon DEF SyncSettles
      <3>2. i \in DOMAIN sequencer /\ j \in DOMAIN sequencer
        BY <1>1, <1>9, <3>1
      <3>3. sequencer'[i] = sequencer[i] /\ sequencer'[j] = sequencer[j]
        BY <1>9, <3>2, Zenon
      <3>4. txns[sequencer[j].txn].stage \in {"complete", "dropped"}
        BY <1>17, <2>1, <3>1, <3>2, <3>3, Zenon DEF SyncSettles
      <3>5. IsMeta(j)
        BY <3>1, <3>2, <3>3, Zenon DEF IsMeta
      <3>. QED  BY <1>1, <1>6, <1>11, <3>3, <3>4, <3>5, Zenon
    <2>. QED  BY <2>2, <2>5, <2>6, <2>7, Zenon DEF WhileEnabled
  <1>. QED  BY <1>5, <1>12, <1>14, <1>16, <1>17, Zenon DEF Inv

\* Records of callers.
LEMMA CallerIs ==
    ASSUME NEW c \in CallerRec
    PROVE  /\ Idle \in CallerRec /\ Idle.pc = "idle"
           /\ \A p \in {"sync", "close", "closed"} : [c EXCEPT !.pc = p] \in CallerRec /\ [c EXCEPT !.pc = p].pc = p
           /\ \A k \in Nat : /\ [c EXCEPT !.pc = "copy", !.seen = k] \in CallerRec
                            /\ [c EXCEPT !.pc = "copy", !.seen = k].len = c.len
  BY Zenon DEF CallerRec, Idle, Caller

\* The first part of CommitTransaction, Sync and ~Journal.
LEMMA CallsKeep ==
    ASSUME Inv, NEW t \in Thread,
           \/ \E len \in Lengths, data \in {"none", "waiting"} : CommitTransaction(t, len, data)
           \/ Sync(t) \/ Close(t)
    PROVE  Inv'
  <1>1. /\ CallersTyped /\ thread \in [Thread -> CallerRec] /\ thread[t] \in CallerRec /\ pending \in Nat
        /\ Slots(sequencer)
    BY SlotsKept, Zenon DEF Inv, Typed, CallersTyped
  <1>2. \A next : FlushPending(next) => pending' \in Nat
    <2>1. \A next : FlushPending(next) => pending' = pending \/ pending' = 0
      BY Zenon DEF FlushPending
    <2>. QED  BY <1>1, <2>1
  <1>3. ASSUME NEW len \in Lengths, NEW data \in {"none", "waiting"}, CommitTransaction(t, len, data) PROVE Inv'
    <2>. DEFINE c == Caller("reserve", len, data, 0)
    <2>1. c \in CallerRec /\ c.len = len
      BY LengthsAssumption, Zenon DEF Caller, CallerRec
    <2>2. thread' = [thread EXCEPT ![t] = c] /\ UNCHANGED <<txns, pending_work_items, writeback_enabled>>
      BY <1>3, Zenon DEF CommitTransaction
    <2>. HIDE DEF c
    <2>3. CASE FlushPending(<<>>)
      <3>1. CallersTyped'
        BY <1>1, <1>2, <2>1, <2>2, <2>3, CallerKeeps, Zenon
      <3>. QED  BY <2>2, <2>3, <3>1, PendingKeeps, Zenon
    <2>4. CASE UNCHANGED <<pending, sequencer, journal_data_barrier, flushes>>
      <3>1. CallersTyped'
        BY <1>1, <2>1, <2>2, <2>4, CallerKeeps, Zenon
      <3>2. Slots(sequencer') /\ Ran(0) /\ NoneReleased
        BY <1>1, <2>4 DEF Ran, NoneReleased, Inv, Typed
      <3>. QED  BY <2>2, <2>4, <3>1, <3>2, OnlyCallers, Zenon
    <2>. QED  BY <1>3, <2>3, <2>4, Zenon DEF CommitTransaction
  <1>4. CASE Sync(t)
    <2>. DEFINE s == Slot("sync", t, FALSE)
                c == [thread[t] EXCEPT !.pc = "sync"]
    <2>1. s \in SlotRec /\ ~s.done /\ s.kind # "meta"
      BY Zenon DEF Slot, SlotRec
    <2>2. FlushPending(<<s>>) /\ thread' = [thread EXCEPT ![t] = c]
          /\ UNCHANGED <<txns, pending_work_items, writeback_enabled>>
      BY <1>1, <1>4, Zenon DEF Sync
    <2>3. c \in CallerRec /\ c.pc = "sync"
      BY <1>1, CallerIs, Zenon
    <2>. HIDE DEF s, c
    <2>4. CallersTyped'
      BY <1>1, <1>2, <2>2, <2>3, CallerKeeps, Zenon
    <2>. QED  BY <2>1, <2>2, <2>4, PendingKeeps, Zenon
  <1>5. CASE Close(t)
    <2>. DEFINE s == Slot("close", t, TRUE)
                c == [thread[t] EXCEPT !.pc = "close"]
    <2>1. s \in SlotRec /\ ~s.done /\ s.kind # "meta"
      BY Zenon DEF Slot, SlotRec
    <2>2. FlushPending(<<s>>) /\ thread' = [thread EXCEPT ![t] = c]
          /\ UNCHANGED <<txns, pending_work_items, writeback_enabled>>
      BY <1>1, <1>5, Zenon DEF Close
    <2>3. c \in CallerRec /\ c.pc = "close"
      BY <1>1, CallerIs, Zenon
    <2>. HIDE DEF s, c
    <2>4. CallersTyped'
      BY <1>1, <1>2, <2>2, <2>3, CallerKeeps, Zenon
    <2>. QED  BY <2>1, <2>2, <2>4, PendingKeeps, Zenon
  <1>. QED  BY <1>3, <1>4, <1>5, Zenon

\* The places after a Sync was scheduled: only its promise is given to the executor.
LEMMA ScheduleSlots ==
    ASSUME Typed, NEW t \in Thread, Schedule(t)
    PROVE  Slots(sequencer') /\ Ran(0) /\ NoneReleased
  <1>1. DOMAIN sequencer = 1..Len(sequencer) /\ Len(sequencer) \in Nat /\ \A i \in DOMAIN sequencer : sequencer[i] \in SlotRec
    BY DEF Typed
  <1>2. ASSUME NEW i \in DOMAIN sequencer
        PROVE  /\ sequencer'[i] \in SlotRec /\ sequencer'[i].kind = sequencer[i].kind
               /\ sequencer'[i].txn = sequencer[i].txn /\ (sequencer'[i].done <=> sequencer[i].done)
               /\ sequencer[i].kind = "barrier" => (sequencer'[i].ready <=> sequencer[i].ready)
    <2>. DEFINE r == sequencer[i]
                g == [r EXCEPT !.ready = TRUE]
    <2>1. sequencer'[i] = r \/ (r.kind = "sync" /\ sequencer'[i] = g)
      BY Zenon DEF Schedule
    <2>2. r \in SlotRec
      BY <1>1, Zenon
    <2>. HIDE DEF r
    <2>3. g \in SlotRec /\ g.kind = r.kind /\ g.txn = r.txn /\ (g.done <=> r.done)
      BY <2>2, Zenon DEF SlotRec
    <2>. HIDE DEF g
    <2>. QED  BY <2>1, <2>2, <2>3, Zenon DEF r
  <1>3. sequencer' = [i \in 1..Len(sequencer) |-> sequencer'[i]]
    BY <1>1, Zenon DEF Schedule
  <1>4. sequencer' \in Seq(SlotRec) /\ DOMAIN sequencer' = DOMAIN sequencer
    BY <1>1, <1>2, <1>3, Sequence, Zenon
  <1>5. 0 \notin DOMAIN sequencer
    BY <1>1
  <1>. QED  BY <1>2, <1>4, <1>5, Zenon DEF Slots, Ran, NoneReleased

\* What a caller does once it is not blocked.
LEMMA ReturnsKeep ==
    ASSUME Inv, NEW t \in Thread, Return(t)
    PROVE  Inv'
  <1>1. /\ CallersTyped /\ thread \in [Thread -> CallerRec] /\ thread[t] \in CallerRec /\ pending \in Nat
        /\ Slots(sequencer) /\ Typed
    BY SlotsKept, Zenon DEF Inv, Typed, CallersTyped
  <1>2. ASSUME UNCHANGED sequencer PROVE Slots(sequencer') /\ Ran(0) /\ NoneReleased
    BY <1>1, <1>2 DEF Ran, NoneReleased, Typed
  <1>3. ASSUME NEW c \in CallerRec, thread' = [thread EXCEPT ![t] = c], UNCHANGED pending,
               c.pc \in {"reserve", "copy"} => c.len \in Lengths
        PROVE  CallersTyped'
    BY <1>1, <1>3, CallerKeeps, Zenon
  <1>4. CASE Reserve(t)
    <2>. DEFINE c == [thread[t] EXCEPT !.pc = "copy", !.seen = pending]
    <2>1. c \in CallerRec /\ c.len = thread[t].len
      BY <1>1, CallerIs, Zenon
    <2>2. thread' = [thread EXCEPT ![t] = c] \/ thread' = [thread EXCEPT ![t] = Idle]
      BY <1>1, <1>4, Zenon DEF Reserve
    <2>3. Idle \in CallerRec /\ Idle.pc = "idle" /\ thread[t].len \in Lengths /\ UNCHANGED pending
      BY <1>1, <1>4, CallerIs, Zenon DEF Reserve, CallersTyped
    <2>. HIDE DEF c
    <2>4. CallersTyped'
      BY <1>3, <2>1, <2>2, <2>3, Zenon
    <2>. QED  BY <1>2, <1>4, <2>4, OnlyCallers, Zenon DEF Reserve
  <1>5. CASE CopyFails(t)
    <2>1. CallersTyped'
      BY <1>1, <1>3, <1>5, CallerIs, Zenon DEF CopyFails
    <2>. QED  BY <1>2, <1>5, <2>1, OnlyCallers, Zenon DEF CopyFails
  <1>6. CASE Schedule(t)
    <2>1. CallersTyped'
      BY <1>1, <1>3, <1>6, CallerIs, Zenon DEF Schedule
    <2>2. Slots(sequencer') /\ Ran(0) /\ NoneReleased
      BY <1>1, <1>6, ScheduleSlots, Zenon
    <2>. QED  BY <1>6, <2>1, <2>2, OnlyCallers, Zenon DEF Schedule
  <1>7. CASE Closed(t)
    <2>. DEFINE c == [thread[t] EXCEPT !.pc = "closed"]
    <2>1. c \in CallerRec /\ c.pc = "closed"
      BY <1>1, CallerIs, Zenon
    <2>2. thread' = [thread EXCEPT ![t] = c] /\ UNCHANGED pending
      BY <1>1, <1>7, Zenon DEF Closed
    <2>. HIDE DEF c
    <2>3. CallersTyped'
      BY <1>3, <2>1, <2>2, Zenon
    <2>. QED  BY <1>2, <1>7, <2>3, OnlyCallers, Zenon DEF Closed
  <1>. QED  BY <1>4, <1>5, <1>6, <1>7, EnqueueKeeps, Zenon DEF Return

-----------------------------------------------------------------------------
(***************************************************************************)
(* The theorems.  DataMayFail is left out: data that fails although no     *)
(* request has failed takes a transaction out of its turn.                 *)
(***************************************************************************)

\* A transaction's promise runs: it is journaled, or a request has failed.
LEMMA WriteMetadataKeeps ==
    ASSUME Inv, NEW i \in DOMAIN sequencer, WriteMetadata(i)
    PROVE  Inv'
  <1>1. /\ IsMeta(i) /\ CanRun(i) /\ Finish(i)
        /\ UNCHANGED <<thread, pending, journal_data_barrier, flushes>>
    BY Zenon DEF WriteMetadata, IsMeta
  <1>2. \/ \E w \in WriterStarts : Writer([w EXCEPT !.txns[sequencer[i].txn].stage = "journaled",
                                                  !.queue = Append(@, sequencer[i].txn)])
        \/ \E w \in WriterFailures : Writer([w EXCEPT !.txns[sequencer[i].txn].stage = "dropped"])
    BY Zenon DEF WriteMetadata
  <1>3. ASSUME NEW w \in WriterStarts, Writer([w EXCEPT !.txns[sequencer[i].txn].stage = "journaled",
                                                       !.queue = Append(@, sequencer[i].txn)])
        PROVE  Inv'
    <2>1. writeback_enabled /\ Succeeds(w)
      BY Outcomes, NothingSucceeds, FlushSucceeds, Zenon
    <2>. QED  BY <1>1, <1>3, <2>1, MetadataSucceeds, Zenon
  <1>4. ASSUME NEW w \in WriterFailures, Writer([w EXCEPT !.txns[sequencer[i].txn].stage = "dropped"])
        PROVE  Inv'
    <2>1. Fails(w)
      BY Outcomes, Zenon
    <2>. QED  BY <1>1, <1>4, <2>1, MetadataFails, Zenon
  <1>. QED  BY <1>2, <1>3, <1>4, Zenon

\* The initial state.
LEMMA InitInv ==
    ASSUME Init
    PROVE  Inv
  <1>1. /\ txns = <<>> /\ sequencer = <<>> /\ pending_work_items = <<>> /\ flushes = {}
        /\ journal_data_barrier = 0 /\ writeback_enabled = TRUE /\ pending = 0
    BY Zenon DEF Init
  <1>2. \A S : <<>> \in Seq(S)
    OBVIOUS
  <1>3. DOMAIN txns = {} /\ DOMAIN sequencer = {} /\ Range(pending_work_items) = {}
    BY <1>1 DEF Range
  <1>4. CallersTyped
    BY <1>1 DEF Init, CallersTyped, CallerRec, Idle, Caller
  <1>5. Typed
    BY <1>1, <1>2, <1>4, Zenon DEF Typed
  <1>6. \A i : ~IsMeta(i)
    BY <1>3, Zenon DEF IsMeta
  <1>7. InPlace /\ MetadataInOrder /\ DataBeforeMetadata
    BY <1>3, <1>6, Zenon DEF InPlace, MetadataInOrder, DataBeforeMetadata
  <1>8. WhileEnabled
    BY <1>1, <1>3, <1>6, Zenon DEF WhileEnabled, DoneInOrder, HeldOnce, Guarded, SyncSettles
  <1>. QED  BY <1>5, <1>7, <1>8, Zenon DEF Inv

\* Every step.
LEMMA StepKeepsInv ==
    ASSUME ~DataMayFail, Inv, [Next]_vars
    PROVE  Inv'
  <1>1. CASE UNCHANGED vars
    <2>1. /\ UNCHANGED <<txns, sequencer, journal_data_barrier, flushes, pending_work_items, writeback_enabled>>
          /\ UNCHANGED <<thread, pending>>
      BY <1>1, Zenon DEF vars
    <2>2. CallersTyped' /\ Slots(sequencer')
      BY <2>1, SlotsKept, Zenon DEF Inv, Typed, CallersTyped
    <2>3. Ran(0) /\ NoneReleased
      BY <2>1 DEF Ran, NoneReleased, Inv, Typed
    <2>. QED  BY <2>1, <2>2, <2>3, OnlyCallers, Zenon
  <1>2. ASSUME NEW t \in Thread,
               \/ \E len \in Lengths, data \in {"none", "waiting"} : CommitTransaction(t, len, data)
               \/ Sync(t) \/ Close(t) \/ Return(t)
        PROVE  Inv'
    BY <1>2, CallsKeep, ReturnsKeep, Zenon
  <1>3. ASSUME NEW x \in DOMAIN txns, RunData(x) PROVE Inv'
    BY <1>3, WriteDataKeeps, DataFailsKeeps, Zenon DEF RunData
  <1>4. ASSUME NEW f \in flushes, FlushData(f) PROVE Inv'
    BY <1>4, FlushDataKeeps, Zenon
  <1>5. ASSUME NEW i \in DOMAIN sequencer, RunSlot(i) PROVE Inv'
    BY <1>5, RunKeeps, WriteMetadataKeeps, Zenon DEF RunSlot
  <1>. QED  BY <1>1, <1>2, <1>3, <1>4, <1>5, Zenon DEF Next

\* The invariant holds in every reachable state.
THEOREM JournalInvariant == ASSUME ~DataMayFail PROVE Spec => []Inv
  <1>1. Init => Inv
    BY InitInv, Zenon
  <1>2. Inv /\ [Next]_vars => Inv'
    BY StepKeepsInv, Zenon
  <1>. QED  BY <1>1, <1>2, PTL DEF Spec

\* CommitTransaction and the journal's sequencer: a transaction is journaled only
\* after every transaction committed before it.
THEOREM MetadataInOrderHolds == ASSUME ~DataMayFail PROVE Spec => []MetadataInOrder
  <1>1. Inv => MetadataInOrder
    BY Zenon DEF Inv
  <1>. QED  BY <1>1, JournalInvariant, PTL

\* FlushPending and its barrier: a transaction is journaled only after its data and
\* the data of everything before it are flushed.
THEOREM DataBeforeMetadataHolds == ASSUME ~DataMayFail PROVE Spec => []DataBeforeMetadata
  <1>1. Inv => DataBeforeMetadata
    BY Zenon DEF Inv
  <1>. QED  BY <1>1, JournalInvariant, PTL

\* Sync and ~Journal: when the promise has run and no request has failed, everything
\* committed before the call is in place.
THEOREM SyncSettlesHolds == ASSUME ~DataMayFail PROVE Spec => []SyncSettles
  <1>1. Inv => SyncSettles
    BY Zenon DEF Inv, WhileEnabled, SyncSettles
  <1>. QED  BY <1>1, JournalInvariant, PTL

=============================================================================
