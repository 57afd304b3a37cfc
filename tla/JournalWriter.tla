--------------------------- MODULE JournalWriter ---------------------------
(***************************************************************************)
(* The write-ahead log of vfs/cpp/journal: JournalWriter, the block device *)
(* under it, power failure, and the replay of the log at the next mount.   *)
(*                                                                         *)
(* All calls of JournalWriter run on one background thread, one after the  *)
(* other, and every device request is synchronous.  A step is therefore    *)
(* the code between two device requests: "pc" names the request that is    *)
(* outstanding, and an action takes its completion and runs up to the next *)
(* request.  Power may fail at any step.                                   *)
(*                                                                         *)
(* The device has a volatile write cache: disk[b] is what a read of block  *)
(* b returns, maybe[b] is the set of contents b may have after a power     *)
(* failure.  Only a Flush (or a write of a class in WriteThrough) pins a   *)
(* block to its last content.                                              *)
(***************************************************************************)
EXTENDS Integers, Sequences, FiniteSets, FiniteSetsExt

CONSTANTS
    Capacity,       \* journal_superblock: blocks for entries, EntriesLength()
    Target,         \* device blocks outside the journal
    MetaOps,        \* block sets a transaction may write as metadata
    TrimOps,        \* block sets a transaction may trim
    DataOps,        \* block sets a data write may cover
    WriteThrough,   \* classes of writes that are durable once they complete
    MaxOps,         \* bound: calls that submit a write
    MaxCrashes,     \* bound: power failures while mounted
    MaxRestarts,    \* bound: process restarts the device survives
    MixedFaults     \* bound: whether one behaviour may have both

ASSUME CapacityAssumption == Capacity \in Nat /\ Capacity >= 3
ASSUME TargetAssumption == IsFiniteSet(Target) /\ \A t \in Target : t \in Nat /\ t > Capacity
ASSUME OpsAssumption ==
    /\ MetaOps \subseteq SUBSET Target /\ \A o \in MetaOps : Cardinality(o) + 2 \in 3..Capacity
    /\ TrimOps \subseteq SUBSET Target
    /\ DataOps \subseteq SUBSET Target
ASSUME WriteThroughAssumption == WriteThrough \subseteq {"info", "entry"}
ASSUME BoundsAssumption ==
    MaxOps \in Nat /\ MaxCrashes \in Nat /\ MaxRestarts \in Nat /\ MixedFaults \in BOOLEAN

VARIABLES
    disk, maybe,                 \* the device
    superblock,                  \* journal_superblock_, in memory
    next_sequence_number,
    next_entry_start_block,
    pending_work_items,
    pending_flush,
    live_metadata_operations,
    writeback_enabled,           \* transaction_handler_ != nullptr
    pc,                          \* the outstanding device request
    call,                        \* the JournalWriter call being served
    replay,                      \* the loop of ParseJournalEntries
    reserved,                    \* freed blocks the filesystem still holds back
    \* history, never read by the writer:
    hist,                        \* hist[v]: what write number v was
    log,                         \* entries sent to the journal and not lost
    head, tail,                  \* unwrapped positions of the info block's start
                                 \* and of the next entry
    committed, completed,        \* callbacks that have run
    assert_ok,                   \* no ZX_DEBUG_ASSERT of WriteInfoBlock failed since Mount
    crashes, restarts

cursor == <<next_sequence_number, next_entry_start_block, log, tail>>
queue  == <<pending_work_items, pending_flush>>
info   == <<superblock, head, assert_ok>>
mount  == <<crashes, restarts, replay>>
acks   == <<committed, completed, reserved>>
vars   == <<disk, maybe, superblock, next_sequence_number, next_entry_start_block,
            pending_work_items, pending_flush, live_metadata_operations,
            writeback_enabled, pc, call, replay, reserved, hist, log, head, tail,
            committed, completed, assert_ok, crashes, restarts>>

-----------------------------------------------------------------------------
(* Blocks and their contents.                                              *)

InfoBlock == 0
Ring == 1..Capacity
RingBlock(p) == 1 + (p % Capacity)
Block == {InfoBlock} \cup Ring \cup Target

EntryMetadataBlocks == 2
EntryLength(ops) == Cardinality(ops) + EntryMetadataBlocks

\* The info block.  A block caught in the middle of a write fails Validate();
\* what was being written is kept for the history only.
Info(start, seq) == [valid |-> TRUE, start |-> start, seq |-> seq]
Unreadable(i) == [i EXCEPT !.valid = FALSE]

\* Block i of a journal entry: 0 is the header, the last one the commit block.
EntryBlock(e, i) == [seq |-> e.seq, ver |-> e.ver, ops |-> e.ops, idx |-> i]
Blank == [seq |-> 0, ver |-> 0, ops |-> {}, idx |-> -1]

\* Mutant: a block has to be header and commit block at once.
IsMetadata_Both(b) == b.idx = 0 /\ b.idx = Cardinality(b.ops) + 1

IsMetadata(b) == b.idx = 0 \/ b.idx = Cardinality(b.ops) + 1

\* A block outside the journal holds the number of the write it shows.
Torn == -1

-----------------------------------------------------------------------------
(* The device.  Contents are functions on the blocks a request covers.     *)

Spoiled(b, c) ==
    IF b = InfoBlock THEN Unreadable(c) ELSE IF b \in Ring THEN Blank ELSE Torn

\* From the moment a write is issued a power failure may leave each of its
\* blocks as it was, written, or spoiled.
Issued(m, w) == [b \in Block |-> IF b \in DOMAIN w THEN m[b] \cup {w[b], Spoiled(b, w[b])}
                                 ELSE m[b]]

Written(w) == [b \in Block |-> IF b \in DOMAIN w THEN w[b] ELSE disk[b]]

Settled(class, w) ==
    IF class \in WriteThrough
    THEN [b \in Block |-> IF b \in DOMAIN w THEN {w[b]} ELSE maybe[b]]
    ELSE maybe

Flushed == [b \in Block |-> {disk[b]}]

\* Every content of the device a power failure may leave.
CrashImages ==
    FoldSet(LAMBDA b, images : {[i EXCEPT ![b] = c] : i \in images, c \in maybe[b]},
            {disk}, {b \in Block : maybe[b] # {disk[b]}})

-----------------------------------------------------------------------------
(* The writes the journal makes.                                           *)

HomeWrite(item) == [b \in item.ops |-> item.ver]
InfoWrite == [b \in {InfoBlock} |-> Info(superblock.start, superblock.seq)]

\* The ring blocks of entry e, which starts at the unwrapped position e.pos.
EntryBlocks(e) == {RingBlock(e.pos + i) : i \in 0..(EntryLength(e.ops) - 1)}
EntryIndex(e, b) == CHOOSE i \in 0..(EntryLength(e.ops) - 1) : RingBlock(e.pos + i) = b
EntryWrite(e) == [b \in EntryBlocks(e) |-> EntryBlock(e, EntryIndex(e, b))]

\* The entry that is being sent to the device while pc = "entry".
CurrentEntry == [seq |-> next_sequence_number - 1, ver |-> call.ver, ops |-> call.ops,
                 pos |-> tail - EntryLength(call.ops)]

\* The write that is outstanding while the journal is mounted.
Outstanding ==
    CASE pc = "home"  -> HomeWrite(Head(pending_work_items))
      [] pc = "info"  -> InfoWrite
      [] pc = "entry" -> EntryWrite(CurrentEntry)
      [] pc = "data"  -> HomeWrite(call)
      [] pc = "flush" -> [b \in {} |-> 0]

Call(op, ops, trim) == [op |-> op, ops |-> ops, trim |-> trim, ver |-> Len(hist) + 1]
NoCall == [op |-> "none", ops |-> {}, trim |-> {}, ver |-> 0]

-----------------------------------------------------------------------------
(* The pieces of code between two device requests.  m is what "maybe" has  *)
(* become by the request that has just completed.                          *)

Return(m) == pc' = "idle" /\ call' = NoCall /\ maybe' = m

Send(request, c, m) == pc' = request /\ call' = c /\ maybe' = m

\* WriteOperations of a data write, the last step of WriteData.
SendData(c, m) ==
    /\ IF writeback_enabled THEN Send("data", c, Issued(m, HomeWrite(c))) ELSE Return(m)
    /\ UNCHANGED <<cursor, info>>

\* The second half of WriteMetadata: the blocks become live, the entry takes
\* its sequence number and its place in the ring, and is sent to the device.
SendEntry(c, m, live) ==
    LET e == [seq |-> next_sequence_number, ver |-> c.ver, ops |-> c.ops, pos |-> tail]
    IN  /\ live_metadata_operations' = live \cup c.ops
        /\ next_sequence_number' = next_sequence_number + 1
        /\ next_entry_start_block' = (next_entry_start_block + EntryLength(c.ops)) % Capacity
        /\ tail' = tail + EntryLength(c.ops)
        /\ IF writeback_enabled
           THEN /\ log' = log \cup {e}
                /\ Send("entry", c, Issued(m, EntryWrite(e)))
           ELSE log' = log /\ Return(m)
        /\ UNCHANGED info

\* The second half of WriteInfoBlock: all earlier entries are in place.
SendInfo(c, m) ==
    /\ assert_ok' = (assert_ok /\ next_sequence_number > superblock.seq
                               /\ next_entry_start_block < Capacity)
    /\ superblock' = Info(next_entry_start_block, next_sequence_number)
    /\ head' = tail
    /\ IF writeback_enabled
       THEN Send("info", c, Issued(m, [b \in {InfoBlock} |->
                                       Info(next_entry_start_block, next_sequence_number)]))
       ELSE Return(m)
    /\ UNCHANGED cursor

\* WriteInfoBlock: Flush until nothing is pending, then update the info block.
\* A Flush that is refused drops the pending work.
WriteInfoBlock(c) ==
    IF pending_work_items = <<>> /\ ~pending_flush
    THEN SendInfo(c, maybe) /\ UNCHANGED queue
    ELSE /\ IF writeback_enabled
            THEN Send("flush", c, maybe) /\ UNCHANGED queue
            ELSE Return(maybe) /\ pending_work_items' = <<>> /\ UNCHANGED pending_flush
         /\ UNCHANGED <<cursor, info>>

\* One round of the loop in Flush: commit_callback, then the write in place.
SendHome(item, c, m) ==
    /\ Send("home", c, Issued(m, HomeWrite(item)))
    /\ committed' = IF item.trim THEN committed ELSE committed \cup {item.ver}
    /\ reserved' = IF item.trim THEN reserved ELSE reserved \ hist[item.ver].trim
    /\ UNCHANGED <<cursor, info>>

-----------------------------------------------------------------------------
(* Calls of the writer.                                                    *)

Submit(op, ops, trim) ==
    /\ pc = "idle"
    /\ Len(hist) < MaxOps
    /\ (ops \cup trim) \cap reserved = {}
    /\ hist' = Append(hist, [kind |-> op, ops |-> ops, trim |-> trim])

\* Mutant: a full ring is taken for an empty one.
Intersects_FullIsEmpty(n) ==
    LET start == superblock.start
        end   == next_entry_start_block
        used  == IF start <= end THEN end - start ELSE (Capacity - start) + end
    IN  Capacity - used < n

\* WriteInfoBlockIfIntersect: would an entry of n blocks meet the oldest live one?
Intersects(n) ==
    LET start == superblock.start
        end   == next_entry_start_block
        used  == IF start <= end THEN end - start ELSE (Capacity - start) + end
    IN  \/ start = end /\ next_sequence_number # superblock.seq
        \/ Capacity - used < n

\* Mutant: data is written over a live block without an update of the info block.
WriteData_Unchecked(ops) ==
    /\ Submit("data", ops, {})
    /\ SendData(Call("data", ops, {}), maybe)
    /\ UNCHANGED <<disk, queue, live_metadata_operations, writeback_enabled, acks, mount>>

WriteData(ops) ==
    /\ Submit("data", ops, {})
    /\ IF ops \cap live_metadata_operations # {}
       THEN WriteInfoBlock(Call("data", ops, {}))
       ELSE SendData(Call("data", ops, {}), maybe) /\ UNCHANGED queue
    /\ UNCHANGED <<disk, live_metadata_operations, writeback_enabled, acks, mount>>

WriteMetadata(ops, trim) ==
    /\ ops \cap trim = {}
    /\ Submit("meta", ops, trim)
    /\ reserved' = reserved \cup trim
    /\ IF Intersects(EntryLength(ops))
       THEN WriteInfoBlock(Call("meta", ops, trim)) /\ UNCHANGED live_metadata_operations
       ELSE SendEntry(Call("meta", ops, trim), maybe, live_metadata_operations)
            /\ UNCHANGED queue
    /\ UNCHANGED <<disk, writeback_enabled, committed, completed, mount>>

Sync ==
    /\ pc = "idle"
    /\ writeback_enabled
    /\ next_sequence_number # superblock.seq
    /\ WriteInfoBlock([NoCall EXCEPT !.op = "sync"])
    /\ UNCHANGED <<disk, live_metadata_operations, writeback_enabled, acks, hist, mount>>

Flush ==
    /\ pc = "idle"
    /\ IF writeback_enabled
       THEN Send("flush", [NoCall EXCEPT !.op = "flush"], maybe) /\ UNCHANGED queue
       ELSE Return(maybe) /\ pending_work_items' = <<>> /\ UNCHANGED pending_flush
    /\ UNCHANGED <<disk, live_metadata_operations, writeback_enabled, cursor, info, acks,
                   hist, mount>>

-----------------------------------------------------------------------------
(* Completions of device requests.                                         *)

\* Mutant: the work items are committed and written without a flush of the device.
FlushDone_NoFlush ==
    /\ pc = "flush"
    /\ pending_flush' = FALSE
    /\ \/ /\ pending_work_items # <<>>
          /\ SendHome(Head(pending_work_items), call, maybe)
          /\ UNCHANGED completed
       \/ /\ pending_work_items = <<>> /\ call.op = "flush"
          /\ Return(maybe)
          /\ UNCHANGED <<cursor, info, acks>>
       \/ /\ pending_work_items = <<>> /\ call.op # "flush"
          /\ SendInfo(call, maybe)
          /\ UNCHANGED acks
    /\ UNCHANGED <<disk, pending_work_items, live_metadata_operations, writeback_enabled,
                   hist, mount>>

FlushDone ==
    /\ pc = "flush"
    /\ pending_flush' = FALSE
    /\ \/ /\ pending_work_items # <<>>
          /\ SendHome(Head(pending_work_items), call, Flushed)
          /\ UNCHANGED completed
       \/ /\ pending_work_items = <<>> /\ call.op = "flush"
          /\ Return(Flushed)
          /\ UNCHANGED <<cursor, info, acks>>
       \/ /\ pending_work_items = <<>> /\ call.op # "flush"
          /\ SendInfo(call, Flushed)
          /\ UNCHANGED acks
    /\ UNCHANGED <<disk, pending_work_items, live_metadata_operations, writeback_enabled,
                   hist, mount>>

HomeDone ==
    LET item == Head(pending_work_items)
        rest == Tail(pending_work_items)
    IN  /\ pc = "home"
        /\ disk' = Written(Outstanding)
        /\ pending_flush' = TRUE
        /\ pending_work_items' = rest
        /\ completed' = IF item.trim THEN completed ELSE completed \cup {item.ver}
        /\ \/ /\ rest # <<>>
              /\ SendHome(Head(rest), call, maybe)
           \/ /\ rest = <<>>
              /\ IF call.op = "flush" THEN Return(maybe) ELSE Send("flush", call, maybe)
              /\ UNCHANGED <<cursor, info, committed, reserved>>
        /\ UNCHANGED <<live_metadata_operations, writeback_enabled, hist, mount>>

\* Mutant: Sync leaves the live blocks as they are.
InfoDone_StaleLive ==
    LET m == Settled("info", Outstanding)
    IN  /\ pc = "info"
        /\ disk' = Written(Outstanding)
        /\ \/ /\ call.op = "sync"
              /\ Return(m)
              /\ UNCHANGED <<live_metadata_operations, cursor, info>>
           \/ /\ call.op = "data"
              /\ SendData(call, m)
              /\ live_metadata_operations' = {}
           \/ /\ call.op = "meta"
              /\ SendEntry(call, m, {})
        /\ UNCHANGED <<queue, writeback_enabled, acks, hist, mount>>

\* The info block is written: nothing is live any more, and the call that
\* needed the update goes on.
InfoDone ==
    LET m == Settled("info", Outstanding)
    IN  /\ pc = "info"
        /\ disk' = Written(Outstanding)
        /\ \/ /\ call.op = "sync"
              /\ Return(m)
              /\ live_metadata_operations' = {}
              /\ UNCHANGED <<cursor, info>>
           \/ /\ call.op = "data"
              /\ SendData(call, m)
              /\ live_metadata_operations' = {}
           \/ /\ call.op = "meta"
              /\ SendEntry(call, m, {})
        /\ UNCHANGED <<queue, writeback_enabled, acks, hist, mount>>

\* The entry is in the journal; its writes in place wait for the next Flush.
EntryDone ==
    LET item(ops, trim) == [ver |-> call.ver, ops |-> ops, trim |-> trim]
    IN  /\ pc = "entry"
        /\ disk' = Written(Outstanding)
        /\ Return(Settled("entry", Outstanding))
        /\ pending_work_items' = pending_work_items
               \o (IF call.trim = {} THEN <<>> ELSE <<item(call.trim, TRUE)>>)
               \o <<item(call.ops, FALSE)>>
        /\ UNCHANGED <<pending_flush, live_metadata_operations, writeback_enabled, cursor,
                       info, acks, hist, mount>>

DataDone ==
    /\ pc = "data"
    /\ disk' = Written(Outstanding)
    /\ Return(maybe)
    /\ UNCHANGED <<queue, live_metadata_operations, writeback_enabled, cursor, info, acks,
                   hist, mount>>

\* DisableWriteback: any request that fails turns the device off for good.  The
\* device may have done a part of the request.
RequestFails ==
    /\ pc \in {"flush", "home", "info", "entry", "data"}
    /\ \E part \in SUBSET DOMAIN Outstanding :
          disk' = Written([b \in part |-> Outstanding[b]])
    /\ writeback_enabled' = FALSE
    /\ Return(maybe)
    /\ pending_work_items' = IF pc \in {"flush", "home"} THEN <<>> ELSE pending_work_items
    /\ UNCHANGED <<pending_flush, live_metadata_operations, cursor, info, acks, hist, mount>>

-----------------------------------------------------------------------------
(* Power failure, restart of the process, and replay.                      *)

NoReplay == [start |-> 0, seq |-> 0, operations |-> [b \in {} |-> 0]]

Mounted == pc \in {"idle", "flush", "home", "info", "entry", "data"}

\* What was in memory is gone; superblock and the cursor are set again by replay.
Forget ==
    /\ pc' = "down"
    /\ call' = NoCall
    /\ pending_work_items' = <<>>
    /\ pending_flush' = FALSE
    /\ live_metadata_operations' = {}
    /\ writeback_enabled' = TRUE
    /\ replay' = NoReplay
    /\ reserved' = {}
    /\ assert_ok' = TRUE
    /\ UNCHANGED <<cursor, superblock, head, hist, committed, completed>>

\* Each block keeps one of the contents the device may have made durable.
\* CrashImages enumerates exactly the functions of which the last two
\* conjuncts speak.  Power may fail any number of times during replay.
Crash ==
    /\ pc # "corrupt"
    /\ MaxCrashes > 0 /\ (Mounted => crashes < MaxCrashes)
    /\ MixedFaults \/ restarts = 0
    /\ crashes' = IF Mounted THEN crashes + 1 ELSE crashes
    /\ UNCHANGED restarts
    /\ Forget
    /\ \E image \in CrashImages :
          /\ \A b \in Block : image[b] \in maybe[b]
          /\ disk' = [b \in Block |-> image[b]]
          /\ maybe' = [b \in Block |-> {image[b]}]

\* The process stops and starts again; the device keeps its cache.
Restart ==
    /\ Mounted
    /\ restarts < MaxRestarts
    /\ MixedFaults \/ crashes = 0
    /\ restarts' = restarts + 1
    /\ Forget
    /\ UNCHANGED <<disk, maybe, crashes>>

\* ParseEntry: the header at ring position pos, if a whole entry follows it.
IsEntry(pos, seq) ==
    LET h == disk[RingBlock(pos)]
    IN  /\ h.idx = 0
        /\ h.seq = seq
        /\ h.ops # {} /\ EntryLength(h.ops) <= Capacity
        /\ \A i \in 0..(EntryLength(h.ops) - 1) :
              disk[RingBlock(pos + i)] = [h EXCEPT !.idx = i]

\* The sequence numbers of the blocks that look like journal metadata.
RingSequenceNumbers == {disk[b].seq : b \in {r \in Ring : IsMetadata(disk[r])}}

Restored(start, seq) ==
    /\ superblock' = Info(start, seq)
    /\ maybe' = Issued(maybe, [b \in {InfoBlock} |-> Info(start, seq)])

\* ReplayJournal up to ParseJournalEntries, or up to the write that restores an
\* info block that fails Validate().
Replay ==
    /\ pc = "down"
    /\ \/ /\ disk[InfoBlock].valid
          /\ pc' = "parse"
          /\ replay' = [NoReplay EXCEPT !.start = disk[InfoBlock].start,
                                        !.seq = disk[InfoBlock].seq]
          /\ UNCHANGED <<superblock, maybe, log>>
       \/ /\ ~disk[InfoBlock].valid
          /\ \E n \in RingSequenceNumbers :
                (\A k \in RingSequenceNumbers : k <= n) /\ Restored(0, n + 1)
          /\ pc' = "replay_info"
          /\ log' = {e \in log : e.seq < disk[InfoBlock].seq}
          /\ UNCHANGED replay
       \/ /\ ~disk[InfoBlock].valid /\ RingSequenceNumbers = {}
          /\ pc' = "corrupt"
          /\ UNCHANGED <<superblock, maybe, log, replay>>
    /\ UNCHANGED <<disk, queue, next_sequence_number, next_entry_start_block, head, tail,
                   assert_ok, live_metadata_operations, writeback_enabled, call, acks,
                   hist, crashes, restarts>>

\* Mutant: an operation that is already in the tree is not replaced.
ParseEntry_OldestWins ==
    LET ops == disk[RingBlock(replay.start)].ops
        ver == disk[RingBlock(replay.start)].ver
    IN  /\ pc = "parse"
        /\ IsEntry(replay.start, replay.seq)
        /\ replay' = [start |-> (replay.start + EntryLength(ops)) % Capacity,
                      seq |-> replay.seq + 1,
                      operations |-> [b \in DOMAIN replay.operations \cup ops |->
                                        IF b \in DOMAIN replay.operations
                                        THEN replay.operations[b] ELSE ver]]
        /\ UNCHANGED <<disk, maybe, pc, queue, cursor, info, live_metadata_operations,
                       writeback_enabled, call, acks, hist, crashes, restarts>>

\* One round of the loop in ParseJournalEntries.
ParseEntry ==
    LET ops == disk[RingBlock(replay.start)].ops
        ver == disk[RingBlock(replay.start)].ver
    IN  /\ pc = "parse"
        /\ IsEntry(replay.start, replay.seq)
        /\ replay' = [start |-> (replay.start + EntryLength(ops)) % Capacity,
                      seq |-> replay.seq + 1,
                      operations |-> [b \in DOMAIN replay.operations \cup ops |->
                                        IF b \in ops THEN ver ELSE replay.operations[b]]]
        /\ UNCHANGED <<disk, maybe, pc, queue, cursor, info, live_metadata_operations,
                       writeback_enabled, call, acks, hist, crashes, restarts>>

\* The end of the loop, and the writes in place if there are any.
ParseDone ==
    /\ pc = "parse"
    /\ ~IsEntry(replay.start, replay.seq)
    /\ superblock' = Info(replay.start, replay.seq)
    /\ pc' = IF DOMAIN replay.operations = {} THEN "replayed" ELSE "replay_home"
    /\ maybe' = Issued(maybe, replay.operations)
    /\ UNCHANGED <<disk, replay, queue, cursor, head, assert_ok, live_metadata_operations,
                   writeback_enabled, call, acks, hist, crashes, restarts>>

ReplayHomeDone ==
    /\ pc = "replay_home"
    /\ pc' = "replay_flush"
    /\ disk' = Written(replay.operations)
    /\ UNCHANGED <<maybe, replay, queue, cursor, info, live_metadata_operations,
                   writeback_enabled, call, acks, hist, crashes, restarts>>

ReplayFlushDone ==
    /\ pc = "replay_flush"
    /\ pc' = "replay_info"
    /\ maybe' = Issued(Flushed, InfoWrite)
    /\ UNCHANGED <<disk, replay, queue, cursor, info, live_metadata_operations,
                   writeback_enabled, call, acks, hist, crashes, restarts>>

ReplayInfoDone ==
    /\ pc = "replay_info"
    /\ pc' = "replayed"
    /\ disk' = Written(InfoWrite)
    /\ maybe' = Settled("info", InfoWrite)
    /\ UNCHANGED <<replay, queue, cursor, info, live_metadata_operations, writeback_enabled,
                   call, acks, hist, crashes, restarts>>

\* A request of the replay fails, and with it the mount; the next one comes
\* after a power cycle (Crash).
ReplayFails ==
    /\ pc \in {"replay_home", "replay_flush", "replay_info"}
    /\ pc' = "failed"
    /\ UNCHANGED <<disk, maybe, replay, queue, cursor, info, live_metadata_operations,
                   writeback_enabled, call, acks, hist, crashes, restarts>>

\* The JournalWriter of this mount is constructed from the superblock.
Mount ==
    /\ pc = "replayed"
    /\ pc' = "idle"
    /\ replay' = NoReplay
    /\ next_sequence_number' = superblock.seq
    /\ next_entry_start_block' = superblock.start
    /\ head' = superblock.start
    /\ tail' = superblock.start
    /\ log' = {e \in log : e.seq < superblock.seq}
    /\ committed' = committed \cup {e.ver : e \in log'}
    /\ completed' = completed \cup {e.ver : e \in log'}
    /\ UNCHANGED <<disk, maybe, queue, superblock, assert_ok, live_metadata_operations,
                   writeback_enabled, call, reserved, hist, crashes, restarts>>

-----------------------------------------------------------------------------
\* MakeJournal, on a device whose other blocks hold write 0.
Init ==
    /\ disk = [b \in Block |-> IF b = InfoBlock THEN Info(0, 0)
                               ELSE IF b \in Ring THEN Blank ELSE 0]
    /\ maybe = [b \in Block |-> {disk[b]}]
    /\ superblock = Info(0, 0)
    /\ next_sequence_number = 0
    /\ next_entry_start_block = 0
    /\ pending_work_items = <<>>
    /\ pending_flush = FALSE
    /\ live_metadata_operations = {}
    /\ writeback_enabled = TRUE
    /\ pc = "down"
    /\ replay = NoReplay
    /\ call = NoCall
    /\ reserved = {}
    /\ hist = <<>>
    /\ log = {}
    /\ head = 0
    /\ tail = 0
    /\ committed = {}
    /\ completed = {}
    /\ assert_ok = TRUE
    /\ crashes = 0
    /\ restarts = 0

Next ==
    \/ \E ops \in DataOps : WriteData(ops)
    \/ \E ops \in MetaOps, trim \in TrimOps : WriteMetadata(ops, trim)
    \/ Sync
    \/ Flush
    \/ FlushDone
    \/ HomeDone
    \/ InfoDone
    \/ EntryDone
    \/ DataDone
    \/ RequestFails
    \/ Crash
    \/ Restart
    \/ Replay
    \/ ParseEntry
    \/ ParseDone
    \/ ReplayHomeDone
    \/ ReplayFlushDone
    \/ ReplayInfoDone
    \/ ReplayFails
    \/ Mount

Spec == Init /\ [][Next]_vars

-----------------------------------------------------------------------------
(* Properties.                                                             *)

Entry == [seq : Nat, ver : Nat, ops : MetaOps, pos : Nat]
Item  == [ver : Nat, ops : SUBSET Target, trim : BOOLEAN]
InfoContent == [valid : BOOLEAN, start : 0..(Capacity - 1), seq : Nat]
RingContent == [seq : Nat, ver : Nat, ops : SUBSET Target, idx : Int]
Content(b) == IF b = InfoBlock THEN InfoContent ELSE IF b \in Ring THEN RingContent ELSE Int

DiskType(d)  == d = [b \in Block |-> d[b]] /\ \A b \in Block : d[b] \in Content(b)
CacheType(m) == m = [b \in Block |-> m[b]] /\ \A b \in Block : m[b] \subseteq Content(b)
Request == {"flush", "home", "info", "entry", "data"}
CallType == [op : {"none", "data", "meta", "sync", "flush"}, ops : SUBSET Target,
             trim : SUBSET Target, ver : Nat]
WriteRecord == [kind : {"data", "meta"}, ops : SUBSET Target, trim : SUBSET Target]

\* Every variable has the type its C++ member has, and a block of the device
\* only holds, or may come to hold, what is written to blocks of its kind.
TypeOK ==
    /\ DiskType(disk)
    /\ CacheType(maybe)
    /\ superblock \in InfoContent /\ superblock.valid
    /\ next_sequence_number \in Nat
    /\ next_entry_start_block \in 0..(Capacity - 1)
    /\ pending_work_items \in Seq(Item)
    /\ pending_flush \in BOOLEAN
    /\ live_metadata_operations \subseteq Target
    /\ writeback_enabled \in BOOLEAN
    /\ pc \in Request \cup {"idle", "down", "parse", "replay_home", "replay_flush",
                            "replay_info", "replayed", "failed", "corrupt"}
    /\ replay = [start |-> replay.start, seq |-> replay.seq, operations |-> replay.operations]
    /\ replay.start \in 0..(Capacity - 1) /\ replay.seq \in Nat
    /\ DOMAIN replay.operations \subseteq Target
    /\ replay.operations \in [DOMAIN replay.operations -> Nat]
    /\ call \in CallType
    /\ reserved \subseteq Target
    /\ hist \in Seq(WriteRecord)
    /\ log \subseteq Entry
    /\ head \in Nat /\ tail \in Nat
    /\ committed \subseteq Nat /\ completed \subseteq Nat
    /\ assert_ok \in BOOLEAN
    /\ crashes \in Nat /\ restarts \in Nat

\* The newest transaction before sequence number n that wrote block b, or 0.
LatestMetadata(b, n) == Max({0} \cup {e.ver : e \in {f \in log : f.seq < n /\ b \in f.ops}})

\* Block b shows what it must when the transactions before n took place: the
\* newest of them that wrote it, or a later data write, or a later trim of one
\* of them.  Data is written in place, so a power failure may tear it.
ShowsPrefix(b, n) ==
    LET m == LatestMetadata(b, n)
    IN  \/ disk[b] = m
        \/ \E v \in (m + 1)..Len(hist) :
              /\ disk[b] \in {v, Torn}
              /\ \/ hist[v].kind = "data" /\ b \in hist[v].ops
                 \/ b \in hist[v].trim /\ \E e \in log : e.ver = v /\ e.seq < n

\* ReplayJournal leaves the filesystem "in a consistent state": the device
\* shows the effect of some first n transactions and of no other, whole ones.
RecoveryIsAtomic ==
    pc = "replayed" => \E n \in {0} \cup {e.seq + 1 : e \in log} :
                          \A b \in Target : ShowsPrefix(b, n)

\* A transaction whose commit_callback ran is never lost: Transaction says its
\* metadata "has been written and *flushed* to the journal".
CommittedSurvives ==
    pc = "replayed" => \A v \in committed : \A b \in hist[v].ops :
                          disk[b] >= v \/ (disk[b] = Torn /\ ShowsPrefix(b, superblock.seq))

\* Replay finds something to restore the info block from: a power failure in
\* the middle of an info block write never makes the volume unmountable.
AlwaysMountable == pc # "corrupt"

\* Replay never puts an older content over a newer one, in particular not the
\* metadata a block held before it was reused for data (WriteData, which
\* updates the info block first).
ReplayNeverRollsBack ==
    [][pc = "replay_home" /\ pc' = "replay_flush" => \A b \in Target : disk'[b] >= disk[b]]_vars

\* While mounted, no write in place hides a later one: metadata, trims and data
\* reach a block in the order in which they were submitted.
WritesInPlaceAreOrdered ==
    [][Mounted => \A b \in Target : Mounted' => disk'[b] >= disk[b]]_vars

\* commit_callbacks run in the order of the sequence numbers.
CommitsInOrder ==
    \A e, f \in log : e.seq < f.seq /\ f.ver \in committed => e.ver \in committed

\* Reads after the complete_callback see the transaction, or a later write (of
\* which a power failure may have left a torn block, if it was data).
CompletedIsVisible ==
    Mounted => \A e \in log : e.ver \in completed =>
        \A b \in e.ops : disk[b] = Torn \/ disk[b] >= e.ver

Readable(e) ==
    \A i \in 0..(EntryLength(e.ops) - 1) : disk[RingBlock(e.pos + i)] = EntryBlock(e, i)
Durable(e) ==
    \A i \in 0..(EntryLength(e.ops) - 1) : maybe[RingBlock(e.pos + i)] = {EntryBlock(e, i)}

\* The journal does not "eat its own head": from its commit_callback until the
\* info block has moved past it, all blocks of an entry are durable in the ring
\* (WriteInfoBlockIfIntersect).
CommittedEntriesIntact ==
    Mounted => \A e \in log : e.ver \in committed /\ e.seq >= superblock.seq =>
        Durable(e)

\* The assertions of WriteInfoBlock: its update always moves the sequence
\* number, and the start stays inside the ring.
InfoBlockAdvances == assert_ok

\* The same, as long as no request has failed.
InfoBlockAdvancesWhileEnabled == writeback_enabled => assert_ok

-----------------------------------------------------------------------------
(* The inductive invariant behind CommittedEntriesIntact and               *)
(* InfoBlockAdvancesWhileEnabled.                                          *)

\* Entries the info block has not moved past.
Live(e) == e.seq >= superblock.seq

\* The ring positions are the unwrapped ones modulo the capacity, the live
\* entries span at most one turn, and "full" and "empty" are told apart by the
\* sequence number.
RingInv ==
    Mounted =>
        /\ head <= tail /\ tail <= head + Capacity
        /\ superblock.start = head % Capacity
        /\ next_entry_start_block = tail % Capacity
        /\ superblock.seq <= next_sequence_number
        /\ (next_sequence_number = superblock.seq) <=> (tail = head)

\* Live entries lie between head and tail, one after the other.
LogInv ==
    Mounted =>
        /\ \A e \in log : e.seq < next_sequence_number
        /\ \A e \in log : Live(e) => head <= e.pos /\ e.pos + EntryLength(e.ops) <= tail
        /\ \A e, f \in log : Live(e) /\ Live(f) /\ e # f =>
              \/ e.pos + EntryLength(e.ops) <= f.pos
              \/ f.pos + EntryLength(f.ops) <= e.pos

\* Version numbers are handed out in order.
VersionInv ==
    /\ \A v \in committed : v <= Len(hist)
    /\ \A e \in log : e.ver <= Len(hist)
    /\ \A i \in DOMAIN pending_work_items : pending_work_items[i].ver <= Len(hist)
    /\ call.op \in {"meta", "data"} =>
          /\ call.ver = Len(hist)
          /\ \A v \in committed : v < call.ver
          /\ \A i \in DOMAIN pending_work_items : pending_work_items[i].ver < call.ver

\* What is known of the call while one of its requests is outstanding.
CallInv ==
    /\ IF pc \in Request THEN writeback_enabled ELSE call.op = "none"
    /\ pc = "home" => pending_work_items # <<>>
    /\ pc = "info" => call.op \in {"sync", "data", "meta"}
                      /\ next_sequence_number = superblock.seq
    /\ pc = "data" => call.op = "data"
    /\ pc = "entry" => call.op = "meta" /\ CurrentEntry \in log /\ Live(CurrentEntry)
    /\ pc \in {"flush", "home"} /\ call.op # "flush" =>
          call.op \in {"sync", "data", "meta"} /\ next_sequence_number > superblock.seq
    /\ call.op = "meta" => call.ops \in MetaOps

\* As long as a block is live there is an entry to move the info block past.
LiveInv ==
    writeback_enabled /\ pc # "info" /\ live_metadata_operations # {} =>
        Mounted /\ next_sequence_number > superblock.seq

\* Live entries can be read back from the ring once they are written, and are
\* durable when the loop of Flush runs.
EntriesInv ==
    Mounted =>
        /\ writeback_enabled => \A e \in log :
              Live(e) /\ ~(pc = "entry" /\ e = CurrentEntry) => Readable(e)
        /\ pc = "home" => \A e \in log : Live(e) => Durable(e)

\* The inductive invariant: everything the writer relies on from one device
\* request to the next so that committed entries stay in the ring and
\* WriteInfoBlock always has an update to write.
JournalInv ==
    /\ TypeOK
    /\ RingInv
    /\ LogInv
    /\ VersionInv
    /\ CallInv
    /\ LiveInv
    /\ EntriesInv
    /\ CommittedEntriesIntact
    /\ InfoBlockAdvancesWhileEnabled

=============================================================================
