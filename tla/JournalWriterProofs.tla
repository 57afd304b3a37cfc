----------------------- MODULE JournalWriterProofs -----------------------
(***************************************************************************)
(* The steps of JournalWriter preserve the order of the versions and the   *)
(* entries in the ring; with JournalWriterRing, JournalInv is an inductive *)
(* invariant of JournalWriter, for every ring size, every set of blocks    *)
(* and transactions, every device (WriteThrough) and any number of power   *)
(* failures and restarts.  On it rests the proof that a volume can always  *)
(* be mounted again (AlwaysMountable), if the info block is written        *)
(* through.                                                                *)
(***************************************************************************)
EXTENDS JournalWriterRing

-----------------------------------------------------------------------------
(* Versions.                                                               *)

\* The items of a queue after more have been put at its end.
LEMMA Concatenation ==
    ASSUME NEW s \in Seq(Item), NEW t \in Seq(Item)
    PROVE  \A i \in DOMAIN (s \o t) : \/ \E j \in DOMAIN s : (s \o t)[i] = s[j]
                                      \/ \E j \in DOMAIN t : (s \o t)[i] = t[j]
<1> SUFFICES ASSUME NEW i \in DOMAIN (s \o t)
             PROVE  \/ \E j \in DOMAIN s : (s \o t)[i] = s[j]
                    \/ \E j \in DOMAIN t : (s \o t)[i] = t[j]
  BY Zenon
<1>1. CASE i <= Len(s)
  BY <1>1
<1>2. CASE i > Len(s)
  <2>1. i - Len(s) \in DOMAIN t /\ (s \o t)[i] = t[i - Len(s)]
    BY <1>2
  <2> QED BY <2>1, Zenon
<1> QED BY <1>1, <1>2

\* What WriteMetadata queues are work items with the number of the call.
LEMMA NewItems ==
    ASSUME TypeOK
    PROVE  LET trims == IF call.trim = {} THEN <<>>
                        ELSE <<[ver |-> call.ver, ops |-> call.trim, trim |-> TRUE]>>
               work == <<[ver |-> call.ver, ops |-> call.ops, trim |-> FALSE]>>
           IN  /\ \A i \in DOMAIN trims : trims[i].ver = call.ver
               /\ \A i \in DOMAIN work : work[i].ver = call.ver
               /\ trims \in Seq(Item) /\ work \in Seq(Item)
<1> DEFINE t == [ver |-> call.ver, ops |-> call.trim, trim |-> TRUE]
           w == [ver |-> call.ver, ops |-> call.ops, trim |-> FALSE]
<1>1. t \in Item /\ w \in Item /\ t.ver = call.ver /\ w.ver = call.ver
  BY Zenon DEF TypeOK, CallType, Item
<1> HIDE DEF t, w
<1>2. \A x \in Item : <<x>> \in Seq(Item) /\ DOMAIN <<x>> = {1} /\ <<x>>[1] = x
  OBVIOUS
<1>3. <<>> \in Seq(Item) /\ DOMAIN <<>> = {}
  OBVIOUS
<1>4. /\ <<t>> \in Seq(Item) /\ \A i \in DOMAIN <<t>> : <<t>>[i].ver = call.ver
      /\ <<w>> \in Seq(Item) /\ \A i \in DOMAIN <<w>> : <<w>>[i].ver = call.ver
  BY <1>1, <1>2, Zenon
<1>5. CASE call.trim = {}
  BY <1>3, <1>4, <1>5, Zenon DEF t, w
<1>6. CASE call.trim # {}
  BY <1>4, <1>6, Zenon DEF t, w
<1> QED BY <1>5, <1>6, Zenon

\* A call that starts or goes on keeps the order of the versions.
LEMMA VersionStep ==
    ASSUME JournalInv, [Next]_vars PROVE VersionInv'
<1>1. /\ TypeOK /\ CallInv /\ VersionInv
  BY Zenon DEF JournalInv
<1>2. /\ Len(hist) \in Nat /\ committed \subseteq Nat
      /\ \A e \in log : e.ver \in Nat
      /\ \A i \in DOMAIN pending_work_items : pending_work_items[i].ver \in Nat
      /\ call.ver \in Nat
  <2>1. Len(hist) \in Nat /\ committed \subseteq Nat /\ call.ver \in Nat
    BY <1>1, SMTT(60) DEF TypeOK, CallType
  <2>2. \A e \in log : e.ver \in Nat
    BY <1>1, Zenon DEF TypeOK, Entry
  <2>3. \A i \in DOMAIN pending_work_items : pending_work_items[i] \in Item
    BY <1>1 DEF TypeOK
  <2> QED BY <2>1, <2>2, <2>3, Zenon DEF Item
<1>3. CASE UNCHANGED vars
  BY <1>1, <1>3, SMTT(60) DEF vars, VersionInv
<1>4. ASSUME NEW c, c.op \in {"data", "meta"}, c.ver = Len(hist'),
             Len(hist') = Len(hist) + 1, UNCHANGED committed,
             pending_work_items' \in {pending_work_items, <<>>},
             call' \in {c, NoCall}, \A e \in log' : e \in log \/ e.ver = c.ver
      PROVE  VersionInv'
  <2>1. /\ \A v \in committed' : v < Len(hist')
        /\ \A i \in DOMAIN pending_work_items' : pending_work_items'[i].ver < Len(hist')
    BY <1>1, <1>2, <1>4 DEF VersionInv
  <2>2. \A e \in log' : e.ver <= Len(hist')
    BY <1>1, <1>2, <1>4 DEF VersionInv
  <2> QED BY <1>1, <1>2, <1>4, <2>1, <2>2 DEF VersionInv, NoCall
<1>5. ASSUME UNCHANGED hist,
             \A v \in committed' : \/ v \in committed
                                   \/ \E i \in DOMAIN pending_work_items :
                                         v = pending_work_items[i].ver,
             \A i \in DOMAIN pending_work_items' : \E j \in DOMAIN pending_work_items :
                 pending_work_items'[i].ver = pending_work_items[j].ver,
             \A e \in log' : e \in log \/ (call.op = "meta" /\ e.ver = call.ver),
             call' = call \/ call'.op \in {"none", "sync", "flush"}
      PROVE  VersionInv'
  <2>1. /\ \A v \in committed' : v <= Len(hist)
        /\ \A i \in DOMAIN pending_work_items' : pending_work_items'[i].ver <= Len(hist)
        /\ \A e \in log' : e.ver <= Len(hist)
    <3>1. \A i \in DOMAIN pending_work_items : pending_work_items[i].ver <= Len(hist)
      BY <1>1, Zenon DEF VersionInv
    <3>2. \A v \in committed' : v <= Len(hist)
      BY <1>1, <1>5, <3>1, Zenon DEF VersionInv
    <3>3. \A i \in DOMAIN pending_work_items' : pending_work_items'[i].ver <= Len(hist)
      BY <1>5, <3>1, Zenon
    <3>4. \A e \in log' : e.ver <= Len(hist)
      BY <1>1, <1>2, <1>5 DEF VersionInv
    <3> QED BY <3>2, <3>3, <3>4, Zenon
  <2>2. ASSUME call'.op \in {"meta", "data"}
        PROVE  /\ call'.ver = Len(hist)
               /\ \A v \in committed' : v < call'.ver
               /\ \A i \in DOMAIN pending_work_items' : pending_work_items'[i].ver < call'.ver
    BY <1>1, <1>2, <1>5, <2>2, Zenon DEF VersionInv
  <2> QED BY <1>5, <2>1, <2>2, Zenon DEF VersionInv
<1>6. ASSUME NEW c, WriteInfoBlock(c)
      PROVE  /\ call' \in {c, NoCall} /\ UNCHANGED log
             /\ pending_work_items' \in {pending_work_items, <<>>}
  <2>1. CASE pending_work_items = <<>> /\ ~pending_flush
    BY <1>6, <2>1, Zenon DEF WriteInfoBlock, SendInfo, Send, Return, queue, cursor
  <2>2. CASE ~(pending_work_items = <<>> /\ ~pending_flush)
    BY <1>6, <2>2, Zenon DEF WriteInfoBlock, Send, Return, queue, cursor
  <2> QED BY <2>1, <2>2, Zenon
<1>7. ASSUME NEW op \in {"data", "meta"}, NEW ops, NEW trim, Submit(op, ops, trim)
      PROVE  /\ Call(op, ops, trim).op = op /\ Call(op, ops, trim).ver = Len(hist')
             /\ Len(hist') = Len(hist) + 1
  BY <1>1, <1>7 DEF Submit, Call, TypeOK
<1>8. ASSUME NEW ops \in DataOps, WriteData(ops) PROVE VersionInv'
  <2> DEFINE c == Call("data", ops, {})
  <2>1. /\ c.op = "data" /\ c.ver = Len(hist') /\ Len(hist') = Len(hist) + 1
        /\ UNCHANGED committed
    BY <1>7, <1>8, Zenon DEF WriteData, acks
  <2>2. /\ call' \in {c, NoCall} /\ UNCHANGED log
        /\ pending_work_items' \in {pending_work_items, <<>>}
    <3>1. WriteInfoBlock(c) \/ (SendData(c, maybe) /\ UNCHANGED queue)
      BY <1>8, Zenon DEF WriteData
    <3> HIDE DEF c
    <3> QED BY <1>6, <3>1, Zenon DEF SendData, Send, Return, cursor, queue
  <2> HIDE DEF c
  <2> QED BY <1>4, <2>1, <2>2
<1>9. ASSUME NEW ops \in MetaOps, NEW trim \in TrimOps, WriteMetadata(ops, trim)
      PROVE  VersionInv'
  <2> DEFINE c == Call("meta", ops, trim)
  <2>1. /\ c.op = "meta" /\ c.ver = Len(hist') /\ Len(hist') = Len(hist) + 1
        /\ UNCHANGED committed
    BY <1>7, <1>9, Zenon DEF WriteMetadata
  <2>2. \/ WriteInfoBlock(c)
        \/ SendEntry(c, maybe, live_metadata_operations) /\ UNCHANGED queue
    BY <1>9, Zenon DEF WriteMetadata
  <2> HIDE DEF c
  <2>3. /\ call' \in {c, NoCall}
        /\ pending_work_items' \in {pending_work_items, <<>>}
        /\ \A e \in log' : e \in log \/ e.ver = c.ver
    BY <1>6, <2>2 DEF SendEntry, Send, Return, queue
  <2> QED BY <1>4, <2>1, <2>3
<1>10. CASE Sync
  <2>1. WriteInfoBlock([NoCall EXCEPT !.op = "sync"]) /\ UNCHANGED <<hist, committed>>
    BY <1>10, Zenon DEF Sync, acks
  <2>2. call'.op \in {"none", "sync"} /\ UNCHANGED log
        /\ pending_work_items' \in {pending_work_items, <<>>}
    BY <1>6, <2>1 DEF NoCall
  <2> QED BY <1>5, <2>1, <2>2
<1>11. CASE Flush
  <2>1. /\ UNCHANGED <<hist, committed, log>>
        /\ call'.op \in {"none", "flush"}
        /\ pending_work_items' \in {pending_work_items, <<>>}
    BY <1>11 DEF Flush, Send, Return, NoCall, acks, cursor, queue
  <2> QED BY <1>5, <2>1
<1>12. CASE FlushDone
  <2>1. UNCHANGED <<hist, pending_work_items, log>> /\ call' \in {call, NoCall}
    BY <1>12, Zenon DEF FlushDone, SendHome, SendInfo, Send, Return, cursor
  <2>2. \/ UNCHANGED committed
        \/ /\ pending_work_items # <<>>
           /\ committed' \in {committed, committed \cup {Head(pending_work_items).ver}}
    BY <1>12, Zenon DEF FlushDone, SendHome, acks
  <2>3. pending_work_items # <<>> => /\ 1 \in DOMAIN pending_work_items
                                     /\ Head(pending_work_items) = pending_work_items[1]
    BY <1>1 DEF TypeOK
  <2> QED BY <1>5, <2>1, <2>2, <2>3, SMTT(60) DEF NoCall
<1>13. CASE HomeDone
  <2> DEFINE rest == Tail(pending_work_items)
  <2>1. /\ UNCHANGED <<hist, log>> /\ call' \in {call, NoCall}
        /\ pending_work_items' = rest /\ pc = "home"
    BY <1>13, Zenon DEF HomeDone, SendHome, Send, Return, cursor
  <2>2. \/ UNCHANGED committed
        \/ rest # <<>> /\ committed' \in {committed, committed \cup {Head(rest).ver}}
    BY <1>13, Zenon DEF HomeDone, SendHome
  <2>3. pending_work_items \in Seq(Item) /\ pending_work_items # <<>>
    BY <1>1, <2>1, Zenon DEF TypeOK, CallInv
  <2>4. /\ rest \in Seq(Item)
        /\ \A i \in DOMAIN rest : /\ i + 1 \in DOMAIN pending_work_items
                                  /\ rest[i] = pending_work_items[i + 1]
    BY <2>3
  <2>5. rest # <<>> => 1 \in DOMAIN rest /\ Head(rest) = rest[1]
    <3> HIDE DEF rest
    <3> QED BY <2>4
  <2> HIDE DEF rest
  <2>6. \A i \in DOMAIN rest : \E j \in DOMAIN pending_work_items :
                 rest[i].ver = pending_work_items[j].ver
    BY <2>4, Zenon
  <2> QED BY <1>5, <2>1, <2>2, <2>5, <2>6 DEF NoCall
<1>14. CASE InfoDone
  <2>1. /\ UNCHANGED <<hist, committed, pending_work_items>> /\ call' \in {call, NoCall}
        /\ \A e \in log' : e \in log \/ (call.op = "meta" /\ e.ver = call.ver)
    <3>1. UNCHANGED <<hist, committed, pending_work_items>>
      BY <1>14, Zenon DEF InfoDone, queue, acks
    <3>2. CASE \E m : Return(m) /\ UNCHANGED cursor
      BY <3>1, <3>2, Zenon DEF Return, cursor
    <3>3. CASE \E m : SendData(call, m)
      BY <3>1, <3>3, Zenon DEF SendData, Send, Return, cursor
    <3>4. CASE call.op = "meta" /\ \E m : SendEntry(call, m, {})
      BY <3>1, <3>4, SMTT(60) DEF SendEntry, Send, Return
    <3> QED BY <1>14, <3>2, <3>3, <3>4, Zenon DEF InfoDone
  <2> QED BY <1>5, <2>1, SMTT(60) DEF NoCall
<1>15. CASE EntryDone
  <2> DEFINE trims == IF call.trim = {} THEN <<>>
                      ELSE <<[ver |-> call.ver, ops |-> call.trim, trim |-> TRUE]>>
             work == <<[ver |-> call.ver, ops |-> call.ops, trim |-> FALSE]>>
  <2>1. /\ UNCHANGED <<hist, committed, log>> /\ call' = NoCall
        /\ pending_work_items' = pending_work_items \o trims \o work
        /\ call.op = "meta"
    BY <1>1, <1>15, SMTT(60) DEF EntryDone, Return, cursor, acks, CallInv
  <2>2. /\ \A i \in DOMAIN trims : trims[i].ver = call.ver
        /\ \A i \in DOMAIN work : work[i].ver = call.ver
        /\ trims \in Seq(Item) /\ work \in Seq(Item) /\ pending_work_items \in Seq(Item)
    BY <1>1, NewItems, Zenon DEF TypeOK
  <2> HIDE DEF trims, work
  <2>3. \A i \in DOMAIN pending_work_items' :
           \/ \E j \in DOMAIN pending_work_items : pending_work_items'[i] = pending_work_items[j]
           \/ \E j \in DOMAIN trims : pending_work_items'[i] = trims[j]
           \/ \E j \in DOMAIN work : pending_work_items'[i] = work[j]
    <3> DEFINE q == pending_work_items \o trims
    <3>1. q \in Seq(Item) /\ pending_work_items' = q \o work
      BY <2>1, <2>2
    <3>2. \A i \in DOMAIN q : \/ \E j \in DOMAIN pending_work_items : q[i] = pending_work_items[j]
                              \/ \E j \in DOMAIN trims : q[i] = trims[j]
      BY <2>2, Concatenation, Zenon
    <3> HIDE DEF q
    <3>3. \A i \in DOMAIN (q \o work) : \/ \E j \in DOMAIN q : (q \o work)[i] = q[j]
                                        \/ \E j \in DOMAIN work : (q \o work)[i] = work[j]
      BY <2>2, <3>1, Concatenation, Zenon
    <3> TAKE i \in DOMAIN pending_work_items'
    <3>4. \/ \E j \in DOMAIN q : pending_work_items'[i] = q[j]
          \/ \E j \in DOMAIN work : pending_work_items'[i] = work[j]
      BY <3>1, <3>3, Zenon
    <3>5. ASSUME NEW j \in DOMAIN q, pending_work_items'[i] = q[j]
          PROVE  \/ \E k \in DOMAIN pending_work_items :
                       pending_work_items'[i] = pending_work_items[k]
                 \/ \E k \in DOMAIN trims : pending_work_items'[i] = trims[k]
      BY <3>2, <3>5, Zenon
    <3> QED BY <3>4, <3>5, Zenon
  <2>4. \A i \in DOMAIN pending_work_items' : pending_work_items'[i].ver <= Len(hist)
    BY <1>1, <1>2, <2>1, <2>2, <2>3, SMTT(60) DEF VersionInv
  <2> QED BY <1>1, <2>1, <2>4, Zenon DEF VersionInv, NoCall
<1>16. CASE DataDone \/ RequestFails
  <2>1. /\ UNCHANGED <<hist, committed, log>> /\ call' = NoCall
        /\ pending_work_items' \in {pending_work_items, <<>>}
    BY <1>16, Zenon DEF DataDone, RequestFails, Return, queue, acks, cursor
  <2> QED BY <1>5, <2>1 DEF NoCall
<1>17. CASE Crash \/ Restart
  <2>1. /\ UNCHANGED <<hist, committed, log>> /\ call' = NoCall
        /\ pending_work_items' = <<>>
    BY <1>17, Zenon DEF Crash, Restart, Forget, cursor
  <2> QED BY <1>5, <2>1 DEF NoCall
<1>18. CASE Replay \/ ParseEntry \/ ParseDone \/ ReplayHomeDone \/ ReplayFlushDone
            \/ ReplayInfoDone \/ ReplayFails
  <2>1. /\ UNCHANGED <<hist, committed, call, pending_work_items>> /\ log' \subseteq log
    BY <1>18, Zenon DEF Replay, ParseEntry, ParseDone, ReplayHomeDone, ReplayFlushDone,
                 ReplayInfoDone, ReplayFails, queue, cursor, acks
  <2> QED BY <1>5, <2>1, SMTT(60)
<1>19. CASE Mount
  <2>1. /\ UNCHANGED <<hist, call, pending_work_items>> /\ log' \subseteq log
        /\ committed' = committed \cup {e.ver : e \in log'}
        /\ pc \notin Request
    BY <1>19, Zenon DEF Mount, queue, Request
  <2>2. call.op = "none"
    BY <1>1, <2>1, Zenon DEF CallInv
  <2> QED BY <1>1, <2>1, <2>2, Zenon DEF VersionInv
<1> QED BY <1>3, <1>8, <1>9, <1>10, <1>11, <1>12, <1>13, <1>14, <1>15, <1>16, <1>17, <1>18,
           <1>19, Zenon DEF Next

-----------------------------------------------------------------------------
(* Entries stay in the ring.                                               *)

\* A write in place, of data or of the info block touches no block of the ring.
OffRing(w) == DOMAIN w \cap Ring = {}

\* A write that covers no ring block leaves the contents of the ring alone.
LEMMA OffRingWrites ==
    ASSUME NEW w, OffRing(w), NEW b \in Ring
    PROVE  /\ \A m : Issued(m, w)[b] = m[b]
           /\ Written(w)[b] = disk[b]
           /\ \A class : CacheType(maybe) => Settled(class, w)[b] = maybe[b]
  BY Blocks, Zenon DEF OffRing, Issued, Written, Settled

\* Writes in place and info block writes cover no ring block.
LEMMA OffRingRequests ==
    /\ \A item : item.ops \subseteq Target => OffRing(HomeWrite(item))
    /\ OffRing(InfoWrite)
  BY Blocks, Zenon DEF OffRing, HomeWrite, InfoWrite

\* The blocks of an entry are ring blocks.
LEMMA EntryInRing ==
    ASSUME NEW e \in Entry, NEW i \in 0..(EntryLength(e.ops) - 1)
    PROVE  RingBlock(e.pos + i) \in Ring
<1>1. e.pos + i \in Nat
  BY EntryLengths DEF Entry
<1> QED BY <1>1, Blocks, Zenon

\* A step that leaves the ring alone and commits nothing.
RingKept ==
    /\ \A b \in Ring : disk'[b] = disk[b]
    /\ \A b \in Ring : maybe'[b] = maybe[b]

\* Entries whose blocks and cache are unchanged stay as readable as they were.
LEMMA KeptEntries ==
    ASSUME NEW e \in Entry, RingKept
    PROVE  (Readable(e) => Readable(e)') /\ (Durable(e) => Durable(e)')
  BY EntryInRing, Zenon DEF RingKept, Readable, Durable

\* A step that leaves the ring and the log alone keeps EntriesInv.
LEMMA KeptStep ==
    ASSUME JournalInv, Mounted, Stay, RingKept, committed' = committed,
           pc \notin {"entry"}, pc' \notin {"home"}, writeback_enabled' => writeback_enabled
    PROVE  EntriesInv' /\ CommittedEntriesIntact'
<1>1. log \subseteq Entry /\ log' = log /\ superblock' = superblock
  BY Zenon DEF JournalInv, TypeOK, Stay, cursor
<1>2. EntriesInv /\ CommittedEntriesIntact
  BY Zenon DEF JournalInv
<1>3. \A e \in log : (Readable(e) => Readable(e)') /\ (Durable(e) => Durable(e)')
  BY <1>1, KeptEntries, Zenon
<1>4. \A e \in log : Live(e)' <=> Live(e)
  BY <1>1, Zenon DEF Live
<1>5. EntriesInv'
  BY <1>1, <1>2, <1>3, <1>4, Zenon DEF EntriesInv
<1>6. CommittedEntriesIntact'
  BY <1>1, <1>2, <1>3, Zenon DEF CommittedEntriesIntact
<1> QED BY <1>5, <1>6, Zenon

\* Once the info block has moved past all entries, none is at stake.
LEMMA NoneLiveStep ==
    ASSUME \A e \in log' : ~Live(e)' PROVE EntriesInv' /\ CommittedEntriesIntact'
  BY Zenon DEF EntriesInv, CommittedEntriesIntact, Live

\* Moving the info block past all entries, or mounting, leaves no entry to keep.
LEMMA AdvanceEntries ==
    ASSUME JournalInv, (Mounted /\ Advance) \/ Mount
    PROVE  EntriesInv' /\ CommittedEntriesIntact'
<1>1. log \subseteq Entry /\ superblock \in InfoContent /\ next_sequence_number \in Nat
  BY Zenon DEF JournalInv, TypeOK
<1>2. CASE Mounted /\ Advance
  <2>1. log' = log /\ superblock'.seq = next_sequence_number
    BY <1>2, Zenon DEF Advance, cursor, Info
  <2>2. \A e \in log : e.seq < next_sequence_number
    BY <1>2, Zenon DEF JournalInv, LogInv
  <2>3. \A e \in log' : ~Live(e)'
    BY <1>1, <2>1, <2>2 DEF Live, Entry
  <2> QED BY <2>3, NoneLiveStep, Zenon
<1>3. CASE Mount
  <2>1. \A e \in log' : ~Live(e)'
    BY <1>1, <1>3 DEF Mount, Live, Entry, InfoContent
  <2> QED BY <2>1, NoneLiveStep, Zenon
<1> QED BY <1>2, <1>3, Zenon

\* An entry for which there is room overwrites no live one, and is not yet
\* committed.
LEMMA GrowEntries ==
    ASSUME JournalInv, pc \in {"idle", "info"}, NEW c \in CallType, NEW m, NEW live,
           SendEntry(c, m, live), Grow(c), c.ver \notin committed,
           UNCHANGED <<writeback_enabled, committed>>,
           \A b \in Ring : disk'[b] = disk[b] /\ m[b] = maybe[b]
    PROVE  EntriesInv' /\ CommittedEntriesIntact'
<1> DEFINE new == NewEntry(c)
<1>1. /\ log \subseteq Entry /\ head \in Nat /\ tail \in Nat /\ superblock' = superblock
      /\ EntriesInv /\ CommittedEntriesIntact /\ Mounted
  BY Zenon DEF JournalInv, TypeOK, Grow, Mounted
<1>2. /\ \A e \in log : e.seq < next_sequence_number
      /\ \A e \in log : Live(e) => head <= e.pos /\ e.pos + EntryLength(e.ops) <= tail
      /\ head <= tail
  BY <1>1, Zenon DEF JournalInv, LogInv, RingInv
<1>3. \A e : Live(e)' <=> Live(e)
  BY <1>1, Zenon DEF Live
<1>4. \A e \in log : Readable(e) => Readable(e)'
  BY <1>1, EntryInRing, Zenon DEF Readable
<1>5. CASE writeback_enabled
  <2>1. /\ pc' = "entry" /\ log' = log \cup {new} /\ call' = c
        /\ maybe' = Issued(m, EntryWrite(new))
    BY <1>5, Zenon DEF SendEntry, Send, NewEntry
  <2>2. new \in Entry
    BY SMTT(60) DEF NewEntry, Entry, Grow, JournalInv, TypeOK, CallType
  <2>3. EntryLength(c.ops) \in 3..Capacity /\ tail + EntryLength(c.ops) <= head + Capacity
    BY EntryLengths, Zenon DEF Grow
  <2>4. CurrentEntry' = new
    BY <1>1, <2>1, <2>3, SMTT(60) DEF CurrentEntry, NewEntry, Grow, JournalInv, TypeOK
  <2>5. ASSUME NEW e \in log, Live(e), Durable(e) PROVE Durable(e)'
    <3>1. /\ e \in Entry /\ e.pos \in Nat /\ EntryLength(e.ops) \in Nat
          /\ new.pos = tail /\ new.ops = c.ops
      BY <1>1, EntryLengths, Zenon DEF Entry, NewEntry
    <3> HIDE DEF new
    <3>2. ASSUME NEW i \in 0..(EntryLength(e.ops) - 1)
          PROVE  maybe'[RingBlock(e.pos + i)] = maybe[RingBlock(e.pos + i)]
      <4>1. RingBlock(e.pos + i) \in Ring
        BY <3>1, EntryInRing, Zenon
      <4>2. RingBlock(e.pos + i) \notin DOMAIN EntryWrite(new)
        <5>1. /\ head <= new.pos /\ new.pos + EntryLength(new.ops) <= head + Capacity
              /\ head <= e.pos /\ e.pos + EntryLength(e.ops) <= head + Capacity
              /\ e.pos + EntryLength(e.ops) <= new.pos
          BY <1>1, <1>2, <2>3, <2>5, <3>1, CapacityAssumption, SMTT(60)
        <5> QED BY <1>1, <2>2, <3>1, <5>1, EntriesDisjoint, Zenon
      <4> QED BY <2>1, <4>1, <4>2, Blocks, Zenon DEF Issued
    <3> QED BY <2>5, <3>2, Zenon DEF Durable
  <2>6. EntriesInv'
    BY <1>1, <1>3, <1>4, <1>5, <2>1, <2>4, Zenon DEF EntriesInv
  <2>7. CommittedEntriesIntact'
    <3>1. new.ver \notin committed'
      BY Zenon DEF NewEntry
    <3> HIDE DEF new
    <3>2. ASSUME NEW e \in log', e.ver \in committed', e.seq >= superblock'.seq
          PROVE  Durable(e)'
      <4>1. e \in log /\ Live(e) /\ e.ver \in committed
        BY <1>1, <2>1, <3>1, <3>2, Zenon DEF Live
      <4>2. Durable(e)
        BY <1>1, <4>1, Zenon DEF CommittedEntriesIntact, Live
      <4> QED BY <2>5, <4>1, <4>2, Zenon
    <3> QED BY <3>2, Zenon DEF CommittedEntriesIntact
  <2> QED BY <2>6, <2>7, Zenon
<1>6. CASE ~writeback_enabled
  <2>1. /\ pc' = "idle" /\ log' = log /\ maybe' = m
    BY <1>6, SMTT(60) DEF SendEntry, Return
  <2>2. EntriesInv'
    BY <1>6, <2>1, Zenon DEF EntriesInv
  <2>3. \A e \in log : Durable(e) => Durable(e)'
    BY <1>1, <2>1, EntryInRing, Zenon DEF Durable
  <2> QED BY <1>1, <2>1, <2>2, <2>3, Zenon DEF CommittedEntriesIntact
<1> QED BY <1>5, <1>6, Zenon

\* The flush at the head of the loop makes every entry durable before the first
\* commit_callback.
LEMMA FlushEntries ==
    ASSUME JournalInv, FlushDone PROVE EntriesInv' /\ CommittedEntriesIntact'
<1>1. /\ pc = "flush" /\ UNCHANGED <<disk, writeback_enabled>> /\ writeback_enabled
      /\ Mounted /\ log \subseteq Entry /\ EntriesInv
  BY Zenon DEF FlushDone, JournalInv, CallInv, Request, Mounted, TypeOK
<1>2. CASE SendInfo(call, Flushed)
  BY <1>1, <1>2, AdvanceEntries, Zenon DEF SendInfo, Advance
<1>3. CASE ~SendInfo(call, Flushed)
  <2>1. /\ UNCHANGED <<cursor, info>> /\ pc' \in {"home", "idle"}
        /\ \/ maybe' = Flushed
           \/ /\ pending_work_items # <<>>
              /\ maybe' = Issued(Flushed, HomeWrite(Head(pending_work_items)))
    BY <1>3, Zenon DEF FlushDone, SendHome, Send, Return
  <2>2. log' = log /\ superblock' = superblock
    BY <2>1, Zenon DEF cursor, info
  <2>3. pending_work_items # <<>> => OffRing(HomeWrite(Head(pending_work_items)))
    <3>1. pending_work_items # <<>> => Head(pending_work_items) \in Item
      BY SMTT(60) DEF JournalInv, TypeOK
    <3> QED BY <3>1, OffRingRequests, Zenon DEF Item
  <2>4. \A b \in Ring : maybe'[b] = {disk[b]}
    <3>1. \A b \in Ring : Flushed[b] = {disk[b]}
      BY Blocks, Zenon DEF Flushed
    <3> QED BY <2>1, <2>3, <3>1, OffRingWrites, SMTT(60)
  <2>5. \A e \in log : Live(e) => Readable(e)
    BY <1>1, Zenon DEF EntriesInv
  <2>6. \A e \in log : Readable(e) => Readable(e)' /\ Durable(e)'
    BY <1>1, <2>4, EntryInRing, SMTT(60) DEF Readable, Durable
  <2>7. \A e \in log : Live(e)' <=> Live(e)
    BY <2>2, Zenon DEF Live
  <2>8. EntriesInv'
    BY <2>2, <2>5, <2>6, <2>7, Zenon DEF EntriesInv
  <2>9. CommittedEntriesIntact'
    BY <2>2, <2>5, <2>6, <2>7, Zenon DEF CommittedEntriesIntact, Live
  <2> QED BY <2>8, <2>9, Zenon
<1> QED BY <1>2, <1>3, Zenon

\* While the loop runs every entry stays durable, so it may commit all items.
LEMMA HomeEntries ==
    ASSUME JournalInv, HomeDone PROVE EntriesInv' /\ CommittedEntriesIntact'
<1>1. /\ pc = "home" /\ UNCHANGED writeback_enabled /\ UNCHANGED <<cursor, info>>
      /\ disk' = Written(Outstanding) /\ Mounted /\ log \subseteq Entry /\ EntriesInv
  BY Zenon DEF HomeDone, SendHome, Mounted, JournalInv, TypeOK
<1>2. /\ pending_work_items \in Seq(Item) /\ pending_work_items # <<>>
      /\ Head(pending_work_items) \in Item
  BY <1>1, SMTT(60) DEF JournalInv, TypeOK, CallInv
<1>3. OffRing(Outstanding)
  BY <1>1, <1>2, OffRingRequests, Zenon DEF Outstanding, Item
<1>4. \/ maybe' = maybe
      \/ /\ Tail(pending_work_items) # <<>>
         /\ maybe' = Issued(maybe, HomeWrite(Head(Tail(pending_work_items))))
  BY Zenon DEF HomeDone, SendHome, Send, Return
<1>5. Tail(pending_work_items) # <<>> => OffRing(HomeWrite(Head(Tail(pending_work_items))))
  <2>1. Tail(pending_work_items) # <<>> => Head(Tail(pending_work_items)) \in Item
    BY <1>2
  <2> QED BY <2>1, OffRingRequests, Zenon DEF Item
<1>6. RingKept
  BY <1>1, <1>3, <1>4, <1>5, OffRingWrites, SMTT(60) DEF RingKept
<1>7. log' = log /\ superblock' = superblock
  BY <1>1, Zenon DEF cursor, info
<1>8. \A e \in log : Live(e) => Readable(e) /\ Durable(e)
  BY <1>1, Zenon DEF EntriesInv, JournalInv, CallInv, Request
<1>9. \A e \in log : Live(e) => Readable(e)' /\ Durable(e)'
  BY <1>1, <1>6, <1>8, KeptEntries, SMTT(60)
<1>10. \A e \in log : Live(e)' <=> Live(e)
  BY <1>7, Zenon DEF Live
<1> QED BY <1>7, <1>9, <1>10, Zenon DEF EntriesInv, CommittedEntriesIntact, Live

\* The entry is written to its own blocks; it was not committed before.
LEMMA EntryDoneEntries ==
    ASSUME JournalInv, EntryDone PROVE EntriesInv' /\ CommittedEntriesIntact'
<1>0. PICK cur : cur = CurrentEntry
  BY Zenon
<1>1. /\ pc = "entry" /\ pc' = "idle" /\ UNCHANGED <<cursor, info, committed>>
      /\ disk' = Written(EntryWrite(cur)) /\ maybe' = Settled("entry", EntryWrite(cur))
      /\ UNCHANGED writeback_enabled
  BY <1>0, Zenon DEF EntryDone, Return, acks, Outstanding
<1>2. /\ Mounted /\ log \subseteq Entry /\ EntriesInv /\ CommittedEntriesIntact
      /\ cur \in log /\ Live(cur) /\ cur.ver = call.ver /\ writeback_enabled
      /\ call.op = "meta" /\ head \in Nat /\ tail \in Nat /\ CacheType(maybe)
  <2>1. Mounted /\ log \subseteq Entry /\ EntriesInv /\ CommittedEntriesIntact /\ CacheType(maybe)
    BY <1>1, Zenon DEF Mounted, JournalInv, TypeOK
  <2>2. cur \in log /\ Live(cur) /\ writeback_enabled /\ call.op = "meta" /\ head \in Nat /\ tail \in Nat
    BY <1>0, <1>1, Zenon DEF JournalInv, TypeOK, CallInv, Request
  <2>3. cur.ver = call.ver
    BY <1>0, Zenon DEF CurrentEntry
  <2> QED BY <2>1, <2>2, <2>3, Zenon
<1>3. cur.ver \notin committed
  BY <1>2, SMTT(60) DEF JournalInv, VersionInv, TypeOK, CallType
<1>4. log' = log /\ superblock' = superblock
  BY <1>1, Zenon DEF cursor, info
<1>5. ASSUME NEW e \in log, Live(e), e # cur, NEW i \in 0..(EntryLength(e.ops) - 1)
      PROVE  /\ disk'[RingBlock(e.pos + i)] = disk[RingBlock(e.pos + i)]
             /\ maybe'[RingBlock(e.pos + i)] = maybe[RingBlock(e.pos + i)]
  <2>1. /\ e \in Entry /\ e.pos \in Nat /\ EntryLength(e.ops) \in Nat
        /\ cur \in Entry /\ cur.pos \in Nat /\ EntryLength(cur.ops) \in Nat
    BY <1>2, EntryLengths, Zenon DEF Entry
  <2>2. RingBlock(e.pos + i) \in Ring
    BY <2>1, EntryInRing, Zenon
  <2>3. RingBlock(e.pos + i) \notin DOMAIN EntryWrite(cur)
    <3>1. /\ head <= e.pos /\ e.pos + EntryLength(e.ops) <= tail
          /\ head <= cur.pos /\ cur.pos + EntryLength(cur.ops) <= tail
          /\ \/ e.pos + EntryLength(e.ops) <= cur.pos
             \/ cur.pos + EntryLength(cur.ops) <= e.pos
      BY <1>2, <1>5, Zenon DEF JournalInv, LogInv
    <3>2. tail <= head + Capacity
      BY <1>2, Zenon DEF JournalInv, RingInv
    <3>3. /\ e.pos + EntryLength(e.ops) <= head + Capacity
          /\ cur.pos + EntryLength(cur.ops) <= head + Capacity
      BY <1>2, <2>1, <3>1, <3>2, CapacityAssumption, SMTT(60)
    <3> QED BY <1>2, <2>1, <3>1, <3>3, EntriesDisjoint, SMTT(60)
  <2> QED BY <1>1, <1>2, <2>2, <2>3, Blocks, Zenon DEF Written, Settled
<1>6. Readable(cur)'
  <2>1. cur \in Entry
    BY <1>2, Zenon
  <2>2. ASSUME NEW i \in 0..(EntryLength(cur.ops) - 1)
        PROVE  disk'[RingBlock(cur.pos + i)] = EntryBlock(cur, i)
    BY <1>1, <2>1, EntryInRing, EntryWriteAt, Blocks, SMTT(60) DEF Written
  <2> QED BY <2>2, Zenon DEF Readable
<1>7. \A e \in log : Live(e)' <=> Live(e)
  BY <1>4, Zenon DEF Live
<1>8. EntriesInv'
  <2>1. ASSUME NEW e \in log, Live(e), e # cur PROVE Readable(e)'
    <3>1. Readable(e)
      BY <1>0, <1>2, <2>1, Zenon DEF EntriesInv
    <3> QED BY <1>5, <2>1, <3>1, Zenon DEF Readable
  <2> QED BY <1>1, <1>4, <1>6, <1>7, <2>1, Zenon DEF EntriesInv
<1>9. CommittedEntriesIntact'
  <2>1. ASSUME NEW e \in log, e.ver \in committed, e.seq >= superblock.seq PROVE Durable(e)'
    <3>1. Durable(e) /\ Live(e) /\ e # cur
      BY <1>2, <1>3, <2>1, Zenon DEF CommittedEntriesIntact, Live
    <3> QED BY <1>5, <3>1, Zenon DEF Durable
  <2> QED BY <1>1, <1>4, <2>1, Zenon DEF CommittedEntriesIntact
<1> QED BY <1>8, <1>9, Zenon

\* A failed request may spoil what can be read, not what is durable.
LEMMA RequestFailsEntries ==
    ASSUME JournalInv, RequestFails PROVE EntriesInv' /\ CommittedEntriesIntact'
<1>1. /\ pc' = "idle" /\ writeback_enabled' = FALSE /\ maybe' = maybe
      /\ UNCHANGED <<cursor, info, committed>> /\ Mounted
  BY Zenon DEF RequestFails, Return, acks, Mounted
<1>2. log' = log /\ superblock' = superblock
  BY <1>1, Zenon DEF cursor, info
<1>3. EntriesInv'
  BY <1>1, Zenon DEF EntriesInv
<1>4. CommittedEntriesIntact'
  BY <1>1, <1>2, SMTT(60) DEF JournalInv, CommittedEntriesIntact, Durable
<1> QED BY <1>3, <1>4, Zenon

\* Entries stay readable and, once committed, durable in every step.
LEMMA EntriesStep ==
    ASSUME JournalInv, [Next]_vars
    PROVE  EntriesInv' /\ CommittedEntriesIntact'
<1>1. /\ TypeOK /\ CacheType(maybe) /\ CallInv /\ VersionInv /\ RingInv
      /\ \A v \in committed : v \in Nat
  BY SMTT(60) DEF JournalInv, TypeOK
<1>2. CASE ~Mounted'
  BY <1>2, Zenon DEF EntriesInv, CommittedEntriesIntact
<1>3. CASE UNCHANGED vars
  BY <1>3, Zenon DEF vars, JournalInv, EntriesInv, CommittedEntriesIntact, Mounted, Live,
              CurrentEntry, Readable, Durable
<1>4. ASSUME NEW c, WriteInfoBlock(c), pc = "idle",
             UNCHANGED <<disk, committed, writeback_enabled>>
      PROVE  EntriesInv' /\ CommittedEntriesIntact'
  <2>1. Mounted
    BY <1>4, Zenon DEF Mounted
  <2>2. CASE pending_work_items = <<>> /\ ~pending_flush
    BY <1>4, <2>1, <2>2, AdvanceEntries, SMTT(60) DEF WriteInfoBlock, SendInfo, Advance
  <2>3. CASE ~(pending_work_items = <<>> /\ ~pending_flush)
    <3>1. UNCHANGED <<cursor, info>> /\ maybe' = maybe /\ pc' \in {"flush", "idle"}
      BY <1>4, <2>3, Zenon DEF WriteInfoBlock, Send, Return
    <3> QED BY <1>4, <2>1, <3>1, KeptStep, SMTT(60) DEF Stay, info, RingKept
  <2> QED BY <2>2, <2>3, Zenon
<1>5. ASSUME NEW ops \in DataOps, WriteData(ops)
      PROVE  EntriesInv' /\ CommittedEntriesIntact'
  <2> DEFINE c == Call("data", ops, {})
  <2>1. /\ pc = "idle" /\ Mounted /\ UNCHANGED <<disk, committed, writeback_enabled>>
        /\ c.ops \subseteq Target
    BY <1>5, OpsAssumption, Zenon DEF WriteData, Submit, acks, Mounted, Call
  <2>2. WriteInfoBlock(c) \/ SendData(c, maybe)
    BY <1>5, Zenon DEF WriteData
  <2> HIDE DEF c
  <2>3. CASE SendData(c, maybe)
    <3>1. /\ UNCHANGED <<cursor, info>> /\ pc' \in {"data", "idle"}
          /\ maybe' \in {maybe, Issued(maybe, HomeWrite(c))}
      BY <2>3, Zenon DEF SendData, Send, Return
    <3>2. RingKept
      BY <2>1, <3>1, OffRingWrites, OffRingRequests, SMTT(60) DEF RingKept
    <3> QED BY <2>1, <3>1, <3>2, KeptStep, Zenon DEF Stay, info
  <2> QED BY <1>4, <2>1, <2>2, <2>3, SMTT(60)
<1>6. ASSUME NEW ops \in MetaOps, NEW trim \in TrimOps, WriteMetadata(ops, trim)
      PROVE  EntriesInv' /\ CommittedEntriesIntact'
  <2> DEFINE c == Call("meta", ops, trim)
  <2>1. /\ pc = "idle" /\ Mounted /\ UNCHANGED <<disk, committed, writeback_enabled>>
        /\ c \in CallType /\ c.ops = ops /\ c.ver = Len(hist) + 1
    BY <1>1, <1>6, OpsAssumption, SubmitType, Zenon DEF WriteMetadata, Submit, Mounted, Call
  <2>2. CASE Intersects(EntryLength(ops))
    BY <1>4, <1>6, <2>1, <2>2, Zenon DEF WriteMetadata
  <2>3. CASE ~Intersects(EntryLength(ops))
    <3>1. SendEntry(c, maybe, live_metadata_operations)
      BY <1>6, <2>3, Zenon DEF WriteMetadata
    <3>2. c.ver \notin committed
      BY <1>1, <2>1, SMTT(60) DEF VersionInv, TypeOK
    <3>3. tail + EntryLength(ops) <= head + Capacity
      BY <1>1, <2>1, <2>3, IntersectsFacts, EntryLengths, Zenon
    <3> HIDE DEF c
    <3>4. Grow(c)
      BY <2>1, <3>1, <3>3, SendEntryKind, Zenon
    <3> QED BY <2>1, <3>1, <3>2, <3>4, GrowEntries, Zenon
  <2> QED BY <2>2, <2>3, Zenon
<1>7. CASE Sync
  BY <1>4, <1>7, Zenon DEF Sync, acks
<1>8. CASE Flush
  <2>1. /\ Mounted /\ pc = "idle" /\ UNCHANGED <<disk, committed, writeback_enabled>>
        /\ UNCHANGED <<cursor, info>> /\ maybe' = maybe /\ pc' \in {"flush", "idle"}
    BY <1>8, Zenon DEF Flush, Send, Return, acks, Mounted
  <2> QED BY <2>1, KeptStep, Zenon DEF Stay, info, RingKept
<1>9. CASE InfoDone
  <2> DEFINE m == Settled("info", Outstanding)
  <2>1. /\ pc = "info" /\ Mounted /\ UNCHANGED <<committed, writeback_enabled>>
        /\ Outstanding = InfoWrite /\ disk' = Written(Outstanding)
    BY <1>9, Zenon DEF InfoDone, acks, Mounted, Outstanding
  <2>2. \A b \in Ring : disk'[b] = disk[b] /\ m[b] = maybe[b]
    BY <1>1, <2>1, OffRingWrites, OffRingRequests, SMTT(60)
  <2>3. \/ Return(m) /\ UNCHANGED <<cursor, info>>
        \/ SendData(call, m)
        \/ call.op = "meta" /\ SendEntry(call, m, {})
    BY <1>9, Zenon DEF InfoDone
  <2> HIDE DEF m
  <2>4. CASE Return(m) /\ UNCHANGED <<cursor, info>>
    BY <2>1, <2>2, <2>4, KeptStep, Zenon DEF Return, Stay, info, RingKept
  <2>5. CASE SendData(call, m)
    <3>1. /\ UNCHANGED <<cursor, info>> /\ pc' \in {"data", "idle"}
          /\ maybe' \in {m, Issued(m, HomeWrite(call))}
      BY <2>5, Zenon DEF SendData, Send, Return
    <3>2. OffRing(HomeWrite(call))
      BY <1>1, OffRingRequests, SMTT(60) DEF TypeOK, CallType
    <3>3. RingKept
      BY <2>2, <3>1, <3>2, OffRingWrites, SMTT(60) DEF RingKept
    <3> QED BY <2>1, <3>1, <3>3, KeptStep, Zenon DEF Stay, info
  <2>6. CASE call.op = "meta" /\ SendEntry(call, m, {})
    <3>1. call \in CallType /\ call.ops \in MetaOps
      BY <1>1, <2>6, SMTT(60) DEF TypeOK, CallInv
    <3>2. call.ver \notin committed
      BY <1>1, <2>6, <3>1 DEF VersionInv, CallType
    <3>3. tail + EntryLength(call.ops) <= head + Capacity
      <4>1. tail = head /\ tail \in Nat
        BY <1>1, <2>1, SMTT(60) DEF CallInv, RingInv, TypeOK
      <4>2. EntryLength(call.ops) \in 3..Capacity
        BY <3>1, EntryLengths, Zenon
      <4> QED BY <4>1, <4>2, CapacityAssumption, SMTT(60)
    <3>4. Grow(call)
      BY <2>6, <3>1, <3>3, SendEntryKind, Zenon
    <3> QED BY <2>1, <2>2, <2>6, <3>1, <3>2, <3>4, GrowEntries, Zenon
  <2> QED BY <2>3, <2>4, <2>5, <2>6, Zenon
<1>10. CASE DataDone
  <2>1. /\ pc = "data" /\ Mounted /\ UNCHANGED <<committed, writeback_enabled>>
        /\ UNCHANGED <<cursor, info>> /\ maybe' = maybe /\ pc' = "idle"
        /\ disk' = Written(HomeWrite(call))
    BY <1>10, Zenon DEF DataDone, Return, acks, Mounted, Outstanding
  <2>2. OffRing(HomeWrite(call))
    BY <1>1, OffRingRequests, Zenon DEF TypeOK, CallType
  <2>3. RingKept
    BY <2>1, <2>2, OffRingWrites, Zenon DEF RingKept
  <2> QED BY <2>1, <2>3, KeptStep, Zenon DEF Stay, info
<1>11. CASE Crash \/ Restart \/ Replay \/ ParseEntry \/ ParseDone \/ ReplayHomeDone
            \/ ReplayFlushDone \/ ReplayInfoDone \/ ReplayFails
  <2>1. ~Mounted'
    BY <1>11, Zenon DEF Crash, Restart, Forget, Replay, ParseEntry, ParseDone, ReplayHomeDone,
                 ReplayFlushDone, ReplayInfoDone, ReplayFails, Mounted
  <2> QED BY <1>2, <2>1, SMTT(60)
<1>12. CASE Mount
  BY <1>12, AdvanceEntries, Zenon
<1> QED BY <1>3, <1>5, <1>6, <1>7, <1>8, <1>9, <1>10, <1>11, <1>12, FlushEntries,
           HomeEntries, EntryDoneEntries, RequestFailsEntries, SMTT(60) DEF Next

-----------------------------------------------------------------------------
(* The theorems.                                                           *)

\* MakeJournal establishes the invariant.
LEMMA InitInv ==
    ASSUME Init PROVE JournalInv
<1>1. DiskType(disk) /\ CacheType(maybe)
  <2>1. Info(0, 0) \in InfoContent /\ Blank \in RingContent
    BY CapacityAssumption DEF Info, InfoContent, Blank, RingContent
  <2>2. \A b \in Block : disk[b] \in Content(b)
    BY <2>1, SMTT(60) DEF Init, Content
  <2> QED BY <2>2, Zenon DEF Init, DiskType, CacheType
<1>2. /\ NoCall \in CallType
      /\ NoReplay = [start |-> 0, seq |-> 0, operations |-> NoReplay.operations]
      /\ DOMAIN NoReplay.operations = {}
      /\ NoReplay.operations \in [DOMAIN NoReplay.operations -> Nat]
      /\ 0 \in 0..(Capacity - 1)
      /\ Info(0, 0) \in InfoContent /\ Info(0, 0).valid
  BY CapacityAssumption DEF NoCall, CallType, NoReplay, Info, InfoContent
<1>3. <<>> \in Seq(Item) /\ <<>> \in Seq(WriteRecord)
  OBVIOUS
<1>4. TypeOK
  <2>1. /\ replay = [start |-> replay.start, seq |-> replay.seq,
                     operations |-> replay.operations]
        /\ replay.start \in 0..(Capacity - 1) /\ replay.seq \in Nat
        /\ DOMAIN replay.operations \subseteq Target
        /\ replay.operations \in [DOMAIN replay.operations -> Nat]
    BY <1>2, SMTT(60) DEF Init
  <2>2. /\ superblock \in InfoContent /\ superblock.valid /\ call \in CallType
        /\ next_entry_start_block \in 0..(Capacity - 1)
        /\ pending_work_items \in Seq(Item) /\ hist \in Seq(WriteRecord)
    BY <1>2, <1>3, Zenon DEF Init
  <2>3. /\ next_sequence_number \in Nat /\ pending_flush \in BOOLEAN
        /\ live_metadata_operations \subseteq Target /\ writeback_enabled \in BOOLEAN
        /\ pc = "down" /\ reserved \subseteq Target /\ log \subseteq Entry
        /\ head \in Nat /\ tail \in Nat /\ committed \subseteq Nat /\ completed \subseteq Nat
        /\ assert_ok \in BOOLEAN /\ crashes \in Nat /\ restarts \in Nat
    BY Zenon DEF Init
  <2> QED BY <1>1, <2>1, <2>2, <2>3, SMTT(60) DEF TypeOK
<1>5. /\ RingInv /\ LogInv /\ CallInv /\ LiveInv /\ EntriesInv
      /\ CommittedEntriesIntact /\ InfoBlockAdvancesWhileEnabled
  BY Zenon DEF Init, RingInv, LogInv, CallInv, LiveInv, EntriesInv, CommittedEntriesIntact,
         InfoBlockAdvancesWhileEnabled, Mounted, Request, NoCall
<1>6. VersionInv
  BY DEF Init, VersionInv, NoCall
<1> QED BY <1>4, <1>5, <1>6, Zenon DEF JournalInv

\* Every reachable state satisfies the inductive invariant.
THEOREM JournalInvariant == Spec => []JournalInv
<1>1. Init => JournalInv
  BY InitInv, Zenon
<1>2. JournalInv /\ [Next]_vars => JournalInv'
  <2> SUFFICES ASSUME JournalInv, [Next]_vars PROVE JournalInv'
    BY Zenon
  <2>1. TypeOK'
    BY TypeStep, Zenon DEF JournalInv
  <2> QED BY <2>1, RingStep, LogStep, VersionStep, CallStep, LiveStep, EntriesStep, Zenon
          DEF JournalInv
<1> QED BY <1>1, <1>2, PTL DEF Spec

\* Every variable keeps its type, and every block of the device the kind of
\* content that belongs there, also after any power failure.
THEOREM TypeCorrect == Spec => []TypeOK
<1>1. JournalInv => TypeOK
  BY Zenon DEF JournalInv
<1> QED BY <1>1, JournalInvariant, PTL

\* The journal never "eats its own head": an entry whose commit_callback ran is
\* durable, block by block, until the info block has moved past it.
THEOREM CommittedIntact == Spec => []CommittedEntriesIntact
<1>1. JournalInv => CommittedEntriesIntact
  BY Zenon DEF JournalInv
<1> QED BY <1>1, JournalInvariant, PTL

\* As long as no request has failed the assertions of WriteInfoBlock hold.
THEOREM AssertionsHold == Spec => []InfoBlockAdvancesWhileEnabled
<1>1. JournalInv => InfoBlockAdvancesWhileEnabled
  BY Zenon DEF JournalInv
<1> QED BY <1>1, JournalInvariant, PTL

-----------------------------------------------------------------------------
(* The info block and the ring: a volume can always be mounted.            *)

\* Some block of the ring looks like journal metadata; it also will after a
\* power failure.
HasMetadata == \E b \in Ring : IsMetadata(disk[b])
Anchored == \E b \in Ring : IsMetadata(disk[b]) /\ \A c \in maybe[b] : IsMetadata(c)

\* The info block passes Validate() after a power failure.
InfoSound == \A c \in maybe[InfoBlock] : c.valid

\* The info block has been read, or written, by this replay.
InfoRead == {"parse", "replay_home", "replay_flush", "replayed"}

\* The info block that is in use is valid, and stays so over a power failure
\* while the ring is written.  Where it may not, a block of the ring is left to
\* restore it from.
InfoInv ==
    /\ Mounted \/ pc \in InfoRead => disk[InfoBlock].valid
    /\ ~disk[InfoBlock].valid => HasMetadata
    /\ restarts = 0 /\ ~InfoSound => Anchored
    /\ restarts = 0 /\ ((Mounted /\ writeback_enabled /\ pc # "info") \/ pc \in InfoRead) =>
          InfoSound

\* During replay the ring is what the device shows, and what is replayed was in it.
ReplayInv ==
    /\ restarts = 0 /\ ~Mounted => \A b \in Ring : maybe[b] = {disk[b]}
    /\ restarts = 0 /\ pc = "down" => maybe[InfoBlock] = {disk[InfoBlock]}
    /\ pc = "parse" /\ DOMAIN replay.operations # {} => HasMetadata
    /\ pc \in {"replay_home", "replay_flush"} => HasMetadata

\* There is an entry for the info block to move past, durable when nothing is
\* pending.
PastInv ==
    Mounted /\ writeback_enabled =>
        /\ next_sequence_number > superblock.seq => \E e \in log : Live(e)
        /\ pending_work_items = <<>> /\ ~pending_flush /\ pc # "entry" =>
              \A e \in log : Live(e) => Durable(e)

\* The inductive invariant behind AlwaysMountable, next to JournalInv.
MountInv == AlwaysMountable /\ InfoInv /\ ReplayInv /\ PastInv

\* A write that does not cover the info block leaves it alone.
LEMMA OffInfoWrites ==
    ASSUME NEW w, InfoBlock \notin DOMAIN w
    PROVE  /\ \A m : Issued(m, w)[InfoBlock] = m[InfoBlock]
           /\ Written(w)[InfoBlock] = disk[InfoBlock]
           /\ \A class : Settled(class, w)[InfoBlock] = maybe[InfoBlock]
  BY Blocks, Zenon DEF Issued, Written, Settled

\* Writes in place, entries and what is replayed do not cover the info block.
LEMMA OffInfoRequests ==
    /\ \A item : item.ops \subseteq Target => InfoBlock \notin DOMAIN HomeWrite(item)
    /\ \A e \in Entry : InfoBlock \notin DOMAIN EntryWrite(e)
<1>1. \A item : item.ops \subseteq Target => InfoBlock \notin DOMAIN HomeWrite(item)
  BY Blocks, Zenon DEF HomeWrite
<1>2. ASSUME NEW e \in Entry PROVE InfoBlock \notin DOMAIN EntryWrite(e)
  <2>1. \A b \in EntryBlocks(e) : b \in Ring
    BY EntryInRing, Zenon DEF EntryBlocks
  <2> QED BY <2>1, Blocks, Zenon DEF EntryWrite
<1> QED BY <1>1, <1>2, Zenon

\* The blocks that look like metadata stay where the ring is left alone.
LEMMA KeptMetadata ==
    ASSUME RingKept
    PROVE  (HasMetadata => HasMetadata') /\ (Anchored => Anchored')
  BY Zenon DEF RingKept, HasMetadata, Anchored, IsMetadata

\* A valid info block that stays valid over a power failure is all that the
\* writer needs.
LEMMA SoundStep ==
    ASSUME Mounted', disk'[InfoBlock].valid, restarts' = 0 => InfoSound'
    PROVE  AlwaysMountable' /\ InfoInv' /\ ReplayInv'
<1>1. pc' # "corrupt" /\ pc' # "parse" /\ pc' # "down" /\ pc' \notin {"replay_home", "replay_flush"}
  BY DEF Mounted
<1> QED BY <1>1, Zenon DEF AlwaysMountable, InfoInv, ReplayInv

\* While writes are enabled and no info block write is outstanding, leaving the
\* info block alone is enough.
LEMMA UntouchedStep ==
    ASSUME MountInv, Mounted, writeback_enabled, pc # "info", Mounted',
           disk'[InfoBlock] = disk[InfoBlock], maybe'[InfoBlock] = maybe[InfoBlock],
           restarts' = restarts
    PROVE  AlwaysMountable' /\ InfoInv' /\ ReplayInv'
<1>1. restarts' = 0 => InfoSound'
  BY Zenon DEF MountInv, InfoInv, InfoSound
<1>2. disk'[InfoBlock].valid
  BY Zenon DEF MountInv, InfoInv
<1> QED BY <1>1, <1>2, SoundStep, Zenon

\* After a failed request nothing is written any more.
LEMMA DisabledStep ==
    ASSUME MountInv, Mounted, ~writeback_enabled', Mounted', disk'[InfoBlock].valid, RingKept,
           maybe'[InfoBlock] = maybe[InfoBlock], restarts' = restarts
    PROVE  MountInv'
<1>1. restarts' = 0 /\ ~InfoSound' => Anchored'
  BY KeptMetadata, Zenon DEF MountInv, InfoInv, InfoSound
<1>2. /\ pc' # "corrupt" /\ pc' # "parse" /\ pc' # "down" /\ pc' \notin InfoRead
      /\ pc' \notin {"replay_home", "replay_flush"}
  BY DEF Mounted, InfoRead
<1> QED BY <1>1, <1>2, Zenon DEF MountInv, AlwaysMountable, InfoInv, ReplayInv, PastInv

\* The entries to move past are the same, and as durable.
LEMMA PastKept ==
    ASSUME JournalInv, PastInv, Mounted, pc # "entry", UNCHANGED <<cursor, superblock>>,
           RingKept, writeback_enabled' => writeback_enabled /\ UNCHANGED queue
    PROVE  PastInv'
<1>1. /\ log \subseteq Entry /\ log' = log /\ superblock' = superblock
      /\ next_sequence_number' = next_sequence_number
  BY Zenon DEF JournalInv, TypeOK, cursor
<1>2. \A e \in log : (Live(e)' <=> Live(e)) /\ (Durable(e) => Durable(e)')
  BY <1>1, KeptEntries, Zenon DEF Live
<1> QED BY <1>1, <1>2, Zenon DEF PastInv, queue

\* Where the info block has moved past all entries there is none to move past.
LEMMA PastNone ==
    ASSUME JournalInv, Mounted, UNCHANGED cursor, superblock'.seq = next_sequence_number
    PROVE  PastInv'
<1>1. log \subseteq Entry /\ log' = log /\ next_sequence_number' = next_sequence_number
      /\ next_sequence_number \in Nat /\ \A e \in log : e.seq < next_sequence_number
  BY Zenon DEF JournalInv, TypeOK, LogInv, cursor
<1>2. \A e \in log' : ~Live(e)'
  BY <1>1 DEF Live, Entry
<1>3. ~(next_sequence_number' > superblock'.seq)
  BY <1>1
<1> QED BY <1>2, <1>3, Zenon DEF PastInv

\* An entry has a header.
LEMMA HeaderBlock ==
    ASSUME NEW e \in Entry PROVE 0 \in 0..(EntryLength(e.ops) - 1)
<1>1. EntryLength(e.ops) \in 3..Capacity /\ Capacity \in Nat
  BY EntryLengths, CapacityAssumption, Zenon DEF Entry
<1> QED BY <1>1

\* An info block write is only issued where a live entry is durable in the ring.
LEMMA SendInfoMount ==
    ASSUME JournalInv, JournalInv', MountInv, Mounted, pc # "entry", writeback_enabled,
           NEW c, NEW m, SendInfo(c, m), UNCHANGED <<disk, writeback_enabled, restarts>>,
           \A e \in log : Live(e) => m[RingBlock(e.pos + 0)] = {EntryBlock(e, 0)}
    PROVE  MountInv'
<1> DEFINE w == [b \in {InfoBlock} |-> Info(next_entry_start_block, next_sequence_number)]
<1>1. /\ pc' = "info" /\ Mounted' /\ maybe' = Issued(m, w) /\ UNCHANGED cursor
      /\ superblock'.seq = next_sequence_number
  BY Zenon DEF SendInfo, Send, Mounted, Info
<1>2. next_sequence_number > superblock.seq
  BY Zenon DEF JournalInv, InfoBlockAdvancesWhileEnabled, SendInfo
<1>3. PICK e \in log : Live(e)
  BY <1>2, Zenon DEF MountInv, PastInv
<1>4. PICK b : b = RingBlock(e.pos + 0)
  BY Zenon
<1>5. e \in Entry /\ 0 \in 0..(EntryLength(e.ops) - 1)
  BY HeaderBlock, Zenon DEF JournalInv, TypeOK
<1>6. b \in Ring
  BY <1>4, <1>5, EntryInRing, Zenon
<1>7. disk[b] = EntryBlock(e, 0)
  BY <1>3, <1>4, <1>5, Zenon DEF JournalInv, EntriesInv, Readable
<1>8. maybe'[b] = {EntryBlock(e, 0)}
  <2>1. b \notin DOMAIN w
    BY <1>6, Blocks, Zenon
  <2> QED BY <1>1, <1>3, <1>4, <1>6, <2>1, Blocks, Zenon DEF Issued
<1>9. IsMetadata(EntryBlock(e, 0))
  BY DEF IsMetadata, EntryBlock
<1>10. Anchored'
  BY <1>6, <1>7, <1>8, <1>9, Zenon DEF Anchored, IsMetadata
<1>11. /\ pc' # "corrupt" /\ pc' # "parse" /\ pc' # "down" /\ pc' \notin InfoRead
       /\ pc' \notin {"replay_home", "replay_flush"}
  BY <1>1 DEF InfoRead
<1>12. disk'[InfoBlock].valid
  BY Zenon DEF MountInv, InfoInv
<1>13. PastInv'
  BY <1>1, PastNone, Zenon
<1> QED BY <1>1, <1>10, <1>11, <1>12, <1>13, Zenon
        DEF MountInv, AlwaysMountable, InfoInv, ReplayInv

\* WriteInfoBlock, called while no request is outstanding.
LEMMA WriteInfoBlockMount ==
    ASSUME JournalInv, JournalInv', MountInv, pc = "idle", NEW c, WriteInfoBlock(c),
           UNCHANGED <<disk, writeback_enabled, restarts>>
    PROVE  MountInv'
<1>1. Mounted /\ pc # "entry" /\ pc # "info" /\ disk[InfoBlock].valid
  BY SMTT(60) DEF Mounted, MountInv, InfoInv
<1>2. CASE writeback_enabled /\ pending_work_items = <<>> /\ ~pending_flush
  <2>1. SendInfo(c, maybe)
    BY <1>2, Zenon DEF WriteInfoBlock
  <2>2. ASSUME NEW e \in log, Live(e)
        PROVE  maybe[RingBlock(e.pos + 0)] = {EntryBlock(e, 0)}
    <3>1. 0 \in 0..(EntryLength(e.ops) - 1)
      BY HeaderBlock, Zenon DEF JournalInv, TypeOK
    <3>2. Durable(e)
      BY <1>1, <1>2, <2>2, Zenon DEF MountInv, PastInv
    <3> QED BY <3>1, <3>2, Zenon DEF Durable
  <2> QED BY <1>1, <1>2, <2>1, <2>2, SendInfoMount, Zenon
<1>3. CASE writeback_enabled /\ ~(pending_work_items = <<>> /\ ~pending_flush)
  <2>1. pc' = "flush" /\ Mounted' /\ maybe' = maybe /\ UNCHANGED queue /\ UNCHANGED <<cursor, info>>
    BY <1>3, Zenon DEF WriteInfoBlock, Send, Mounted
  <2>2. AlwaysMountable' /\ InfoInv' /\ ReplayInv'
    BY <1>1, <1>3, <2>1, UntouchedStep, Zenon
  <2>3. PastInv'
    BY <1>1, <1>3, <2>1, PastKept, Zenon DEF MountInv, RingKept, info
  <2> QED BY <2>2, <2>3, Zenon DEF MountInv
<1>4. CASE ~writeback_enabled
  <2>1. Mounted' /\ maybe' = maybe
    BY <1>4, Zenon DEF WriteInfoBlock, SendInfo, Return, Mounted
  <2> QED BY <1>1, <1>4, <2>1, DisabledStep, Zenon DEF RingKept
<1> QED BY <1>2, <1>3, <1>4, Zenon

\* An entry is sent while the info block stays valid over a power failure.
LEMMA SendEntryMount ==
    ASSUME JournalInv, MountInv, pc \in {"idle", "info"}, NEW c, c.ops \in MetaOps, c.ver \in Nat,
           NEW m, NEW live, SendEntry(c, m, live), UNCHANGED <<writeback_enabled, restarts>>,
           disk'[InfoBlock].valid,
           \A b \in Ring : disk'[b] = disk[b] /\ m[b] = maybe[b],
           restarts = 0 /\ writeback_enabled => \A x \in m[InfoBlock] : x.valid,
           pc = "idle" => m = maybe, pc = "info" => writeback_enabled
    PROVE  MountInv'
<1>1. Mounted /\ pc # "entry"
  BY SMTT(60) DEF Mounted
<1>2. CASE writeback_enabled
  <2>0. PICK new : new = NewEntry(c)
    BY Zenon
  <2>1. /\ pc' = "entry" /\ Mounted' /\ maybe' = Issued(m, EntryWrite(new))
        /\ new \in log' /\ superblock' = superblock
    BY <1>2, <2>0, Zenon DEF SendEntry, Send, NewEntry, Mounted, info
  <2>2. new \in Entry
    BY <2>0 DEF NewEntry, Entry, JournalInv, TypeOK
  <2>3. maybe'[InfoBlock] = m[InfoBlock]
    BY <2>1, <2>2, OffInfoRequests, OffInfoWrites, Zenon
  <2>4. restarts' = 0 => InfoSound'
    BY <1>2, <2>3, Zenon DEF InfoSound
  <2>5. Live(new)'
    <3>1. superblock.seq <= next_sequence_number /\ new.seq = next_sequence_number
      BY <1>1, <2>0, Zenon DEF JournalInv, RingInv, NewEntry
    <3>2. superblock.seq \in Nat /\ next_sequence_number \in Nat
      BY Zenon DEF JournalInv, TypeOK, InfoContent
    <3>3. new.seq >= superblock.seq
      BY <3>1, <3>2
    <3> QED BY <2>1, <3>3, Zenon DEF Live
  <2>6. PastInv'
    BY <2>1, <2>5, SMTT(60) DEF PastInv
  <2> QED BY <2>1, <2>4, <2>6, SoundStep, Zenon DEF MountInv
<1>3. CASE ~writeback_enabled
  <2>1. pc = "idle"
    BY <1>3, SMTT(60)
  <2>2. Mounted' /\ maybe' = m /\ m = maybe
    BY <1>3, <2>1, Zenon DEF SendEntry, Return, Mounted
  <2> QED BY <1>1, <1>3, <2>2, DisabledStep, Zenon DEF RingKept
<1> QED BY <1>2, <1>3, Zenon

\* A data write is sent.
LEMMA SendDataMount ==
    ASSUME JournalInv, MountInv, pc \in {"idle", "info"}, NEW c, c.ops \subseteq Target,
           NEW m, SendData(c, m), UNCHANGED <<writeback_enabled, restarts, queue>>,
           disk'[InfoBlock].valid,
           \A b \in Ring : disk'[b] = disk[b] /\ m[b] = maybe[b],
           restarts = 0 /\ writeback_enabled => \A x \in m[InfoBlock] : x.valid,
           pc = "idle" => m = maybe, pc = "info" => writeback_enabled
    PROVE  MountInv'
<1>1. Mounted /\ pc # "entry" /\ UNCHANGED <<cursor, superblock>>
  BY SMTT(60) DEF Mounted, SendData, info
<1>2. CASE writeback_enabled
  <2>1. Mounted' /\ maybe' = Issued(m, HomeWrite(c))
    BY <1>2, Zenon DEF SendData, Send, Mounted
  <2>2. maybe'[InfoBlock] = m[InfoBlock]
    BY <2>1, OffInfoRequests, OffInfoWrites, Zenon
  <2>3. restarts' = 0 => InfoSound'
    BY <1>2, <2>2, Zenon DEF InfoSound
  <2>4. RingKept
    BY <2>1, OffRingRequests, OffRingWrites, Zenon DEF RingKept
  <2>5. PastInv'
    BY <1>1, <2>4, PastKept, Zenon DEF MountInv
  <2> QED BY <2>1, <2>3, <2>5, SoundStep, Zenon DEF MountInv
<1>3. CASE ~writeback_enabled
  <2>1. pc = "idle"
    BY <1>3, SMTT(60)
  <2>2. Mounted' /\ maybe' = m /\ m = maybe
    BY <1>3, <2>1, Zenon DEF SendData, Return, Mounted
  <2> QED BY <1>1, <1>3, <2>2, DisabledStep, Zenon DEF RingKept
<1> QED BY <1>2, <1>3, Zenon

\* The flush makes every live entry durable, and the info block as it is.
LEMMA FlushDoneMount ==
    ASSUME JournalInv, JournalInv', MountInv, FlushDone PROVE MountInv'
<1>1. /\ pc = "flush" /\ pc # "entry" /\ UNCHANGED <<disk, writeback_enabled, restarts>>
      /\ writeback_enabled /\ Mounted /\ disk[InfoBlock].valid
  BY SMTT(60) DEF FlushDone, JournalInv, CallInv, Request, Mounted, mount, MountInv, InfoInv
<1>2. log \subseteq Entry /\ \A e \in log : Live(e) => Readable(e)
  BY <1>1, Zenon DEF JournalInv, TypeOK, EntriesInv
<1>3. \A b \in Block : Flushed[b] = {disk[b]}
  BY Zenon DEF Flushed
<1>4. CASE SendInfo(call, Flushed)
  <2>1. ASSUME NEW e \in log, Live(e)
        PROVE  Flushed[RingBlock(e.pos + 0)] = {EntryBlock(e, 0)}
    <3>1. 0 \in 0..(EntryLength(e.ops) - 1) /\ e \in Entry
      BY <1>2, HeaderBlock, Zenon
    <3>2. RingBlock(e.pos + 0) \in Block /\ disk[RingBlock(e.pos + 0)] = EntryBlock(e, 0)
      BY <1>2, <2>1, <3>1, EntryInRing, Blocks, Zenon DEF Readable
    <3> QED BY <1>3, <3>2, Zenon
  <2> QED BY <1>1, <1>4, <2>1, SendInfoMount, Zenon
<1>5. CASE ~SendInfo(call, Flushed)
  <2>1. /\ UNCHANGED <<cursor, info>> /\ Mounted'
        /\ \/ maybe' = Flushed
           \/ /\ pending_work_items # <<>>
              /\ maybe' = Issued(Flushed, HomeWrite(Head(pending_work_items)))
    BY <1>5, Zenon DEF FlushDone, SendHome, Send, Return, Mounted
  <2>2. pending_work_items # <<>> => Head(pending_work_items).ops \subseteq Target
    <3>1. pending_work_items # <<>> => Head(pending_work_items) \in Item
      BY SMTT(60) DEF JournalInv, TypeOK
    <3> QED BY <3>1, Zenon DEF Item
  <2>3. maybe'[InfoBlock] = {disk[InfoBlock]} /\ \A b \in Ring : maybe'[b] = {disk[b]}
    <3>1. CASE maybe' = Flushed
      BY <1>3, <3>1, Blocks, Zenon
    <3>2. CASE maybe' # Flushed
      <4>1. PICK w : /\ maybe' = Issued(Flushed, w) /\ OffRing(w) /\ InfoBlock \notin DOMAIN w
        BY <2>1, <2>2, <3>2, OffInfoRequests, OffRingRequests, Zenon
      <4>2. maybe'[InfoBlock] = {disk[InfoBlock]}
        BY <1>3, <4>1, OffInfoWrites, Blocks, Zenon
      <4>3. ASSUME NEW b \in Ring PROVE maybe'[b] = {disk[b]}
        <5>1. Issued(Flushed, w)[b] = Flushed[b]
          BY <4>1, OffRingWrites, Zenon
        <5> QED BY <1>3, <4>1, <5>1, Blocks, Zenon
      <4> QED BY <4>2, <4>3, Zenon
    <3> QED BY <3>1, <3>2, Zenon
  <2>5. restarts' = 0 => InfoSound'
    BY <1>1, <2>3, Zenon DEF InfoSound
  <2>6. AlwaysMountable' /\ InfoInv' /\ ReplayInv'
    BY <1>1, <2>1, <2>5, SoundStep, Zenon
  <2>7. /\ log' = log /\ superblock' = superblock
        /\ next_sequence_number' = next_sequence_number
    BY <2>1, Zenon DEF cursor, info
  <2>8. \A e \in log : (Live(e)' <=> Live(e)) /\ (Readable(e) => Durable(e)')
    BY <1>2, <2>3, <2>7, EntryInRing, Zenon DEF Live, Readable, Durable
  <2>9. PastInv'
    BY <1>1, <1>2, <2>7, <2>8, Zenon DEF MountInv, PastInv
  <2> QED BY <2>6, <2>9, Zenon DEF MountInv
<1> QED BY <1>4, <1>5, Zenon

\* Writes in place leave the info block alone and ask for a flush.
LEMMA HomeDoneMount ==
    ASSUME JournalInv, MountInv, HomeDone PROVE MountInv'
<1>1. /\ pc = "home" /\ pc # "info" /\ UNCHANGED <<writeback_enabled, restarts>>
      /\ writeback_enabled /\ Mounted /\ Mounted' /\ pending_flush' = TRUE
      /\ UNCHANGED <<cursor, info>> /\ disk' = Written(HomeWrite(Head(pending_work_items)))
  <2>1. pc = "home" /\ pc # "info" /\ writeback_enabled /\ Mounted
    BY SMTT(60) DEF HomeDone, JournalInv, CallInv, Request, Mounted
  <2>2. /\ UNCHANGED <<writeback_enabled, restarts>> /\ Mounted' /\ pending_flush' = TRUE
        /\ UNCHANGED <<cursor, info>> /\ disk' = Written(HomeWrite(Head(pending_work_items)))
    BY <2>1, Zenon DEF HomeDone, SendHome, Send, Return, Mounted, mount, Outstanding
  <2> QED BY <2>1, <2>2, Zenon
<1>2. /\ pending_work_items \in Seq(Item) /\ pending_work_items # <<>>
      /\ Head(pending_work_items) \in Item
  BY <1>1, SMTT(60) DEF JournalInv, TypeOK, CallInv
<1>3. \/ maybe' = maybe
      \/ /\ Tail(pending_work_items) # <<>>
         /\ maybe' = Issued(maybe, HomeWrite(Head(Tail(pending_work_items))))
  BY Zenon DEF HomeDone, SendHome, Send, Return
<1>4. Tail(pending_work_items) # <<>> => Head(Tail(pending_work_items)).ops \subseteq Target
  <2>1. Tail(pending_work_items) # <<>> => Head(Tail(pending_work_items)) \in Item
    BY <1>2
  <2> QED BY <2>1, Zenon DEF Item
<1>5. maybe'[InfoBlock] = maybe[InfoBlock]
  BY <1>3, <1>4, OffInfoRequests, OffInfoWrites, Zenon
<1>6. disk'[InfoBlock] = disk[InfoBlock]
  BY <1>1, <1>2, OffInfoRequests, OffInfoWrites, Zenon DEF Item
<1>7. /\ log' = log /\ superblock' = superblock
      /\ next_sequence_number' = next_sequence_number
  BY <1>1, Zenon DEF cursor, info
<1>8. PastInv'
  BY <1>1, <1>7, Zenon DEF MountInv, PastInv, Live
<1> QED BY <1>1, <1>5, <1>6, <1>8, UntouchedStep, Zenon DEF MountInv

\* The info block is written through, so that entries may be written again.
LEMMA InfoDoneMount ==
    ASSUME "info" \in WriteThrough, JournalInv, MountInv, InfoDone PROVE MountInv'
<1>1. PICK m : m = Settled("info", InfoWrite)
  BY Zenon
<1>2. /\ pc = "info" /\ UNCHANGED <<writeback_enabled, restarts, queue>> /\ writeback_enabled
      /\ Mounted /\ disk' = Written(InfoWrite)
      /\ \/ call.op = "sync" /\ Return(m) /\ UNCHANGED <<cursor, info>>
         \/ call.op = "data" /\ SendData(call, m)
         \/ call.op = "meta" /\ SendEntry(call, m, {})
  <2>1. pc = "info" /\ writeback_enabled /\ Mounted
    BY SMTT(60) DEF InfoDone, JournalInv, CallInv, Request, Mounted
  <2>2. Outstanding = InfoWrite
    BY <2>1 DEF Outstanding
  <2> QED BY <1>1, <2>1, <2>2, Zenon DEF InfoDone, mount
<1>3. disk'[InfoBlock].valid
  BY <1>2, Blocks, Zenon DEF Written, InfoWrite, Info
<1>4. \A x \in m[InfoBlock] : x.valid
  <2>1. m[InfoBlock] = {InfoWrite[InfoBlock]}
    BY <1>1, Blocks, Zenon DEF Settled, InfoWrite
  <2>2. InfoWrite[InfoBlock].valid
    BY Zenon DEF InfoWrite, Info
  <2> QED BY <2>1, <2>2, Zenon
<1>5. \A b \in Ring : disk'[b] = disk[b] /\ m[b] = maybe[b]
  <2>1. OffRing(InfoWrite) /\ CacheType(maybe)
    BY OffRingRequests, Zenon DEF JournalInv, TypeOK
  <2> QED BY <1>1, <1>2, <2>1, OffRingWrites, Zenon
<1>6. pc # "idle" /\ pc \in {"idle", "info"} /\ pc # "entry"
  BY <1>2
<1>7. call \in CallType /\ call.ops \subseteq Target /\ call.ver \in Nat
      /\ (call.op = "meta" => call.ops \in MetaOps)
  BY Zenon DEF JournalInv, TypeOK, CallType, CallInv
<1>8. CASE Return(m) /\ UNCHANGED <<cursor, info>>
  <2>1. Mounted' /\ maybe' = m
    BY <1>8, Zenon DEF Return, Mounted
  <2>2. PastInv'
    BY <1>2, <1>5, <1>6, <1>8, <2>1, PastKept, Zenon DEF MountInv, RingKept, info
  <2> QED BY <1>3, <1>4, <2>1, <2>2, SoundStep, Zenon DEF MountInv, InfoSound
<1>9. CASE SendData(call, m)
  BY <1>2, <1>3, <1>4, <1>5, <1>6, <1>7, <1>9, SendDataMount, Zenon
<1>10. CASE call.op = "meta" /\ SendEntry(call, m, {})
  BY <1>2, <1>3, <1>4, <1>5, <1>6, <1>7, <1>10, SendEntryMount, Zenon
<1> QED BY <1>2, <1>8, <1>9, <1>10, Zenon

\* A queue to which an item has been added is not empty.
LEMMA NotEmpty ==
    ASSUME NEW p \in Seq(Item), NEW q \in Seq(Item), NEW w
    PROVE  p \o q \o <<w>> # <<>>
<1>1. p \o q \in Seq(Item)
  OBVIOUS
<1>2. PICK s \in Seq(Item) : s = p \o q
  BY <1>1, Zenon
<1>3. Len(s \o <<w>>) = Len(s) + 1 /\ Len(s) \in Nat
  OBVIOUS
<1>4. s \o <<w>> # <<>>
  BY <1>3
<1> QED BY <1>2, <1>4, Zenon

\* An entry leaves the info block alone and leaves an item pending.
LEMMA EntryDoneMount ==
    ASSUME JournalInv, MountInv, EntryDone PROVE MountInv'
<1>0. PICK cur : cur = CurrentEntry
  BY Zenon
<1>1. /\ pc = "entry" /\ pc # "info" /\ writeback_enabled /\ Mounted /\ cur \in Entry
  <2>1. pc = "entry" /\ pc # "info" /\ Mounted
    BY SMTT(60) DEF EntryDone, Mounted
  <2>2. writeback_enabled /\ cur \in Entry
    BY <1>0, <2>1, Zenon DEF JournalInv, CallInv, Request, TypeOK
  <2> QED BY <2>1, <2>2, Zenon
<1>2. /\ UNCHANGED <<writeback_enabled, restarts>> /\ Mounted' /\ UNCHANGED <<cursor, info>>
      /\ disk' = Written(EntryWrite(cur)) /\ maybe' = Settled("entry", EntryWrite(cur))
  BY <1>0, <1>1, Zenon DEF EntryDone, Return, Outstanding, Mounted, mount
<1>3. disk'[InfoBlock] = disk[InfoBlock] /\ maybe'[InfoBlock] = maybe[InfoBlock]
  BY <1>1, <1>2, OffInfoRequests, OffInfoWrites, Zenon
<1>4. pending_work_items' # <<>>
  <2>1. PICK q, w : q \in Seq(Item) /\ pending_work_items' = pending_work_items \o q \o <<w>>
    <3>1. \/ pending_work_items' = pending_work_items \o <<>>
               \o <<[ver |-> call.ver, ops |-> call.ops, trim |-> FALSE]>>
          \/ pending_work_items' = pending_work_items
               \o <<[ver |-> call.ver, ops |-> call.trim, trim |-> TRUE]>>
               \o <<[ver |-> call.ver, ops |-> call.ops, trim |-> FALSE]>>
      BY Zenon DEF EntryDone
    <3>2. [ver |-> call.ver, ops |-> call.trim, trim |-> TRUE] \in Item
      BY Zenon DEF JournalInv, TypeOK, CallType, Item
    <3>3. <<>> \in Seq(Item) /\ \A x \in Item : <<x>> \in Seq(Item)
      OBVIOUS
    <3> QED BY <3>1, <3>2, <3>3, Zenon
  <2>2. pending_work_items \in Seq(Item)
    BY Zenon DEF JournalInv, TypeOK
  <2> QED BY <2>1, <2>2, NotEmpty, Zenon
<1>5. /\ log' = log /\ superblock' = superblock
      /\ next_sequence_number' = next_sequence_number
  BY <1>2, Zenon DEF cursor, info
<1>6. PastInv'
  BY <1>1, <1>2, <1>4, <1>5, Zenon DEF MountInv, PastInv, Live
<1> QED BY <1>1, <1>2, <1>3, <1>6, UntouchedStep, Zenon DEF MountInv

\* A failed request leaves the info block valid; what it was keeps a power
\* failure from losing both the info block and the ring.
LEMMA RequestFailsMount ==
    ASSUME JournalInv, MountInv, RequestFails PROVE MountInv'
<1>1. PICK part \in SUBSET DOMAIN Outstanding : disk' = Written([b \in part |-> Outstanding[b]])
  BY Zenon DEF RequestFails
<1>2. /\ writeback_enabled' = FALSE /\ maybe' = maybe /\ Mounted /\ Mounted' /\ pc \in Request
      /\ writeback_enabled /\ restarts' = restarts /\ disk[InfoBlock].valid
  <2>1. pc \in Request /\ Mounted
    BY SMTT(60) DEF RequestFails, Request, Mounted
  <2>2. writeback_enabled /\ disk[InfoBlock].valid
    BY <2>1, Zenon DEF JournalInv, CallInv, MountInv, InfoInv
  <2> QED BY <2>1, <2>2, Zenon DEF RequestFails, Return, Mounted, mount
<1>3. CASE pc = "info"
  <2>1. Outstanding = InfoWrite
    BY <1>3 DEF Outstanding
  <2>2. disk'[InfoBlock].valid
    <3>1. disk'[InfoBlock] \in {disk[InfoBlock], InfoWrite[InfoBlock]}
      BY <1>1, <2>1, Blocks, Zenon DEF Written
    <3>2. InfoWrite[InfoBlock].valid
      BY Zenon DEF InfoWrite, Info
    <3> QED BY <1>2, <3>1, <3>2, Zenon
  <2>3. RingKept
    <3>1. DOMAIN InfoWrite \cap Ring = {}
      BY OffRingRequests, Zenon DEF OffRing
    <3>2. \A b \in Ring : b \notin part
      BY <2>1, <3>1, Zenon
    <3> QED BY <1>1, <1>2, <3>2, Blocks, Zenon DEF RingKept, Written
  <2> QED BY <1>2, <2>2, <2>3, DisabledStep, Zenon
<1>4. CASE pc # "info"
  <2>1. InfoBlock \notin DOMAIN Outstanding
    <3>1. CASE pc = "home"
      <4>1. pending_work_items # <<>> /\ pending_work_items \in Seq(Item)
        BY <3>1, Zenon DEF JournalInv, TypeOK, CallInv
      <4>2. Head(pending_work_items) \in Item
        BY <4>1
      <4>3. Outstanding = HomeWrite(Head(pending_work_items))
        BY <3>1 DEF Outstanding
      <4> QED BY <4>2, <4>3, OffInfoRequests, Zenon DEF Item
    <3>2. CASE pc = "entry"
      <4>1. CurrentEntry \in Entry
        BY <3>2, Zenon DEF JournalInv, TypeOK, CallInv
      <4>2. Outstanding = EntryWrite(CurrentEntry)
        BY <3>2 DEF Outstanding
      <4> QED BY <4>1, <4>2, OffInfoRequests, Zenon
    <3>3. CASE pc = "data"
      <4>1. call.ops \subseteq Target
        BY Zenon DEF JournalInv, TypeOK, CallType
      <4>2. Outstanding = HomeWrite(call)
        BY <3>3 DEF Outstanding
      <4> QED BY <4>1, <4>2, OffInfoRequests, Zenon
    <3>4. CASE pc = "flush"
      <4>1. Outstanding = [b \in {} |-> 0]
        BY <3>4 DEF Outstanding
      <4> QED BY <4>1, Zenon
    <3> QED BY <1>2, <1>4, <3>1, <3>2, <3>3, <3>4, Zenon DEF Request
  <2>2. disk'[InfoBlock] = disk[InfoBlock]
    BY <1>1, <2>1, Blocks, Zenon DEF Written
  <2>3. AlwaysMountable' /\ InfoInv' /\ ReplayInv'
    BY <1>2, <1>4, <2>2, UntouchedStep, Zenon
  <2>4. PastInv'
    BY <1>2, Zenon DEF PastInv
  <2> QED BY <2>3, <2>4, Zenon DEF MountInv
<1> QED BY <1>3, <1>4, Zenon

\* The calls of the writer.
LEMMA CallsMount ==
    ASSUME JournalInv, JournalInv', MountInv,
           \/ \E ops \in DataOps : WriteData(ops)
           \/ \E ops \in MetaOps, trim \in TrimOps : WriteMetadata(ops, trim)
           \/ Sync \/ Flush \/ DataDone
    PROVE  MountInv'
<1>1. /\ pc = "idle" => /\ pc \in {"idle", "info"} /\ pc # "info" /\ pc # "entry" /\ Mounted
                        /\ disk[InfoBlock].valid
      /\ pc = "idle" /\ restarts = 0 /\ writeback_enabled => \A x \in maybe[InfoBlock] : x.valid
  BY SMTT(60) DEF Mounted, MountInv, InfoInv, InfoSound
<1>2. ASSUME NEW ops \in DataOps, WriteData(ops) PROVE MountInv'
  <2>1. PICK c : c = Call("data", ops, {})
    BY Zenon
  <2>2. pc = "idle" /\ UNCHANGED <<disk, writeback_enabled, restarts>> /\ c.ops \subseteq Target
    BY <1>2, <2>1, OpsAssumption, Zenon DEF WriteData, Submit, mount, Call
  <2>3. WriteInfoBlock(c) \/ (SendData(c, maybe) /\ UNCHANGED queue)
    BY <1>2, <2>1, Zenon DEF WriteData
  <2>4. CASE WriteInfoBlock(c)
    BY <2>2, <2>4, WriteInfoBlockMount, Zenon
  <2>5. CASE SendData(c, maybe) /\ UNCHANGED queue
    BY <1>1, <2>2, <2>5, SendDataMount, Zenon
  <2> QED BY <2>3, <2>4, <2>5, Zenon
<1>3. ASSUME NEW ops \in MetaOps, NEW trim \in TrimOps, WriteMetadata(ops, trim) PROVE MountInv'
  <2>1. PICK c : c = Call("meta", ops, trim)
    BY Zenon
  <2>2. pc = "idle" /\ UNCHANGED <<disk, writeback_enabled, restarts>> /\ c.ops \in MetaOps
    BY <1>3, <2>1, Zenon DEF WriteMetadata, Submit, mount, Call
  <2>3. WriteInfoBlock(c) \/ SendEntry(c, maybe, live_metadata_operations)
    BY <1>3, <2>1, Zenon DEF WriteMetadata
  <2>4. CASE WriteInfoBlock(c)
    BY <2>2, <2>4, WriteInfoBlockMount, Zenon
  <2>5. CASE SendEntry(c, maybe, live_metadata_operations)
    <3>1. c.ver \in Nat
      <4>1. Len(hist) \in Nat /\ c.ver = Len(hist) + 1
        BY <2>1 DEF Call, JournalInv, TypeOK
      <4> QED BY <4>1
    <3> QED BY <1>1, <2>2, <2>5, <3>1, SendEntryMount, Zenon
  <2> QED BY <2>3, <2>4, <2>5, Zenon
<1>4. CASE Sync
  BY <1>4, WriteInfoBlockMount, Zenon DEF Sync, mount
<1>5. CASE Flush
  <2>1. /\ pc = "idle" /\ Mounted' /\ UNCHANGED <<disk, maybe, writeback_enabled, restarts>>
        /\ UNCHANGED <<cursor, info>> /\ (writeback_enabled => UNCHANGED queue)
    BY <1>5, Zenon DEF Flush, Send, Return, Mounted, mount
  <2>2. PastInv'
    BY <1>1, <2>1, PastKept, Zenon DEF MountInv, RingKept, info
  <2>3. CASE writeback_enabled
    BY <1>1, <2>1, <2>2, <2>3, UntouchedStep, Zenon DEF MountInv
  <2>4. CASE ~writeback_enabled
    BY <1>1, <2>1, <2>4, DisabledStep, Zenon DEF RingKept
  <2> QED BY <2>3, <2>4, Zenon
<1>6. CASE DataDone
  <2>1. pc = "data" /\ pc # "info" /\ pc # "entry" /\ Mounted /\ writeback_enabled
    BY <1>6, SMTT(60) DEF DataDone, Mounted, JournalInv, CallInv, Request
  <2>2. /\ Mounted' /\ maybe' = maybe /\ disk' = Written(HomeWrite(call))
        /\ UNCHANGED <<writeback_enabled, restarts>> /\ UNCHANGED <<cursor, info>>
        /\ UNCHANGED queue
    BY <1>6, <2>1, Zenon DEF DataDone, Return, Mounted, mount, Outstanding
  <2>3. call.ops \subseteq Target
    BY Zenon DEF JournalInv, TypeOK, CallType
  <2>4. RingKept
    BY <2>2, <2>3, OffRingRequests, OffRingWrites, Zenon DEF RingKept
  <2>5. disk'[InfoBlock] = disk[InfoBlock]
    BY <2>2, <2>3, OffInfoRequests, OffInfoWrites, Zenon
  <2>6. PastInv'
    BY <2>1, <2>2, <2>4, PastKept, Zenon DEF MountInv, info
  <2> QED BY <2>1, <2>2, <2>5, <2>6, UntouchedStep, Zenon DEF MountInv
<1> QED BY <1>2, <1>3, <1>4, <1>5, <1>6, Zenon

\* A power failure spoils the info block only where the ring still holds
\* something to restore it from.
LEMMA CrashMount ==
    ASSUME ~MixedFaults, MountInv, Crash PROVE MountInv'
<1>1. PICK image : /\ \A b \in Block : image[b] \in maybe[b]
                   /\ disk' = [b \in Block |-> image[b]]
                   /\ maybe' = [b \in Block |-> {image[b]}]
  BY Zenon DEF Crash
<1>2. pc' = "down" /\ restarts = 0 /\ restarts' = restarts
  BY Zenon DEF Crash, Forget
<1>3. \A b \in Ring : disk'[b] \in maybe[b] /\ maybe'[b] = {disk'[b]}
  BY <1>1, Blocks, Zenon
<1>4. disk'[InfoBlock] \in maybe[InfoBlock] /\ maybe'[InfoBlock] = {disk'[InfoBlock]}
  BY <1>1, Blocks, Zenon
<1>5. ASSUME ~disk'[InfoBlock].valid PROVE HasMetadata' /\ Anchored'
  <2>1. Anchored
    BY <1>2, <1>4, <1>5, Zenon DEF MountInv, InfoInv, InfoSound
  <2>2. PICK b \in Ring : \A c \in maybe[b] : IsMetadata(c)
    BY <2>1, Zenon DEF Anchored
  <2> QED BY <1>3, <2>2, Zenon DEF HasMetadata, Anchored, IsMetadata
<1>6. ~InfoSound' => ~disk'[InfoBlock].valid
  BY <1>4, Zenon DEF InfoSound
<1>7. /\ pc' # "corrupt" /\ pc' # "parse" /\ pc' \notin {"replay_home", "replay_flush"}
      /\ pc' \notin InfoRead /\ ~Mounted'
  BY <1>2 DEF InfoRead, Mounted
<1>8. InfoInv'
  BY <1>5, <1>6, <1>7, Zenon DEF InfoInv
<1>9. ReplayInv'
  BY <1>3, <1>4, <1>7, Zenon DEF ReplayInv
<1> QED BY <1>7, <1>8, <1>9, Zenon DEF MountInv, AlwaysMountable, PastInv

\* After a restart the info block is still the one in use.
LEMMA RestartMount ==
    ASSUME JournalInv, MountInv, Restart PROVE MountInv'
<1>1. /\ pc' = "down" /\ disk' = disk /\ disk[InfoBlock].valid
  BY Zenon DEF Restart, Forget, MountInv, InfoInv
<1>2. restarts' # 0
  BY DEF Restart, JournalInv, TypeOK
<1>3. /\ pc' # "corrupt" /\ pc' # "parse" /\ pc' \notin {"replay_home", "replay_flush"}
      /\ pc' \notin InfoRead /\ ~Mounted'
  BY <1>1 DEF InfoRead, Mounted
<1> QED BY <1>1, <1>2, <1>3, Zenon
        DEF MountInv, AlwaysMountable, InfoInv, ReplayInv, PastInv

\* What the steps of replay have in common: the ring is left alone.
LEMMA ReplaySteps ==
    ASSUME MountInv, ~Mounted, ~Mounted', RingKept, restarts' = restarts, pc' # "corrupt",
           pc' # "down",
           pc' \in InfoRead => /\ disk'[InfoBlock].valid
                               /\ restarts = 0 => InfoSound',
           ~disk'[InfoBlock].valid => HasMetadata,
           restarts = 0 /\ ~InfoSound' => HasMetadata,
           pc' = "parse" /\ DOMAIN replay'.operations # {} => HasMetadata,
           pc' \in {"replay_home", "replay_flush"} => HasMetadata
    PROVE  MountInv'
<1>1. HasMetadata => HasMetadata'
  BY KeptMetadata, Zenon
<1>2. restarts = 0 => \A b \in Ring : maybe'[b] = {disk'[b]}
  BY Zenon DEF MountInv, ReplayInv, RingKept
<1>3. restarts = 0 /\ HasMetadata => Anchored'
  <2> SUFFICES ASSUME restarts = 0, HasMetadata PROVE Anchored'
    BY Zenon
  <2>1. PICK b \in Ring : IsMetadata(disk'[b])
    BY <1>1, Zenon DEF HasMetadata, IsMetadata
  <2> QED BY <1>2, <2>1, Zenon DEF Anchored, IsMetadata
<1>4. InfoInv'
  BY <1>1, <1>3, Zenon DEF InfoInv
<1>5. ReplayInv'
  BY <1>1, <1>2, Zenon DEF ReplayInv
<1> QED BY <1>4, <1>5, Zenon DEF MountInv, AlwaysMountable, PastInv

\* ReplayJournal reads a valid info block, or restores one from the ring.
LEMMA ReplayMount ==
    ASSUME MountInv, Replay PROVE MountInv'
<1>1. pc = "down" /\ ~Mounted /\ restarts' = restarts /\ disk' = disk
  BY SMTT(60) DEF Replay, Mounted
<1>2. CASE disk[InfoBlock].valid
  <2>1. pc' = "parse" /\ maybe' = maybe
        /\ replay' = [NoReplay EXCEPT !.start = disk[InfoBlock].start, !.seq = disk[InfoBlock].seq]
    BY <1>2, Zenon DEF Replay
  <2>2. DOMAIN replay'.operations = {}
    BY <2>1 DEF NoReplay
  <2>3. restarts = 0 => InfoSound'
    BY <1>1, <1>2, <2>1, Zenon DEF MountInv, ReplayInv, InfoSound
  <2>4. ~Mounted' /\ pc' # "corrupt" /\ pc' # "down" /\ pc' \notin {"replay_home", "replay_flush"}
    BY <2>1 DEF Mounted
  <2> QED BY <1>1, <1>2, <2>1, <2>2, <2>3, <2>4, ReplaySteps, Zenon DEF RingKept
<1>3. CASE ~disk[InfoBlock].valid
  <2>1. HasMetadata
    BY <1>3, Zenon DEF MountInv, InfoInv
  <2>2. RingSequenceNumbers # {}
    BY <2>1, Zenon DEF HasMetadata, RingSequenceNumbers
  <2>3. /\ pc' = "replay_info"
        /\ \E n : maybe' = Issued(maybe, [b \in {InfoBlock} |-> Info(0, n + 1)])
    BY <1>3, <2>2, Zenon DEF Replay, Restored
  <2>4. RingKept
    BY <1>1, <2>3, Blocks, Zenon DEF RingKept, Issued
  <2>5. /\ ~Mounted' /\ pc' # "corrupt" /\ pc' # "down" /\ pc' \notin InfoRead /\ pc' # "parse"
        /\ pc' \notin {"replay_home", "replay_flush"}
    BY <2>3 DEF Mounted, InfoRead
  <2> QED BY <1>1, <2>1, <2>4, <2>5, ReplaySteps, Zenon
<1> QED BY <1>2, <1>3, Zenon

\* The rest of replay: what is replayed was read from the ring, which stays as
\* it is, and the info block is written through.
LEMMA ReplayRestMount ==
    ASSUME "info" \in WriteThrough, JournalInv, MountInv,
           ParseEntry \/ ParseDone \/ ReplayHomeDone \/ ReplayFlushDone \/ ReplayInfoDone
              \/ ReplayFails
    PROVE  MountInv'
<1>1. OffRing(replay.operations) /\ InfoBlock \notin DOMAIN replay.operations
  BY Blocks, Zenon DEF OffRing, JournalInv, TypeOK
<1>2. ASSUME pc \in InfoRead
      PROVE  disk[InfoBlock].valid /\ (restarts = 0 => InfoSound)
  BY <1>2, Zenon DEF MountInv, InfoInv
<1>3. CASE ParseEntry
  <2>1. /\ pc = "parse" /\ pc' = "parse" /\ UNCHANGED <<disk, maybe, restarts>>
        /\ IsEntry(replay.start, replay.seq)
    BY <1>3, Zenon DEF ParseEntry
  <2>2. /\ ~Mounted /\ ~Mounted' /\ pc' # "corrupt" /\ pc' # "down" /\ pc \in InfoRead
        /\ pc' \notin {"replay_home", "replay_flush"}
    BY <2>1 DEF Mounted, InfoRead
  <2>3. HasMetadata
    <3>1. replay.start \in Nat
      BY CapacityAssumption DEF JournalInv, TypeOK
    <3>2. RingBlock(replay.start) \in Ring
      BY <3>1, Blocks, Zenon
    <3> QED BY <2>1, <3>2, Zenon DEF IsEntry, HasMetadata, IsMetadata
  <2>4. RingKept /\ (InfoSound => InfoSound')
    BY <2>1, Zenon DEF RingKept, InfoSound
  <2> QED BY <1>2, <2>1, <2>2, <2>3, <2>4, ReplaySteps, Zenon
<1>4. CASE ParseDone
  <2>1. /\ pc = "parse" /\ UNCHANGED <<disk, replay, restarts>>
        /\ pc' = IF DOMAIN replay.operations = {} THEN "replayed" ELSE "replay_home"
        /\ maybe' = Issued(maybe, replay.operations)
    BY <1>4, Zenon DEF ParseDone
  <2>2. /\ ~Mounted /\ ~Mounted' /\ pc' # "corrupt" /\ pc' # "down" /\ pc' # "parse"
        /\ pc \in InfoRead
        /\ pc' \in {"replay_home", "replay_flush"} => DOMAIN replay.operations # {}
    BY <2>1, SMTT(60) DEF Mounted, InfoRead
  <2>3. DOMAIN replay.operations # {} => HasMetadata
    BY <2>1, Zenon DEF MountInv, ReplayInv
  <2>4. RingKept /\ (InfoSound => InfoSound')
    BY <1>1, <2>1, OffRingWrites, OffInfoWrites, Zenon DEF RingKept, InfoSound
  <2> QED BY <1>2, <2>1, <2>2, <2>3, <2>4, ReplaySteps, Zenon
<1>5. CASE ReplayHomeDone
  <2>1. /\ pc = "replay_home" /\ pc' = "replay_flush" /\ UNCHANGED <<maybe, restarts>>
        /\ disk' = Written(replay.operations)
    BY <1>5, Zenon DEF ReplayHomeDone
  <2>2. /\ ~Mounted /\ ~Mounted' /\ pc' # "corrupt" /\ pc' # "down" /\ pc' # "parse"
        /\ pc \in InfoRead
    BY <2>1 DEF Mounted, InfoRead
  <2>3. HasMetadata
    BY <2>1, Zenon DEF MountInv, ReplayInv
  <2>4. RingKept /\ disk'[InfoBlock] = disk[InfoBlock] /\ (InfoSound => InfoSound')
    BY <1>1, <2>1, OffRingWrites, OffInfoWrites, Zenon DEF RingKept, InfoSound
  <2> QED BY <1>2, <2>1, <2>2, <2>3, <2>4, ReplaySteps, Zenon
<1>6. CASE ReplayFlushDone
  <2>1. /\ pc = "replay_flush" /\ pc' = "replay_info" /\ UNCHANGED <<disk, restarts>>
        /\ maybe' = Issued(Flushed, InfoWrite)
    BY <1>6, Zenon DEF ReplayFlushDone
  <2>2. /\ ~Mounted /\ ~Mounted' /\ pc' # "corrupt" /\ pc' # "down" /\ pc' # "parse"
        /\ pc \in InfoRead /\ pc' \notin InfoRead
        /\ pc' \notin {"replay_home", "replay_flush"}
    BY <2>1 DEF Mounted, InfoRead
  <2>3. HasMetadata
    BY <2>1, Zenon DEF MountInv, ReplayInv
  <2>4. ASSUME NEW b \in Ring PROVE maybe'[b] = {disk'[b]}
    <3>1. Issued(Flushed, InfoWrite)[b] = Flushed[b]
      BY OffRingRequests, OffRingWrites, Zenon
    <3> QED BY <2>1, <3>1, Blocks, Zenon DEF Flushed
  <2>5. PICK b \in Ring : IsMetadata(disk'[b])
    BY <2>1, <2>3, Zenon DEF HasMetadata
  <2>6. HasMetadata' /\ Anchored'
    BY <2>4, <2>5, Zenon DEF HasMetadata, Anchored, IsMetadata
  <2> QED BY <2>1, <2>2, <2>4, <2>6, Zenon
          DEF MountInv, AlwaysMountable, InfoInv, ReplayInv, PastInv
<1>7. CASE ReplayInfoDone
  <2>1. /\ pc = "replay_info" /\ pc' = "replayed" /\ UNCHANGED restarts
        /\ disk' = Written(InfoWrite) /\ maybe' = Settled("info", InfoWrite)
    BY <1>7, Zenon DEF ReplayInfoDone
  <2>2. /\ ~Mounted /\ ~Mounted' /\ pc' # "corrupt" /\ pc' # "down" /\ pc' # "parse"
        /\ pc' \notin {"replay_home", "replay_flush"}
    BY <2>1 DEF Mounted
  <2>3. RingKept
    <3>1. OffRing(InfoWrite) /\ CacheType(maybe)
      BY OffRingRequests, Zenon DEF JournalInv, TypeOK
    <3> QED BY <2>1, <3>1, OffRingWrites, Zenon DEF RingKept
  <2>4. InfoWrite[InfoBlock].valid /\ DOMAIN InfoWrite = {InfoBlock}
    BY Zenon DEF InfoWrite, Info
  <2>5. /\ disk'[InfoBlock] = InfoWrite[InfoBlock]
        /\ maybe'[InfoBlock] = {InfoWrite[InfoBlock]}
    BY <2>1, <2>4, Blocks, Zenon DEF Written, Settled
  <2>6. disk'[InfoBlock].valid /\ InfoSound'
    BY <2>4, <2>5, Zenon DEF InfoSound
  <2> QED BY <2>1, <2>2, <2>3, <2>6, ReplaySteps, Zenon
<1>8. CASE ReplayFails
  <2>1. pc' = "failed" /\ UNCHANGED <<disk, maybe, restarts>>
        /\ pc \in {"replay_home", "replay_flush", "replay_info"}
    BY <1>8, Zenon DEF ReplayFails
  <2>2. /\ ~Mounted /\ ~Mounted' /\ pc' # "corrupt" /\ pc' # "down" /\ pc' # "parse"
        /\ pc' \notin InfoRead /\ pc' \notin {"replay_home", "replay_flush"}
    BY <2>1 DEF Mounted, InfoRead
  <2>3. RingKept /\ (InfoSound => InfoSound')
    BY <2>1, Zenon DEF RingKept, InfoSound
  <2>4. (~disk[InfoBlock].valid => HasMetadata) /\ (restarts = 0 /\ ~InfoSound => HasMetadata)
    BY Zenon DEF MountInv, InfoInv, Anchored, HasMetadata
  <2> QED BY <2>1, <2>2, <2>3, <2>4, ReplaySteps, Zenon
<1> QED BY <1>3, <1>4, <1>5, <1>6, <1>7, <1>8, Zenon

\* The writer starts with a valid info block and no entry to move it past.
LEMMA MountMount ==
    ASSUME JournalInv, MountInv, Mount PROVE MountInv'
<1>1. /\ pc = "replayed" /\ Mounted' /\ UNCHANGED <<disk, maybe, restarts, superblock>>
      /\ next_sequence_number' = superblock.seq /\ log' = {e \in log : e.seq < superblock.seq}
  BY Zenon DEF Mount, Mounted
<1>2. pc \in InfoRead
  BY <1>1 DEF InfoRead
<1>3. disk'[InfoBlock].valid /\ (restarts' = 0 => InfoSound')
  BY <1>1, <1>2, Zenon DEF MountInv, InfoInv, InfoSound
<1>4. log \subseteq Entry /\ superblock.seq \in Nat
  BY Zenon DEF JournalInv, TypeOK, InfoContent
<1>5. \A e \in log' : ~Live(e)'
  BY <1>1, <1>4 DEF Live, Entry
<1>6. ~(next_sequence_number' > superblock'.seq)
  BY <1>1, <1>4
<1>7. PastInv'
  BY <1>5, <1>6, Zenon DEF PastInv
<1> QED BY <1>1, <1>3, <1>7, SoundStep, Zenon DEF MountInv

\* MakeJournal writes a valid info block.
LEMMA MountInit ==
    ASSUME Init PROVE MountInv
<1>1. pc = "down" /\ maybe = [b \in Block |-> {disk[b]}] /\ disk[InfoBlock] = Info(0, 0)
  BY Blocks, SMTT(60) DEF Init
<1>2. disk[InfoBlock].valid /\ maybe[InfoBlock] = {disk[InfoBlock]}
  <2>1. Info(0, 0).valid
    BY Zenon DEF Info
  <2> QED BY <1>1, <2>1, Blocks, Zenon
<1>3. InfoSound /\ \A b \in Ring : maybe[b] = {disk[b]}
  BY <1>1, <1>2, Blocks, Zenon DEF InfoSound
<1>4. /\ pc # "corrupt" /\ pc # "parse" /\ pc \notin {"replay_home", "replay_flush"}
      /\ pc \notin InfoRead /\ ~Mounted
  BY <1>1 DEF InfoRead, Mounted
<1> QED BY <1>2, <1>3, <1>4, Zenon DEF MountInv, AlwaysMountable, InfoInv, ReplayInv, PastInv

\* Replay always finds a valid info block or a block of the ring to restore it
\* from, on a device that has the info block when its write completes (the
\* journal sends no flush between it and the next entry) and where no power
\* failure follows a restart of the process.  Neither can be left out.
THEOREM AlwaysMountableWriteThrough ==
    ASSUME "info" \in WriteThrough, ~MixedFaults
    PROVE  Spec => []AlwaysMountable
<1>1. Init => MountInv
  BY MountInit, Zenon
<1>2. JournalInv /\ JournalInv' /\ MountInv /\ [Next]_vars => MountInv'
  <2> SUFFICES ASSUME JournalInv, JournalInv', MountInv, [Next]_vars PROVE MountInv'
    BY Zenon
  <2>1. CASE UNCHANGED vars
    BY <2>1, Zenon DEF vars, MountInv, AlwaysMountable, InfoInv, ReplayInv, PastInv, Mounted,
                       HasMetadata, Anchored, InfoSound, IsMetadata, Live, Durable
  <2>2. CASE Next
    BY <2>2, CallsMount, FlushDoneMount, HomeDoneMount, InfoDoneMount, EntryDoneMount,
       RequestFailsMount, CrashMount, RestartMount, ReplayMount, ReplayRestMount, MountMount,
       Zenon DEF Next
  <2> QED BY <2>1, <2>2, Zenon
<1>3. MountInv => AlwaysMountable
  BY Zenon DEF MountInv
<1> QED BY <1>1, <1>2, <1>3, JournalInvariant, PTL DEF Spec

=============================================================================
