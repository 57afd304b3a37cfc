------------------------ MODULE JournalWriterRing ------------------------
(***************************************************************************)
(* Facts about the ring of JournalWriter and what is written to it, and the*)
(* proof that its steps preserve RingInv, LogInv, TypeOK and what is known *)
(* of the outstanding call and of the live blocks (CallInv, LiveInv).      *)
(***************************************************************************)
EXTENDS JournalWriter, FiniteSetTheorems, TLAPS

-----------------------------------------------------------------------------
(* Arithmetic of the ring.                                                 *)

\* A position is a whole number of turns plus its offset in the ring.
LEMMA Turns ==
    ASSUME NEW p \in Nat
    PROVE  /\ p % Capacity \in 0..(Capacity - 1)
           /\ p \div Capacity \in Nat
           /\ p = Capacity * (p \div Capacity) + (p % Capacity)
  BY CapacityAssumption

\* Positions less than a turn apart share no ring block.
LEMMA RingInjective ==
    ASSUME NEW p \in Nat, NEW q \in Nat, p <= q, q < p + Capacity,
           p % Capacity = q % Capacity
    PROVE  p = q
<1> DEFINE a == p \div Capacity
           b == q \div Capacity
<1>1. /\ a \in Nat /\ b \in Nat
      /\ p = Capacity * a + (p % Capacity)
      /\ q = Capacity * b + (q % Capacity)
      /\ p % Capacity \in Nat
  BY Turns
<1> HIDE DEF a, b
<1>2. q - p = Capacity * (b - a)
  BY <1>1, CapacityAssumption, SMTT(30)
<1>3. b - a >= 1 => Capacity * (b - a) >= Capacity
  BY <1>1, CapacityAssumption, SMTT(30)
<1>4. b - a <= -1 => Capacity * (b - a) < 0
  BY <1>1, CapacityAssumption, SMTT(30)
<1>5. b - a = 0
  BY <1>1, <1>2, <1>3, <1>4, CapacityAssumption
<1> QED
  BY <1>1, <1>5

\* An offset is its own remainder, also a turn later.
LEMMA SmallOffset ==
    ASSUME NEW n \in 0..(Capacity - 1), NEW k \in Int
    PROVE  (Capacity * k + n) % Capacity = n
<1> DEFINE x == Capacity * k + n
           d == x \div Capacity
           r == x % Capacity
<1>1. x \in Int /\ Capacity \in Nat /\ Capacity > 0
  BY CapacityAssumption, SMTT(30)
<1>2. r \in 0..(Capacity - 1) /\ d \in Int /\ x = Capacity * d + r
  BY <1>1, SMTT(30)
<1>3. Capacity * (k - d) = r - n
  <2> HIDE DEF d, r
  <2> QED BY <1>1, <1>2, SMTT(30)
<1> HIDE DEF d, r, x
<1>4. k - d >= 1 => Capacity * (k - d) >= Capacity
  BY <1>1, <1>2, SMTT(30)
<1>5. k - d <= -1 => Capacity * (k - d) <= -Capacity
  BY <1>1, <1>2, SMTT(30)
<1>6. k = d
  BY <1>1, <1>2, <1>3, <1>4, <1>5
<1>7. r = n
  BY <1>1, <1>2, <1>3, <1>6, SMTT(30)
<1> QED BY <1>7, Zenon DEF r, x

\* Advancing the offset advances the position (WriteOperationToJournal).
LEMMA RingAdvance ==
    ASSUME NEW p \in Nat, NEW n \in Nat
    PROVE  ((p % Capacity) + n) % Capacity = (p + n) % Capacity
<1> DEFINE y == (p % Capacity) + n
           a == p \div Capacity
           c == y \div Capacity
           r == y % Capacity
<1>1. /\ y \in Nat /\ a \in Nat /\ c \in Nat /\ r \in 0..(Capacity - 1)
      /\ p = Capacity * a + (p % Capacity) /\ y = Capacity * c + r
  <2>1. y \in Nat
    BY Turns
  <2> HIDE DEF y
  <2>2. c \in Nat /\ r \in 0..(Capacity - 1) /\ y = Capacity * c + r
    BY <2>1, Turns, Zenon
  <2> QED BY <2>1, <2>2, Turns, Zenon
<1> HIDE DEF a, c, r
<1>2. p + n = Capacity * a + y
  <2> DEFINE o == p % Capacity
  <2>1. o \in Nat /\ p = Capacity * a + o /\ y = o + n
    BY <1>1, Turns
  <2>2. Capacity * a \in Nat
    BY <1>1, CapacityAssumption, SMTT(30)
  <2> HIDE DEF o, y
  <2> QED BY <2>1, <2>2
<1> HIDE DEF y
<1>3. p + n = Capacity * (a + c) + r
  BY <1>1, <1>2, CapacityAssumption, SMTT(30)
<1>4. (Capacity * (a + c) + r) % Capacity = r
  BY <1>1, SmallOffset
<1> QED BY <1>3, <1>4, Zenon DEF r, y

\* The number of used blocks WriteInfoBlockIfIntersect computes from the two
\* offsets is the distance of the positions, unless that is a whole turn.
LEMMA UsedBlocks ==
    ASSUME NEW h \in Nat, NEW t \in Nat, h <= t, t <= h + Capacity
    PROVE  LET s == h % Capacity
               e == t % Capacity
           IN  /\ t = h + Capacity => s = e
               /\ t < h + Capacity => /\ s <= e => e - s = t - h
                                      /\ s > e => (Capacity - s) + e = t - h
<1> DEFINE s == h % Capacity
           e == t % Capacity
           a == h \div Capacity
           b == t \div Capacity
<1>1. /\ a \in Nat /\ b \in Nat /\ s \in 0..(Capacity - 1) /\ e \in 0..(Capacity - 1)
      /\ h = Capacity * a + s /\ t = Capacity * b + e
  BY Turns, Zenon
<1>2. Capacity \in Nat /\ Capacity >= 3
  BY CapacityAssumption, Zenon
<1>3. t = h + Capacity => s = e
  <2> SUFFICES ASSUME t = h + Capacity PROVE s = e
    BY Zenon
  <2>1. t = Capacity * (a + 1) + s
    <3> HIDE DEF s, a
    <3> QED BY <1>1, <1>2, SMTT(30)
  <2>2. (Capacity * (a + 1) + s) % Capacity = s
    <3> HIDE DEF s, a
    <3> QED BY <1>1, SmallOffset
  <2> QED BY <2>1, <2>2, Zenon
<1> HIDE DEF a, b, s, e
<1>4. t - h = Capacity * (b - a) + (e - s)
  BY <1>1, <1>2, SMTT(30)
<1>5. b - a >= 2 => Capacity * (b - a) >= 2 * Capacity
  BY <1>1, <1>2, SMTT(30)
<1>6. b - a <= -1 => Capacity * (b - a) <= -Capacity
  BY <1>1, <1>2, SMTT(30)
<1>7. b - a \in {0, 1}
  BY <1>1, <1>2, <1>4, <1>5, <1>6
<1>8. (b - a = 0 => t - h = e - s) /\ (b - a = 1 => t - h = Capacity + (e - s))
  BY <1>1, <1>2, <1>4
<1>9. t < h + Capacity => (s <= e => e - s = t - h) /\ (s > e => (Capacity - s) + e = t - h)
  BY <1>1, <1>2, <1>7, <1>8
<1> QED BY <1>3, <1>9, Zenon DEF s, e

-----------------------------------------------------------------------------
(* Entries in the ring.                                                    *)

\* The number of blocks of an entry is a natural number, and one that fits in
\* the ring for a transaction that CommitTransaction accepts.
LEMMA EntryLengths ==
    /\ \A ops \in SUBSET Target : EntryLength(ops) \in Nat /\ Cardinality(ops) \in Nat
    /\ \A ops \in MetaOps : ops \in SUBSET Target /\ EntryLength(ops) \in 3..Capacity
<1>1. ASSUME NEW ops \in SUBSET Target
      PROVE  EntryLength(ops) \in Nat /\ Cardinality(ops) \in Nat
  <2>1. Cardinality(ops) \in Nat
    BY FS_Subset, FS_CardinalityType, TargetAssumption, Zenon
  <2> QED BY <2>1 DEF EntryLength, EntryMetadataBlocks
<1> QED BY <1>1, OpsAssumption, Zenon DEF EntryLength, EntryMetadataBlocks

\* Every position has a block in the ring, and the ring, the info block and the
\* blocks outside the journal are different blocks.
LEMMA Blocks ==
    /\ \A p \in Nat : RingBlock(p) \in Ring
    /\ \A b \in Ring : b \in Block /\ b \notin Target /\ b # InfoBlock
    /\ \A b \in Target : b \in Block /\ b \notin Ring /\ b # InfoBlock
    /\ InfoBlock \in Block
  BY Turns, CapacityAssumption, TargetAssumption DEF RingBlock, Ring, Block, InfoBlock

\* Two positions less than a turn apart are in different blocks.
LEMMA BlocksDiffer ==
    ASSUME NEW h \in Nat, NEW p \in h..(h + Capacity - 1), NEW q \in h..(h + Capacity - 1),
           RingBlock(p) = RingBlock(q)
    PROVE  p = q
<1>1. p \in Nat /\ q \in Nat /\ p < q + Capacity /\ q < p + Capacity
  BY CapacityAssumption
<1>2. p % Capacity = q % Capacity
  BY <1>1, Turns DEF RingBlock
<1>3. CASE p <= q
  BY <1>1, <1>2, <1>3, RingInjective, Zenon
<1>4. CASE q <= p
  BY <1>1, <1>2, <1>4, RingInjective, Zenon
<1> QED BY <1>1, <1>3, <1>4

\* Block i of an entry is written to ring position e.pos + i.
LEMMA EntryWriteAt ==
    ASSUME NEW e \in Entry, NEW i \in 0..(EntryLength(e.ops) - 1)
    PROVE  /\ RingBlock(e.pos + i) \in DOMAIN EntryWrite(e)
           /\ EntryWrite(e)[RingBlock(e.pos + i)] = EntryBlock(e, i)
<1> DEFINE n == EntryLength(e.ops)
           b == RingBlock(e.pos + i)
<1>1. e.pos \in Nat /\ n \in 3..Capacity
  BY EntryLengths, Zenon DEF Entry
<1>2. b \in EntryBlocks(e)
  BY Zenon DEF EntryBlocks
<1>3. /\ EntryIndex(e, b) \in 0..(n - 1)
      /\ RingBlock(e.pos + EntryIndex(e, b)) = b
  <2>1. \E k \in 0..(n - 1) : RingBlock(e.pos + k) = b
    BY Zenon
  <2> QED BY <2>1, Zenon DEF EntryIndex
<1>4. EntryIndex(e, b) = i
  <2> DEFINE k == EntryIndex(e, b)
  <2>1. /\ e.pos + k \in e.pos..(e.pos + Capacity - 1)
        /\ e.pos + i \in e.pos..(e.pos + Capacity - 1)
    BY <1>1, <1>3, CapacityAssumption
  <2>2. e.pos + k = e.pos + i
    BY <1>1, <1>3, <2>1, BlocksDiffer, Zenon
  <2> HIDE DEF k
  <2>3. k \in Int /\ i \in Int
    BY <1>1, <1>3 DEF k
  <2>4. k = i
    BY <1>1, <2>2, <2>3
  <2> QED BY <2>4, Zenon DEF k
<1> QED BY <1>2, <1>4, Zenon DEF EntryWrite

\* Entries that occupy different positions within one turn share no block.
LEMMA EntriesDisjoint ==
    ASSUME NEW e \in Entry, NEW f \in Entry, NEW h \in Nat,
           h <= e.pos, e.pos + EntryLength(e.ops) <= h + Capacity,
           h <= f.pos, f.pos + EntryLength(f.ops) <= h + Capacity,
           \/ e.pos + EntryLength(e.ops) <= f.pos
           \/ f.pos + EntryLength(f.ops) <= e.pos,
           NEW i \in 0..(EntryLength(f.ops) - 1)
    PROVE  RingBlock(f.pos + i) \notin DOMAIN EntryWrite(e)
<1> SUFFICES ASSUME NEW k \in 0..(EntryLength(e.ops) - 1),
                    RingBlock(f.pos + i) = RingBlock(e.pos + k)
             PROVE  FALSE
  BY Zenon DEF EntryWrite, EntryBlocks
<1>1. /\ e.pos \in Nat /\ EntryLength(e.ops) \in Nat
      /\ f.pos \in Nat /\ EntryLength(f.ops) \in Nat
  BY EntryLengths, Zenon DEF Entry
<1>2. /\ f.pos + i \in h..(h + Capacity - 1)
      /\ e.pos + k \in h..(h + Capacity - 1)
  BY <1>1, CapacityAssumption
<1>3. f.pos + i = e.pos + k
  BY <1>2, BlocksDiffer, Zenon
<1> QED BY <1>1, <1>3

-----------------------------------------------------------------------------
(* Types of what is written.                                               *)

WriteType(w) == DOMAIN w \subseteq Block /\ \A b \in DOMAIN w : w[b] \in Content(b)

\* Issuing a write leaves only contents of the right kind in the cache.
LEMMA IssuedType ==
    ASSUME NEW m, CacheType(m), NEW w, WriteType(w)
    PROVE  CacheType(Issued(m, w))
<1>1. ASSUME NEW b \in Block, NEW c \in Content(b)
      PROVE  Spoiled(b, c) \in Content(b)
  <2>1. CASE b = InfoBlock
    BY <1>1, <2>1, Zenon DEF Spoiled, Content, InfoContent, Unreadable
  <2>2. CASE b # InfoBlock /\ b \in Ring
    BY <2>2 DEF Spoiled, Content, RingContent, Blank
  <2>3. CASE b # InfoBlock /\ b \notin Ring
    BY <2>3 DEF Spoiled, Content, Torn
  <2> QED BY <2>1, <2>2, <2>3, Zenon
<1>2. \A b \in Block : Issued(m, w)[b] \subseteq Content(b)
  BY <1>1, Zenon DEF Issued, CacheType, WriteType
<1> QED BY <1>2, Zenon DEF Issued, CacheType

\* Completing a write, or a flush, keeps the types of the device.
LEMMA WrittenType ==
    ASSUME DiskType(disk), CacheType(maybe), NEW w, WriteType(w)
    PROVE  /\ DiskType(Written(w))
           /\ \A class : CacheType(Settled(class, w))
<1>1. DiskType(Written(w))
  BY Zenon DEF Written, DiskType, WriteType
<1>2. ASSUME NEW class PROVE CacheType(Settled(class, w))
  BY Zenon DEF Settled, CacheType, WriteType
<1> QED BY <1>1, <1>2, Zenon

\* A flushed cache is a well-formed cache.
LEMMA FlushedType ==
    ASSUME DiskType(disk) PROVE CacheType(Flushed)
  BY Zenon DEF Flushed, DiskType, CacheType

\* A write in place (Flush) writes versions to blocks outside the journal.
LEMMA HomeWriteType ==
    ASSUME NEW item, item.ops \subseteq Target, item.ver \in Nat
    PROVE  WriteType(HomeWrite(item))
  BY Blocks DEF WriteType, HomeWrite, Content

\* The write of WriteInfoBlock writes an info block.
LEMMA InfoWriteType ==
    ASSUME NEW start \in 0..(Capacity - 1), NEW seq \in Nat
    PROVE  WriteType([b \in {InfoBlock} |-> Info(start, seq)])
  BY Blocks, Zenon DEF WriteType, Info, Content, InfoContent

\* The write of WriteOperationToJournal writes entry blocks to the ring.
LEMMA EntryWriteType ==
    ASSUME NEW e \in Entry
    PROVE  WriteType(EntryWrite(e)) /\ DOMAIN EntryWrite(e) \subseteq Ring
<1>1. e.pos \in Nat /\ EntryLength(e.ops) \in 3..Capacity /\ e.ops \in SUBSET Target
  BY EntryLengths, Zenon DEF Entry
<1>2. EntryBlocks(e) \subseteq Ring
  BY <1>1, Blocks DEF EntryBlocks
<1>3. ASSUME NEW b \in EntryBlocks(e)
      PROVE  EntryWrite(e)[b] \in Content(b)
  <2>1. PICK i \in 0..(EntryLength(e.ops) - 1) : b = RingBlock(e.pos + i)
    BY <1>3, Zenon DEF EntryBlocks
  <2>2. EntryWrite(e)[b] = EntryBlock(e, i)
    BY <2>1, EntryWriteAt, Zenon
  <2>3. EntryBlock(e, i) \in RingContent
    BY <1>1, <2>1 DEF EntryBlock, RingContent, Entry
  <2> QED BY <1>2, <2>2, <2>3, Blocks, Zenon DEF Content
<1> QED BY <1>2, <1>3, Blocks, Zenon DEF EntryWrite, WriteType

\* Whatever request is outstanding, it writes contents of the right kind.
LEMMA OutstandingType ==
    ASSUME TypeOK, CallInv, pc \in Request
    PROVE  WriteType(Outstanding)
<1>1. CASE pc = "flush"
  BY <1>1, Zenon DEF Outstanding, WriteType
<1>2. CASE pc = "home"
  <2>1. Head(pending_work_items) \in Item
    BY <1>2 DEF TypeOK, CallInv
  <2> QED BY <1>2, <2>1, HomeWriteType, Zenon DEF Outstanding, Item
<1>3. CASE pc = "info"
  BY <1>3, InfoWriteType, Zenon DEF Outstanding, InfoWrite, TypeOK, InfoContent
<1>4. CASE pc = "entry"
  BY <1>4, EntryWriteType, Zenon DEF Outstanding, CallInv, TypeOK
<1>5. CASE pc = "data"
  BY <1>5, HomeWriteType, Zenon DEF Outstanding, TypeOK, CallType
<1> QED BY <1>1, <1>2, <1>3, <1>4, <1>5, Zenon DEF Request

\* What a call appends to the history is a write, and the call is a call.
LEMMA SubmitType ==
    ASSUME TypeOK, NEW op \in {"data", "meta"}, NEW ops \in SUBSET Target,
           NEW trim \in SUBSET Target, Submit(op, ops, trim)
    PROVE  hist' \in Seq(WriteRecord) /\ Call(op, ops, trim) \in CallType
<1>1. [kind |-> op, ops |-> ops, trim |-> trim] \in WriteRecord
  BY Zenon DEF WriteRecord
<1>2. Len(hist) \in Nat
  BY DEF TypeOK
<1> QED BY <1>1, <1>2 DEF Submit, Call, CallType, TypeOK

-----------------------------------------------------------------------------
(* What a step does to the ring.                                           *)

\* The test of WriteInfoBlockIfIntersect is the right one: an entry it lets
\* through fits between tail and head, and it asks for an update of the info
\* block only if that moves the sequence number.
LEMMA IntersectsFacts ==
    ASSUME TypeOK, RingInv, Mounted, NEW n \in Nat
    PROVE  /\ ~Intersects(n) => tail + n <= head + Capacity
           /\ Intersects(n) /\ n <= Capacity => next_sequence_number > superblock.seq
<1> DEFINE start == superblock.start
           end   == next_entry_start_block
           used  == IF start <= end THEN end - start ELSE (Capacity - start) + end
<1>1. /\ head \in Nat /\ tail \in Nat /\ head <= tail /\ tail <= head + Capacity
      /\ start = head % Capacity /\ end = tail % Capacity
      /\ superblock.seq \in Nat /\ next_sequence_number \in Nat
      /\ superblock.seq <= next_sequence_number
      /\ (next_sequence_number = superblock.seq) <=> (tail = head)
  BY Zenon DEF RingInv, TypeOK, InfoContent
<1>2. Intersects(n) <=> \/ start = end /\ next_sequence_number # superblock.seq
                        \/ Capacity - used < n
  BY Zenon DEF Intersects
<1>3. start \in 0..(Capacity - 1) /\ end \in 0..(Capacity - 1)
  BY <1>1, Turns, Zenon
<1>4. /\ tail = head + Capacity => start = end
      /\ tail < head + Capacity => used = tail - head
  BY <1>1, <1>3, UsedBlocks
<1>5. start = end => used = 0
  BY <1>3
<1> HIDE DEF start, end
<1>6. used \in Nat
  BY <1>3, CapacityAssumption
<1> HIDE DEF used
<1>7. ASSUME ~Intersects(n) PROVE tail + n <= head + Capacity
  BY <1>1, <1>2, <1>4, <1>6, <1>7, CapacityAssumption
<1>8. ASSUME Intersects(n), n <= Capacity PROVE next_sequence_number > superblock.seq
  <2>1. tail = head => start = end
    BY <1>1, Zenon DEF start, end
  <2> QED BY <1>1, <1>2, <1>5, <1>6, <1>8, <2>1, CapacityAssumption
<1> QED BY <1>7, <1>8, Zenon

\* The step leaves the ring and the info block alone ...
Stay == UNCHANGED <<cursor, superblock, head>>

\* ... or moves the info block past all entries ...
Advance ==
    /\ superblock' = Info(next_entry_start_block, next_sequence_number)
    /\ head' = tail
    /\ UNCHANGED cursor

\* ... or adds an entry for which there is room.
NewEntry(c) == [seq |-> next_sequence_number, ver |-> c.ver, ops |-> c.ops, pos |-> tail]
Grow(c) ==
    /\ c.ops \in MetaOps
    /\ tail + EntryLength(c.ops) <= head + Capacity
    /\ next_sequence_number' = next_sequence_number + 1
    /\ next_entry_start_block' = (next_entry_start_block + EntryLength(c.ops)) % Capacity
    /\ tail' = tail + EntryLength(c.ops)
    /\ log' \in {log, log \cup {NewEntry(c)}}
    /\ UNCHANGED <<superblock, head>>

\* WriteInfoBlock moves the head to the tail, or leaves the ring alone.
LEMMA WriteInfoBlockKind ==
    ASSUME NEW c, WriteInfoBlock(c)
    PROVE  Stay \/ Advance
<1>1. CASE pending_work_items = <<>> /\ ~pending_flush
  BY <1>1, Zenon DEF WriteInfoBlock, SendInfo, Advance
<1>2. CASE ~(pending_work_items = <<>> /\ ~pending_flush)
  <2>1. UNCHANGED <<cursor, info>>
    BY <1>2, Zenon DEF WriteInfoBlock
  <2> QED BY <2>1, Zenon DEF Stay, info
<1> QED BY <1>1, <1>2, Zenon

\* Sending an entry moves the tail by its length and nothing else.
LEMMA SendEntryKind ==
    ASSUME NEW c, NEW m, NEW live, SendEntry(c, m, live), c.ops \in MetaOps,
           tail + EntryLength(c.ops) <= head + Capacity
    PROVE  Grow(c)
  BY Zenon DEF SendEntry, Grow, NewEntry, info

\* Every step that ends while mounted is a Mount or one of the three kinds.
LEMMA Kinds ==
    ASSUME JournalInv, Next, Mounted'
    PROVE  Mount \/ (Mounted /\ (Stay \/ Advance \/ \E c \in CallType : Grow(c)))
<1>1. TypeOK /\ RingInv /\ CallInv
  BY Zenon DEF JournalInv
<1>2. ASSUME NEW ops \in DataOps, WriteData(ops) PROVE Mounted /\ (Stay \/ Advance)
  <2>1. Mounted
    BY <1>2, Zenon DEF WriteData, Submit, Mounted
  <2>2. CASE ops \cap live_metadata_operations # {}
    BY <1>2, <2>1, <2>2, WriteInfoBlockKind, Zenon DEF WriteData
  <2>3. CASE ops \cap live_metadata_operations = {}
    BY <1>2, <2>1, <2>3, Zenon DEF WriteData, SendData, Stay, info
  <2> QED BY <2>2, <2>3, Zenon
<1>3. ASSUME NEW ops \in MetaOps, NEW trim \in TrimOps, WriteMetadata(ops, trim)
      PROVE  Mounted /\ (Stay \/ Advance \/ \E c \in CallType : Grow(c))
  <2> DEFINE c == Call("meta", ops, trim)
  <2>1. Mounted
    BY <1>3, Zenon DEF WriteMetadata, Submit, Mounted
  <2>2. ops \in SUBSET Target /\ trim \in SUBSET Target /\ EntryLength(ops) \in Nat
    BY OpsAssumption, EntryLengths, Zenon
  <2>3. c \in CallType /\ c.ops = ops
    BY <1>1, <1>3, <2>2, SubmitType, Zenon DEF WriteMetadata, Call
  <2>4. CASE Intersects(EntryLength(ops))
    BY <1>3, <2>1, <2>4, WriteInfoBlockKind, Zenon DEF WriteMetadata
  <2>5. CASE ~Intersects(EntryLength(ops))
    <3>1. tail + EntryLength(ops) <= head + Capacity
      BY <1>1, <2>1, <2>2, <2>5, IntersectsFacts, Zenon
    <3>2. SendEntry(c, maybe, live_metadata_operations)
      BY <1>3, <2>5, Zenon DEF WriteMetadata
    <3>3. Grow(c)
      <4> HIDE DEF c
      <4> QED BY <2>3, <3>1, <3>2, SendEntryKind, Zenon
    <3> QED BY <2>1, <2>3, <3>3, Zenon
  <2> QED BY <2>4, <2>5, Zenon
<1>4. CASE Sync
  BY <1>4, WriteInfoBlockKind, Zenon DEF Sync, Mounted
<1>5. CASE FlushDone
  <2>1. Mounted
    BY <1>5, Zenon DEF FlushDone, Mounted
  <2> QED BY <1>5, <2>1, Zenon DEF FlushDone, SendHome, SendInfo, Stay, Advance, info
<1>6. CASE HomeDone
  BY <1>6, Zenon DEF HomeDone, SendHome, Stay, info, Mounted
<1>7. CASE InfoDone
  <2>1. Mounted /\ pc = "info"
    BY <1>7, Zenon DEF InfoDone, Mounted
  <2>2. CASE call.op # "meta"
    BY <1>7, <2>1, <2>2, Zenon DEF InfoDone, SendData, Stay, info
  <2>3. CASE call.op = "meta"
    <3>1. call \in CallType /\ call.ops \in MetaOps
      BY <1>1, <2>3, Zenon DEF TypeOK, CallInv
    <3>2. tail + EntryLength(call.ops) <= head + Capacity
      <4>1. tail = head /\ tail \in Nat
        BY <1>1, <2>1, Zenon DEF CallInv, RingInv, TypeOK
      <4>2. EntryLength(call.ops) \in 3..Capacity
        BY <3>1, EntryLengths, Zenon
      <4> QED BY <4>1, <4>2, CapacityAssumption
    <3>3. SendEntry(call, Settled("info", Outstanding), {})
      BY <1>7, <2>3, Zenon DEF InfoDone
    <3>4. Grow(call)
      BY <3>1, <3>2, <3>3, SendEntryKind, Zenon
    <3> QED BY <2>1, <3>1, <3>4, Zenon
  <2> QED BY <2>2, <2>3, Zenon
<1>8. CASE Flush \/ EntryDone \/ DataDone \/ RequestFails
  <2>1. CASE Flush
    BY <2>1, Zenon DEF Flush, Stay, info, Mounted
  <2>2. CASE RequestFails
    BY <2>2, Zenon DEF RequestFails, Stay, info, Mounted
  <2>3. CASE EntryDone \/ DataDone
    BY <2>3, Zenon DEF EntryDone, DataDone, Stay, info, Mounted
  <2> QED BY <1>8, <2>1, <2>2, <2>3, Zenon
<1>9. CASE Crash \/ Restart \/ Replay \/ ParseEntry \/ ParseDone \/ ReplayHomeDone
           \/ ReplayFlushDone \/ ReplayInfoDone \/ ReplayFails
  BY <1>9, Zenon DEF Crash, Restart, Forget, Replay, ParseEntry, ParseDone, ReplayHomeDone,
              ReplayFlushDone, ReplayInfoDone, ReplayFails, Mounted
<1> QED BY <1>2, <1>3, <1>4, <1>5, <1>6, <1>7, <1>8, <1>9, Zenon DEF Next

-----------------------------------------------------------------------------
(* The ring and the log.                                                   *)

\* Every step keeps head, tail and the on-disk offsets consistent.
LEMMA RingStep ==
    ASSUME JournalInv, [Next]_vars PROVE RingInv'
<1> SUFFICES ASSUME Mounted'
             PROVE  /\ head' <= tail' /\ tail' <= head' + Capacity
                    /\ superblock'.start = head' % Capacity
                    /\ next_entry_start_block' = tail' % Capacity
                    /\ superblock'.seq <= next_sequence_number'
                    /\ (next_sequence_number' = superblock'.seq) <=> (tail' = head')
  BY Zenon DEF RingInv
<1>1. /\ TypeOK /\ head \in Nat /\ tail \in Nat /\ next_sequence_number \in Nat
      /\ superblock.seq \in Nat /\ superblock.start \in 0..(Capacity - 1)
  BY SMTT(60) DEF JournalInv, TypeOK, InfoContent
<1>2. Mounted => /\ head <= tail /\ tail <= head + Capacity
                 /\ superblock.start = head % Capacity
                 /\ next_entry_start_block = tail % Capacity
                 /\ superblock.seq <= next_sequence_number
                 /\ (next_sequence_number = superblock.seq) <=> (tail = head)
  BY Zenon DEF JournalInv, RingInv
<1>3. CASE UNCHANGED vars
  BY <1>2, <1>3, Zenon DEF vars, Mounted
<1>4. CASE Mount
  <2>1. \A k \in 0..(Capacity - 1) : k % Capacity = k
    BY SmallOffset, CapacityAssumption
  <2> QED BY <1>1, <1>4, <2>1, CapacityAssumption DEF Mount
<1>5. CASE Mounted /\ Stay
  BY <1>2, <1>5, Zenon DEF Stay, cursor
<1>6. CASE Mounted /\ Advance
  BY <1>1, <1>2, <1>6, CapacityAssumption DEF Advance, cursor, Info
<1>7. CASE Mounted /\ \E c \in CallType : Grow(c)
  <2>1. PICK c \in CallType : Grow(c)
    BY <1>7, Zenon
  <2>2. EntryLength(c.ops) \in 3..Capacity
    BY <2>1, EntryLengths, Zenon DEF Grow
  <2>3. next_entry_start_block' = tail' % Capacity
    BY <1>1, <1>2, <1>7, <2>1, <2>2, RingAdvance DEF Grow
  <2> QED BY <1>1, <1>2, <1>7, <2>1, <2>2, <2>3, CapacityAssumption DEF Grow
<1> QED BY <1>3, <1>4, <1>5, <1>6, <1>7, Kinds, Zenon

\* Every step keeps the sequence numbers and positions of the log ordered.
LEMMA LogStep ==
    ASSUME JournalInv, [Next]_vars PROVE LogInv'
<1> SUFFICES ASSUME Mounted' PROVE LogInv'
  BY Zenon DEF LogInv
<1>1. /\ TypeOK /\ head \in Nat /\ tail \in Nat /\ next_sequence_number \in Nat
      /\ superblock.seq \in Nat /\ log \subseteq Entry
  BY SMTT(60) DEF JournalInv, TypeOK, InfoContent
<1>2. LogInv /\ RingInv
  BY Zenon DEF JournalInv
<1>3. CASE UNCHANGED vars
  BY <1>2, <1>3, Zenon DEF vars, LogInv, Live, Mounted
<1>4. CASE Mount
  BY <1>1, <1>4 DEF Mount, LogInv, Live, Entry
<1>5. CASE Mounted /\ Stay
  BY <1>2, <1>5, Zenon DEF Stay, cursor, LogInv, Live
<1>6. CASE Mounted /\ Advance
  <2>1. /\ log' = log /\ tail' = tail /\ next_sequence_number' = next_sequence_number
        /\ superblock'.seq = next_sequence_number
    BY <1>6, Zenon DEF Advance, cursor, Info
  <2>2. \A e \in log' : e.seq < next_sequence_number' /\ ~Live(e)'
    BY <1>1, <1>2, <1>6, <2>1, SMTT(60) DEF LogInv, Live, Entry
  <2> QED BY <2>2, Zenon DEF LogInv
<1>7. CASE Mounted /\ \E c \in CallType : Grow(c)
  <2>1. PICK c \in CallType : Grow(c)
    BY <1>7, Zenon
  <2> DEFINE new == NewEntry(c)
  <2>2. EntryLength(c.ops) \in 3..Capacity
    BY <2>1, EntryLengths, Zenon DEF Grow
  <2>3. /\ log' \subseteq log \cup {new} /\ tail' = tail + EntryLength(c.ops)
        /\ next_sequence_number' = next_sequence_number + 1
        /\ superblock' = superblock /\ head' = head
    BY <2>1, Zenon DEF Grow
  <2>4. new.seq = next_sequence_number /\ new.pos = tail /\ new.ops = c.ops
    BY Zenon DEF NewEntry
  <2>5. /\ \A e \in log : e.seq < next_sequence_number
        /\ \A e \in log : Live(e) => head <= e.pos /\ e.pos + EntryLength(e.ops) <= tail
        /\ head <= tail
    BY <1>2, <1>7, Zenon DEF LogInv, RingInv
  <2>6. \A e \in log : e.seq \in Nat /\ e.pos \in Nat /\ EntryLength(e.ops) \in Nat
    BY <1>1, EntryLengths, Zenon DEF Entry
  <2>7. \A e : Live(e)' <=> Live(e)
    BY <2>3, Zenon DEF Live
  <2> HIDE DEF new
  <2>8. \A e \in log' : e.seq < next_sequence_number'
    BY <1>1, <2>3, <2>4, <2>5, <2>6
  <2>9. \A e \in log' : Live(e) => head <= e.pos /\ e.pos + EntryLength(e.ops) <= tail'
    BY <1>1, <2>2, <2>3, <2>4, <2>5, <2>6
  <2>10. \A e, f \in log' : Live(e) /\ Live(f) /\ e # f =>
              \/ e.pos + EntryLength(e.ops) <= f.pos
              \/ f.pos + EntryLength(f.ops) <= e.pos
    <3>1. \A e, f \in log : Live(e) /\ Live(f) /\ e # f =>
              \/ e.pos + EntryLength(e.ops) <= f.pos
              \/ f.pos + EntryLength(f.ops) <= e.pos
      BY <1>2, <1>7, Zenon DEF LogInv
    <3> QED BY <2>3, <2>4, <2>5, <3>1, Zenon
  <2> QED BY <2>3, <2>7, <2>8, <2>9, <2>10, Zenon DEF LogInv
<1> QED BY <1>3, <1>4, <1>5, <1>6, <1>7, Kinds, Zenon

-----------------------------------------------------------------------------
(* TypeOK is preserved.                                                    *)

\* The position in the ring that follows an entry is in the ring.
LEMMA NextStart ==
    ASSUME NEW start \in Nat, NEW ops \in SUBSET Target
    PROVE  (start + EntryLength(ops)) % Capacity \in 0..(Capacity - 1)
  BY EntryLengths, CapacityAssumption

\* The parts of the calls keep the types.
LEMMA SendEntryType ==
    ASSUME TypeOK, NEW c \in CallType, c.ops \in MetaOps, NEW m, CacheType(m),
           NEW live \in SUBSET Target, SendEntry(c, m, live)
    PROVE  /\ CacheType(maybe') /\ call' \in CallType /\ pc' \in {"entry", "idle"}
           /\ next_sequence_number' \in Nat /\ next_entry_start_block' \in 0..(Capacity - 1)
           /\ log' \subseteq Entry /\ tail' \in Nat
           /\ live_metadata_operations' \subseteq Target
<1> DEFINE e == [seq |-> next_sequence_number, ver |-> c.ver, ops |-> c.ops, pos |-> tail]
<1>1. e \in Entry
  BY Zenon DEF Entry, CallType, TypeOK
<1>2. CacheType(Issued(m, EntryWrite(e)))
  BY <1>1, IssuedType, EntryWriteType, Zenon
<1>3. EntryLength(c.ops) \in Nat /\ c.ops \in SUBSET Target
  BY EntryLengths, Zenon
<1>4. next_entry_start_block' \in 0..(Capacity - 1)
  BY <1>3, NextStart, SMTT(60) DEF SendEntry, TypeOK
<1>5. NoCall \in CallType
  BY Zenon DEF NoCall, CallType
<1>8. next_sequence_number' \in Nat /\ tail' \in Nat
  <2>1. next_sequence_number' = next_sequence_number + 1 /\ tail' = tail + EntryLength(c.ops)
    BY Zenon DEF SendEntry
  <2>2. next_sequence_number \in Nat /\ tail \in Nat
    BY Zenon DEF TypeOK
  <2> QED BY ONLY <1>3, <2>1, <2>2
<1>6. CASE writeback_enabled
  <2>1. /\ log' = log \cup {e} /\ maybe' = Issued(m, EntryWrite(e)) /\ call' = c /\ pc' = "entry"
        /\ live_metadata_operations' = live \cup c.ops
    BY <1>6, Zenon DEF SendEntry, Send
  <2> HIDE DEF e
  <2> QED BY <1>1, <1>2, <1>3, <1>4, <1>8, <2>1, Zenon DEF TypeOK
<1>7. CASE ~writeback_enabled
  <2>1. /\ log' = log /\ maybe' = m /\ call' = NoCall /\ pc' = "idle"
        /\ live_metadata_operations' = live \cup c.ops
    BY <1>7, Zenon DEF SendEntry, Return
  <2> QED BY <1>3, <1>4, <1>5, <1>8, <2>1, Zenon DEF TypeOK
<1> QED BY <1>6, <1>7, Zenon

\* The second half of WriteInfoBlock keeps the types.
LEMMA SendInfoType ==
    ASSUME TypeOK, NEW c \in CallType, NEW m, CacheType(m), SendInfo(c, m)
    PROVE  /\ CacheType(maybe') /\ call' \in CallType /\ pc' \in {"info", "idle"}
           /\ superblock' \in InfoContent /\ superblock'.valid
           /\ head' \in Nat /\ assert_ok' \in BOOLEAN
<1>1. CacheType(Issued(m, [b \in {InfoBlock} |->
                             Info(next_entry_start_block, next_sequence_number)]))
  BY IssuedType, InfoWriteType, Zenon DEF TypeOK
<1>2. NoCall \in CallType
  BY Zenon DEF NoCall, CallType
<1>3. superblock' \in InfoContent /\ superblock'.valid
  BY Zenon DEF SendInfo, Info, InfoContent, TypeOK
<1>4. head' \in Nat /\ assert_ok' \in BOOLEAN
  BY Zenon DEF SendInfo, TypeOK
<1>5. CacheType(maybe') /\ call' \in CallType /\ pc' \in {"info", "idle"}
  BY <1>1, <1>2, Zenon DEF SendInfo, Send, Return
<1> QED BY <1>3, <1>4, <1>5, Zenon

\* WriteInfoBlock, flushing or not, keeps the types.
LEMMA WriteInfoBlockType ==
    ASSUME TypeOK, NEW c \in CallType, WriteInfoBlock(c)
    PROVE  /\ CacheType(maybe') /\ call' \in CallType /\ pc' \in {"info", "idle", "flush"}
           /\ superblock' \in InfoContent /\ superblock'.valid
           /\ head' \in Nat /\ assert_ok' \in BOOLEAN
           /\ pending_work_items' \in Seq(Item) /\ pending_flush' \in BOOLEAN
           /\ UNCHANGED cursor
<1>1. NoCall \in CallType
  BY Zenon DEF NoCall, CallType
<1>2. CASE pending_work_items = <<>> /\ ~pending_flush
  <2>1. SendInfo(c, maybe) /\ UNCHANGED queue
    BY <1>2, Zenon DEF WriteInfoBlock
  <2>2. UNCHANGED cursor
    BY <2>1, Zenon DEF SendInfo
  <2> QED BY <2>1, <2>2, SendInfoType, SMTT(60) DEF queue, TypeOK
<1>3. CASE ~(pending_work_items = <<>> /\ ~pending_flush)
  <2>1. UNCHANGED <<cursor, info>>
    BY <1>3, Zenon DEF WriteInfoBlock
  <2>2. /\ CacheType(maybe') /\ call' \in CallType /\ pc' \in {"info", "idle", "flush"}
        /\ pending_work_items' \in Seq(Item) /\ pending_flush' \in BOOLEAN
    <3>1. <<>> \in Seq(Item) /\ CacheType(maybe) /\ pending_work_items \in Seq(Item)
          /\ pending_flush \in BOOLEAN
      BY DEF TypeOK
    <3>2. CASE writeback_enabled
      BY <1>3, <3>1, <3>2, Zenon DEF WriteInfoBlock, Send, queue
    <3>3. CASE ~writeback_enabled
      BY <1>1, <1>3, <3>1, <3>3, Zenon DEF WriteInfoBlock, Return
    <3> QED BY <3>2, <3>3, Zenon
  <2> QED BY <2>1, <2>2, Zenon DEF cursor, info, TypeOK
<1> QED BY <1>2, <1>3, Zenon

\* Sending a work item's write in place keeps the types.
LEMMA SendHomeType ==
    ASSUME TypeOK, NEW item \in Item, NEW c \in CallType, NEW m, CacheType(m),
           SendHome(item, c, m)
    PROVE  /\ CacheType(maybe') /\ call' \in CallType /\ pc' = "home"
           /\ committed' \subseteq Nat /\ reserved' \subseteq Target
           /\ UNCHANGED <<cursor, info>>
<1>1. CacheType(Issued(m, HomeWrite(item)))
  BY IssuedType, HomeWriteType, Zenon DEF Item
<1> QED BY <1>1, Zenon DEF SendHome, Send, TypeOK, Item

\* TypeOK from its parts, for the steps that are not part of a replay.
LEMMA TypeParts ==
    ASSUME TypeOK, DiskType(disk'), CacheType(maybe'),
           superblock' \in InfoContent, superblock'.valid,
           next_sequence_number' \in Nat, next_entry_start_block' \in 0..(Capacity - 1),
           pending_work_items' \in Seq(Item), pending_flush' \in BOOLEAN,
           live_metadata_operations' \subseteq Target, writeback_enabled' \in BOOLEAN,
           pc' \in Request \cup {"idle"}, call' \in CallType, reserved' \subseteq Target,
           hist' \in Seq(WriteRecord), log' \subseteq Entry, head' \in Nat, tail' \in Nat,
           committed' \subseteq Nat, completed' \subseteq Nat, assert_ok' \in BOOLEAN,
           UNCHANGED mount
    PROVE  TypeOK'
  BY Zenon DEF TypeOK, mount

\* WriteData keeps the types.
LEMMA WriteDataType ==
    ASSUME TypeOK, NEW ops \in DataOps, WriteData(ops) PROVE TypeOK'
<1> DEFINE c == Call("data", ops, {})
<1>1. ops \in SUBSET Target
  BY OpsAssumption, Zenon
<1>2. hist' \in Seq(WriteRecord) /\ c \in CallType
  BY <1>1, SubmitType, Zenon DEF WriteData
<1>3. UNCHANGED <<disk, live_metadata_operations, writeback_enabled, acks, mount>>
  BY Zenon DEF WriteData
<1> HIDE DEF c
<1>4. CASE ops \cap live_metadata_operations # {}
  <2>1. WriteInfoBlock(c)
    BY <1>4, Zenon DEF WriteData, c
  <2>2. UNCHANGED cursor
    BY <1>2, <2>1, WriteInfoBlockType, Zenon
  <2> QED BY <1>2, <1>3, <2>1, <2>2, WriteInfoBlockType, TypeParts, Zenon
          DEF TypeOK, acks, cursor, Request
<1>5. CASE ops \cap live_metadata_operations = {}
  <2>1. SendData(c, maybe) /\ UNCHANGED queue
    BY <1>5, Zenon DEF WriteData, c
  <2>2. UNCHANGED <<cursor, info>>
    BY <2>1, Zenon DEF SendData
  <2>3. CacheType(Issued(maybe, HomeWrite(c)))
    BY <1>2, IssuedType, HomeWriteType, Zenon DEF CallType, TypeOK
  <2>4. CacheType(maybe') /\ call' \in CallType /\ pc' \in {"data", "idle"}
    <3>1. NoCall \in CallType
      BY Zenon DEF NoCall, CallType
    <3> QED BY <1>2, <2>1, <2>3, <3>1, Zenon DEF SendData, Send, Return, TypeOK
  <2> QED BY <1>2, <1>3, <2>1, <2>2, <2>4, TypeParts, Zenon
          DEF TypeOK, acks, cursor, info, queue, Request
<1> QED BY <1>4, <1>5, Zenon

\* WriteMetadata keeps the types.
LEMMA WriteMetadataType ==
    ASSUME TypeOK, NEW ops \in MetaOps, NEW trim \in TrimOps, WriteMetadata(ops, trim)
    PROVE  TypeOK'
<1> DEFINE c == Call("meta", ops, trim)
<1>1. ops \in SUBSET Target /\ trim \in SUBSET Target
  BY OpsAssumption, Zenon
<1>2. hist' \in Seq(WriteRecord) /\ c \in CallType
  BY <1>1, SubmitType, Zenon DEF WriteMetadata
<1>3. /\ UNCHANGED <<disk, writeback_enabled, committed, completed, mount>>
      /\ reserved' \subseteq Target
  BY <1>1, Zenon DEF WriteMetadata, TypeOK
<1>4. c.ops \in MetaOps
  BY Zenon DEF Call
<1> HIDE DEF c
<1>5. CASE Intersects(EntryLength(ops))
  <2>1. WriteInfoBlock(c) /\ UNCHANGED live_metadata_operations
    BY <1>5, Zenon DEF WriteMetadata, c
  <2>2. UNCHANGED cursor
    BY <1>2, <2>1, WriteInfoBlockType, Zenon
  <2> QED BY <1>2, <1>3, <2>1, <2>2, WriteInfoBlockType, TypeParts, Zenon
          DEF TypeOK, cursor, Request
<1>6. CASE ~Intersects(EntryLength(ops))
  <2>1. SendEntry(c, maybe, live_metadata_operations) /\ UNCHANGED queue
    BY <1>6, Zenon DEF WriteMetadata, c
  <2>2. UNCHANGED info
    BY <2>1, Zenon DEF SendEntry
  <2>3. CacheType(maybe) /\ live_metadata_operations \in SUBSET Target
    BY Zenon DEF TypeOK
  <2>4. /\ CacheType(maybe') /\ call' \in CallType /\ pc' \in {"entry", "idle"}
        /\ next_sequence_number' \in Nat /\ next_entry_start_block' \in 0..(Capacity - 1)
        /\ log' \subseteq Entry /\ tail' \in Nat
        /\ live_metadata_operations' \subseteq Target
    BY <1>2, <1>4, <2>1, <2>3, SendEntryType, Zenon
  <2> QED BY <1>2, <1>3, <2>1, <2>2, <2>4, TypeParts, Zenon
          DEF TypeOK, info, queue, Request
<1> QED BY <1>5, <1>6, Zenon

\* Sync and Flush keep the types.
LEMMA SyncFlushType ==
    ASSUME TypeOK, Sync \/ Flush PROVE TypeOK'
<1>1. NoCall \in CallType /\ [NoCall EXCEPT !.op = "sync"] \in CallType
                          /\ [NoCall EXCEPT !.op = "flush"] \in CallType
  BY Zenon DEF NoCall, CallType
<1>2. CASE Sync
  <2> DEFINE c == [NoCall EXCEPT !.op = "sync"]
  <2>1. /\ WriteInfoBlock(c) /\ c \in CallType
        /\ UNCHANGED <<disk, live_metadata_operations, writeback_enabled, acks, hist, mount>>
    BY <1>1, <1>2, Zenon DEF Sync
  <2> HIDE DEF c
  <2>2. UNCHANGED cursor
    BY <2>1, WriteInfoBlockType, Zenon
  <2> QED BY <2>1, <2>2, WriteInfoBlockType, TypeParts, Zenon DEF TypeOK, acks, cursor, Request
<1>3. CASE Flush
  <2>1. UNCHANGED <<disk, live_metadata_operations, writeback_enabled, cursor, info, acks,
                    hist, mount>>
    BY <1>3, Zenon DEF Flush
  <2>2. /\ CacheType(maybe') /\ call' \in CallType /\ pc' \in {"flush", "idle"}
        /\ pending_work_items' \in Seq(Item) /\ pending_flush' \in BOOLEAN
    <3>1. <<>> \in Seq(Item) /\ CacheType(maybe) /\ pending_work_items \in Seq(Item)
          /\ pending_flush \in BOOLEAN
      BY DEF TypeOK
    <3>2. CASE writeback_enabled
      BY <1>1, <1>3, <3>1, <3>2, Zenon DEF Flush, Send, queue
    <3>3. CASE ~writeback_enabled
      BY <1>1, <1>3, <3>1, <3>3, Zenon DEF Flush, Return
    <3> QED BY <3>2, <3>3, Zenon
  <2> QED BY <2>1, <2>2, TypeParts, Zenon DEF TypeOK, acks, cursor, info, Request
<1> QED BY <1>2, <1>3, Zenon

\* The return of the device flush keeps the types.
LEMMA FlushDoneType ==
    ASSUME TypeOK, FlushDone PROVE TypeOK'
<1>1. /\ UNCHANGED <<disk, pending_work_items, live_metadata_operations, writeback_enabled,
                     hist, mount>>
      /\ pending_flush' \in BOOLEAN
  BY Zenon DEF FlushDone
<1>2. CacheType(Flushed)
  BY FlushedType, Zenon DEF TypeOK
<1>3. CASE /\ pending_work_items # <<>>
           /\ SendHome(Head(pending_work_items), call, Flushed)
           /\ UNCHANGED completed
  <2>1. Head(pending_work_items) \in Item /\ call \in CallType
    BY <1>3 DEF TypeOK
  <2>2. /\ CacheType(maybe') /\ call' \in CallType /\ pc' = "home"
        /\ committed' \subseteq Nat /\ reserved' \subseteq Target
        /\ UNCHANGED <<cursor, info>>
    BY <1>2, <1>3, <2>1, SendHomeType, Zenon
  <2> QED BY <1>1, <1>3, <2>2, TypeParts, Zenon DEF TypeOK, cursor, info, Request
<1>4. CASE Return(Flushed) /\ UNCHANGED <<cursor, info, acks>>
  <2>1. NoCall \in CallType
    BY Zenon DEF NoCall, CallType
  <2> QED BY <1>1, <1>2, <1>4, <2>1, TypeParts, SMTT(60)
      DEF Return, TypeOK, cursor, info, acks, Request
<1>5. CASE SendInfo(call, Flushed) /\ UNCHANGED acks
  <2>1. call \in CallType /\ UNCHANGED cursor
    BY <1>5, Zenon DEF TypeOK, SendInfo
  <2>2. /\ CacheType(maybe') /\ call' \in CallType /\ pc' \in {"info", "idle"}
        /\ superblock' \in InfoContent /\ superblock'.valid
        /\ head' \in Nat /\ assert_ok' \in BOOLEAN
    BY <1>2, <1>5, <2>1, SendInfoType, Zenon
  <2> QED BY <1>1, <1>5, <2>1, <2>2, TypeParts, Zenon DEF TypeOK, cursor, acks, Request
<1> QED BY <1>3, <1>4, <1>5, Zenon DEF FlushDone

\* The return of a write in place keeps the types.
LEMMA HomeDoneType ==
    ASSUME TypeOK, CallInv, HomeDone PROVE TypeOK'
<1> DEFINE item == Head(pending_work_items)
           rest == Tail(pending_work_items)
<1>1. /\ UNCHANGED <<live_metadata_operations, writeback_enabled, hist, mount>>
      /\ pending_flush' \in BOOLEAN
      /\ disk' = Written(Outstanding)
      /\ pc = "home"
  BY Zenon DEF HomeDone
<1>2. DiskType(disk')
  BY <1>1, OutstandingType, WrittenType, SMTT(60) DEF TypeOK, Request
<1>3. item \in Item /\ rest \in Seq(Item)
  BY <1>1 DEF TypeOK, CallInv
<1>4. pending_work_items' \in Seq(Item) /\ completed' \subseteq Nat
  BY <1>3, SMTT(60) DEF HomeDone, TypeOK, Item
<1>5. CASE rest # <<>> /\ SendHome(Head(rest), call, maybe)
  <2>1. Head(rest) \in Item /\ call \in CallType /\ CacheType(maybe)
    BY <1>3, <1>5, SMTT(60) DEF TypeOK
  <2>2. /\ CacheType(maybe') /\ call' \in CallType /\ pc' = "home"
        /\ committed' \subseteq Nat /\ reserved' \subseteq Target
        /\ UNCHANGED <<cursor, info>>
    BY <1>5, <2>1, SendHomeType, Zenon
  <2> QED BY <1>1, <1>2, <1>4, <2>2, TypeParts, Zenon DEF TypeOK, cursor, info, Request
<1>6. CASE /\ IF call.op = "flush" THEN Return(maybe) ELSE Send("flush", call, maybe)
           /\ UNCHANGED <<cursor, info, committed, reserved>>
  <2>1. CacheType(maybe') /\ call' \in CallType /\ pc' \in {"flush", "idle"}
    BY <1>6 DEF Send, Return, NoCall, CallType, TypeOK
  <2> QED BY <1>1, <1>2, <1>4, <1>6, <2>1, TypeParts, Zenon DEF TypeOK, cursor, info, Request
<1> QED BY <1>5, <1>6, Zenon DEF HomeDone

\* The return of the info block write keeps the types.
LEMMA InfoDoneType ==
    ASSUME TypeOK, CallInv, InfoDone PROVE TypeOK'
<1> DEFINE m == Settled("info", Outstanding)
<1>1. /\ UNCHANGED <<queue, writeback_enabled, acks, hist, mount>>
      /\ disk' = Written(Outstanding)
      /\ pc = "info"
  BY Zenon DEF InfoDone
<1>2. DiskType(disk') /\ CacheType(m)
  BY <1>1, OutstandingType, WrittenType, SMTT(60) DEF TypeOK, Request
<1>3. call \in CallType /\ NoCall \in CallType
  BY SMTT(60) DEF TypeOK, NoCall, CallType
<1>4. \/ Return(m) /\ live_metadata_operations' = {} /\ UNCHANGED <<cursor, info>>
      \/ SendData(call, m) /\ live_metadata_operations' = {}
      \/ call.op = "meta" /\ SendEntry(call, m, {})
  BY Zenon DEF InfoDone
<1> HIDE DEF m
<1>5. CASE Return(m) /\ live_metadata_operations' = {} /\ UNCHANGED <<cursor, info>>
  <2>1. pc' \in Request \cup {"idle"} /\ maybe' = m /\ call' = NoCall /\ live_metadata_operations' \subseteq Target
    BY <1>5, Zenon DEF Return
  <2>2. UNCHANGED <<queue, writeback_enabled, acks, hist, mount, cursor, info>> /\ DiskType(disk')
    BY <1>1, <1>2, <1>5, Zenon
  <2> QED BY <1>2, <1>3, <2>1, <2>2, TypeParts, Zenon DEF TypeOK, cursor, info, queue, acks
<1>6. CASE SendData(call, m) /\ live_metadata_operations' = {}
  <2>1. UNCHANGED <<cursor, info>>
    BY <1>6, Zenon DEF SendData
  <2>2. CacheType(Issued(m, HomeWrite(call)))
    BY <1>2, <1>3, IssuedType, HomeWriteType, Zenon DEF CallType
  <2>3. CacheType(maybe') /\ call' \in CallType /\ pc' \in {"data", "idle"}
    BY <1>2, <1>3, <1>6, <2>2, Zenon DEF SendData, Send, Return
  <2> QED BY <1>1, <1>2, <1>6, <2>1, <2>3, TypeParts, Zenon
          DEF TypeOK, acks, cursor, info, queue, Request
<1>7. CASE call.op = "meta" /\ SendEntry(call, m, {})
  <2>1. call.ops \in MetaOps /\ {} \in SUBSET Target /\ UNCHANGED info
    BY <1>7, Zenon DEF CallInv, SendEntry
  <2>2. /\ CacheType(maybe') /\ call' \in CallType /\ pc' \in {"entry", "idle"}
        /\ next_sequence_number' \in Nat /\ next_entry_start_block' \in 0..(Capacity - 1)
        /\ log' \subseteq Entry /\ tail' \in Nat
        /\ live_metadata_operations' \subseteq Target
    BY <1>2, <1>3, <1>7, <2>1, SendEntryType, Zenon
  <2> QED BY <1>1, <1>2, <2>1, <2>2, TypeParts, Zenon DEF TypeOK, acks, info, queue, Request
<1> QED BY <1>4, <1>5, <1>6, <1>7, Zenon

\* The return of an entry or data write keeps the types.
LEMMA EntryDataDoneType ==
    ASSUME TypeOK, CallInv, EntryDone \/ DataDone PROVE TypeOK'
<1>1. pc \in Request /\ disk' = Written(Outstanding)
  BY Zenon DEF EntryDone, DataDone, Request
<1>2. DiskType(disk') /\ CacheType(Settled("entry", Outstanding))
  BY <1>1, OutstandingType, WrittenType, SMTT(60) DEF TypeOK
<1>3. NoCall \in CallType
  BY Zenon DEF NoCall, CallType
<1>4. CASE EntryDone
  <2> DEFINE trims == IF call.trim = {} THEN <<>>
                      ELSE <<[ver |-> call.ver, ops |-> call.trim, trim |-> TRUE]>>
             work == <<[ver |-> call.ver, ops |-> call.ops, trim |-> FALSE]>>
  <2>1. UNCHANGED <<pending_flush, live_metadata_operations, writeback_enabled, cursor,
                    info, acks, hist, mount>>
    BY <1>4, Zenon DEF EntryDone
  <2>2. trims \in Seq(Item) /\ work \in Seq(Item)
    <3>1. /\ [ver |-> call.ver, ops |-> call.trim, trim |-> TRUE] \in Item
          /\ [ver |-> call.ver, ops |-> call.ops, trim |-> FALSE] \in Item
      BY Zenon DEF TypeOK, CallType, Item
    <3>2. \A x \in Item : <<x>> \in Seq(Item)
      OBVIOUS
    <3>3. <<>> \in Seq(Item)
      OBVIOUS
    <3> QED BY <3>1, <3>2, <3>3, Zenon
  <2>3. pending_work_items' = pending_work_items \o trims \o work
    BY <1>4, Zenon DEF EntryDone
  <2> HIDE DEF trims, work
  <2>4. pending_work_items' \in Seq(Item)
    BY <2>2, <2>3 DEF TypeOK
  <2>5. CacheType(maybe') /\ call' \in CallType /\ pc' = "idle"
    BY <1>2, <1>3, <1>4, Zenon DEF EntryDone, Return
  <2> QED BY <1>2, <2>1, <2>4, <2>5, TypeParts, Zenon DEF TypeOK, cursor, info, acks
<1>5. CASE DataDone
  <2>1. UNCHANGED <<queue, live_metadata_operations, writeback_enabled, cursor, info, acks,
                    hist, mount>>
    BY <1>5, Zenon DEF DataDone
  <2>2. CacheType(maybe') /\ call' \in CallType /\ pc' = "idle"
    BY <1>3, <1>5, Zenon DEF DataDone, Return, TypeOK
  <2> QED BY <1>2, <2>1, <2>2, TypeParts, Zenon DEF TypeOK, cursor, info, acks, queue
<1> QED BY <1>4, <1>5, Zenon

\* A failed request, which disables writeback, keeps the types.
LEMMA RequestFailsType ==
    ASSUME TypeOK, CallInv, RequestFails PROVE TypeOK'
<1>1. pc \in Request
  BY Zenon DEF RequestFails, Request
<1>2. DiskType(disk')
  <2>1. PICK part \in SUBSET DOMAIN Outstanding :
                disk' = Written([b \in part |-> Outstanding[b]])
    BY SMTT(60) DEF RequestFails
  <2>2. WriteType([b \in part |-> Outstanding[b]])
    BY <1>1, OutstandingType, Zenon DEF WriteType
  <2> QED BY <2>1, <2>2, WrittenType, Zenon DEF TypeOK
<1>3. /\ CacheType(maybe') /\ call' \in CallType /\ pc' = "idle"
      /\ writeback_enabled' \in BOOLEAN
  BY Zenon DEF RequestFails, Return, TypeOK, NoCall, CallType
<1>4. pending_work_items' \in Seq(Item)
  <2>1. <<>> \in Seq(Item) /\ pending_work_items \in Seq(Item)
    BY DEF TypeOK
  <2> QED BY <2>1, Zenon DEF RequestFails
<1>5. UNCHANGED <<pending_flush, live_metadata_operations, cursor, info, acks, hist, mount>>
  BY Zenon DEF RequestFails
<1> QED BY <1>2, <1>3, <1>4, <1>5, TypeParts, Zenon DEF TypeOK, cursor, info, acks

\* What the process starts from when it has lost its memory.
LEMMA ForgetType ==
    ASSUME TypeOK, Forget, DiskType(disk'), CacheType(maybe'), crashes' \in Nat,
           restarts' \in Nat
    PROVE  TypeOK'
<1>1. /\ NoCall \in CallType
      /\ NoReplay = [start |-> 0, seq |-> 0, operations |-> NoReplay.operations]
      /\ DOMAIN NoReplay.operations = {}
      /\ NoReplay.operations \in [DOMAIN NoReplay.operations -> Nat]
  BY Zenon DEF NoCall, CallType, NoReplay
<1>2. 0 \in 0..(Capacity - 1) /\ <<>> \in Seq(Item)
  BY CapacityAssumption
<1>3. UNCHANGED <<cursor, superblock, head, hist, committed, completed>>
  BY Zenon DEF Forget
<1>4. /\ pc' = "down" /\ call' \in CallType /\ pending_work_items' \in Seq(Item)
      /\ pending_flush' = FALSE /\ live_metadata_operations' = {}
      /\ writeback_enabled' = TRUE /\ replay' = NoReplay /\ reserved' = {}
      /\ assert_ok' = TRUE
  BY <1>1, <1>2, Zenon DEF Forget
<1>5. /\ replay' = [start |-> replay'.start, seq |-> replay'.seq,
                    operations |-> replay'.operations]
      /\ replay'.start \in 0..(Capacity - 1) /\ replay'.seq \in Nat
      /\ DOMAIN replay'.operations \subseteq Target
      /\ replay'.operations \in [DOMAIN replay'.operations -> Nat]
  BY <1>1, <1>2, <1>4
<1> HIDE DEF NoReplay
<1> QED BY <1>3, <1>4, <1>5, Zenon DEF TypeOK, cursor

\* A power failure and a restart of the process keep the types.
LEMMA CrashRestartType ==
    ASSUME TypeOK, Crash \/ Restart PROVE TypeOK'
<1>1. CASE Crash
  <2>1. PICK image : /\ \A b \in Block : image[b] \in maybe[b]
                     /\ disk' = [b \in Block |-> image[b]]
                     /\ maybe' = [b \in Block |-> {image[b]}]
    BY <1>1, Zenon DEF Crash
  <2>2. DiskType(disk') /\ CacheType(maybe')
    BY <2>1, Zenon DEF TypeOK, DiskType, CacheType
  <2>3. Forget /\ crashes' \in Nat /\ restarts' \in Nat
    BY <1>1 DEF Crash, TypeOK
  <2> QED BY <2>2, <2>3, ForgetType, Zenon
<1>2. CASE Restart
  <2>1. Forget /\ crashes' \in Nat /\ restarts' \in Nat /\ UNCHANGED <<disk, maybe>>
    BY <1>2 DEF Restart, TypeOK
  <2>2. DiskType(disk') /\ CacheType(maybe')
    BY <2>1, Zenon DEF TypeOK
  <2> QED BY <2>1, <2>2, ForgetType, Zenon
<1> QED BY <1>1, <1>2, Zenon

\* TypeOK from its parts, for the steps of a replay.
LEMMA ReplayParts ==
    ASSUME TypeOK, DiskType(disk'), CacheType(maybe'),
           superblock' \in InfoContent, superblock'.valid, log' \subseteq Entry,
           pc' \in {"parse", "replay_home", "replay_flush", "replay_info", "replayed",
                    "failed", "corrupt"},
           replay' = [start |-> replay'.start, seq |-> replay'.seq,
                      operations |-> replay'.operations],
           replay'.start \in 0..(Capacity - 1), replay'.seq \in Nat,
           DOMAIN replay'.operations \subseteq Target,
           replay'.operations \in [DOMAIN replay'.operations -> Nat],
           UNCHANGED <<queue, next_sequence_number, next_entry_start_block, head, tail,
                       assert_ok, live_metadata_operations, writeback_enabled, call, acks,
                       hist, crashes, restarts>>
    PROVE  TypeOK'
  BY SMTT(60) DEF TypeOK, queue, acks

\* What replay has collected is a well-formed write.
LEMMA ReplayOperationsType ==
    ASSUME TypeOK PROVE WriteType(replay.operations)
  BY Blocks DEF TypeOK, WriteType, Content

\* Reading the info block (ReplayJournal) keeps the types.
LEMMA ReplayStepType ==
    ASSUME TypeOK, Replay PROVE TypeOK'
<1>1. UNCHANGED <<disk, queue, next_sequence_number, next_entry_start_block, head, tail,
                  assert_ok, live_metadata_operations, writeback_enabled, call, acks,
                  hist, crashes, restarts>>
  BY Zenon DEF Replay
<1>2. DiskType(disk') /\ log \subseteq Entry /\ CacheType(maybe)
  BY <1>1, Zenon DEF TypeOK
<1>3. disk[InfoBlock] \in InfoContent
  BY Blocks, Zenon DEF TypeOK, DiskType, Content
<1>4. CASE /\ disk[InfoBlock].valid
           /\ pc' = "parse"
           /\ replay' = [NoReplay EXCEPT !.start = disk[InfoBlock].start,
                                         !.seq = disk[InfoBlock].seq]
           /\ UNCHANGED <<superblock, maybe, log>>
  <2>1. replay' = [start |-> disk[InfoBlock].start, seq |-> disk[InfoBlock].seq,
                   operations |-> [b \in {} |-> 0]]
    BY <1>4, Zenon DEF NoReplay
  <2>2. disk[InfoBlock].start \in 0..(Capacity - 1) /\ disk[InfoBlock].seq \in Nat
    BY <1>3, Zenon DEF InfoContent
  <2>3. /\ replay' = [start |-> replay'.start, seq |-> replay'.seq,
                      operations |-> replay'.operations]
        /\ replay'.start \in 0..(Capacity - 1) /\ replay'.seq \in Nat
        /\ DOMAIN replay'.operations \subseteq Target
        /\ replay'.operations \in [DOMAIN replay'.operations -> Nat]
    BY <2>1, <2>2, Zenon
  <2>4. superblock' \in InfoContent /\ superblock'.valid /\ log' \subseteq Entry
        /\ CacheType(maybe')
    BY <1>2, <1>4, Zenon DEF TypeOK
  <2> QED BY <1>1, <1>2, <1>4, <2>3, <2>4, ReplayParts, Zenon
<1>5. CASE /\ \E n \in RingSequenceNumbers :
                 (\A k \in RingSequenceNumbers : k <= n) /\ Restored(0, n + 1)
           /\ pc' = "replay_info"
           /\ log' = {e \in log : e.seq < disk[InfoBlock].seq}
           /\ UNCHANGED replay
  <2>1. PICK n \in RingSequenceNumbers : Restored(0, n + 1)
    BY <1>5, Zenon
  <2>2. n + 1 \in Nat /\ 0 \in 0..(Capacity - 1)
    <3>1. \A r \in Ring : disk[r].seq \in Nat
      BY Blocks, Zenon DEF TypeOK, DiskType, Content, RingContent
    <3> QED BY <3>1, CapacityAssumption DEF RingSequenceNumbers
  <2>3. CacheType(maybe')
    BY <1>2, <2>1, <2>2, IssuedType, InfoWriteType, Zenon DEF Restored
  <2>4. superblock' \in InfoContent /\ superblock'.valid
    BY <2>1, <2>2, Zenon DEF Restored, Info, InfoContent
  <2>5. log' \subseteq Entry /\ UNCHANGED replay
    BY <1>5, Zenon DEF TypeOK
  <2> QED BY <1>1, <1>2, <1>5, <2>3, <2>4, <2>5, ReplayParts, Zenon DEF TypeOK
<1>6. CASE /\ pc' = "corrupt"
           /\ UNCHANGED <<superblock, maybe, log, replay>>
  BY <1>1, <1>2, <1>6, ReplayParts, Zenon DEF TypeOK
<1> QED BY <1>4, <1>5, <1>6, Zenon DEF Replay

\* Parsing one entry keeps the types.
LEMMA ParseEntryType ==
    ASSUME TypeOK, ParseEntry PROVE TypeOK'
<1> DEFINE ops == disk[RingBlock(replay.start)].ops
           ver == disk[RingBlock(replay.start)].ver
           merged == [b \in DOMAIN replay.operations \cup ops |->
                        IF b \in ops THEN ver ELSE replay.operations[b]]
<1>1. /\ UNCHANGED <<disk, maybe, pc, queue, cursor, info, live_metadata_operations,
                     writeback_enabled, call, acks, hist, crashes, restarts>>
      /\ pc = "parse"
  BY Zenon DEF ParseEntry
<1>2. RingBlock(replay.start) \in Ring
  BY Blocks DEF TypeOK
<1>3. ops \in SUBSET Target /\ ver \in Nat
  BY <1>2, Blocks, Zenon DEF TypeOK, DiskType, Content, RingContent
<1>4. (replay.start + EntryLength(ops)) % Capacity \in 0..(Capacity - 1)
  <2> HIDE DEF ops
  <2> QED BY <1>3, NextStart DEF TypeOK
<1>5. replay' = [start |-> (replay.start + EntryLength(ops)) % Capacity,
                 seq |-> replay.seq + 1, operations |-> merged]
  BY Zenon DEF ParseEntry
<1>6. DOMAIN merged \subseteq Target /\ merged \in [DOMAIN merged -> Nat]
  <2> HIDE DEF ops, ver
  <2> QED BY <1>3, Zenon DEF TypeOK
<1> HIDE DEF ops, ver, merged
<1>7. /\ replay' = [start |-> replay'.start, seq |-> replay'.seq,
                    operations |-> replay'.operations]
      /\ replay'.start \in 0..(Capacity - 1) /\ replay'.seq \in Nat
      /\ DOMAIN replay'.operations \subseteq Target
      /\ replay'.operations \in [DOMAIN replay'.operations -> Nat]
  BY <1>4, <1>5, <1>6, SMTT(60) DEF TypeOK
<1> QED BY <1>1, <1>7, ReplayParts, Zenon DEF TypeOK, cursor, info

\* The requests of ReplayJournal after parsing keep the types.
LEMMA ReplayRestType ==
    ASSUME TypeOK,
           ParseDone \/ ReplayHomeDone \/ ReplayFlushDone \/ ReplayInfoDone \/ ReplayFails
    PROVE  TypeOK'
<1>1. WriteType(InfoWrite) /\ WriteType(replay.operations) /\ CacheType(Flushed)
  BY InfoWriteType, ReplayOperationsType, FlushedType, Zenon DEF InfoWrite, TypeOK, InfoContent
<1>2. DiskType(disk) /\ CacheType(maybe)
  BY Zenon DEF TypeOK
<1>3. CASE ParseDone
  <2>1. CacheType(maybe') /\ UNCHANGED <<disk, replay, log>>
    BY <1>1, <1>2, <1>3, IssuedType, Zenon DEF ParseDone, cursor
  <2>2. superblock' \in InfoContent /\ superblock'.valid
    BY <1>3, Zenon DEF ParseDone, Info, InfoContent, TypeOK
  <2> QED BY <1>3, <2>1, <2>2, ReplayParts, Zenon DEF ParseDone, TypeOK, cursor
<1>4. CASE ReplayHomeDone
  <2>1. DiskType(disk')
    BY <1>1, <1>2, <1>4, WrittenType, Zenon DEF ReplayHomeDone
  <2> QED BY <1>4, <2>1, ReplayParts, Zenon DEF ReplayHomeDone, TypeOK, cursor, info
<1>5. CASE ReplayFlushDone
  <2>1. CacheType(maybe')
    BY <1>1, <1>5, IssuedType, Zenon DEF ReplayFlushDone
  <2> QED BY <1>5, <2>1, ReplayParts, Zenon DEF ReplayFlushDone, TypeOK, cursor, info
<1>6. CASE ReplayInfoDone
  <2>1. DiskType(disk') /\ CacheType(maybe')
    BY <1>1, <1>2, <1>6, WrittenType, Zenon DEF ReplayInfoDone
  <2> QED BY <1>6, <2>1, ReplayParts, Zenon DEF ReplayInfoDone, TypeOK, cursor, info
<1>7. CASE ReplayFails
  BY <1>7, ReplayParts, Zenon DEF ReplayFails, TypeOK, cursor, info
<1> QED BY <1>3, <1>4, <1>5, <1>6, <1>7, Zenon

\* Mounting the replayed journal keeps the types.
LEMMA MountType ==
    ASSUME TypeOK, Mount PROVE TypeOK'
<1>1. /\ NoReplay = [start |-> 0, seq |-> 0, operations |-> NoReplay.operations]
      /\ DOMAIN NoReplay.operations = {}
      /\ NoReplay.operations \in [DOMAIN NoReplay.operations -> Nat]
      /\ 0 \in 0..(Capacity - 1)
  BY CapacityAssumption, SMTT(60) DEF NoReplay
<1>2. /\ log' \subseteq Entry /\ committed' \subseteq Nat /\ completed' \subseteq Nat
  BY SMTT(60) DEF Mount, TypeOK, Entry
<1>3. /\ next_sequence_number' \in Nat /\ next_entry_start_block' \in 0..(Capacity - 1)
      /\ head' \in Nat /\ tail' \in Nat
  BY CapacityAssumption, SMTT(60) DEF Mount, TypeOK, InfoContent
<1>4. /\ pc' = "idle" /\ replay' = NoReplay
      /\ UNCHANGED <<disk, maybe, queue, superblock, assert_ok, live_metadata_operations,
                     writeback_enabled, call, reserved, hist, crashes, restarts>>
  BY Zenon DEF Mount
<1> HIDE DEF NoReplay
<1> QED BY <1>1, <1>2, <1>3, <1>4, SMTT(60) DEF TypeOK, queue

\* Every step keeps the types.
LEMMA TypeStep ==
    ASSUME TypeOK, CallInv, [Next]_vars PROVE TypeOK'
<1>1. CASE UNCHANGED vars
  BY <1>1, SMTT(60) DEF vars, TypeOK
<1>2. CASE Next
  BY <1>2, WriteDataType, WriteMetadataType, SyncFlushType, FlushDoneType, HomeDoneType,
     InfoDoneType, EntryDataDoneType, RequestFailsType, CrashRestartType, ReplayStepType,
     ParseEntryType, ReplayRestType, MountType, Zenon DEF Next
<1> QED BY <1>1, <1>2, SMTT(60)

-----------------------------------------------------------------------------
(* The call that is being served, and the assertion of WriteInfoBlock.     *)

\* The next entry is the one that is being sent.
LEMMA SendEntryCall ==
    ASSUME TypeOK, RingInv, Mounted, UNCHANGED writeback_enabled,
           NEW c \in CallType, c.op = "meta", c.ops \in MetaOps,
           NEW m, NEW live, SendEntry(c, m, live)
    PROVE  CallInv'
<1>1. /\ EntryLength(c.ops) \in Nat /\ tail \in Nat /\ next_sequence_number \in Nat
      /\ superblock.seq <= next_sequence_number
  BY EntryLengths, Zenon DEF TypeOK, RingInv
<1>2. CASE writeback_enabled
  <2>1. /\ pc' = "entry" /\ call' = c /\ log' = log \cup {NewEntry(c)}
        /\ next_sequence_number' = next_sequence_number + 1
        /\ tail' = tail + EntryLength(c.ops) /\ superblock' = superblock
    BY <1>2, Zenon DEF SendEntry, Send, NewEntry, info
  <2>2. CurrentEntry' = NewEntry(c)
    BY <1>1, <2>1 DEF CurrentEntry, NewEntry
  <2>3. CurrentEntry' \in log' /\ Live(CurrentEntry)'
    BY <1>1, <2>1, <2>2, Zenon DEF NewEntry, Live
  <2> QED BY <1>2, <2>1, <2>3, Zenon DEF CallInv, Request
<1>3. CASE ~writeback_enabled
  BY <1>3 DEF SendEntry, Return, NoCall, CallInv, Request
<1> QED BY <1>2, <1>3, Zenon

\* The second half of WriteInfoBlock leaves a consistent call.
LEMMA SendInfoCall ==
    ASSUME TypeOK, UNCHANGED writeback_enabled,
           NEW c \in CallType, c.op \in {"sync", "data", "meta"},
           c.op = "meta" => c.ops \in MetaOps,
           writeback_enabled => next_sequence_number > superblock.seq,
           NEW m, SendInfo(c, m)
    PROVE  /\ CallInv'
           /\ InfoBlockAdvancesWhileEnabled => InfoBlockAdvancesWhileEnabled'
<1>1. ASSUME writeback_enabled, assert_ok PROVE assert_ok'
  <2>1. next_entry_start_block < Capacity
    BY CapacityAssumption DEF TypeOK
  <2>2. assert_ok' = (assert_ok /\ next_sequence_number > superblock.seq
                                /\ next_entry_start_block < Capacity)
    BY Zenon DEF SendInfo
  <2> QED BY <1>1, <2>1, <2>2, Zenon
<1>2. CallInv'
  <2>1. CASE writeback_enabled
    <3>1. /\ pc' = "info" /\ call' = c /\ UNCHANGED next_sequence_number
          /\ superblock'.seq = next_sequence_number
      BY <2>1, Zenon DEF SendInfo, Send, Info, cursor
    <3> QED BY <2>1, <3>1, Zenon DEF CallInv, Request
  <2>2. CASE ~writeback_enabled
    BY <2>2 DEF SendInfo, Return, NoCall, CallInv, Request
  <2> QED BY <2>1, <2>2, Zenon
<1> QED BY <1>1, <1>2, Zenon DEF InfoBlockAdvancesWhileEnabled

\* WriteInfoBlock leaves a consistent call.
LEMMA WriteInfoBlockCall ==
    ASSUME TypeOK, UNCHANGED writeback_enabled,
           NEW c \in CallType, c.op \in {"sync", "data", "meta"},
           c.op = "meta" => c.ops \in MetaOps,
           writeback_enabled => next_sequence_number > superblock.seq,
           WriteInfoBlock(c)
    PROVE  /\ CallInv'
           /\ InfoBlockAdvancesWhileEnabled => InfoBlockAdvancesWhileEnabled'
<1>1. CASE pending_work_items = <<>> /\ ~pending_flush
  BY <1>1, SendInfoCall, Zenon DEF WriteInfoBlock
<1>2. CASE ~(pending_work_items = <<>> /\ ~pending_flush)
  <2>1. UNCHANGED <<cursor, info>>
    BY <1>2, Zenon DEF WriteInfoBlock
  <2>2. CASE writeback_enabled
    <3>1. pc' = "flush" /\ call' = c
      BY <1>2, <2>2, Zenon DEF WriteInfoBlock, Send
    <3> QED BY <2>1, <2>2, <3>1, Zenon
            DEF CallInv, Request, cursor, info, InfoBlockAdvancesWhileEnabled
  <2>3. CASE ~writeback_enabled
    <3>1. pc' = "idle" /\ call' = NoCall
      BY <1>2, <2>3, Zenon DEF WriteInfoBlock, Return
    <3> QED BY <2>1, <2>3, <3>1, Zenon
            DEF CallInv, Request, NoCall, info, InfoBlockAdvancesWhileEnabled
  <2> QED BY <2>2, <2>3, Zenon
<1> QED BY <1>1, <1>2, Zenon

\* WriteInfoBlock is only called, or gone on with, when there is an entry to
\* move the info block past.
LEMMA CallStep ==
    ASSUME JournalInv, [Next]_vars
    PROVE  CallInv' /\ InfoBlockAdvancesWhileEnabled'
<1>1. /\ TypeOK /\ RingInv /\ CallInv /\ LiveInv /\ InfoBlockAdvancesWhileEnabled
  BY Zenon DEF JournalInv
<1>2. CASE UNCHANGED vars
  BY <1>1, <1>2, Zenon DEF vars, CallInv, CurrentEntry, Live, InfoBlockAdvancesWhileEnabled
<1>3. ASSUME NEW ops \in DataOps, WriteData(ops)
      PROVE  CallInv' /\ InfoBlockAdvancesWhileEnabled'
  <2> DEFINE c == Call("data", ops, {})
  <2>1. /\ UNCHANGED writeback_enabled /\ pc = "idle"
        /\ c \in CallType /\ c.op = "data"
    BY <1>1, <1>3, OpsAssumption, SubmitType, Zenon DEF WriteData, Submit, Call
  <2>2. CASE ops \cap live_metadata_operations # {}
    <3>1. WriteInfoBlock(c)
      BY <1>3, <2>2, Zenon DEF WriteData
    <3>2. writeback_enabled => next_sequence_number > superblock.seq
      BY <1>1, <2>1, <2>2, Zenon DEF LiveInv
    <3> HIDE DEF c
    <3> QED BY <1>1, <2>1, <3>1, <3>2, WriteInfoBlockCall, Zenon
  <2>3. CASE ops \cap live_metadata_operations = {}
    <3>1. SendData(c, maybe) /\ UNCHANGED info
      BY <1>3, <2>3, Zenon DEF WriteData, SendData
    <3> HIDE DEF c
    <3> QED BY <1>1, <2>1, <3>1 DEF SendData, Send, Return, NoCall, CallInv, Request, info,
                                    InfoBlockAdvancesWhileEnabled
  <2> QED BY <2>2, <2>3, Zenon
<1>4. ASSUME NEW ops \in MetaOps, NEW trim \in TrimOps, WriteMetadata(ops, trim)
      PROVE  CallInv' /\ InfoBlockAdvancesWhileEnabled'
  <2> DEFINE c == Call("meta", ops, trim)
  <2>1. /\ UNCHANGED writeback_enabled /\ Mounted
        /\ c \in CallType /\ c.op = "meta" /\ c.ops = ops
    BY <1>1, <1>4, OpsAssumption, SubmitType, Zenon DEF WriteMetadata, Submit, Call, Mounted
  <2>2. EntryLength(ops) \in 3..Capacity
    BY EntryLengths, Zenon
  <2>3. CASE Intersects(EntryLength(ops))
    <3>1. WriteInfoBlock(c)
      BY <1>4, <2>3, Zenon DEF WriteMetadata
    <3>2. next_sequence_number > superblock.seq
      BY <1>1, <2>1, <2>2, <2>3, IntersectsFacts
    <3> HIDE DEF c
    <3> QED BY <1>1, <2>1, <3>1, <3>2, WriteInfoBlockCall, Zenon
  <2>4. CASE ~Intersects(EntryLength(ops))
    <3>1. SendEntry(c, maybe, live_metadata_operations) /\ UNCHANGED info
      BY <1>4, <2>4, Zenon DEF WriteMetadata, SendEntry
    <3> HIDE DEF c
    <3>2. CallInv'
      BY <1>1, <2>1, <3>1, SendEntryCall, Zenon
    <3> QED BY <1>1, <2>1, <3>1, <3>2, Zenon DEF info, InfoBlockAdvancesWhileEnabled
  <2> QED BY <2>3, <2>4, Zenon
<1>5. CASE Sync
  <2> DEFINE c == [NoCall EXCEPT !.op = "sync"]
  <2>1. /\ UNCHANGED writeback_enabled /\ WriteInfoBlock(c)
        /\ c \in CallType /\ c.op = "sync"
    BY <1>5, Zenon DEF Sync, NoCall, CallType
  <2>2. next_sequence_number > superblock.seq
    <3>1. Mounted /\ next_sequence_number # superblock.seq
      BY <1>5, Zenon DEF Sync, Mounted
    <3> QED BY <1>1, <3>1 DEF RingInv, TypeOK, InfoContent
  <2> HIDE DEF c
  <2> QED BY <1>1, <2>1, <2>2, WriteInfoBlockCall, Zenon
<1>6. CASE Flush
  BY <1>1, <1>6 DEF Flush, Send, Return, NoCall, CallInv, Request, info,
                    InfoBlockAdvancesWhileEnabled
<1>7. CASE FlushDone
  <2>1. /\ pc = "flush" /\ UNCHANGED <<writeback_enabled, pending_work_items>>
    BY <1>7, Zenon DEF FlushDone
  <2>2. CASE pending_work_items # <<>> /\ SendHome(Head(pending_work_items), call, Flushed)
    BY <1>1, <2>1, <2>2, Zenon DEF SendHome, Send, CallInv, Request, cursor, info,
                            InfoBlockAdvancesWhileEnabled
  <2>3. CASE Return(Flushed) /\ UNCHANGED <<cursor, info>>
    BY <1>1, <2>1, <2>3, Zenon DEF Return, NoCall, CallInv, Request, info,
                            InfoBlockAdvancesWhileEnabled
  <2>4. CASE call.op # "flush" /\ SendInfo(call, Flushed)
    <3>1. /\ call \in CallType /\ call.op \in {"sync", "data", "meta"}
          /\ next_sequence_number > superblock.seq
          /\ call.op = "meta" => call.ops \in MetaOps
      BY <1>1, <2>1, <2>4, Zenon DEF CallInv, TypeOK
    <3> QED BY <1>1, <2>1, <2>4, <3>1, SendInfoCall, Zenon
  <2> QED BY <1>7, <2>2, <2>3, <2>4, Zenon DEF FlushDone
<1>8. CASE HomeDone
  <2>1. /\ pc = "home" /\ UNCHANGED writeback_enabled
        /\ pending_work_items' = Tail(pending_work_items)
        /\ UNCHANGED <<cursor, info>>
    BY <1>8, Zenon DEF HomeDone, SendHome
  <2>2. \/ pc' = "home" /\ call' = call /\ pending_work_items' # <<>>
        \/ call.op = "flush" /\ pc' = "idle" /\ call' = NoCall
        \/ call.op # "flush" /\ pc' = "flush" /\ call' = call
    BY <1>8, Zenon DEF HomeDone, SendHome, Send, Return
  <2> QED BY <1>1, <2>1, <2>2 DEF CallInv, Request, NoCall, cursor, info,
                                  InfoBlockAdvancesWhileEnabled
<1>9. CASE InfoDone
  <2>1. pc = "info" /\ UNCHANGED writeback_enabled /\ Mounted
    BY <1>9, Zenon DEF InfoDone, Mounted
  <2>2. UNCHANGED info
    BY <1>9, Zenon DEF InfoDone, SendData, SendEntry
  <2>3. CASE call.op = "meta"
    <3>1. SendEntry(call, Settled("info", Outstanding), {})
      BY <1>9, <2>3, Zenon DEF InfoDone
    <3>2. call \in CallType /\ call.ops \in MetaOps
      BY <1>1, <2>3, Zenon DEF TypeOK, CallInv
    <3>3. CallInv'
      BY <1>1, <2>1, <2>3, <3>1, <3>2, SendEntryCall, Zenon
    <3> QED BY <1>1, <2>1, <2>2, <3>3, Zenon DEF info, InfoBlockAdvancesWhileEnabled
  <2>4. CASE call.op # "meta"
    <3>1. \/ call.op = "data" /\ pc' = "data" /\ call' = call
          \/ pc' = "idle" /\ call' = NoCall
      BY <1>1, <1>9, <2>1, <2>4, SMTT(60) DEF InfoDone, SendData, Send, Return
    <3> QED BY <1>1, <2>1, <2>2, <3>1 DEF CallInv, Request, NoCall, info,
                                          InfoBlockAdvancesWhileEnabled
  <2> QED BY <2>3, <2>4, Zenon
<1>10. CASE EntryDone \/ DataDone \/ RequestFails
  BY <1>1, <1>10, SMTT(60) DEF EntryDone, DataDone, RequestFails, Return, NoCall, CallInv, Request,
                     info, InfoBlockAdvancesWhileEnabled
<1>11. CASE Crash \/ Restart
  BY <1>11 DEF Crash, Restart, Forget, NoCall, CallInv, Request,
               InfoBlockAdvancesWhileEnabled
<1>12. CASE Replay \/ ParseEntry \/ ParseDone \/ ReplayHomeDone \/ ReplayFlushDone
            \/ ReplayInfoDone \/ ReplayFails \/ Mount
  <2>1. /\ pc' \notin Request /\ pc \notin Request
        /\ UNCHANGED <<call, assert_ok, writeback_enabled>>
    BY <1>12, Zenon DEF Replay, ParseEntry, ParseDone, ReplayHomeDone, ReplayFlushDone,
                 ReplayInfoDone, ReplayFails, Mount, Request, info
  <2> QED BY <1>1, <2>1, SMTT(60) DEF CallInv, Request, InfoBlockAdvancesWhileEnabled
<1> QED BY <1>2, <1>3, <1>4, <1>5, <1>6, <1>7, <1>8, <1>9, <1>10, <1>11, <1>12, Zenon DEF Next

\* A WriteInfoBlock that completes without a request outstanding is a refused one.
LEMMA WriteInfoBlockLive ==
    ASSUME LiveInv, pc # "info", Mounted, NEW c, WriteInfoBlock(c),
           UNCHANGED <<writeback_enabled, live_metadata_operations>>
    PROVE  LiveInv'
<1>1. CASE ~writeback_enabled
  BY <1>1, Zenon DEF LiveInv
<1>2. CASE writeback_enabled /\ pending_work_items = <<>> /\ ~pending_flush
  BY <1>2, Zenon DEF WriteInfoBlock, SendInfo, Send, LiveInv
<1>3. CASE writeback_enabled /\ ~(pending_work_items = <<>> /\ ~pending_flush)
  <2>1. UNCHANGED <<cursor, info>> /\ pc' = "flush"
    BY <1>3, Zenon DEF WriteInfoBlock, Send
  <2> QED BY <2>1, Zenon DEF LiveInv, Mounted, cursor, info
<1> QED BY <1>1, <1>2, <1>3, Zenon

\* As long as a block is live there is an entry to move the info block past.
LEMMA LiveStep ==
    ASSUME JournalInv, [Next]_vars PROVE LiveInv'
<1>1. /\ TypeOK /\ RingInv /\ CallInv /\ LiveInv
  BY Zenon DEF JournalInv
<1>2. CASE UNCHANGED vars
  BY <1>1, <1>2, Zenon DEF vars, LiveInv, Mounted
<1>3. ASSUME NEW ops \in DataOps, WriteData(ops) PROVE LiveInv'
  <2>1. /\ UNCHANGED <<writeback_enabled, live_metadata_operations>>
        /\ pc = "idle" /\ Mounted
    BY <1>3, Zenon DEF WriteData, Submit, Mounted
  <2>2. CASE ops \cap live_metadata_operations # {}
    BY <1>1, <1>3, <2>1, <2>2, WriteInfoBlockLive, Zenon DEF WriteData
  <2>3. CASE ops \cap live_metadata_operations = {}
    <3>1. UNCHANGED <<cursor, info>> /\ pc' \in {"data", "idle"}
      BY <1>3, <2>3, Zenon DEF WriteData, SendData, Send, Return
    <3> QED BY <1>1, <2>1, <3>1, Zenon DEF LiveInv, Mounted, cursor, info
  <2> QED BY <2>2, <2>3, Zenon
<1>4. ASSUME NEW c, NEW m, NEW live, SendEntry(c, m, live), Mounted PROVE LiveInv'
  <2>1. next_sequence_number + 1 > superblock.seq
    BY <1>1, <1>4 DEF RingInv, TypeOK, InfoContent
  <2> QED BY <1>4, <2>1, Zenon DEF SendEntry, Send, Return, LiveInv, Mounted, info
<1>5. ASSUME NEW ops \in MetaOps, NEW trim \in TrimOps, WriteMetadata(ops, trim)
      PROVE  LiveInv'
  <2>1. UNCHANGED writeback_enabled /\ pc = "idle" /\ Mounted
    BY <1>5, Zenon DEF WriteMetadata, Submit, Mounted
  <2>2. CASE Intersects(EntryLength(ops))
    BY <1>1, <1>5, <2>1, <2>2, WriteInfoBlockLive, Zenon DEF WriteMetadata
  <2>3. CASE ~Intersects(EntryLength(ops))
    BY <1>4, <1>5, <2>1, <2>3, Zenon DEF WriteMetadata
  <2> QED BY <2>2, <2>3, Zenon
<1>6. CASE Sync
  BY <1>1, <1>6, WriteInfoBlockLive, Zenon DEF Sync, Mounted
<1>7. CASE Flush \/ EntryDone \/ DataDone \/ RequestFails
  <2>1. /\ (Mounted' /\ pc # "info") \/ ~writeback_enabled'
        /\ UNCHANGED <<cursor, info, live_metadata_operations>>
        /\ writeback_enabled' => writeback_enabled
    BY <1>7 DEF Flush, EntryDone, DataDone, RequestFails, Send, Return, Mounted
  <2> QED BY <1>1, <2>1, Zenon DEF LiveInv, cursor, info
<1>8. CASE FlushDone
  <2>1. /\ pc = "flush" /\ writeback_enabled
        /\ UNCHANGED <<live_metadata_operations, writeback_enabled>>
    BY <1>1, <1>8, Zenon DEF FlushDone, CallInv, Request
  <2>2. CASE SendInfo(call, Flushed)
    BY <2>1, <2>2, Zenon DEF SendInfo, Send, LiveInv
  <2>3. CASE ~SendInfo(call, Flushed)
    <3>1. UNCHANGED <<cursor, info>> /\ pc' \in {"home", "idle"}
      BY <1>8, <2>3, Zenon DEF FlushDone, SendHome, Send, Return
    <3> QED BY <1>1, <2>1, <3>1, Zenon DEF LiveInv, Mounted, cursor, info
  <2> QED BY <2>2, <2>3, Zenon
<1>9. CASE HomeDone
  <2>1. /\ pc = "home" /\ UNCHANGED <<live_metadata_operations, writeback_enabled>>
        /\ UNCHANGED <<cursor, info>> /\ Mounted'
    BY <1>9, Zenon DEF HomeDone, SendHome, Send, Return, Mounted
  <2> QED BY <1>1, <2>1, Zenon DEF LiveInv, cursor, info
<1>10. CASE InfoDone
  <2>1. Mounted
    BY <1>10, Zenon DEF InfoDone, Mounted
  <2>2. \/ live_metadata_operations' = {}
        \/ SendEntry(call, Settled("info", Outstanding), {})
    BY <1>10, Zenon DEF InfoDone
  <2> QED BY <1>4, <2>1, <2>2, Zenon DEF LiveInv
<1>11. CASE Crash \/ Restart
  BY <1>11, Zenon DEF Crash, Restart, Forget, LiveInv
<1>12. CASE Replay \/ ParseEntry \/ ParseDone \/ ReplayHomeDone \/ ReplayFlushDone
            \/ ReplayInfoDone \/ ReplayFails \/ Mount
  <2>1. /\ ~Mounted /\ pc # "info" /\ UNCHANGED <<live_metadata_operations, writeback_enabled>>
    BY <1>12, Zenon DEF Replay, ParseEntry, ParseDone, ReplayHomeDone, ReplayFlushDone,
                 ReplayInfoDone, ReplayFails, Mount, Mounted
  <2> QED BY <1>1, <2>1, SMTT(60) DEF LiveInv
<1> QED BY <1>2, <1>3, <1>5, <1>6, <1>7, <1>8, <1>9, <1>10, <1>11, <1>12, Zenon DEF Next

=============================================================================
