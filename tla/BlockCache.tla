----------------------------- MODULE BlockCache -----------------------------
(***************************************************************************)
(* The write-back cache of a block device (block_client/rust/src/cache.rs).*)
(* The cache is used by one thread and the calls of the device return when *)
(* they are done, so every call of the cache is one step.  A call is a     *)
(* sequence of device calls any of which may fail: fuse counts how many    *)
(* succeed before that.                                                    *)
(***************************************************************************)
EXTENDS Integers, Sequences, SequencesExt, FiniteSets, FiniteSetsExt

CONSTANTS
    BLOCK_SIZE,     \* bytes of a block of the cache
    BLOCK_COUNT,    \* blocks in the VMO
    device_size,
    Buffers,        \* the buffers of read_at and write_at
    StreamBuffers,  \* the buffers of Read and Write
    Offsets,        \* positions a caller may ask for
    Seeks,          \* arguments of seek: <<from, delta>>
    FaultyCalls,    \* the device calls that may fail
    MaxFuse,        \* bound on the device calls before one that fails
    MaxOffset       \* bound on offset: u64::MAX in the code

ASSUME BlockCacheAssumption ==
    /\ BLOCK_SIZE \in Nat \ {0} /\ BLOCK_COUNT \in Nat \ {0} /\ device_size \in Nat \ {0}
    /\ FaultyCalls \subseteq {"write_back", "fill", "refill", "flush"}

VARIABLES
    device,         \* device: position -> byte
    vmo,            \* position -> byte
    map,            \* the entries, least recently used first: key, vmo_offset, dirty
    offset,         \* for std::io::{Read, Seek, Write}
    last            \* the last call, and what it returned

vars == <<device, vmo, map, offset, last>>

Indices == 0..(device_size - 1)
VmoIndices == 0..(BLOCK_SIZE * BLOCK_COUNT - 1)

\* What a call returned: the bytes of a read, the number of a write or a seek.
Failed(call) == [call |-> call, ok |-> FALSE, value |-> <<>>]
Ok(call, value) == [call |-> call, ok |-> TRUE, value |-> value]

Init ==
    /\ device = [i \in Indices |-> i + 1]
    /\ vmo = [i \in VmoIndices |-> 0]
    /\ map = <<>> /\ offset = 0 /\ last = Ok(<<"new">>, <<>>)

-----------------------------------------------------------------------------
(***************************************************************************)
(* A call in progress: the state of the cache, the slot and hit that       *)
(* get_block returned, the bytes read so far, and whether all went well.   *)
(***************************************************************************)
Begin(fuse) ==
    [device |-> device, vmo |-> vmo, map |-> map, slot |-> 0, hit |-> FALSE, evicted |-> FALSE,
     data |-> <<>>, ok |-> TRUE, fuse |-> fuse]

\* More device calls than a call of the cache can make: none fails.
Never == 2 * (device_size \div BLOCK_SIZE + 1)

Fuses == {Never} \cup (IF FaultyCalls = {} THEN {} ELSE 0..MaxFuse)

Fails(s, kind) == kind \in FaultyCalls /\ s.fuse = 0
Burnt(s, kind) == IF kind \in FaultyCalls THEN [s EXCEPT !.fuse = @ - 1] ELSE s

\* Bytes of the block at position key that exist on the device.
length(key) == Min({BLOCK_SIZE, device_size - key})

\* device.write_at of the VMO at slot, device.read_at into it.
DeviceWrite(s, kind, slot, key) ==
    IF Fails(s, kind) THEN [s EXCEPT !.ok = FALSE]
    ELSE [Burnt(s, kind) EXCEPT !.device = [i \in Indices |->
            IF i \in key..(key + length(key) - 1) THEN s.vmo[slot + i - key] ELSE @[i]]]

DeviceRead(s, kind, slot, key) ==
    IF Fails(s, kind) THEN [s EXCEPT !.ok = FALSE]
    ELSE [Burnt(s, kind) EXCEPT !.vmo = [j \in VmoIndices |->
            IF j \in slot..(slot + length(key) - 1) THEN s.device[key + j - slot] ELSE @[j]]]

Insert(s, key, dirty) ==
    [s EXCEPT !.map = Append(@, [key |-> key, vmo_offset |-> s.slot, dirty |-> dirty])]

\* Mutant: a dirty block is evicted without being written back.
get_block_NoWriteBack(s, key, mark_dirty) ==
    LET hits == {i \in DOMAIN s.map : s.map[i].key = key}
        i == CHOOSE x \in hits : TRUE
        entry == [s.map[i] EXCEPT !.dirty = @ \/ mark_dirty]
        oldest == Head(s.map)
        popped == [s EXCEPT !.map = Tail(@), !.slot = oldest.vmo_offset, !.hit = FALSE,
                            !.evicted = TRUE]
    IN IF hits # {}
       THEN [s EXCEPT !.map = Append(RemoveAt(@, i), entry), !.slot = entry.vmo_offset,
                      !.hit = TRUE]
       ELSE IF Len(s.map) < BLOCK_COUNT
       THEN [s EXCEPT !.slot = Len(s.map) * BLOCK_SIZE, !.hit = FALSE, !.evicted = FALSE]
       ELSE IF FALSE
       THEN DeviceWrite(popped, "write_back", oldest.vmo_offset, oldest.key)
       ELSE popped

\* A slot for the block at key, marked dirty if requested.  A hit moves to the
\* end of the map; a miss takes a free slot or that of the first entry.
get_block(s, key, mark_dirty) ==
    LET hits == {i \in DOMAIN s.map : s.map[i].key = key}
        i == CHOOSE x \in hits : TRUE
        entry == [s.map[i] EXCEPT !.dirty = @ \/ mark_dirty]
        oldest == Head(s.map)
        popped == [s EXCEPT !.map = Tail(@), !.slot = oldest.vmo_offset, !.hit = FALSE,
                            !.evicted = TRUE]
    IN IF hits # {}
       THEN [s EXCEPT !.map = Append(RemoveAt(@, i), entry), !.slot = entry.vmo_offset,
                      !.hit = TRUE]
       ELSE IF Len(s.map) < BLOCK_COUNT
       THEN [s EXCEPT !.slot = Len(s.map) * BLOCK_SIZE, !.hit = FALSE, !.evicted = FALSE]
       ELSE IF oldest.dirty
       THEN DeviceWrite(popped, "write_back", oldest.vmo_offset, oldest.key)
       ELSE popped

read_block(s, key, mark_dirty) ==
    LET got == get_block(s, key, mark_dirty)
        read == DeviceRead(got, IF got.evicted THEN "refill" ELSE "fill", got.slot, key)
    IN IF got.ok /\ ~got.hit
       THEN IF read.ok THEN Insert(read, key, mark_dirty) ELSE read
       ELSE got

\* The blocks that a range touches: its head even if the range is empty.
Aligned(at) == at - (at % BLOCK_SIZE)
Blocks(at, len) ==
    LET first == Aligned(at)
        n == (at + len - first + BLOCK_SIZE - 1) \div BLOCK_SIZE
    IN [i \in 1..n |-> first + (i - 1) * BLOCK_SIZE]

Whole(key, at, len) == at <= key /\ key + BLOCK_SIZE <= at + len

\* The positions of a block that lie in a range.
Within(key, at, len) == Max({key, at})..(Min({key + BLOCK_SIZE, at + len}) - 1)

ReadStep(s, key, at, len) ==
    LET r == read_block(s, key, FALSE)
        here == Within(key, at, len)
        first == Max({key, at})
    IN IF ~s.ok THEN s
       ELSE IF ~r.ok THEN r
       ELSE [r EXCEPT !.data = @ \o [i \in 1..Cardinality(here) |->
                                       r.vmo[r.slot + (first + i - 1) - key]]]

WriteStep(s, key, buf, at) ==
    LET len == Len(buf)
        whole == Whole(key, at, len)
        r == IF whole THEN get_block(s, key, TRUE) ELSE read_block(s, key, TRUE)
        here == Within(key, at, len)
        w == [r EXCEPT !.vmo = [j \in VmoIndices |->
                IF (j - r.slot + key) \in here THEN buf[j - r.slot + key - at + 1] ELSE @[j]]]
    IN IF ~s.ok THEN s
       ELSE IF ~r.ok THEN r
       ELSE IF whole /\ ~r.hit THEN Insert(w, key, TRUE) ELSE w

read_at(s, len, at) ==
    FoldLeft(LAMBDA t, key : ReadStep(t, key, at, len), s, Blocks(at, len))

write_at(s, buf, at) ==
    FoldLeft(LAMBDA t, key : WriteStep(t, key, buf, at), s, Blocks(at, Len(buf)))

flush(s) ==
    FoldLeft(LAMBDA t, i :
               LET entry == t.map[i]
                   w == DeviceWrite(t, "flush", entry.vmo_offset, entry.key)
               IN IF ~t.ok \/ ~entry.dirty THEN t
                  ELSE IF w.ok THEN [w EXCEPT !.map[i].dirty = FALSE] ELSE w,
             s, [i \in DOMAIN s.map |-> i])

-----------------------------------------------------------------------------
(***************************************************************************)
(* The operations.                                                         *)
(***************************************************************************)
InRange(at, len) == at <= device_size /\ len <= device_size - at

\* What a call s leaves.
Result(s) == [device |-> s.device, vmo |-> s.vmo, map |-> s.map, data |-> s.data, ok |-> s.ok]

Done(call, s, value) ==
    /\ device' = s.device /\ vmo' = s.vmo /\ map' = s.map
    /\ last' = IF s.ok THEN Ok(call, value) ELSE Failed(call)

Refuse(call) == last' = Failed(call) /\ UNCHANGED <<device, vmo, map>>

ReadAt(len, at) ==
    LET call == <<"read_at", len, at>> IN
    /\ \/ /\ InRange(at, len)
          /\ \E s \in {Result(read_at(Begin(f), len, at)) : f \in Fuses} : Done(call, s, s.data)
       \/ ~InRange(at, len) /\ Refuse(call)
    /\ UNCHANGED offset

WriteAt(buf, at) ==
    LET call == <<"write_at", buf, at>> IN
    /\ \/ /\ InRange(at, Len(buf))
          /\ \E s \in {Result(write_at(Begin(f), buf, at)) : f \in Fuses} : Done(call, s, <<>>)
       \/ ~InRange(at, Len(buf)) /\ Refuse(call)
    /\ UNCHANGED offset

\* Past the end, Read and Write return without a call of the device.
AtEnd(call, value) ==
    /\ offset > device_size
    /\ last' = Ok(call, value)
    /\ UNCHANGED <<device, vmo, map, offset>>

Clamped(len) == Min({len, device_size - offset})

Read(len) ==
    LET call == <<"read", len>>
        n == Clamped(len)
    IN \/ AtEnd(call, <<>>)
       \/ /\ offset <= device_size
          /\ \E s \in {Result(read_at(Begin(f), n, offset)) : f \in Fuses} :
               /\ Done(call, s, s.data)
               /\ offset' = IF s.ok THEN offset + n ELSE offset

Write(buf) ==
    LET call == <<"write", buf>>
        part == SubSeq(buf, 1, Clamped(Len(buf)))
    IN \/ AtEnd(call, <<0>>)
       \/ /\ offset <= device_size
          /\ \E s \in {Result(write_at(Begin(f), part, offset)) : f \in Fuses} :
               /\ Done(call, s, <<Len(part)>>)
               /\ offset' = IF s.ok THEN offset + Len(part) ELSE offset

Flush ==
    /\ \E s \in {Result(flush(Begin(f))) : f \in Fuses} : Done(<<"flush">>, s, <<>>)
    /\ UNCHANGED offset

\* checked_add and checked_sub give no position below 0 or above u64::MAX.
Seek(from, delta) ==
    LET call == <<"seek", from, delta>>
        base == CASE from = "start" -> 0 [] from = "end" -> device_size [] OTHER -> offset
        to == base + delta
    IN /\ \/ to \in 0..MaxOffset /\ offset' = to /\ last' = Ok(call, <<to>>)
          \/ to \notin 0..MaxOffset /\ UNCHANGED offset /\ last' = Failed(call)
       /\ UNCHANGED <<device, vmo, map>>

\* Drop, which ignores an error of flush, and a new cache for the device.
Reopen ==
    /\ \E s \in {Result(flush(Begin(f))) : f \in Fuses} :
         /\ device' = s.device
         /\ last' = IF s.ok THEN Ok(<<"reopen">>, <<>>) ELSE Failed(<<"reopen">>)
    /\ vmo' = [i \in VmoIndices |-> 0]
    /\ map' = <<>> /\ offset' = 0

Next ==
    \/ \E buf \in StreamBuffers : Read(Len(buf)) \/ Write(buf)
    \/ \E buf \in Buffers, at \in Offsets : ReadAt(Len(buf), at) \/ WriteAt(buf, at)
    \/ \E seek \in Seeks : Seek(seek[1], seek[2])
    \/ Flush \/ Reopen

Spec == Init /\ [][Next]_vars

-----------------------------------------------------------------------------
Entry(key) == CHOOSE e \in Range(map) : e.key = key
Cached(key) == \E e \in Range(map) : e.key = key

\* Type correctness, and the shape of the map: keys and slots are starts of
\* blocks, and there are no more entries than slots.
TypeOK ==
    /\ DOMAIN device = Indices /\ DOMAIN vmo = VmoIndices /\ offset \in 0..MaxOffset
    /\ Len(map) <= BLOCK_COUNT
    /\ \A e \in Range(map) : /\ e.key \in Indices /\ e.key % BLOCK_SIZE = 0
                             /\ e.vmo_offset \in VmoIndices /\ e.vmo_offset % BLOCK_SIZE = 0
                             /\ e.dirty \in BOOLEAN

\* No two entries have the same block of the device or the same slot of the
\* VMO: get_block never gives a slot away that an entry still uses.
SlotsAreOwn ==
    \A i, j \in DOMAIN map :
      i # j => map[i].key # map[j].key /\ map[i].vmo_offset # map[j].vmo_offset

\* A block that is not dirty has in the VMO what is on the device: dropping it
\* loses nothing.
CleanIsOnDevice ==
    \A e \in Range(map) : ~e.dirty =>
      \A i \in e.key..(e.key + length(e.key) - 1) :
        vmo[e.vmo_offset + i - e.key] = device[i]

\* What a reader sees: the cached blocks, and the device for the others.
Contents ==
    [i \in Indices |-> IF Cached(Aligned(i))
                       THEN vmo[Entry(Aligned(i)).vmo_offset + (i % BLOCK_SIZE)]
                       ELSE device[i]]

D == INSTANCE Disk WITH contents <- Contents

\* The cache implements the disk, call by call: a read returns what was last written
\* whatever has been evicted since, a write that succeeds has stored its buffer and
\* one that fails a prefix of it, a successful flush leaves nothing in memory alone.
ImplementsDisk == D!Spec
=============================================================================
