---------------------------- MODULE StorageDevice ----------------------------
(***************************************************************************)
(* A Device with its buffers (storage_device): tasks allocate buffers from *)
(* the allocator, do I/O with parts of them, and drop them; one of them    *)
(* closes the device.  The three kinds of device are BlockDevice (I/O goes *)
(* through a BlockClient and takes time), FileBackedDevice and FakeDevice  *)
(* (I/O is done when the call returns).                                    *)
(***************************************************************************)
EXTENDS BufferAllocator

CONSTANTS
    Tasks,
    Sizes,          \* sizes of buffers a task may ask for
    Kinds,          \* kinds of devices
    device_blocks,  \* blocks of the device
    Blocks,         \* positions of I/O on the device, in blocks
    MaxDropped      \* bound: requests in the device whose future was dropped

VARIABLES
    kind,           \* "block", "read_only", "file" or "fake"
    open,           \* the VMO id is valid / FakeDevice::closed is false
    buffer,         \* task -> range of its buffer, or None
    request,        \* task -> reference of the I/O it awaits, or None
    dropped         \* references of I/O in the device that nobody awaits

vars == <<allocatorVars, kind, open, buffer, request, dropped>>

None == <<>>

Init ==
    /\ AllocatorInit
    /\ kind \in Kinds /\ open = TRUE
    /\ buffer = [t \in Tasks |-> None] /\ request = [t \in Tasks |-> None]
    /\ dropped = {}

\* allocate_buffer; a fake device that is closed must not be asked.
Allocate(t, size) ==
    /\ buffer[t] = None
    /\ kind = "fake" => open
    /\ \E at \in 0..usable :
         /\ try_allocate_buffer(size, at)
         /\ buffer' = [buffer EXCEPT ![t] = <<at, at + size>>]
    /\ UNCHANGED <<kind, open, request, dropped>>

\* Buffer::drop.  The buffer is borrowed while I/O is awaited.
DropBuffer(t) ==
    /\ buffer[t] # None /\ request[t] = None
    /\ free_buffer(buffer[t][1], buffer[t][2])
    /\ buffer' = [buffer EXCEPT ![t] = None]
    /\ UNCHANGED <<kind, open, request, dropped>>

len(range) == range[2] - range[1]

-----------------------------------------------------------------------------
(***************************************************************************)
(* References to parts of a buffer (buffer.rs).  One has a slice, the      *)
(* memory that the program sees, and a range, which is what a BlockDevice  *)
(* tells the device; here both are positions in the source.                *)
(***************************************************************************)

Unbounded == <<"unbounded">>
Included(n) == <<"included", n>>
Excluded(n) == <<"excluded", n>>

\* Bounds a..b, a..=b, a.., ..b, ..=b and .. with limits up to n.
SliceRanges(n) ==
    [start : {Included(i) : i \in 0..n} \cup {Unbounded},
     end : {Included(i) : i \in 0..n} \cup {Excluded(i) : i \in 0..n} \cup {Unbounded}]

\* Indexing of a slice by bounds, which panics unless from <= to <= its length.
From(bounds) == IF bounds.start = Unbounded THEN 0 ELSE bounds.start[2]
To(slice, bounds) ==
    CASE bounds.end = Unbounded -> len(slice)
      [] bounds.end[1] = "included" -> bounds.end[2] + 1
      [] bounds.end[1] = "excluded" -> bounds.end[2]
Indexes(slice, bounds) == From(bounds) <= To(slice, bounds) /\ To(slice, bounds) <= len(slice)
index(slice, bounds) == <<slice[1] + From(bounds), slice[1] + To(slice, bounds)>>

\* Mutant: an end that is included is taken as one that is not.
subrange_Included(source, bounds) ==
    <<CASE bounds.start = Unbounded -> source[1]
        [] bounds.start[1] = "included" -> source[1] + bounds.start[2],
      CASE bounds.end = Unbounded -> source[2]
        [] OTHER -> source[1] + bounds.end[2]>>

subrange(source, bounds) ==
    <<CASE bounds.start = Unbounded -> source[1]
        [] bounds.start[1] = "included" -> source[1] + bounds.start[2],
      CASE bounds.end = Unbounded -> source[2]
        [] bounds.end[1] = "included" -> source[1] + bounds.end[2] + 1
        [] bounds.end[1] = "excluded" -> source[1] + bounds.end[2]>>

split_range(range, mid) == <<<<range[1], range[1] + mid>>, <<range[1] + mid, range[2]>>>>

\* subslice and subslice_mut, and either half of split_at and split_at_mut.
subslice(ref) ==
    {[slice |-> index(ref.slice, bounds), range |-> subrange(ref.range, bounds)] :
       bounds \in {b \in SliceRanges(len(ref.slice)) : Indexes(ref.slice, b)}}
split_at(ref) ==
    {[slice |-> index(ref.slice, IF half = 1 THEN [start |-> Unbounded, end |-> Excluded(mid)]
                                 ELSE [start |-> Included(mid), end |-> Unbounded]),
      range |-> split_range(ref.range, mid)[half]] : mid \in 0..len(ref.slice), half \in 1..2}

Parts(refs) == UNION {subslice(ref) \cup split_at(ref) : ref \in refs}

\* read and write panic if the range is not aligned; a caller restores the
\* alignment first.
AlignedIo(ref) == ref.range[1] % block_size = 0 /\ len(ref.range) % block_size = 0

\* The references for I/O that a task can make of a buffer, by two of these calls.
Refs == [range \in {<<at, at + size>> : at \in 0..usable, size \in Sizes} |->
           {ref \in Parts(Parts({[slice |-> range, range |-> range]})) : AlignedIo(ref)}]

-----------------------------------------------------------------------------

\* BlockDevice: the request takes time, unless it is refused.
BlockIo(t, op, ref) ==
    /\ kind \in {"block", "read_only"}
    /\ IF (op = "write" /\ kind = "read_only") \/ len(ref.range) = 0 \/ ~open
       THEN UNCHANGED request
       ELSE request' = [request EXCEPT ![t] = ref]

\* FileBackedDevice and FakeDevice: done, or refused, at once.  The fake device
\* panics at I/O past the end.
FileIo == kind = "file" /\ UNCHANGED request

FakeIo(ref, block) ==
    /\ kind = "fake"
    /\ open => block * block_size + len(ref.range) <= device_blocks * block_size
    /\ UNCHANGED request

Io(t, op, ref, block) ==
    /\ buffer[t] # None /\ request[t] = None
    /\ ref \in Refs[buffer[t]]
    /\ BlockIo(t, op, ref) \/ FileIo \/ FakeIo(ref, block)
    /\ UNCHANGED <<allocatorVars, kind, open, buffer, dropped>>

\* The answer of the BlockClient.
IoDone(t) ==
    /\ request[t] # None
    /\ request' = [request EXCEPT ![t] = None]
    /\ UNCHANGED <<allocatorVars, kind, open, buffer, dropped>>

\* The future of read or write is dropped (ResponseFuture::drop): the borrow of the
\* buffer ends, and the device goes on with the request.
DropFuture(t) ==
    /\ request[t] # None /\ Cardinality(dropped) < MaxDropped
    /\ request' = [request EXCEPT ![t] = None]
    /\ dropped' = dropped \cup {request[t]}
    /\ UNCHANGED <<allocatorVars, kind, open, buffer>>

\* The device is done with such a request; the answer finds no call.
DroppedDone(ref) ==
    /\ ref \in dropped
    /\ dropped' = dropped \ {ref}
    /\ UNCHANGED <<allocatorVars, kind, open, buffer, request>>

\* BlockDevice takes its VMO id and closes the client, which answers what is
\* pending; FakeDevice notes that it is closed.
Close ==
    /\ kind # "file"
    /\ open' = FALSE
    /\ UNCHANGED <<allocatorVars, kind, buffer, request, dropped>>

\* FileBackedDevice only syncs its file.
CloseFile == kind = "file" /\ UNCHANGED vars

\* reopen, for the fake device only.
Reopen ==
    /\ kind = "fake"
    /\ open' = TRUE
    /\ UNCHANGED <<allocatorVars, kind, buffer, request, dropped>>

Next ==
    \/ \E t \in Tasks, size \in Sizes : Allocate(t, size)
    \/ \E t \in Tasks : DropBuffer(t) \/ IoDone(t) \/ DropFuture(t)
    \/ \E ref \in dropped : DroppedDone(ref)
    \/ \E t \in Tasks, op \in {"read", "write"}, block \in Blocks :
         buffer[t] # None /\ \E ref \in Refs[buffer[t]] : Io(t, op, ref, block)
    \/ Close \/ CloseFile \/ Reopen

Spec == Init /\ [][Next]_vars

-----------------------------------------------------------------------------
Held == {t \in Tasks : buffer[t] # None}

\* The memory behind a buffer: its allocation, which may be longer than its range.
Allocation(t) == <<buffer[t][1], buffer[t][1] + allocation_map[buffer[t][1]]>>

Within(a, b) == b[1] <= a[1] /\ a[2] <= b[2]
Apart(a, b) == a[2] <= b[1] \/ b[2] <= a[1]

\* Type correctness, and that every buffer has its record in the allocator.
TypeOK ==
    /\ open \in BOOLEAN
    /\ \A k \in Orders : Range(free_lists[k]) \subseteq 0..(usable - 1)
    /\ DOMAIN allocation_map = {buffer[t][1] : t \in Held}

\* What holds memory, with its extent: a place in a free list, or a buffer.
Places ==
    UNION {{[list |-> k, i |-> i,
             extent |-> <<free_lists[k][i], free_lists[k][i] + size_for_order(k)>>] :
              i \in DOMAIN free_lists[k]} : k \in Orders}
    \cup {[task |-> t, extent |-> Allocation(t)] : t \in Held}

\* Every usable byte of the source is in exactly one place, a place in a free list
\* or the allocation of one buffer ("the allocator not double-allocating any
\* regions", try_allocate_buffer): no two buffers overlap, no range is free twice
\* or free and in use, and no byte is lost.
Partition ==
    /\ LET places == Places IN
       \A b \in 0..(usable - 1) :
         Cardinality({p \in places : Within(<<b, b + 1>>, p.extent)}) = 1
    /\ \A t \in Held : Within(buffer[t], Allocation(t))

\* The device touches, for a call that awaits it, the memory that the program sees
\* through the reference, whichever subslices and splits led to it: it is inside
\* the buffer of the task, not empty, and apart from the buffers of others.  Nothing
\* of the kind holds once the future was dropped: the buffer may be dropped then,
\* and its memory be another's while the device still has the request.
IoStaysInBuffer ==
    \A t \in Tasks : request[t] # None =>
      /\ request[t].range = request[t].slice
      /\ buffer[t] # None /\ Within(request[t].range, buffer[t])
      /\ request[t].range[1] < request[t].range[2]
      /\ \A u \in Held \ {t} : Apart(request[t].range, Allocation(u))
=============================================================================
