--------------------------- MODULE BufferAllocator ---------------------------
(***************************************************************************)
(* The buddy allocator of transfer buffers                                 *)
(* (storage_device/src/buffer_allocator.rs).  It hands out ranges of a     *)
(* buffer source; every operation runs under one mutex.  Positions and     *)
(* lengths are in bytes.                                                   *)
(***************************************************************************)
EXTENDS Naturals, Sequences, SequencesExt, FiniteSets, FiniteSetsExt, Functions, TLC

CONSTANTS
    source_size,    \* size of the buffer source
    block_size      \* size of a block, a power of two

ASSUME AllocatorAssumption ==
    /\ block_size \in Nat \ {0} /\ source_size \in Nat /\ block_size <= source_size
    /\ \E k \in 0..block_size : block_size = 2^k

VARIABLES
    free_lists,     \* order -> positions of the free ranges of that order, sorted
    allocation_map, \* position -> length of an allocation, not of what was asked for
    panicked        \* an assertion of the allocator has failed

allocatorVars == <<free_lists, allocation_map, panicked>>

round_down(value, granularity) == value - (value % granularity)
round_up(value, granularity) == round_down(value + granularity - 1, granularity)

\* The smallest order of at least size bytes, and the largest of at most size.
order(size) ==
    LET nblocks == round_up(size, block_size) \div block_size
    IN IF size <= block_size THEN 0 ELSE Min({k \in 0..nblocks : 2^k >= nblocks})

order_fit(size) ==
    LET nblocks == round_up(size, block_size) \div block_size
    IN Max({k \in 0..nblocks : 2^k <= nblocks})

size_for_order(k) == block_size * 2^k

usable == round_down(source_size, block_size)
max_order == order_fit(usable)
Orders == 0..max_order

\* The ranges of initial_free_lists from position offset on.
Greedy[offset \in 0..usable] ==
    IF offset = usable THEN <<>>
    ELSE <<offset>> \o Greedy[offset + size_for_order(order_fit(usable - offset))]

initial_free_lists ==
    [k \in Orders |-> SelectSeq(Greedy[0], LAMBDA p : order_fit(usable - p) = k)]

AllocatorInit ==
    /\ free_lists = initial_free_lists
    /\ allocation_map = <<>> /\ panicked = FALSE

-----------------------------------------------------------------------------
\* The orders that can serve a request of order k.
Serving(k) == {j \in Orders : j >= k /\ free_lists[j] # <<>>}

\* Mutant: the loop stops one order too early and loses the rest.
Split_Whole(k, j, at) ==
    [i \in Orders |->
       IF i = j THEN Front(free_lists[j])
       ELSE IF i \in (k + 1)..(j - 1) THEN Append(free_lists[i], at + size_for_order(i))
       ELSE free_lists[i]]

\* try_allocate_buffer: the last range of the smallest order that has one is
\* split until it has the order that is asked for; at is the position.
Split(k, j, at) ==
    [i \in Orders |->
       IF i = j THEN Front(free_lists[j])
       ELSE IF i \in k..(j - 1) THEN Append(free_lists[i], at + size_for_order(i))
       ELSE free_lists[i]]

\* A request that no order can serve (None) and one above the limits (a panic
\* before anything is changed) leave the allocator as it is.
try_allocate_buffer(size, at) ==
    LET k == order(size)
        j == Min(Serving(k))
    IN /\ size <= source_size /\ k \in Orders /\ Serving(k) # {}
       /\ at = Last(free_lists[j])
       /\ free_lists' = Split(k, j, at)
       /\ allocation_map' = (at :> size_for_order(k)) @@ allocation_map
       /\ panicked' = (panicked \/ \E i \in k..(j - 1) : free_lists[i] # <<>>)

\* offset ^ size_for_order(k): a range of order k starts at a multiple of its
\* size, so the exclusive or changes one bit.
find_buddy(offset, k) ==
    LET size == size_for_order(k)
    IN IF (offset \div size) % 2 = 0 THEN offset + size ELSE offset - size

InsertSorted(list, offset) ==
    SelectSeq(list, LAMBDA p : p < offset) \o <<offset>> \o SelectSeq(list, LAMBDA p : p > offset)

\* Mutant: a range is merged with its buddy only once.
Merges_Once(offset, k) ==
    LET at[n \in 0..(max_order - k)] ==
            IF n = 0 THEN offset
            ELSE Min({at[n - 1], find_buddy(at[n - 1], k + n - 1)})
        free(n) == Contains(free_lists[k + n], find_buddy(at[n], k + n))
        n == Max({m \in 0..Min({1, max_order - k}) : \A i \in 0..(m - 1) : free(i)})
    IN [n |-> n, offset |-> at[n],
        lists |-> [i \in Orders |->
                     IF i \in k..(k + n - 1)
                     THEN SelectSeq(free_lists[i], LAMBDA p : p # find_buddy(at[i - k], i))
                     ELSE free_lists[i]]]

\* The turns of the loop of free_buffer: at[n] is the position after n
\* merges, and n how often the buddy was free.
Merges(offset, k) ==
    LET at[n \in 0..(max_order - k)] ==
            IF n = 0 THEN offset
            ELSE Min({at[n - 1], find_buddy(at[n - 1], k + n - 1)})
        free(n) == Contains(free_lists[k + n], find_buddy(at[n], k + n))
        n == Max({m \in 0..(max_order - k) : \A i \in 0..(m - 1) : free(i)})
    IN [n |-> n, offset |-> at[n],
        lists |-> [i \in Orders |->
                     IF i \in k..(k + n - 1)
                     THEN SelectSeq(free_lists[i], LAMBDA p : p # find_buddy(at[i - k], i))
                     ELSE free_lists[i]]]

free_buffer(start, end) ==
    LET size == allocation_map[start]
        k == order(size)
        m == Merges(start, k)
        to == k + m.n
    IN /\ allocation_map' = Restrict(allocation_map, DOMAIN allocation_map \ {start})
       /\ free_lists' = [m.lists EXCEPT ![to] = InsertSorted(@, m.offset)]
       /\ panicked' = (panicked \/ end - start > size \/ Contains(m.lists[to], m.offset))

-----------------------------------------------------------------------------
\* Free buddies are merged, whatever the order of the calls: the lists are sorted,
\* without which binary_search may miss a buddy, no two buddies are both free, and
\* when nothing is allocated the allocator is as it was at first.
EverythingMerges ==
    /\ \A k \in Orders : \A i, j \in DOMAIN free_lists[k] :
         /\ i < j => free_lists[k][i] < free_lists[k][j]
         /\ k < max_order => free_lists[k][j] # find_buddy(free_lists[k][i], k)
    /\ allocation_map = <<>> => free_lists = initial_free_lists

\* The assertions of the allocator hold: the lists below the order that is
\* split are empty, and a range that is freed is not in a list already.
NoPanic == ~panicked
=============================================================================
