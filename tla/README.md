# A verification project for fuchsia-storage

TLA+ models of the storage libraries under `src/lib/storage`, the TLC runs that
check them on small instances, and TLAPS proofs that hold for every instance.
Two parts are modelled: the metadata journal of `vfs/cpp/journal`, on which the
crash consistency of C++ filesystems depends, and the Rust libraries (the virtual
filesystem `vfs/rust`, the block client and its cache, the storage devices and
filesystem management). `PROJECT.json` maps every definition to the lines it
models.

## The system

| Component | State | What is hard | Modules |
|---|---|---|---|
| Journal writer, replay (`vfs/cpp/journal`) | ring cursor, superblock, work items, live blocks, device | power failure at any request, failed requests, a ring that wraps | `JournalWriter` |
| Journal front end (`journal.cc`) | `pending_`, reservations, sequencer, data barrier | promises in any order, blocked callers | `Journal` |
| Execution scope (`execution_scope.rs`) | running tasks, waiters | opens and clones that race shutdown and wait | `ExecutionScope` |
| File, VMO file and service connections | flags, seek, connection count, open file | aborts at any await, the last close against a new open | `Connections`, `FileConnection`, `VmoFile`, `ServiceConnection`, `OpenFlags`, composed by `Files` |
| Directories, connections to them, rename | entries, two locks, tokens, traversal position | atomic rename, lock order, listing while entries change | `Path`, `SimpleDirectory`, `DirectoryConnection`, composed by `Directories` |
| Directory watchers | slab of controllers, queues, task of a lazy directory | a listing over several awaits while events arrive, keys that are reused | `Watchers` |
| Tree builder | tree of names | refused calls | `TreeBuilder`, abstract: `FlatTree` |
| Block client (`block_client/rust`) | request map, fifo queue, `temp_vmo` | termination against sends, dropped calls, a full fifo | `BlockClient` |
| Block cache (`cache.rs`) | LRU map, VMO, device | eviction, write-back, device errors | `BlockCache`, abstract: `Disk` |
| Buddy allocator and devices (`storage_device`) | free lists, allocation map, buffers | merging at the edges, ranges of ranges | `BufferAllocator`, `StorageDevice` |
| Filesystem management (`fs_management/rust`) | processes, namespace, filesystems | crashes, refusals and dropped futures in every state | `FsManagement` |

Not modelled: the C++ vfs, block client and filesystem management, the inspectors,
the RAM device clients (see the end).

## How the journal works

`CommitTransaction` reserves blocks in a bounded buffer, copies the metadata
there, and gives the executor a promise that a sequencer keeps in order. A
transaction with data puts a held promise in front, which is released when the
data has been written and flushed. On the executor's thread `JournalWriter`
writes the entry (a header, the blocks, a commit block) to a ring on the device
and queues the writes in place. `Flush` flushes the device, runs the
`commit_callback` of each queued transaction, writes it in place and runs its
`complete_callback`. The info block, which says where replay starts, is written
only when the ring is full, when data overwrites a live block, or on `Sync`.

## Modules

`JournalWriter` models the writer, the device, power failure and replay. The
writer is single-threaded and its requests are synchronous, so a step is the
code between two requests: `pc` names the outstanding request, `call` the
operation being served. `disk[b]` is what a read returns; `maybe[b]` is the set
of contents `b` may have after a power failure. A write adds its new content and
a spoiled one to `maybe`; a flush collapses `maybe` to `disk`. The constant
`WriteThrough` names the kinds of writes ("info", "entry") that are durable once
they complete, so that one module covers devices with and without such writes.
Contents are abstract: a block outside the journal holds the number of the write
it shows, a ring block its entry and index. Checksums are perfect: an entry is
accepted exactly when all its blocks belong together. `hist`, `log`, `head`,
`tail`, `committed`, `completed` and `assert_ok` are history the writer never
reads. `reserved` is the promise a filesystem makes in return for
`commit_callback`: blocks freed by a transaction are not reused before it runs.

`Journal` models the front end. Callers' steps are split where another thread can
intervene: the check of `pending_`, the return of `Reserve`, and the rest. The
executor takes one promise at a time. The writer is reduced to its queue and to
whether it is enabled; each of its operations may flush the queue on the way and,
if `DeviceMayFail`, fail at any point. The sequencer and the ring buffer are
libraries outside this repository, modelled from their use here: a promise of the
sequencer runs when the one before it has finished or has been destroyed, and a
destroyed reservation returns its blocks.

`Files` composes an execution scope with the connections to one node, which is a
file, a VMO file or a service. `ExecutionScope` has the tasks, their shutdown
senders, the waiters and the handles of a scope; a connection is a task. Every
request handler is one action, split at its awaits where another task can run: the
lock of a VMO file's state, its initialisation, and the close that `OpenFile` spawns
when a connection is dropped. `OpenFlags` holds the flag functions as operators on
sets of bits; an open file is a size, a VMO file its `size`, `vmo_size` and
connection count, and integers have `Width` bits. What `init_vmo` declares is any
`size` and `capacity` of a `u64`, beyond `i64` too; `declared` is history, the larger of
the two. A seek from a position that does not fit in `i64` panics (`handle_seek`
unwraps the conversion), which ends the server: it is no step.

`Directories` composes `SimpleDirectory` (the entries of every directory, their
mutexes, the names that watchers were told) with `DirectoryConnection` (Open, Clone,
Unlink, Rename, ReadDirents, Rewind, Close). Requests of one connection are handled
one after another; a rename takes its two locks, in the order of the directories'
addresses, in separate steps. A path is a sequence of components with the facts
that `Path::validate_and_split` looks at; `LongPaths` are those above its limit.

`Watchers` models one directory, simple or lazy: `register_watcher`, the task of
each watcher with its queue of buffers, the task of a lazy directory, which lists
the directory one buffer at a time between events, and a client that reads messages
as `fuchsia-vfs-watcher` does and keeps the set of names it knows. The assertion in the task of a watcher is a
`debug_assert!`; the model follows a release build, which goes on.

`TreeBuilder` is a tree of recursive operators and implements `FlatTree`, in which a
builder is a set of paths: a call adds the path or is refused.

`BlockClient` has one action for each poll of a future: a call's send, the poll
of its response, its drop at an await, the poller. The fifo, the device and what it
reads and writes are external. `BlockFifoRequest` keeps the fields that the device
looks at; the content of `temp_vmo` is modelled, that of callers' VMOs is not.
Request ids wrap at `RequestIds`. `CloseFifo` succeeds or answers an error.

`BlockCache` models `read_at`, `write_at`, `flush` and the stream interface as one
step each (the cache has a single user), folded over the blocks they visit; a fuse
decides which device call of the step fails, and `FaultyCalls` which kinds may. It
implements `Disk`, a device and what a reader sees of it. Each step of `Disk` is one
call with its arguments and its result: a read returns what was last written; a write
that fails has written a prefix of its data; bytes reach the device at any time, but
only bytes that were written; a flush that succeeds leaves none in memory; only
reopening after a failed flush loses some. `last`, the call and its result, is a
variable of both, so that a read cannot be explained as a write or as a failure.

`BufferAllocator` has the allocator's operators and actions. A request
that no order can serve (`None`) and one above the limits (a panic before anything is
changed) leave it as it is and are no steps. `StorageDevice` adds tasks that own buffers, take
references into them and start I/O. A reference has a slice, the memory the program
sees, and a range, which the device is told; `subslice` and `split_at` compute the two
separately, for every form of Rust's bounds. A future of a read or write may be dropped
(`DropFuture`), after which the task can drop its buffer while the device goes on.

`FsManagement` has the blocking `Filesystem` of `lib.rs`, tasks with a
`ServingFilesystem` of `asynchronous.rs`, and the servers they launch, which start,
answer, refuse, crash and exit. Futures are dropped at every await. A mount or a serve
may fail whether its server is alive or not (`give_up`): opening or describing the root
returns an error, and the process handle is closed. `abandoned` is history: servers
left behind by a call that failed or was dropped. `kill` does not wait, so a killed
process may still write to the device until it has terminated.

The modules named `MC...` hold the instances, those named `...Proofs`, and
`JournalWriterRing`, the lemmas and theorems.

Operators whose comment begins with "Mutant" are plausible bugs; each property
of a passing run is shown to fail when one of them replaces the definition it varies.

## Runs

`tlc -config <cfg> <module>`, for example
`tlc -config BlockClient_calls.cfg MCBlockClient`.

| Run | Module | Asks | Result |
|---|---|---|---|
| `crash` | `MCJournalWriter` | one power failure, or two restarts of the process, at any step; durable info block writes | holds, 1,015,852 states |
| `stale_entry` | `MCJournalWriter` | consistency after two power failures, volatile entries | violated |
| `device_failures` | `MCJournal` | the front end with any request failing; safety and liveness | holds, 94,595 |
| `connections` | `MCFiles` | two connections and a waiter, each kind of node | holds, 675,072 |
| `renames` | `MCDirectories` | two clients and the server on five nodes | holds, 153,157 |
| `trees` | `MCTreeBuilder` | up to four calls; refinement of `FlatTree` | holds, 606 |
| `views` | `MCWatchers` | two watchers, two changes, buffers of one name | holds, 127,044 |
| `calls` | `MCBlockClient` | three callers, fifo of one, failures and a closing device | holds, 99,188 |
| `disk` | `MCBlockCache` | two slots for three blocks; refinement of `Disk` | holds, 28,848 |
| `device_errors` | `MCBlockCache` | the same when write-backs and refills may fail | violated |
| `buffers` | `MCStorageDevice` | four tasks, 22 usable bytes in blocks of 2 | holds, 88,385 |
| `filesystems` | `MCFsManagement` | three processes, a component, one blocking and one async user | holds, 427,214 |

What the runs show:

- `crash`: replay restores a prefix of the transactions that contains every
  committed one; the info block can always be read; committed entries stay in the ring
  until it has moved past them; replay never puts an old metadata write over data.
- `device_failures`: entries are journaled in order and after their data; calls,
  `Sync` and the destructor return.
- `connections`: a file is closed exactly once however its connection ends, and
  before `wait` returns; the connection count of a VMO file never falls below the
  connections that will lower it; seek positions and the size leave `i64` only as far as
  the file was declared, so that a seek can panic only on a file declared larger; VMO
  handles that share the file are read-only.
- `renames`: a node is never in two places, no rename loses an entry or deadlocks, a
  listing misses no name that was there throughout, watchers keep no name that is
  gone, and no chain of opens and clones gains a right.
- `trees`: a refused call changes nothing, except that `LeafOverDirectory` and
  `LeafOverLeaf` have replaced what was there.
- `views`: a watcher's view is what is in the directory once the events on their way
  are applied, except for entries made by Open, which sends no event; keys are
  removed by their own watcher only; closed watchers are removed.
- `calls`: requests are sent once and in order, every call ends, data is a call's own.
- `disk`: reads return what was last written, across evictions, short last block,
  flush and reopen, and the device never holds anything that was not written.
- `buffers`: every usable byte is in one place, a free list or one buffer; buddies merge
  back to the initial lists; I/O that is awaited is in its own buffer and where the
  program sees it. I/O whose future was dropped is not: its buffer may go to another.
- `filesystems`: two processes may write to the device of the blocking `Filesystem` only
  if one of them was killed and has not terminated yet, or is in `abandoned`; nobody
  unbinds another's path; no server is without an owner, except those in `abandoned`;
  every call returns.

The runs check the properties that take several steps to violate. The modules define
others that hold in the same instances, to be added to the configuration when the code
they are about changes: `TypeOK` of every module, `JournalInv` (the invariant of the
proofs), `CommitsInOrder`, `CompletedIsVisible` and `WritesInPlaceAreOrdered` (`crash`),
`StuckBlocksCounted` and `SyncCompletes` (`device_failures`), `ServedWhenInitialized` and
`NodesHaveNoRights` (`connections`), `ReadersChangeNothing` (`renames`),
`ExistingThenIdleThenChanges` and `EndOfStreamCloses` (`views`), `NoPanic` (`calls` and
`buffers`), `OneUserOfTemp` (`calls`), `SlotsAreOwn` and `CleanIsOnDevice` (`disk`),
`BoundIsManaged` and `TerminatedOnReturn` (`filesystems`).

The two violated runs state what a comment of the code says and show a behaviour of
the code that contradicts it; `PROJECT.json` quotes the comments.

These configurations are kept beside the runs:

| Configuration | Shows |
|---|---|
| `JournalWriter_crashes` | two power failures, also during replay, with durable journal writes: recovery is atomic (holds) |
| `JournalWriter_replay_order` | after a restart, replay writes in place from an entry that only the device's cache holds, and power fails (`RecoveryIsAtomic` violated) |
| `JournalWriter_assert` | WriteInfoBlock's assertion after a failed info block write (`InfoBlockAdvances` violated) |
| `Journal_two_callers` | two threads in CommitTransaction; one waits for blocks that no flush releases (`WaitsForFlushesOnly` violated) |
| `Journal_abandoned_order` | a failed data promise lets a later transaction overtake (`MetadataInOrder` violated); rests on the assumed `fpromise::sequencer` |
| `BlockClient_cancelled` | a call with a memory slice is dropped while the device has its request, and the next call's data goes through the same `temp_vmo` (`DataIsOwn` violated) |

Those of the journal concern what the writer needs from the device: with an info
block and entries that are durable on completion, or a device that never loses its
cache, recovery is atomic; with a volatile cache and no further flush, it is not.

Bounds. Journal: three operations on two blocks outside the journal suffice for an
entry to wrap, for the ring to be reused, for a block to be metadata, then data, then
metadata; rings of 4 to 7 blocks make an entry of 3 or 4 blocks fit exactly, or not
by one. `MixedFaults` says whether power failures and restarts may meet in one
behaviour; in `crash` they do not, since `replay_order` shows what happens then.
Three transactions of 3 blocks in a buffer of 7 make the third one wait for a flush.
`connections`: two connections are enough for a last close against an open, a clone
against shutdown and two users of a count; `Width` = 3 brings the seek limits within
reach. There is no seek beyond 0 on a `FileConnection`, so the wrap of its unchecked
addition is not met. `renames`: three directories, one of them immutable, and a file
allow renames in both directions, within a directory and onto an entry; one path of the
requests is too long. `views`: with
buffers of one name, two names need two buffers, and a change falls between any two
steps of a listing. `calls`: with a fifo of one and calls of two chunks there is always
a queue; ids wrap but are not used up. `disk`: three blocks in two slots evict, and 5
bytes in blocks of 2 end in a short block; states that differ in `last` only are one
(`VIEW`), since no step reads it and TLC checks every step. `buffers`: 23 bytes in blocks of 2 give
free lists of several orders, with buddies that do not exist; sizes 0, 3 and 9 take one block,
part of two and part of eight; one dropped request at a time is enough to have its
memory allocated again; the symmetry is that of the tasks. `filesystems`: one process for each owner and one left behind. Deadlock is
not checked where a bounded instance stops when its operations are used up, or where
everything may be closed; it is checked in `filesystems`.

Fairness. `Journal`: the executor runs every promise that can run, device requests
return, a caller that is not blocked continues; `BackgroundExecutor` runs its tasks
until it is destroyed, after the wait of `~Journal`. The Rust models: an executor
polls every task that was woken, and a thread that holds or waits for a free mutex
goes on (`WF` for each task). Clients, users and the server of a directory need not do
anything and have no fairness, with one exception: in `Watchers` a client whose stream
has a message takes it (`WF` of `PollNext`), for what is to converge is the view of a
client that reads; one that stops reading keeps an old view, and the queue grows.
`BlockClient` also assumes that the device answers what it
has taken, `FsManagement` that a server starts or gives up, answers or refuses a
shutdown, and exits when it was killed or has answered.

## Proofs

### The journal writer

`JournalWriterProofs`, on the lemmas of `JournalWriterRing`. For every ring size, every
set of transactions, every `WriteThrough` and every bound (the ASSUMEs of
`JournalWriter`):

- `JournalInvariant`: `JournalInv` holds in every reachable state;
- `TypeCorrect`: all state stays well formed;
- `CommittedIntact`: from its `commit_callback` until the info block has moved
  past it, every block of an entry is durable in the ring;
- `AssertionsHold`: while no request has failed, WriteInfoBlock always has an
  update to write;
- `AlwaysMountableWriteThrough`: if the info block is durable when its write completes
  (`"info" \in WriteThrough`) and no power failure follows a restart of the process
  (`~MixedFaults`), replay always finds a valid info block or a block of the ring to
  restore it from, however often power fails, during replay too.

`CommittedEntriesIntact` is not inductive. `JournalInv` adds that the on-disk
offsets are the unwrapped positions `head` and `tail` modulo the capacity, at most
one turn apart, equal exactly when the sequence numbers are (`RingInv`, which
makes the full/empty test of WriteInfoBlockIfIntersect right); that live entries
lie between them and do not overlap (`LogInv`); that versions grow (`VersionInv`);
what each outstanding request implies about the call (`CallInv`); that a live
block means there is an entry to move past (`LiveInv`); and that live entries can
be read back, and are durable while Flush's loop runs (`EntriesInv`). The proof
sorts the steps of a mounted journal into three kinds: the cursor stays, the head
moves to the tail, or an entry is added. Arithmetic lemmas show that positions
less than a turn apart are different blocks.

`AlwaysMountable` needs a second invariant, `MountInv`, proved with `JournalInv` as a
hypothesis. An info block write may be torn, and an entry written to the ring may be torn;
the volume is lost when both are. `InfoInv` says that a power failure leaves the info
block valid whenever the ring is being written, and that whenever it may not, some block
of the ring is journal metadata that survives the failure. It survives because
WriteInfoBlock flushes before it writes: `PastInv` says that there is an entry to move
the info block past, and that it is durable once nothing is pending. `ReplayInv` says
the same of a replay: what it writes in place was read from the ring, which it leaves as
it is. Both hypotheses are those of the run `crash`, and both are needed: with
`WriteThrough = {}`, or with a restart and then a power failure, TLC finds a volume that
cannot be mounted in a ring of 3 blocks.

### The journal's front end

`JournalProofs`. For any threads, transactions, lengths, capacity and number of calls
of `Sync`, for every order in which the executor takes promises, and with requests to
the journal that fail anywhere:

- `MetadataInOrderHolds`: a transaction reaches the journal only when every one that
  was committed before it has left the queue;
- `DataBeforeMetadataHolds`: its data and the data of all before it are flushed by then;
- `SyncSettlesHolds`: when the promise of `Sync` or of `~Journal` has run and no request
  has failed, everything committed before it is in place or dropped.

All three assume `~DataMayFail`, that no write of data fails, and need it: a failed
data write destroys a held promise and lets the sequencer run on, and
`Journal_abandoned_order` shows that metadata then overtakes. The other assumptions are
the ASSUMEs of `Journal`. Their inductive invariant is `JournalInvariant`. It adds that
each transaction has one promise in the sequencer, in the order of the commits
(`InPlace`), and, as long as the writer is enabled, that promises are done in order and
a transaction has left the buffer exactly when its promise is done (`DoneInOrder`);
that a held promise is either the current data barrier or waits for one flush
(`HeldOnce`); and that data which is not flushed has such a promise in front of its
metadata, whose flush comes after the data (`Guarded`). `FlushPending` is the critical
step: it gives the barrier to a flush and puts up another, so the guard of each
transaction changes hands. When the writer is disabled, nothing enters the journal any
more, and only the properties themselves have to be kept.

### The block client

`BlockClientProofs`. For any set of callers and calls, any fifo depth and any faults, for the first two
also with calls dropped at any await:

- `TempIsExclusive`: at most one call at a time has its data in `temp_vmo`;
- `NobodyIsLeftWaiting`: once the client is disconnected, every request in the map
  has its result.

The invariant `ClientInv` adds the shapes of calls and map entries and `LockInv`: a
call between its copy and its answer holds `temp_lock`. Three lemmas (`Returns`,
`Terminates`, `Sends`) say what the end of a call, `terminate` and `send` keep; each
action is built from them.

- `DataOfOwnCall`: a call with a memory slice that is told that its request succeeded has
  had its own data moved (`DataIsOwn`), although the calls share `temp_vmo`, go in several
  requests and are answered in any order. It has two hypotheses, for it is not true
  without them. `NoneCancelled`: calls with a slice are not dropped at an await, for a
  dropped call frees `temp_vmo` while the device still uses it (`BlockClient_cancelled`).
  `NextIdIsFree`, asked for in every state: the id of the next request is not that of an
  open one. Ids are 32 bits and wrap around, and the code does not look for an open
  request with the id. Both hold in the instance of `calls`, where ids wrap too.

Its invariant `TransferInv` follows a request through the queue, the fifo, the device
and the answers: it is in one place and its id is its own (`IdsInv`); a request of a
call with memory is awaited by its caller, and until it is done `temp_vmo` holds what the
call stored (`OwnInv`); a call that waits has an entry in the map that no other call has
(`WaitInv`); and when its answer is there, its blocks have been moved (`DataInv`).
After the fifo is closed only the last two are left. `SentInOrder` is not proved: it
compares ids by their distance from the first one, which says something only until all
ids have been given out once.

### Files

`FilesProofs`. For any sets of connections, callers of `wait`, lengths of files and
flags, and any width of the integers:

- `ClosedOnceHolds`: `File::close` runs at most once for a connection, and has run when
  its tasks are gone;
- `ClosedWhenWaitReturnsHolds`: when `wait` returns, the connections that were alive
  when it was called have closed their file;
- `CountCoversConnectionsHolds`: the count of a VMO file is at least the number of
  connections that will lower it;
- `SeekFitsI64Holds`: a seek position or size outside `i64` is not above what `init_vmo`
  declared. Nothing in the code checks that, so a file may be declared so large that
  the conversion in `handle_seek` fails; on every other file it succeeds;
- `SharedHandlesAreReadOnlyHolds`: a handle that shares pages can neither write nor
  resize, and only an executable connection gets one that executes;
- `NodesHaveNoRightsHolds`: a connection to a service as a node has no rights, and the
  service is reached only by who asked to read.

`FilesInvariant` has one part for each kind of node. `CloseIsOwed` says, phase by
phase, who is to close the file: the connection's task, which holds it, or the task that
Drop spawned, which is in the scope before the connection's leaves it. With
`WaitIsKept`, the scope is then empty only when everything is closed. `LockIsOwn` says
that the mutex of a VMO file is held across `init_vmo` and nowhere else, so that nobody
is counted before the state is there. Cardinalities are handled with the library's
theorems on finite sets. The assumptions are the ASSUMEs of `ExecutionScope`,
`Connections`, `VmoFile` and `Files`: finite sets, requests that fit their types, and
tasks for closing that are different from connections.

### Directories

`DirectoriesProofs`. For any tree, names, connections and requests:

- `InOnePlaceHolds`: a node never appears under two names;
- `RenameLosesNothingHolds`, an action property: a node leaves the tree only when it is
  overwritten under its own name or removed from a directory that no rename has locked;
- `WatchersNotMisledHolds`: watchers were not told of a name that the directory lacks;
- `ListingMissesNothingHolds`: who reads a directory to its end gets every name that
  was there all the time;
- `RightsDoNotGrowHolds`: no connection has a right that was not granted to those it
  stems from.

`DirectoriesInvariant` says which of the two locks a rename holds at which step and that
nobody else does (`LocksOwned`), so that what the rename saw under the first lock is
still so when it has the second (`RenamesTyped`); that a node has one entry, not
counting one that a rename is about to take away, and none while a rename carries it
(`OnePlace`); that a path being resolved has its POSIX flags checked against what was
granted (`ConnsOK`); and that the names a listing still owes its client lie at or after
its position (`ListingsOK`). `TreeAssumption` says that the tree at the start is one:
its entries have nodes, and no node has two places.

### Watchers

`WatchersProofs`. For any number of clients, any masks, names and changes, in a Simple and
in a Lazy directory:

- `KeysOfOwnControllers`: the key that the `done` of a watcher's task unregisters is that
  of its own controller (`KeysAreOwn`): `Slab::remove` neither meets a vacant key, which
  would panic, nor removes the controller of a watcher that was given the key since.

The slab reuses keys, a task may be dropped before it completes, and a Lazy directory
removes a controller when its task comes to the command, so `KeysAreOwn` alone is not
inductive. `KeysInv` adds that a controller in the slab is that of a client with this key
whose task was started, and that every task not dropped yet has its controller as long as
there is a slab (`SlabInv`); that a watcher is registered once, before it has a task, and
its key removed once, after the task is gone, so that no key has two commands in the queue
(`CommandsInv`); and that there are commands only while the task of a Lazy directory takes
them (`LazyInv`). Lemmas on the queue of commands say what sending and taking one leaves
of the others. No assumption on the constants is used.

### Filesystem management

`FsManagementProofs`. For any numbers of processes, tasks and paths:

- `DeviceHasOneUser`: of two processes of the blocking `Filesystem` that may write to its
  device, one has been killed and not terminated yet, or was left behind by a mount or
  unmount that returned an error;
- `BindingsOwn`: the path an owner will unbind leads to its own server;
- `NoStaleBinding`: a bound path leads to a server with an owner, or to one that a
  failed unmount left behind;
- `NoOrphan`: a running process has an owner, or is known to have been left behind;
- `ReturnsTerminated`: `shutdown` and `kill` return when the process has terminated.

Only `BindingsAreOwn` and `TerminatedOnReturn` are close to inductive. `FsInv` is about
ownership: no server has two owners (`OwnersInv`), a process belongs to the kind of
caller that launched it (`LaunchedInv`), what was answered says how far the server has
stopped (`StoppingInv`), the owner of a bound server knows the path (`BoundInv`), and a
process that may write has an owner or was left behind (`RunningInv`). There is one
lemma for each action, with a step for each conjunct. `DeviceHasOneUser` then follows:
a process of the blocking `Filesystem` that was neither killed nor left behind is owned
by the instance or by the call in progress (a task owns none of these), and only one of
the two is there, so two such processes are the same. The one assumption is
`FsAssumption`.

### Only model-checked

- Liveness, everywhere: `ENABLED` and fairness are out of the prover's reach.
- What recovery restores (`RecoveryIsAtomic`, `CommittedSurvives`,
  `ReplayNeverRollsBack`) and the order of callbacks. `RecoveryIsAtomic` depends on
  `WriteThrough`; the others need what a replay that is itself interrupted leaves behind.
- The journal's accounting of blocks (`TypeOK`, `StuckBlocksCounted`,
  `WaitsForFlushesOnly`): sums over sets of transactions, whose step needs induction
  over data.
- `ServedWhenInitialized`: `size <= vmo_size` is about rounding with `\div`, which the
  provers do not handle; its other half is part of `FilesInvariant`.
- `SentInOrder` of the block client, for the reason above.
- `ViewIsConsistent` and the other properties of `Watchers` on what clients see: they fold
  over the messages on their way, which needs induction over data.
- `StorageDevice`: `Partition` and `EverythingMerges` rest on sums of powers of two over the
  free lists, `IoStaysInBuffer` on `Partition`.
- The refinements: `TreeBuilder` is recursive, `BlockCache` folds over sequences, and so
  does `BufferAllocator`.

## Not modelled

Journal: revocation records (replay refuses them, nothing writes them), checksum
collisions, overflow of 64-bit sequence numbers, memory and mapping errors, a caller
that drops the promise of `Sync`, the data race on the promise object
`journal_data_barrier_`, the termination of the executor, the data streamer (it cuts
data into pieces in front of the journal).

Rust: requests that only answer (attributes, queries, `Describe`), time stamps, the
encoding of dirents and attributes, the read-only wrapper of VMO files, the inode
registry (nothing calls it), remote nodes and macros, `attach_vmo`, the second poller
of `RemoteBlockClientSync` (it polls the same state under the same mutex), paths that
are bound twice ("Only one binding is supported"). Data races do not arise: the state
is behind mutexes.

The C++ vfs, block client and filesystem management play the roles of the Rust
libraries that are modelled; what is specific to them (the order of tasks on a
dispatcher, the kernel's pager, group waits on a condition variable) rests on code
that is not in this repository. The inspectors, `fs_inspect`, `fuchsia-watch` and the
RAM device clients display, forward or decode, and have no protocol of their own.
