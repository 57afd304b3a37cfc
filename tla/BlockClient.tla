----------------------------- MODULE BlockClient -----------------------------
(***************************************************************************)
(* The client of a block device (block_client/rust/src/lib.rs): calls that *)
(* run in tasks of their own, the state they share under one mutex (the    *)
(* fifo, the queue of requests, the map of pending requests), the task     *)
(* that polls the fifo, and the VMO that calls with slices of memory share.*)
(* The device at the other end of the fifo is external: it may answer in   *)
(* any order, fail a request, or close the fifo.                           *)
(***************************************************************************)
EXTENDS Integers, Sequences, Functions

CONSTANTS
    Callers,        \* tasks that call the client
    Calls,          \* caller -> the calls it may make
    Cancelled,      \* callers whose calls may be dropped at an await
    MaxCalls,       \* bound on the calls of a caller
    block_size,     \* bytes in a block
    TEMP_VMO_SIZE,  \* bytes in the temporary VMO
    DeviceBlocks,   \* blocks of the device
    FifoDepth,      \* requests that fit into the fifo
    RequestIds,     \* 2^32 in the code
    FirstId,        \* next_request_id at first
    MayFail, MayClose

ASSUME BlockClientAssumption ==
    /\ block_size \in Nat \ {0} /\ TEMP_VMO_SIZE \in Nat \ {0}
    /\ TEMP_VMO_SIZE % block_size = 0 /\ FifoDepth \in Nat \ {0}
    /\ Callers \subseteq Nat \ {0} /\ RequestIds \in Nat \ {0} /\ FirstId \in 0..(RequestIds - 1)
    /\ \A c \in Callers : \A k \in Calls[c] :
         k.offset \in Nat /\ k.len \in Nat /\ (k.mem => k.op \in {"read", "write"})

VARIABLES
    connected,      \* FifoState::fifo is Some
    next_request_id,
    queue,          \* requests to be sent
    map,            \* request id -> result and waker of a request that is waited for
    poller_waker,   \* whether FifoPoller has left its waker
    poller,         \* FifoPoller: "ready", "waiting" or "done"
    awake,          \* callers whose task will be polled
    panicked,       \* an assertion has failed
    call,           \* caller -> its call in progress: pc, arguments, progress
    made,           \* caller -> number of calls made
    temp_lock,      \* the caller that holds temp_vmo, or Free
    temp_vmo_id,    \* "temp", or Invalid once it has been taken
    sent,           \* device: requests in the fifo
    inflight,       \* device: requests it works on
    responses,      \* device: responses in the fifo
    closed,         \* device: its end of the fifo is closed
    device,         \* device: block -> content
    temp_vmo,       \* content of the temporary VMO, block by block
    done            \* history: id of a request -> the data the device moved for it

fifoVars == <<connected, next_request_id, queue, map, poller_waker, poller, awake, panicked>>
callVars == <<call, made, temp_lock, temp_vmo_id>>
deviceVars == <<inflight, responses, closed, device, done>>
vars == <<fifoVars, callVars, sent, deviceVars, temp_vmo>>

None == "none"
Free == 0
Invalid == "invalid"        \* BLOCK_VMOID_INVALID
TempBlocks == TEMP_VMO_SIZE \div block_size

Idle == [pc |-> "idle"]

Init ==
    /\ connected = TRUE /\ next_request_id = FirstId
    /\ queue = <<>> /\ map = <<>>
    /\ poller_waker = FALSE /\ poller = "ready" /\ awake = {} /\ panicked = FALSE
    /\ call = [c \in Callers |-> Idle] /\ made = [c \in Callers |-> 0]
    /\ temp_lock = Free /\ temp_vmo_id = "temp"
    /\ sent = <<>> /\ inflight = {} /\ responses = <<>> /\ closed = FALSE
    /\ device = [b \in DeviceBlocks |-> 0]
    /\ temp_vmo = [i \in 1..TempBlocks |-> 0]
    /\ done = <<>>

-----------------------------------------------------------------------------
(***************************************************************************)
(* FifoState, under its mutex.                                             *)
(***************************************************************************)
Without(f, k) == Restrict(f, DOMAIN f \ {k})
min(a, b) == IF a <= b THEN a ELSE b
put(f, k, v) == [x \in DOMAIN f \cup {k} |-> IF x = k THEN v ELSE f[x]]

Waiting(c) == call[c].pc = "waiting"

\* The callers whose wakers are in the entries ids of the map m.
Woken(m, ids) == {c \in Callers : Waiting(c) /\ call[c].id \in ids /\ m[call[c].id].waker}

\* Every request of m without a result is cancelled, every task is woken; a
\* are the tasks woken before, next the state of the poller.
terminate(m, a, next) ==
    /\ connected' = FALSE
    /\ map' = [id \in DOMAIN m |->
                 [result |-> IF m[id].result = None THEN "canceled" ELSE m[id].result,
                  waker |-> FALSE]]
    /\ awake' = a \cup Woken(m, DOMAIN m)
    /\ poller_waker' = FALSE
    /\ poller' = next

\* The poller after its waker, if it has left one, was woken.
PollerWoken == IF poller_waker /\ poller = "waiting" THEN "ready" ELSE poller

\* How many of the requests q the fifo takes.
Fits(q) == min(Len(q), FifoDepth - Len(sent))

\* Mutant: the last request that was sent stays in the queue.
drain_Keeps(q, n) == SubSeq(q, IF n = 0 THEN 1 ELSE n, Len(q))

drain(q, n) == SubSeq(q, n + 1, Len(q))

\* Whether writing the queue q to the fifo fails.
WriteFails(q) == closed /\ q # <<>>

\* Sends what fits of the queue q.
poll_send_requests(q) ==
    /\ sent' = sent \o SubSeq(q, 1, Fits(q))
    /\ queue' = drain(q, Fits(q))

-----------------------------------------------------------------------------
(***************************************************************************)
(* Calls.  A call has an operation op, a kind of slice (mem: of memory),   *)
(* an offset on the device and a length, both in bytes; at counts the      *)
(* blocks of its slice that are done.                                      *)
(***************************************************************************)
Aligned(bytes) == bytes % block_size = 0
to_blocks(bytes) == bytes \div block_size

\* The content of block i of the slice of caller c.
Content(c, i) == 10 * c + i

\* The call of c returns; the guard of temp_vmo goes with it.
return(c) ==
    /\ call' = [call EXCEPT ![c] = Idle]
    /\ temp_lock' = IF temp_lock = c THEN Free ELSE temp_lock

\* A request on the fifo; from and at are not on the wire: the caller, and how
\* far its slice has come.
BlockFifoRequest(c, op, vmo, block, count, id) ==
    [op |-> op, vmo |-> vmo, block |-> block, count |-> count, id |-> id,
     from |-> c, at |-> call[c].at]

\* Mutant: a request is queued although the fifo has been closed.
send_Unchecked(c, op, vmo, block, count) ==
    LET id == next_request_id
        request == BlockFifoRequest(c, op, vmo, block, count, id)
        m == put(map, id, [result |-> None, waker |-> FALSE])
        q == Append(queue, request)
    IN    /\ next_request_id' = (id + 1) % RequestIds
          /\ panicked' = (panicked \/ id \in DOMAIN map)
          /\ \/ /\ poller_waker /\ WriteFails(q)
                /\ terminate(m, awake \cup {c}, PollerWoken)
                /\ queue' = q /\ UNCHANGED sent
             \/ /\ ~(poller_waker /\ WriteFails(q))
                /\ IF poller_waker THEN poll_send_requests(q) ELSE queue' = q /\ UNCHANGED sent
                /\ map' = m /\ awake' = awake \cup {c}
                /\ UNCHANGED <<connected, poller_waker, poller>>
          /\ call' = [call EXCEPT ![c].pc = "waiting", ![c].id = id]
          /\ UNCHANGED temp_lock

\* Common::send, up to the await of the ResponseFuture.
send(c, op, vmo, block, count) ==
    LET id == next_request_id
        request == BlockFifoRequest(c, op, vmo, block, count, id)
        m == put(map, id, [result |-> None, waker |-> FALSE])
        q == Append(queue, request)
    IN \/ /\ ~connected
          /\ return(c)
          /\ UNCHANGED <<fifoVars, sent>>
       \/ /\ connected
          /\ next_request_id' = (id + 1) % RequestIds
          /\ panicked' = (panicked \/ id \in DOMAIN map)
          /\ \/ /\ poller_waker /\ WriteFails(q)
                /\ terminate(m, awake \cup {c}, PollerWoken)
                /\ queue' = q /\ UNCHANGED sent
             \/ /\ ~(poller_waker /\ WriteFails(q))
                /\ IF poller_waker THEN poll_send_requests(q) ELSE queue' = q /\ UNCHANGED sent
                /\ map' = m /\ awake' = awake \cup {c}
                /\ UNCHANGED <<connected, poller_waker, poller>>
          /\ call' = [call EXCEPT ![c].pc = "waiting", ![c].id = id]
          /\ UNCHANGED temp_lock

\* VmoId::take and into_id: the id of temp_vmo is given up, and not detached.
take_into_id == temp_vmo_id' = Invalid

\* A call that needs temp_vmo waits for its lock, close for an answer from the
\* device; the others send their one request at once.
Call(c, k) ==
    /\ call[c].pc = "idle" /\ k \in Calls[c] /\ made[c] < MaxCalls
    /\ made' = [made EXCEPT ![c] = @ + 1]
    /\ call' = [call EXCEPT ![c] =
                  [op |-> k.op, mem |-> k.mem, offset |-> k.offset, len |-> k.len, at |-> 0, id |-> 0,
                   pc |-> IF k.op = "close" THEN "closing"
                          ELSE IF k.mem THEN "locking" ELSE "sending"]]
    /\ IF k.op = "close" THEN take_into_id ELSE UNCHANGED temp_vmo_id
    /\ UNCHANGED <<fifoVars, temp_lock, sent, deviceVars, temp_vmo>>

flush(c) == call[c].op = "flush" /\ send(c, "flush", Invalid, 0, 0)
detach_vmo(c) == call[c].op = "close_vmo" /\ send(c, "close_vmo", "own", 0, 0)

\* read_at and write_at with a VmoId, flush, detach_vmo.
SendVmo(c) ==
    LET k == call[c] IN
    /\ k.pc = "sending"
    /\ \/ /\ k.op \in {"read", "write"} /\ ~(Aligned(k.len) /\ Aligned(k.offset))
          /\ return(c)
          /\ UNCHANGED <<fifoVars, sent>>
       \/ /\ k.op \in {"read", "write"} /\ Aligned(k.len) /\ Aligned(k.offset)
          /\ send(c, k.op, "own", to_blocks(k.offset), to_blocks(k.len))
       \/ flush(c) \/ detach_vmo(c)
    /\ UNCHANGED <<made, temp_vmo_id, deviceVars, temp_vmo>>

Left(k) == k.len - k.at * block_size
to_do(k) == min(TEMP_VMO_SIZE, Left(k))

\* Mutant: temp_vmo is used without its lock.
Lock_Shared(c) ==
    /\ call[c].pc = "locking"
    /\ temp_lock' = c
    /\ call' = [call EXCEPT ![c].pc = "copying"]
    /\ UNCHANGED <<fifoVars, made, temp_vmo_id, sent, deviceVars, temp_vmo>>

Lock(c) ==
    /\ call[c].pc = "locking" /\ temp_lock = Free
    /\ temp_lock' = c
    /\ call' = [call EXCEPT ![c].pc = "copying"]
    /\ UNCHANGED <<fifoVars, made, temp_vmo_id, sent, deviceVars, temp_vmo>>

\* One turn of the loop of read_at and write_at with a slice of memory: a
\* write copies its data into temp_vmo before the request is sent.
SendMemory(c) ==
    LET k == call[c]
        n == to_blocks(to_do(k))
    IN
    /\ k.pc = "copying"
    /\ \/ /\ ~(Aligned(k.offset) /\ Aligned(to_do(k)))
          /\ return(c)
          /\ UNCHANGED <<fifoVars, sent, temp_vmo>>
       \/ /\ Aligned(k.offset) /\ Aligned(to_do(k))
          /\ temp_vmo' = [i \in 1..TempBlocks |->
                IF k.op = "write" /\ i <= n THEN Content(c, k.at + i) ELSE temp_vmo[i]]
          /\ send(c, k.op, temp_vmo_id, to_blocks(k.offset) + k.at, n)
    /\ UNCHANGED <<made, temp_vmo_id, deviceVars>>

\* Mutant: the waker is not left with the request.
PollResponse_NoWaker(c) ==
    LET k == call[c]
        result == map[k.id].result
        n == to_blocks(to_do(k))
    IN
    /\ Waiting(c) /\ c \in awake
    /\ awake' = awake \ {c}
    /\ \/ /\ result = None
          /\ map' = map
          /\ UNCHANGED <<call, temp_lock>>
       \/ /\ result # None
          /\ map' = Without(map, k.id)
          /\ IF result = "ok" /\ k.mem /\ to_do(k) < Left(k)
             THEN /\ call' = [call EXCEPT ![c].pc = "copying", ![c].at = @ + n]
                  /\ UNCHANGED temp_lock
             ELSE return(c)
    /\ UNCHANGED <<connected, next_request_id, queue, poller_waker, poller, panicked,
                   made, temp_vmo_id, sent, deviceVars, temp_vmo>>

\* ResponseFuture::poll, and drop when there is a result.  A read copies its
\* data out of temp_vmo; a slice of memory that is not done goes on.
PollResponse(c) ==
    LET k == call[c]
        result == map[k.id].result
        n == to_blocks(to_do(k))
    IN
    /\ Waiting(c) /\ c \in awake
    /\ awake' = awake \ {c}
    /\ \/ /\ result = None
          /\ map' = [map EXCEPT ![k.id].waker = TRUE]
          /\ UNCHANGED <<call, temp_lock>>
       \/ /\ result # None
          /\ map' = Without(map, k.id)
          /\ IF result = "ok" /\ k.mem /\ to_do(k) < Left(k)
             THEN /\ call' = [call EXCEPT ![c].pc = "copying", ![c].at = @ + n]
                  /\ UNCHANGED temp_lock
             ELSE return(c)
    /\ UNCHANGED <<connected, next_request_id, queue, poller_waker, poller, panicked,
                   made, temp_vmo_id, sent, deviceVars, temp_vmo>>

\* The future of a call is dropped at an await.  The request stays where it
\* is, in the queue, in the fifo or with the device.
DropCall(c) ==
    /\ c \in Cancelled
    /\ call[c].pc \in {"locking", "waiting", "closing"}
    /\ map' = IF Waiting(c) THEN Without(map, call[c].id) ELSE map
    /\ awake' = awake \ {c}
    /\ return(c)
    /\ UNCHANGED <<connected, next_request_id, queue, poller_waker, poller, panicked,
                   made, temp_vmo_id, sent, deviceVars, temp_vmo>>

\* The answer to close_fifo: the device has closed its end of the fifo, or an error.
CloseFifo(c) ==
    /\ call[c].pc = "closing"
    /\ return(c)
    /\ \/ /\ closed' = TRUE /\ inflight' = {} /\ sent' = <<>>
          /\ poller' = IF poller = "waiting" THEN "ready" ELSE poller
       \/ UNCHANGED <<closed, inflight, sent, poller>>
    /\ UNCHANGED <<connected, next_request_id, queue, map, poller_waker, awake, panicked,
                   made, temp_vmo_id, responses, device, done, temp_vmo>>

\* Common::drop, when no call is left that borrows the client.
DropClient ==
    /\ \A c \in Callers : call[c].pc = "idle"
    /\ connected
    /\ made' = [c \in Callers |-> MaxCalls]
    /\ take_into_id
    /\ terminate(map, awake, PollerWoken)
    /\ closed' = TRUE /\ inflight' = {} /\ sent' = <<>>
    /\ UNCHANGED <<next_request_id, queue, panicked, call, temp_lock, responses, device,
                   done, temp_vmo>>

-----------------------------------------------------------------------------
(***************************************************************************)
(* FifoPoller::poll: sends, then reads every response in the fifo.  A      *)
(* response to a request that is not in the map is ignored.                *)
(***************************************************************************)
\* Response i of rs is the last one to request id.
IsLast(rs, i, id) == rs[i].id = id /\ \A j \in (i + 1)..Len(rs) : rs[j].id # id

\* The map with the results of the responses rs; of two with the same id the
\* later one counts.
Answered(m, rs) ==
    [id \in DOMAIN m |->
        IF \E i \in DOMAIN rs : IsLast(rs, i, id)
        THEN [result |-> rs[CHOOSE i \in DOMAIN rs : IsLast(rs, i, id)].status, waker |-> FALSE]
        ELSE m[id]]

Poll ==
    LET ids == {r.id : r \in Range(responses)} \cap DOMAIN map
        m == Answered(map, responses)
        a == awake \cup Woken(map, ids)
    IN
    /\ poller = "ready"
    /\ \/ /\ ~connected
          /\ poller' = "done"
          /\ UNCHANGED <<connected, queue, map, poller_waker, awake, sent, responses>>
       \/ /\ connected /\ WriteFails(queue)
          /\ terminate(map, awake, "done")
          /\ UNCHANGED <<queue, sent, responses>>
       \/ /\ connected /\ ~WriteFails(queue)
          /\ poll_send_requests(queue)
          /\ responses' = <<>>
          /\ \/ closed /\ terminate(m, a, "done")
             \/ /\ ~closed
                /\ map' = m /\ awake' = a
                /\ poller_waker' = TRUE /\ poller' = "waiting"
                /\ UNCHANGED connected
    /\ UNCHANGED <<next_request_id, panicked, callVars, inflight, closed, device, done, temp_vmo>>

-----------------------------------------------------------------------------
(***************************************************************************)
(* The device.                                                             *)
(***************************************************************************)
\* Something happened to the fifo that the poller waits for.
FifoSignal == IF poller = "waiting" THEN "ready" ELSE poller

DeviceTakes ==
    /\ ~closed /\ sent # <<>>
    /\ inflight' = inflight \cup {Head(sent)}
    /\ sent' = Tail(sent)
    /\ poller' = FifoSignal
    /\ UNCHANGED <<connected, next_request_id, queue, map, poller_waker, awake, panicked,
                   callVars, responses, closed, device, done, temp_vmo>>

Valid(r) ==
    r.op \in {"read", "write"} =>
      r.vmo # Invalid /\ \A i \in 1..r.count : r.block + i - 1 \in DeviceBlocks

\* The device moves the data of request r, or fails it, and answers.
DeviceAnswers(r) ==
    LET moved == [i \in 1..r.count |->
                    IF r.op = "read" THEN device[r.block + i - 1]
                    ELSE IF r.vmo = "temp" THEN temp_vmo[i] ELSE Content(r.from, i)]
    IN
    /\ ~closed /\ r \in inflight
    /\ inflight' = inflight \ {r}
    /\ poller' = FifoSignal
    /\ \/ /\ ~Valid(r) \/ MayFail
          /\ responses' = Append(responses, [id |-> r.id, status |-> "error"])
          /\ UNCHANGED <<device, temp_vmo, done>>
       \/ /\ Valid(r)
          /\ responses' = Append(responses, [id |-> r.id, status |-> "ok"])
          /\ done' = put(done, r.id, moved)
          /\ device' = IF r.op # "write" THEN device
                       ELSE [b \in DeviceBlocks |->
                               IF b \in r.block..(r.block + r.count - 1)
                               THEN moved[b - r.block + 1] ELSE device[b]]
          /\ temp_vmo' = IF r.op = "read" /\ r.vmo = "temp"
                         THEN [i \in 1..TempBlocks |->
                                 IF i <= r.count THEN moved[i] ELSE temp_vmo[i]]
                         ELSE temp_vmo
    /\ UNCHANGED <<connected, next_request_id, queue, map, poller_waker, awake, panicked,
                   callVars, sent, closed>>

DeviceCloses ==
    /\ MayClose /\ ~closed
    /\ closed' = TRUE /\ inflight' = {} /\ sent' = <<>>
    /\ poller' = FifoSignal
    /\ UNCHANGED <<connected, next_request_id, queue, map, poller_waker, awake, panicked,
                   callVars, responses, device, done, temp_vmo>>

-----------------------------------------------------------------------------
CallStep(c) == SendVmo(c) \/ Lock(c) \/ SendMemory(c) \/ PollResponse(c) \/ CloseFifo(c)

Next ==
    \/ \E c \in Callers : (\E k \in Calls[c] : Call(c, k)) \/ CallStep(c) \/ DropCall(c)
    \/ DropClient \/ Poll
    \/ DeviceTakes \/ DeviceCloses
    \/ \E r \in inflight : DeviceAnswers(r)

\* The executor polls every task that is woken; the device answers every
\* request it is sent (or closes the fifo).
Fairness ==
    /\ \A c \in Callers : WF_vars(CallStep(c))
    /\ WF_vars(Poll) /\ WF_vars(DeviceTakes)
    /\ WF_vars(\E r \in inflight : DeviceAnswers(r))

Spec == Init /\ [][Next]_vars /\ Fairness

-----------------------------------------------------------------------------
Ids == 0..(RequestIds - 1)

\* Type correctness, the bound of the fifo, and what the pc of a call says
\* about the map (the unwrap in ResponseFuture::poll and drop).
TypeOK ==
    /\ connected \in BOOLEAN /\ closed \in BOOLEAN /\ poller_waker \in BOOLEAN
    /\ poller \in {"ready", "waiting", "done"} /\ awake \subseteq Callers
    /\ next_request_id \in Ids /\ Len(sent) <= FifoDepth
    /\ DOMAIN map = {call[c].id : c \in {x \in Callers : Waiting(x)}}
    /\ temp_lock \in Callers \cup {Free}

\* "request id in use!": although the ids wrap around, no request gets the id
\* of one that is waited for.
NoPanic == ~panicked

\* The call of c has copied into temp_vmo, or will copy out of it.
UsesTemp(c) == call[c].pc = "copying" \/ (Waiting(c) /\ call[c].mem)

\* "temp_vmo" is locked over all of a call that goes through it, awaits included:
\* no other call copies its data in or out meanwhile.
OneUserOfTemp == \A c, d \in Callers : UsesTemp(c) /\ UsesTemp(d) => c = d

\* A call that is told that its request succeeded has had its own data moved:
\* a write has stored the data of its slice, and what the device read for a
\* read is what lies in temp_vmo when the call copies it out.
DataIsOwn ==
    \A c \in Callers : LET k == call[c] IN
      (Waiting(c) /\ k.mem /\ map[k.id].result = "ok") =>
         /\ k.id \in DOMAIN done
         /\ \A i \in DOMAIN done[k.id] :
              done[k.id][i] = IF k.op = "write" THEN Content(c, k.at + i) ELSE temp_vmo[i]

\* A request reaches the device once, in the order of the calls: what is in
\* the fifo and then in the queue has ids in the order they were given.
SentInOrder ==
    LET all == sent \o queue
        age(id) == (id + RequestIds - FirstId) % RequestIds
    IN /\ \A i, j \in DOMAIN all : i < j => age(all[i].id) < age(all[j].id)
       /\ \A i \in DOMAIN all : all[i] \notin inflight /\ all[i].id \notin DOMAIN done

\* Once the client is disconnected, no call waits for an answer that nobody
\* will give: terminate has answered the pending ones, send refuses new ones.
DisconnectedAnswersAll == ~connected => \A id \in DOMAIN map : map[id].result # None

\* Every call ends, whatever happens to the device and to the other calls.
EveryCallEnds == \A c \in Callers : (call[c].pc # "idle") ~> (call[c].pc = "idle")
=============================================================================
