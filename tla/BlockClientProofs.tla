-------------------------- MODULE BlockClientProofs --------------------------
(***************************************************************************)
(* Three safety properties of BlockClient for any number of callers and    *)
(* any calls, sizes, device and range of request ids: what a call may rely *)
(* on when it goes through temp_vmo, that a client that is disconnected    *)
(* leaves no call waiting, and that a call which succeeds has had its own  *)
(* data moved.                                                             *)
(***************************************************************************)
EXTENDS BlockClient, SequenceTheorems, TLAPS

\* A call in progress has all of its fields, an entry of the map both of them.
IsCall(k) ==
    k = [op |-> k.op, mem |-> k.mem, offset |-> k.offset, len |-> k.len, at |-> k.at,
         id |-> k.id, pc |-> k.pc]
IsEntry(e) == e = [result |-> e.result, waker |-> e.waker]

ClientType ==
    /\ DOMAIN call = Callers
    /\ call = [c \in Callers |-> call[c]]
    /\ \A c \in Callers : call[c] = Idle \/ IsCall(call[c])
    /\ map = [id \in DOMAIN map |-> map[id]]
    /\ \A id \in DOMAIN map : IsEntry(map[id])

\* A call that uses temp_vmo holds its lock, and no call with a slice of memory
\* gets past it.
LockInv ==
    \A c \in Callers :
        /\ UsesTemp(c) => temp_lock = c
        /\ call[c].pc = "sending" => ~call[c].mem

ClientInv == ClientType /\ LockInv /\ DisconnectedAnswersAll

-----------------------------------------------------------------------------
(* What the steps have in common.                                          *)

\* A call that returns leaves no trace, and gives back no lock but its own.
LEMMA Returns ==
    ASSUME ClientType, LockInv, NEW c \in Callers, return(c)
    PROVE  /\ DOMAIN call' = Callers
           /\ call' = [x \in Callers |-> call'[x]]
           /\ \A x \in Callers : call'[x] = Idle \/ IsCall(call'[x])
           /\ LockInv'
  BY Zenon DEF ClientType, LockInv, return, UsesTemp, Waiting, Idle

\* terminate leaves no request without a result.
LEMMA Terminates ==
    ASSUME NEW m, NEW a, NEW next, terminate(m, a, next)
    PROVE  /\ map' = [id \in DOMAIN map' |-> map'[id]]
           /\ \A id \in DOMAIN map' : IsEntry(map'[id]) /\ map'[id].result # None
  BY Zenon DEF terminate, IsEntry, None

\* A step that leaves the calls, the lock and the map alone.
LEMMA Unmoved ==
    ASSUME ClientInv, UNCHANGED <<call, temp_lock, map, connected>>
    PROVE  ClientInv'
  BY Zenon DEF ClientInv, ClientType, IsCall, IsEntry, LockInv, UsesTemp, Waiting, DisconnectedAnswersAll

\* send, from a call that has the lock if it needs it.
LEMMA Sends ==
    ASSUME ClientInv, NEW c \in Callers, call[c] # Idle, call[c].mem => temp_lock = c,
           NEW op, NEW vmo, NEW block, NEW count, send(c, op, vmo, block, count)
    PROVE  ClientInv'
<1> DEFINE id == next_request_id
           m == put(map, id, [result |-> None, waker |-> FALSE])
           q == Append(queue, BlockFifoRequest(c, op, vmo, block, count, id))
<1>1. CASE ~connected /\ return(c) /\ UNCHANGED <<fifoVars, sent>>
  BY <1>1, Returns, Zenon DEF ClientInv, ClientType, DisconnectedAnswersAll, fifoVars
<1>2. CASE /\ connected
           /\ call' = [call EXCEPT ![c].pc = "waiting", ![c].id = id]
           /\ UNCHANGED temp_lock
           /\ \/ poller_waker /\ WriteFails(q) /\ terminate(m, awake \cup {c}, PollerWoken)
              \/ map' = m /\ UNCHANGED connected
  <2>1. /\ DOMAIN call' = Callers
        /\ call' = [x \in Callers |-> call'[x]]
        /\ \A x \in Callers : call'[x] = Idle \/ IsCall(call'[x])
    BY <1>2, Zenon DEF ClientInv, ClientType, IsCall
  <2>2. LockInv'
    BY <1>2 DEF ClientInv, ClientType, LockInv, UsesTemp, Waiting, IsCall, Idle
  <2>3. CASE terminate(m, awake \cup {c}, PollerWoken)
    BY <2>1, <2>2, <2>3, Terminates, Zenon DEF ClientInv, ClientType, DisconnectedAnswersAll
  <2>4. CASE map' = m /\ UNCHANGED connected
    <3>1. map' = [i \in DOMAIN map' |-> map'[i]] /\ \A i \in DOMAIN map' : IsEntry(map'[i])
      BY <2>4, Zenon DEF ClientInv, ClientType, IsEntry, put
    <3>2. DisconnectedAnswersAll'
      BY <1>2, <2>4, Zenon DEF DisconnectedAnswersAll
    <3> HIDE DEF m
    <3> QED BY <2>1, <2>2, <3>1, <3>2, Zenon DEF ClientInv, ClientType
  <2> QED BY <1>2, <2>3, <2>4, Zenon
<1> QED BY <1>1, <1>2, Zenon DEF send

-----------------------------------------------------------------------------
(* The steps.                                                              *)

\* A new call holds no lock and has no request.
LEMMA CallKeeps ==
    ASSUME ClientInv, NEW c \in Callers, NEW k \in Calls[c], Call(c, k)
    PROVE  ClientInv'
<1>1. UNCHANGED <<map, connected, temp_lock>>
  BY Zenon DEF Call, fifoVars
<1>2. ClientType'
  BY <1>1, Zenon DEF ClientInv, ClientType, IsCall, Call
<1>3. LockInv'
  BY <1>1 DEF ClientInv, ClientType, LockInv, UsesTemp, Waiting, Call
<1> QED BY <1>1, <1>2, <1>3, Zenon DEF ClientInv, DisconnectedAnswersAll

\* A call with a VMO sends without the lock.
LEMMA SendVmoKeeps ==
    ASSUME ClientInv, NEW c \in Callers, SendVmo(c)
    PROVE  ClientInv'
<1>1. call[c] # Idle /\ ~call[c].mem
  BY DEF ClientInv, LockInv, SendVmo, Idle
<1>2. CASE return(c) /\ UNCHANGED <<fifoVars, sent>>
  BY <1>2, Returns, Zenon DEF ClientInv, ClientType, DisconnectedAnswersAll, fifoVars
<1>3. CASE send(c, call[c].op, "own", to_blocks(call[c].offset), to_blocks(call[c].len))
  BY <1>1, <1>3, Sends, Zenon
<1>4. CASE flush(c) \/ detach_vmo(c)
  BY <1>1, <1>4, Sends, Zenon DEF flush, detach_vmo
<1> QED BY <1>2, <1>3, <1>4, Zenon DEF SendVmo

\* temp_lock goes to a call that waits for it when it is free.
LEMMA LockKeeps ==
    ASSUME ClientInv, NEW c \in Callers, Lock(c)
    PROVE  ClientInv'
<1>1. UNCHANGED <<map, connected>> /\ temp_lock' = c
  BY Zenon DEF Lock, fifoVars
<1>2. IsCall(call'[c]) /\ call'[c].pc = "copying"
  <2>1. call'[c] = [call[c] EXCEPT !.pc = "copying"]
    BY Zenon DEF ClientInv, ClientType, Lock
  <2>2. IsCall(call[c])
    BY DEF ClientInv, ClientType, Lock, Idle
  <2> QED BY <2>1, <2>2, Zenon DEF IsCall
<1>3. /\ DOMAIN call' = Callers
      /\ call' = [x \in Callers |-> call'[x]]
      /\ \A x \in Callers \ {c} : call'[x] = call[x]
  BY Zenon DEF ClientInv, ClientType, Lock
<1>4. \A x \in Callers : ~UsesTemp(x)
  BY BlockClientAssumption, Zenon DEF ClientInv, LockInv, Lock, Free
<1>5. ClientType'
  BY <1>1, <1>2, <1>3, Zenon DEF ClientInv, ClientType
<1>6. LockInv'
  BY <1>1, <1>2, <1>3, <1>4 DEF ClientInv, LockInv, UsesTemp, Waiting
<1> QED BY <1>1, <1>5, <1>6, Zenon DEF ClientInv, DisconnectedAnswersAll

\* A call with a slice sends while it holds the lock.
LEMMA SendMemoryKeeps ==
    ASSUME ClientInv, NEW c \in Callers, SendMemory(c)
    PROVE  ClientInv'
<1>1. call[c] # Idle /\ temp_lock = c
  BY DEF ClientInv, LockInv, UsesTemp, SendMemory, Idle
<1>2. CASE return(c) /\ UNCHANGED <<fifoVars, sent, temp_vmo>>
  BY <1>2, Returns, Zenon DEF ClientInv, ClientType, DisconnectedAnswersAll, fifoVars
<1>3. CASE send(c, call[c].op, temp_vmo_id, to_blocks(call[c].offset) + call[c].at,
                to_blocks(to_do(call[c])))
  BY <1>1, <1>3, Sends, Zenon
<1> QED BY <1>2, <1>3, Zenon DEF SendMemory

\* An answered call leaves the map, and gives the lock back.
LEMMA PollResponseKeeps ==
    ASSUME ClientInv, NEW c \in Callers, PollResponse(c)
    PROVE  ClientInv'
<1> DEFINE k == call[c]
<1>1. UNCHANGED connected
  BY Zenon DEF PollResponse
<1>2. /\ map' = [id \in DOMAIN map' |-> map'[id]]
      /\ \A id \in DOMAIN map' : IsEntry(map'[id])
      /\ DisconnectedAnswersAll'
  <2>1. CASE map' = [map EXCEPT ![k.id].waker = TRUE]
    <3>1. DOMAIN map' = DOMAIN map /\ map' = [id \in DOMAIN map' |-> map'[id]]
      BY <2>1, Zenon
    <3>2. \A id \in DOMAIN map : IsEntry(map'[id]) /\ map'[id].result = map[id].result
      <4>1. SUFFICES ASSUME NEW id \in DOMAIN map
                     PROVE  IsEntry(map'[id]) /\ map'[id].result = map[id].result
        BY Zenon
      <4>2. IsEntry(map[id])
        BY Zenon DEF ClientInv, ClientType
      <4>3. map'[id] = IF id = k.id THEN [map[id] EXCEPT !.waker = TRUE] ELSE map[id]
        BY <2>1, Zenon
      <4> QED BY <4>2, <4>3, Zenon DEF IsEntry
    <3> QED BY <1>1, <3>1, <3>2, Zenon DEF ClientInv, DisconnectedAnswersAll
  <2>2. CASE map' = Without(map, k.id)
    BY <1>1, <2>2, Zenon DEF ClientInv, ClientType, DisconnectedAnswersAll, Without, Restrict
  <2> QED BY <2>1, <2>2, Zenon DEF PollResponse
<1>3. CASE UNCHANGED <<call, temp_lock>>
  BY <1>2, <1>3, Zenon DEF ClientInv, ClientType, LockInv, UsesTemp, Waiting
<1>4. CASE return(c)
  BY <1>2, <1>4, Returns, Zenon DEF ClientInv, ClientType
<1>5. CASE /\ k.mem
           /\ call' = [call EXCEPT ![c].pc = "copying", ![c].at = @ + to_blocks(to_do(k))]
           /\ UNCHANGED temp_lock
  <2>1. k # Idle /\ temp_lock = c
    BY <1>5 DEF ClientInv, LockInv, UsesTemp, PollResponse, Waiting, Idle
  <2>2. /\ DOMAIN call' = Callers
        /\ call' = [x \in Callers |-> call'[x]]
        /\ \A x \in Callers : call'[x] = Idle \/ IsCall(call'[x])
    BY <1>5, <2>1, Zenon DEF ClientInv, ClientType, IsCall
  <2>3. LockInv'
    BY <1>5, <2>1 DEF ClientInv, ClientType, LockInv, UsesTemp, Waiting, IsCall
  <2> QED BY <1>2, <2>2, <2>3, Zenon DEF ClientInv, ClientType
<1> QED BY <1>3, <1>4, <1>5, Zenon DEF PollResponse

\* A call dropped at an await does the same.
LEMMA DropCallKeeps ==
    ASSUME ClientInv, NEW c \in Callers, DropCall(c)
    PROVE  ClientInv'
<1>1. return(c) /\ UNCHANGED connected /\ map' \in {map, Without(map, call[c].id)}
  BY Zenon DEF DropCall
<1>2. /\ map' = [id \in DOMAIN map' |-> map'[id]]
      /\ \A id \in DOMAIN map' : IsEntry(map'[id])
      /\ DisconnectedAnswersAll'
  BY <1>1, Zenon DEF ClientInv, ClientType, DisconnectedAnswersAll, Without, Restrict
<1> QED BY <1>1, <1>2, Returns, Zenon DEF ClientInv, ClientType

\* The device closes its end; the client has not seen it yet.
LEMMA CloseFifoKeeps ==
    ASSUME ClientInv, NEW c \in Callers, CloseFifo(c)
    PROVE  ClientInv'
  BY Returns, Zenon DEF ClientInv, ClientType, DisconnectedAnswersAll, CloseFifo

\* Drop of the client terminates it.
LEMMA DropClientKeeps ==
    ASSUME ClientInv, DropClient
    PROVE  ClientInv'
<1>1. terminate(map, awake, PollerWoken) /\ UNCHANGED <<call, temp_lock>>
  BY Zenon DEF DropClient
<1> QED BY <1>1, Terminates, Zenon DEF ClientInv, ClientType, LockInv, UsesTemp, Waiting, DisconnectedAnswersAll

\* The poller answers, sends what is queued, or terminates the client.
LEMMA PollKeeps ==
    ASSUME ClientInv, Poll
    PROVE  ClientInv'
<1> DEFINE m == Answered(map, responses)
           a == awake \cup Woken(map, {r.id : r \in Range(responses)} \cap DOMAIN map)
<1>1. UNCHANGED <<call, temp_lock>>
  BY Zenon DEF Poll, callVars
<1>2. CASE UNCHANGED <<connected, map>>
  BY <1>1, <1>2, Unmoved, Zenon
<1>3. CASE terminate(map, awake, "done") \/ terminate(m, a, "done")
  BY <1>1, <1>3, Terminates, Zenon
     DEF ClientInv, ClientType, LockInv, UsesTemp, Waiting, DisconnectedAnswersAll
<1>4. CASE connected /\ map' = m /\ UNCHANGED connected
  <2>1. map' = [id \in DOMAIN map' |-> map'[id]] /\ DOMAIN map' = DOMAIN map
    BY <1>4, Zenon DEF Answered
  <2>2. \A id \in DOMAIN map' : IsEntry(map'[id])
    BY <1>4, <2>1, Zenon DEF ClientInv, ClientType, Answered, IsEntry
  <2> QED BY <1>1, <1>4, <2>1, <2>2, Zenon
          DEF ClientInv, ClientType, LockInv, UsesTemp, Waiting, DisconnectedAnswersAll
<1> QED BY <1>2, <1>3, <1>4, Zenon DEF Poll

\* The device has no part of the client: it takes, answers, or closes the fifo.
LEMMA DeviceKeeps ==
    ASSUME ClientInv, DeviceTakes \/ DeviceCloses \/ \E r \in inflight : DeviceAnswers(r)
    PROVE  ClientInv'
<1>1. UNCHANGED <<call, temp_lock, map, connected>>
  BY Zenon DEF DeviceTakes, DeviceCloses, DeviceAnswers, callVars
<1> QED BY <1>1, Unmoved, Zenon

-----------------------------------------------------------------------------

\* ClientInv is an inductive invariant of the client.
THEOREM ClientInvariant == Spec => []ClientInv
<1>1. Init => ClientInv
  BY DEF Init, ClientInv, ClientType, LockInv, UsesTemp, Waiting, DisconnectedAnswersAll, Idle
<1>2. ClientInv /\ [Next]_vars => ClientInv'
  <2> SUFFICES ASSUME ClientInv, [Next]_vars PROVE ClientInv'
    BY Zenon
  <2>1. ASSUME NEW c \in Callers, (\E k \in Calls[c] : Call(c, k)) \/ CallStep(c) \/ DropCall(c)
        PROVE  ClientInv'
    BY <2>1, CallKeeps, SendVmoKeeps, LockKeeps, SendMemoryKeeps, PollResponseKeeps,
       CloseFifoKeeps, DropCallKeeps, Zenon DEF CallStep
  <2>2. CASE UNCHANGED vars
    BY <2>2, Unmoved, Zenon DEF vars, fifoVars, callVars
  <2> QED BY <2>1, <2>2, DropClientKeeps, PollKeeps, DeviceKeeps, Zenon DEF Next
<1> QED BY <1>1, <1>2, PTL DEF Spec

\* "temp_vmo" is locked over the whole of a call that goes through it
\* (Common::read_at and write_at), however calls are dropped at their awaits.
THEOREM TempIsExclusive == Spec => []OneUserOfTemp
<1>1. ClientInv => OneUserOfTemp
  BY Zenon DEF ClientInv, LockInv, OneUserOfTemp
<1> QED BY <1>1, ClientInvariant, PTL

\* Once FifoState::terminate has run, by whichever task, no request of the map is
\* without a result, and send adds none.
THEOREM NobodyIsLeftWaiting == Spec => []DisconnectedAnswersAll
<1>1. ClientInv => DisconnectedAnswersAll
  BY Zenon DEF ClientInv
<1> QED BY <1>1, ClientInvariant, PTL


-----------------------------------------------------------------------------
(***************************************************************************)
(* The data of calls with a slice of memory.  The argument follows a       *)
(* request from send through the queue, the fifo and the device back to    *)
(* its call: as long as the device works on it, its call waits for it, so  *)
(* that temp_vmo belongs to that call.                                     *)
(***************************************************************************)
Requests ==
    [op : {"read", "write", "flush", "close_vmo"}, vmo : {"temp", "own", Invalid}, block : Int,
     count : Int, id : Ids, from : Callers, at : Int]

Places == sent \o queue
Pending == Range(Places) \cup inflight

FifoType ==
    /\ sent \in Seq(Requests) /\ queue \in Seq(Requests) /\ inflight \subseteq Requests
    /\ responses \in Seq([id : Ids, status : {"ok", "error"}])
    /\ Len(sent) <= FifoDepth /\ next_request_id \in Ids /\ temp_vmo_id \in {"temp", Invalid}

\* The id that the next request gets is not one of a request that is waited
\* for, or that the device or a response still has.  The code gives out 2^32
\* ids in turn and takes this for granted.
NextIdIsFree ==
    /\ next_request_id \notin DOMAIN map
    /\ \A r \in Pending : r.id # next_request_id
    /\ \A n \in DOMAIN responses : responses[n].id # next_request_id

\* Calls with a slice of memory are not dropped at an await.
NoneCancelled == \A c \in Callers \cap Cancelled : \A k \in Calls[c] : ~k.mem

CallInv ==
    \A c \in Callers : call[c] # Idle =>
        /\ call[c].at \in Int /\ call[c].offset \in Int /\ call[c].len \in Int
        /\ call[c].mem => call[c].op \in {"read", "write"} /\ c \notin Cancelled

\* A call that waits has an entry of its own in the map.
WaitInv ==
    /\ \A c \in Callers : Waiting(c) => call[c].id \in DOMAIN map
    /\ \A c, d \in Callers : Waiting(c) /\ Waiting(d) /\ call[c].id = call[d].id => c = d

\* A request is in one place, and has its id for itself.
IdsInv ==
    /\ \A i, j \in DOMAIN Places : Places[i].id = Places[j].id => i = j
    /\ \A i \in DOMAIN Places : \A r \in inflight : Places[i].id # r.id
    /\ \A r, s \in inflight : r.id = s.id => r = s
    /\ \A n \in DOMAIN responses : \A r \in Pending : r.id # responses[n].id

MemWaits(c) == Waiting(c) /\ call[c].mem
Stored(r) == \A i \in 1..r.count : temp_vmo[i] = Content(r.from, r.at + i)

\* The call that request r goes through temp_vmo for waits for it.
Awaited(r) ==
    /\ MemWaits(r.from) /\ call[r.from].id = r.id /\ call[r.from].op = r.op
    /\ call[r.from].at = r.at /\ r.count <= TempBlocks /\ map[r.id].result = None
    /\ r.op = "write" => Stored(r)

\* The request a call with a slice waits for goes through temp_vmo.
Through(r) ==
    \A c \in Callers : MemWaits(c) /\ call[c].id = r.id =>
        r.vmo \in {"temp", Invalid} /\ r.op \in {"read", "write"}

OwnInv == \A r \in Pending : (r.vmo = "temp" => Awaited(r)) /\ Through(r)

\* The request of c was answered with success; its data has been moved.
Told(c) ==
    \/ map[call[c].id].result = "ok"
    \/ \E n \in DOMAIN responses : responses[n].id = call[c].id /\ responses[n].status = "ok"
Moved(c) ==
    /\ call[c].id \in DOMAIN done
    /\ \A i \in DOMAIN done[call[c].id] :
         done[call[c].id][i] = IF call[c].op = "write" THEN Content(c, call[c].at + i) ELSE temp_vmo[i]

DataInv == \A c \in Callers : MemWaits(c) /\ Told(c) => Moved(c)

\* After the fifo is closed the device does nothing any more.
TransferInv ==
    FifoType /\ CallInv /\ WaitInv /\ DataInv /\ (~closed => IdsInv /\ OwnInv)

-----------------------------------------------------------------------------
(* The fifo and the queue.                                                 *)

\* Concatenation is associative.
LEMMA Associative ==
    ASSUME NEW S, NEW s \in Seq(S), NEW t \in Seq(S), NEW v \in Seq(S)
    PROVE  (s \o t) \o v = s \o (t \o v)
  BY ConcatAssociative, Z3T(60)

\* Ids wrap around.
LEMMA IdsWrap ==
    ASSUME NEW id \in Ids
    PROVE  (id + 1) % RequestIds \in Ids
<1>1. RequestIds \in Nat /\ RequestIds > 0 /\ id + 1 \in Nat
  BY BlockClientAssumption DEF Ids
<1> QED BY <1>1 DEF Ids

\* poll_send_requests moves requests from the queue to the fifo, in order.
LEMMA SendsInOrder ==
    ASSUME sent \in Seq(Requests), Len(sent) <= FifoDepth, NEW q \in Seq(Requests),
           poll_send_requests(q)
    PROVE  /\ sent' \in Seq(Requests) /\ queue' \in Seq(Requests) /\ Len(sent') <= FifoDepth
           /\ sent' \o queue' = sent \o q
<1> DEFINE n == Fits(q)
<1>1. n \in 0..Len(q) /\ Len(sent) + n <= FifoDepth
  BY BlockClientAssumption, LenProperties DEF Fits, min
<1>2. sent' = sent \o SubSeq(q, 1, n) /\ queue' = SubSeq(q, n + 1, Len(q))
  BY Zenon DEF poll_send_requests, drain
<1> HIDE DEF n
<1>3. \A i \in 1..Len(q) : q[i] \in Requests
  BY LenProperties
<1>4. /\ SubSeq(q, 1, n) \in Seq(Requests) /\ SubSeq(q, n + 1, Len(q)) \in Seq(Requests)
      /\ Len(SubSeq(q, 1, n)) = n
  <2>1. Len(q) \in Nat
    BY LenProperties
  <2>2. /\ \A i \in 1..n : q[i] \in Requests
        /\ \A i \in (n + 1)..Len(q) : q[i] \in Requests
    BY <1>1, <1>3, <2>1
  <2> HIDE DEF Requests
  <2> QED BY <1>1, <2>1, <2>2, SubSeqProperties
<1>5. SubSeq(q, 1, n) \o SubSeq(q, n + 1, Len(q)) = q
  <2>1. Len(q) \in Nat /\ 1 \in 1..Len(q) + 1 /\ n \in 1 - 1..Len(q) /\ Len(q) \in n..Len(q)
    BY <1>1, LenProperties
  <2>2. SubSeq(q, 1, n) \o SubSeq(q, n + 1, Len(q)) = SubSeq(q, 1, Len(q))
    BY <2>1, ConcatAdjacentSubSeq, Zenon
  <2> QED BY <2>2, SubSeqFull, Zenon
<1>6. PICK x, y \in Seq(Requests) : sent' = sent \o x /\ queue' = y /\ x \o y = q
  BY <1>2, <1>4, <1>5, Zenon
<1>8. sent' \o queue' = sent \o q
  <2>1. (sent \o x) \o y = sent \o (x \o y)
    BY ONLY sent \in Seq(Requests), x \in Seq(Requests), y \in Seq(Requests), Associative, Z3T(60)
  <2> QED BY <1>6, <2>1, Zenon
<1>7. sent' \in Seq(Requests) /\ Len(sent') = Len(sent) + n
  BY <1>2, <1>4, ConcatProperties
<1> QED BY <1>1, <1>2, <1>4, <1>8, <1>7, LenProperties, Zenon

\* A request that is added comes after the others.
LEMMA PlacesAppend ==
    ASSUME sent \in Seq(Requests), queue \in Seq(Requests), NEW r \in Requests
    PROVE  sent \o Append(queue, r) = Append(Places, r)
<1> HIDE DEF Requests
<1>1. <<r>> \in Seq(Requests) /\ Append(queue, r) = queue \o <<r>>
  BY AppendIsConcat
<1>2. Places \in Seq(Requests)
  BY ConcatProperties DEF Places
<1>3. Append(Places, r) = Places \o <<r>>
  BY <1>2, AppendIsConcat, Zenon
<1> QED BY <1>1, <1>2, <1>3, ConcatAssociative DEF Places

\* The device takes the first request.
LEMMA PlacesTail ==
    ASSUME sent \in Seq(Requests), queue \in Seq(Requests), sent # <<>>
    PROVE  Places # <<>> /\ Head(Places) = Head(sent) /\ Tail(sent) \o queue = Tail(Places)
<1>1. /\ Places \in Seq(Requests) /\ Len(Places) = Len(sent) + Len(queue)
      /\ \A i \in 1..Len(sent) + Len(queue) :
           Places[i] = IF i <= Len(sent) THEN sent[i] ELSE queue[i - Len(sent)]
  BY ConcatProperties DEF Places
<1>2. Len(sent) \in Nat \ {0} /\ Len(queue) \in Nat
  BY LenProperties, EmptySeq
<1>3. Places # <<>> /\ Head(Places) = Head(sent)
  BY <1>1, <1>2
<1>4. /\ Tail(sent) \in Seq(Requests) /\ Len(Tail(sent)) = Len(sent) - 1
      /\ \A i \in 1..Len(Tail(sent)) : Tail(sent)[i] = sent[i + 1]
  BY HeadTailProperties
<1>5. /\ Tail(Places) \in Seq(Requests) /\ Len(Tail(Places)) = Len(Places) - 1
      /\ \A i \in 1..Len(Tail(Places)) : Tail(Places)[i] = Places[i + 1]
  BY <1>1, <1>3, HeadTailProperties
<1>6. /\ Tail(sent) \o queue \in Seq(Requests) /\ Len(Tail(sent) \o queue) = Len(sent) - 1 + Len(queue)
      /\ \A i \in 1..Len(sent) - 1 + Len(queue) : (Tail(sent) \o queue)[i] =
           IF i <= Len(sent) - 1 THEN Tail(sent)[i] ELSE queue[i - (Len(sent) - 1)]
  BY <1>4, ConcatProperties
<1>7. Tail(sent) \o queue = Tail(Places)
  <2>1. \A i \in 1..Len(Tail(Places)) : (Tail(sent) \o queue)[i] = Tail(Places)[i]
    BY <1>1, <1>2, <1>4, <1>5, <1>6
  <2>2. Len(Tail(sent) \o queue) = Len(Tail(Places))
    BY <1>1, <1>2, <1>5, <1>6
  <2> QED BY <1>5, <1>6, <2>1, <2>2, SeqEqual, Zenon
<1> QED BY <1>3, <1>7

\* What is sent, queued or worked on is a request.
LEMMA PendingType ==
    ASSUME FifoType
    PROVE  Places \in Seq(Requests) /\ Pending \subseteq Requests
<1>1. Places \in Seq(Requests)
  BY ConcatProperties DEF FifoType, Places
<1>2. \A i \in DOMAIN Places : Places[i] \in Requests
  BY <1>1, LenProperties, ElementOfSeq, Zenon
<1> QED BY <1>1, <1>2, Zenon DEF FifoType, Pending, Range

\* A request with a fresh id.
LEMMA IdsAdded ==
    ASSUME FifoType, IdsInv, NextIdIsFree, NEW r \in Requests, r.id = next_request_id,
           Places' = Append(Places, r), UNCHANGED <<inflight, responses>>
    PROVE  IdsInv' /\ Pending' = Pending \cup {r}
<1> DEFINE n == Len(Places)
<1>1. /\ Len(Places') = n + 1 /\ DOMAIN Places' = 1..n + 1 /\ DOMAIN Places = 1..n /\ n \in Nat
      /\ \A i \in 1..n : Places'[i] = Places[i]
      /\ Places'[n + 1] = r
  <2>1. Append(Places, r) \in Seq(Requests) /\ Places \in Seq(Requests)
    BY PendingType, AppendProperties, Zenon
  <2> QED BY <2>1, AppendProperties, LenProperties
<1> HIDE DEF n
<1>2. /\ \A i \in DOMAIN Places : Places[i] \in Pending
      /\ \A s \in inflight : s \in Pending
  BY Zenon DEF Pending, Range
<1>3. Pending' = Pending \cup {r}
  BY <1>1 DEF Pending, Range
<1>4. /\ \A i, j \in DOMAIN Places' : Places'[i].id = Places'[j].id => i = j
      /\ \A i \in DOMAIN Places' : \A s \in inflight : Places'[i].id # s.id
  BY <1>1, <1>2 DEF IdsInv, NextIdIsFree
<1>5. \A m \in DOMAIN responses : \A s \in Pending \cup {r} : s.id # responses[m].id
  BY Zenon DEF IdsInv, NextIdIsFree
<1> QED BY <1>3, <1>4, <1>5, Zenon DEF IdsInv

\* A request goes from the fifo to the device.
LEMMA IdsTaken ==
    ASSUME FifoType, IdsInv, DeviceTakes
    PROVE  IdsInv' /\ Pending' = Pending
<1> DEFINE n == Len(Places)
           r == Places[1]
<1>1. Places # <<>> /\ Head(Places) = Head(sent) /\ Tail(sent) \o queue = Tail(Places)
  BY PlacesTail DEF FifoType, DeviceTakes
<1>2. n \in Nat /\ n > 0 /\ DOMAIN Places = 1..n /\ Head(Places) = r
  BY <1>1, PendingType, LenProperties, EmptySeq
<1>3. Places' = Tail(Places) /\ inflight' = inflight \cup {r} /\ UNCHANGED responses
  BY <1>1, <1>2, Zenon DEF DeviceTakes, Places
<1>4. DOMAIN Places' = 1..n - 1 /\ \A i \in 1..n - 1 : Places'[i] = Places[i + 1]
  <2>1. /\ Tail(Places) \in Seq(Requests) /\ Len(Tail(Places)) = n - 1
        /\ \A i \in 1..Len(Tail(Places)) : Tail(Places)[i] = Places[i + 1]
    BY <1>1, PendingType, HeadTailProperties
  <2> QED BY <1>3, <2>1, LenProperties
<1> HIDE DEF n
<1>5. Pending' = Pending
  <2>1. \A s : (\E i \in 1..n : s = Places[i]) <=> s = Places[1] \/ \E i \in 1..n - 1 : s = Places[i + 1]
    <3>1. \A i \in 1..n : i = 1 \/ (i - 1 \in 1..n - 1 /\ (i - 1) + 1 = i)
      BY <1>2
    <3>2. \A i \in 1..n - 1 : i + 1 \in 1..n
      BY <1>2
    <3>3. 1 \in 1..n
      BY <1>2
    <3> QED BY <3>1, <3>2, <3>3, Zenon
  <2>2. Pending = {Places[i] : i \in 1..n} \cup inflight
    BY <1>2, Zenon DEF Pending, Range
  <2>3. Pending' = {Places[i + 1] : i \in 1..n - 1} \cup (inflight \cup {Places[1]})
    <3>1. {Places'[i] : i \in DOMAIN Places'} = {Places[i + 1] : i \in 1..n - 1}
      BY <1>4
    <3> QED BY <1>3, <3>1, Zenon DEF Pending, Range
  <2> QED BY <2>1, <2>2, <2>3, Zenon
<1>6. /\ \A i, j \in DOMAIN Places' : Places'[i].id = Places'[j].id => i = j
      /\ \A i \in DOMAIN Places' : \A s \in inflight' : Places'[i].id # s.id
  BY <1>2, <1>3, <1>4 DEF IdsInv
<1>7. \A s, t \in inflight' : s.id = t.id => s = t
  BY <1>2, <1>3 DEF IdsInv
<1> QED BY <1>3, <1>5, <1>6, <1>7, Zenon DEF IdsInv

\* A request is answered.
LEMMA IdsAnswered ==
    ASSUME FifoType, IdsInv, NEW r \in inflight, NEW status \in {"ok", "error"},
           inflight' = inflight \ {r}, responses' = Append(responses, [id |-> r.id, status |-> status]),
           UNCHANGED <<sent, queue>>
    PROVE  /\ IdsInv' /\ Pending' \subseteq Pending /\ r \in Pending
           /\ \A s \in Pending' : s.id # r.id
           /\ responses' \in Seq([id : Ids, status : {"ok", "error"}])
           /\ \A n \in DOMAIN responses' :

                  \/ n \in DOMAIN responses /\ responses'[n] = responses[n]
                  \/ responses'[n] = [id |-> r.id, status |-> status]
<1> DEFINE e == [id |-> r.id, status |-> status]
           T == [id : Ids, status : {"ok", "error"}]
           n == Len(responses)
<1>1. UNCHANGED Places /\ r \in Pending /\ Pending' \subseteq Pending
  BY Zenon DEF Places, Pending
<1>2. e \in T /\ responses \in Seq(T)
  BY PendingType, <1>1 DEF FifoType, Requests
<1> HIDE DEF e, T
<1>3. /\ responses' \in Seq(T) /\ n \in Nat /\ DOMAIN responses = 1..n /\ DOMAIN responses' = 1..n + 1
      /\ \A i \in 1..n : responses'[i] = responses[i]
      /\ responses'[n + 1] = e
  <2>1. responses' = Append(responses, e)
    BY Zenon DEF e
  <2>2. Append(responses, e) \in Seq(T)
    BY <1>2, AppendProperties, Zenon
  <2> QED BY <1>2, <2>1, <2>2, AppendProperties, LenProperties
<1> HIDE DEF n
<1>4. \A s \in Pending' : s.id # r.id
  <2>1. \A i \in DOMAIN Places : Places[i].id # r.id
    BY Zenon DEF IdsInv
  <2>2. \A s \in inflight' : s.id # r.id
    BY Zenon DEF IdsInv
  <2> QED BY <1>1, <2>1, <2>2, Zenon DEF Pending, Range
<1>5. \A m \in DOMAIN responses' :
        (m \in DOMAIN responses /\ responses'[m] = responses[m]) \/ responses'[m] = e
  BY <1>3
<1>6. \A m \in DOMAIN responses' : \A s \in Pending' : s.id # responses'[m].id
  BY <1>1, <1>4, <1>5 DEF IdsInv, e
<1> QED BY <1>1, <1>3, <1>4, <1>5, <1>6, Zenon DEF IdsInv, e, T

-----------------------------------------------------------------------------
(* The calls that wait, and their data.                                    *)

\* Requests stay where they are.
LEMMA IdsStay ==
    ASSUME IdsInv, UNCHANGED <<sent, queue, inflight, responses>>
    PROVE  IdsInv' /\ Pending' = Pending
<1>1. UNCHANGED Places
  BY Zenon DEF Places
<1>2. UNCHANGED Pending
  BY <1>1, Zenon DEF Pending
<1> QED BY <1>1, <1>2, Zenon DEF IdsInv

\* No call begins to wait, no data moves, no response comes.
LEMMA DataStays ==
    ASSUME WaitInv, DataInv, \A x \in Callers : Waiting(x)' => call'[x] = call[x],
           DOMAIN map' = DOMAIN map, \A x \in DOMAIN map : map'[x].result = map[x].result,
           UNCHANGED <<responses, done>>, UNCHANGED temp_vmo \/ \A x \in Callers : ~MemWaits(x)
    PROVE  WaitInv' /\ DataInv'
<1>1. \A x \in Callers : Waiting(x)' => Waiting(x) /\ call'[x] = call[x]
  BY Zenon DEF Waiting
<1>2. WaitInv'
  BY <1>1, Zenon DEF WaitInv
<1>3. \A x \in Callers : MemWaits(x)' => MemWaits(x) /\ Waiting(x)' /\ UNCHANGED temp_vmo
  BY <1>1, Zenon DEF MemWaits
<1>4. \A x \in Callers : Waiting(x)' => (Told(x)' => Told(x)) /\ (Moved(x) /\ UNCHANGED temp_vmo => Moved(x)')
  <2> SUFFICES ASSUME NEW x \in Callers, Waiting(x)'
               PROVE  (Told(x)' => Told(x)) /\ (Moved(x) /\ UNCHANGED temp_vmo => Moved(x)')
    BY Zenon
  <2>1. call'[x] = call[x] /\ call[x].id \in DOMAIN map
    BY <1>1, Zenon DEF WaitInv
  <2>2. map'[call[x].id].result = map[call[x].id].result
    BY <2>1, Zenon
  <2>3. Told(x)' => Told(x)
    BY <2>1, <2>2, Zenon DEF Told
  <2>4. Moved(x) /\ UNCHANGED temp_vmo => Moved(x)'
    BY <2>1, Zenon DEF Moved
  <2> QED BY <2>3, <2>4, Zenon
<1> QED BY <1>2, <1>3, <1>4, Zenon DEF DataInv

\* No call begins or ends to wait, no data moves.
LEMMA OwnStays ==
    ASSUME FifoType, WaitInv, OwnInv,
           \A x \in Callers : Waiting(x) \/ Waiting(x)' => call'[x] = call[x],
           \A x \in DOMAIN map : (\E r \in Pending : r.id = x) => map'[x].result = map[x].result,
           UNCHANGED temp_vmo \/ \A x \in Callers : ~MemWaits(x), Pending' \subseteq Pending
    PROVE  OwnInv'
<1>1. \A x \in Callers : Waiting(x)' <=> Waiting(x)
  BY Zenon DEF Waiting
<1>2. \A x \in Callers : MemWaits(x) \/ MemWaits(x)' => MemWaits(x) /\ MemWaits(x)' /\ call'[x] = call[x]
  BY <1>1, Zenon DEF MemWaits
<1>3. SUFFICES ASSUME NEW r \in Pending
               PROVE  (r.vmo = "temp" => Awaited(r)') /\ Through(r)'
  BY Zenon DEF OwnInv
<1>4. r.from \in Callers
  BY PendingType DEF Requests
<1>5. (r.vmo = "temp" => Awaited(r)) /\ Through(r)
  BY Zenon DEF OwnInv
<1>6. Through(r)'
  BY <1>2, <1>5, Zenon DEF Through
<1>7. Awaited(r) => Awaited(r)'
  <2>1. Awaited(r) /\ Stored(r) => Stored(r)'
    BY <1>4, Zenon DEF Awaited, Stored
  <2>2. Awaited(r) => r.id \in DOMAIN map
    BY <1>4, Zenon DEF Awaited, MemWaits, WaitInv
  <2> QED BY <1>2, <1>4, <2>1, <2>2, Zenon DEF Awaited
<1> QED BY <1>5, <1>6, <1>7, Zenon

\* A call that returns.
LEMMA ReturnDoes ==
    ASSUME ClientInv, NEW c \in Callers, return(c)
    PROVE  call'[c] = Idle /\ \A x \in Callers \ {c} : call'[x] = call[x]
  BY Zenon DEF ClientInv, ClientType, return

\* The calls of a step that is not an answer.
LEMMA CallInvStays ==
    ASSUME CallInv, NEW c \in Callers, \A x \in Callers \ {c} : call'[x] = call[x],
           \/ call'[c] = Idle
           \/ /\ call[c] # Idle /\ call'[c].at \in Int
              /\ call'[c].offset = call[c].offset /\ call'[c].len = call[c].len
              /\ call'[c].mem = call[c].mem /\ call'[c].op = call[c].op
    PROVE  CallInv'
<1>1. SUFFICES ASSUME NEW x \in Callers, call'[x] # Idle
               PROVE  /\ call'[x].at \in Int /\ call'[x].offset \in Int /\ call'[x].len \in Int
                      /\ call'[x].mem => call'[x].op \in {"read", "write"} /\ x \notin Cancelled
  BY Zenon DEF CallInv, Idle
<1>2. CASE x = c
  BY <1>1, <1>2, Zenon DEF CallInv
<1>3. CASE x # c
  BY <1>1, <1>3, Zenon DEF CallInv
<1> QED BY <1>2, <1>3, Zenon

\* A step of a call that does not wait and leaves fifo, map and data alone.
LEMMA CallOnly ==
    ASSUME TransferInv, NEW c \in Callers, ~Waiting(c), call'[c].pc # "waiting",
           \A x \in Callers \ {c} : call'[x] = call[x], CallInv',
           temp_vmo_id' \in {temp_vmo_id, Invalid},
           UNCHANGED <<next_request_id, map, sent, queue, inflight, responses, closed, done>>,
           UNCHANGED temp_vmo \/ \A x \in Callers : ~MemWaits(x)
    PROVE  TransferInv'
<1>1. \A x \in Callers : Waiting(x) \/ Waiting(x)' => call'[x] = call[x]
  BY Zenon DEF Waiting
<1>2. FifoType'
  BY Zenon DEF TransferInv, FifoType
<1>3. WaitInv' /\ DataInv'
  BY <1>1, DataStays, Zenon DEF TransferInv
<1>4. ASSUME ~closed PROVE IdsInv' /\ OwnInv'
  BY <1>1, <1>4, IdsStay, OwnStays, Zenon DEF TransferInv
<1> QED BY <1>2, <1>3, <1>4, Zenon DEF TransferInv

-----------------------------------------------------------------------------
(* The steps, for the data.                                                *)

\* A new call.
LEMMA CallMoves ==
    ASSUME NoneCancelled, ClientInv, TransferInv, NEW c \in Callers, NEW k \in Calls[c], Call(c, k)
    PROVE  TransferInv'
<1>1. /\ ~Waiting(c) /\ temp_vmo_id' \in {temp_vmo_id, Invalid}
      /\ UNCHANGED <<next_request_id, map, sent, queue, inflight, responses, closed, temp_vmo, done>>
  BY Zenon DEF Call, Waiting, take_into_id, fifoVars, deviceVars
<1>2. /\ \A x \in Callers \ {c} : call'[x] = call[x]
      /\ call'[c] = [op |-> k.op, mem |-> k.mem, offset |-> k.offset, len |-> k.len, at |-> 0, id |-> 0,
                     pc |-> IF k.op = "close" THEN "closing"
                            ELSE IF k.mem THEN "locking" ELSE "sending"]
  BY Zenon DEF ClientInv, ClientType, Call
<1>3. /\ call'[c].pc # "waiting" /\ call'[c].at = 0 /\ call'[c].offset = k.offset
      /\ call'[c].len = k.len /\ call'[c].mem = k.mem /\ call'[c].op = k.op
  BY <1>2
<1>4. k.offset \in Nat /\ k.len \in Nat /\ (k.mem => k.op \in {"read", "write"} /\ c \notin Cancelled)
  BY BlockClientAssumption, Zenon DEF NoneCancelled
<1>5. 0 \in Int /\ k.offset \in Int /\ k.len \in Int
  BY <1>4
<1>6. CallInv'
  <2>1. SUFFICES ASSUME NEW x \in Callers, call'[x] # Idle
                 PROVE  /\ call'[x].at \in Int /\ call'[x].offset \in Int /\ call'[x].len \in Int
                        /\ call'[x].mem => call'[x].op \in {"read", "write"} /\ x \notin Cancelled
    BY Zenon DEF CallInv, Idle
  <2>2. CASE x = c
    BY <1>3, <1>4, <1>5, <2>2, Zenon
  <2>3. CASE x # c
    BY <1>2, <2>1, <2>3, Zenon DEF TransferInv, CallInv
  <2> QED BY <2>2, <2>3, Zenon
<1> QED BY <1>1, <1>2, <1>3, <1>6, CallOnly, Zenon

\* A call that returns, when it does not wait.
LEMMA ReturnMoves ==
    ASSUME ClientInv, TransferInv, NEW c \in Callers, ~Waiting(c), return(c),
           UNCHANGED <<next_request_id, map, sent, queue, inflight, responses, closed, done, temp_vmo_id>>,
           UNCHANGED temp_vmo \/ \A x \in Callers : ~MemWaits(x)
    PROVE  TransferInv'
<1>1. call'[c] = Idle /\ \A x \in Callers \ {c} : call'[x] = call[x]
  BY ReturnDoes, Zenon
<1>2. call'[c].pc # "waiting"
  BY <1>1 DEF Idle
<1>3. CallInv'
  BY <1>1, CallInvStays, Zenon DEF TransferInv
<1> QED BY <1>1, <1>2, <1>3, CallOnly, Zenon

\* The call that gets temp_vmo.
LEMMA LockMoves ==
    ASSUME ClientInv, TransferInv, NEW c \in Callers, Lock(c)
    PROVE  TransferInv'
<1>1. /\ ~Waiting(c) /\ call[c] # Idle
      /\ UNCHANGED <<next_request_id, map, sent, queue, inflight, responses, closed, temp_vmo, done,
                     temp_vmo_id>>
  BY DEF Lock, Waiting, Idle, fifoVars, deviceVars
<1>2. /\ \A x \in Callers \ {c} : call'[x] = call[x]
      /\ call'[c] = [call[c] EXCEPT !.pc = "copying"]
  BY Zenon DEF ClientInv, ClientType, Lock
<1>3. IsCall(call[c])
  BY <1>1, Zenon DEF ClientInv, ClientType
<1>4. /\ call'[c].pc = "copying" /\ call'[c].at = call[c].at /\ call'[c].offset = call[c].offset
      /\ call'[c].len = call[c].len /\ call'[c].mem = call[c].mem /\ call'[c].op = call[c].op
  BY <1>2, <1>3, Zenon DEF IsCall
<1>5. call'[c].at \in Int
  BY <1>1, <1>4, Zenon DEF TransferInv, CallInv
<1>6. CallInv'
  BY <1>1, <1>2, <1>4, <1>5, CallInvStays, Zenon DEF TransferInv
<1> QED BY <1>1, <1>2, <1>4, <1>6, CallOnly, Zenon

\* The end of the fifo: the device does nothing more.
LEMMA ClosedMoves ==
    ASSUME TransferInv, \A x \in Callers : Waiting(x)' => call'[x] = call[x], CallInv',
           \A x \in DOMAIN map : map'[x].result = "ok" => map[x].result = "ok", DOMAIN map' = DOMAIN map,
           closed' = TRUE, inflight' = {}, sent' = <<>>, temp_vmo_id' \in {temp_vmo_id, Invalid},
           UNCHANGED <<next_request_id, queue, responses, temp_vmo, done>>
    PROVE  TransferInv'
<1>1. \A x \in Callers : Waiting(x)' => Waiting(x) /\ call'[x] = call[x]
  BY Zenon DEF Waiting
<1>2. WaitInv'
  BY <1>1, Zenon DEF TransferInv, WaitInv
<1>3. FifoType'
  <2>1. <<>> \in Seq(Requests) /\ Len(<<>>) = 0
    BY EmptySeq
  <2>2. 0 <= FifoDepth
    BY BlockClientAssumption
  <2> QED BY <2>1, <2>2 DEF TransferInv, FifoType
<1>4. DataInv'
  <2>1. SUFFICES ASSUME NEW x \in Callers, MemWaits(x)', Told(x)' PROVE Moved(x)'
    BY Zenon DEF DataInv
  <2>2. MemWaits(x) /\ call'[x] = call[x] /\ call[x].id \in DOMAIN map
    BY <1>1, <2>1, Zenon DEF MemWaits, TransferInv, WaitInv
  <2>3. Told(x)
    BY <2>1, <2>2, Zenon DEF Told
  <2>4. Moved(x)
    BY <2>2, <2>3, Zenon DEF TransferInv, DataInv
  <2> QED BY <2>2, <2>4, Zenon DEF Moved
<1> QED BY <1>2, <1>3, <1>4, Zenon DEF TransferInv

\* terminate answers nothing with success that was not.
LEMMA TerminateTells ==
    ASSUME NEW m, NEW a, NEW next, terminate(m, a, next)
    PROVE  /\ DOMAIN map' = DOMAIN m
           /\ \A x \in DOMAIN m : map'[x].result = "ok" => m[x].result = "ok"
  BY Zenon DEF terminate

\* close: the device has closed its end, or refused to.
LEMMA CloseFifoMoves ==
    ASSUME ClientInv, TransferInv, NEW c \in Callers, CloseFifo(c)
    PROVE  TransferInv'
<1>1. call'[c] = Idle /\ \A x \in Callers \ {c} : call'[x] = call[x]
  BY ReturnDoes, Zenon DEF CloseFifo
<1>2. CallInv'
  BY <1>1, CallInvStays, Zenon DEF TransferInv
<1>3. \A x \in Callers : Waiting(x)' => call'[x] = call[x]
  BY <1>1 DEF Waiting, Idle
<1>4. CASE closed' = TRUE /\ inflight' = {} /\ sent' = <<>>
  BY <1>2, <1>3, <1>4, ClosedMoves, Zenon DEF CloseFifo
<1>5. CASE UNCHANGED <<closed, inflight, sent>>
  <2>1. ~Waiting(c)
    BY DEF CloseFifo, Waiting
  <2> QED BY <1>5, <2>1, ReturnMoves, Zenon DEF CloseFifo
<1> QED BY <1>4, <1>5, Zenon DEF CloseFifo

\* Drop of the client.
LEMMA DropClientMoves ==
    ASSUME TransferInv, DropClient
    PROVE  TransferInv'
<1>1. terminate(map, awake, PollerWoken) /\ UNCHANGED call
  BY Zenon DEF DropClient
<1>2. CallInv'
  BY <1>1, Zenon DEF TransferInv, CallInv
<1> QED BY <1>1, <1>2, TerminateTells, ClosedMoves, Zenon DEF DropClient, take_into_id

\* The device closes the fifo.
LEMMA DeviceClosesMoves ==
    ASSUME TransferInv, DeviceCloses
    PROVE  TransferInv'
<1>1. UNCHANGED call /\ CallInv'
  BY Zenon DEF DeviceCloses, callVars, TransferInv, CallInv
<1> QED BY <1>1, ClosedMoves, Zenon DEF DeviceCloses, callVars

\* The device takes a request.
LEMMA DeviceTakesMoves ==
    ASSUME TransferInv, DeviceTakes
    PROVE  TransferInv'
<1>1. /\ ~closed /\ sent # <<>> /\ inflight' = inflight \cup {Head(sent)} /\ sent' = Tail(sent)
      /\ UNCHANGED <<call, temp_vmo_id, next_request_id, queue, map, responses, closed, done, temp_vmo>>
  BY Zenon DEF DeviceTakes, callVars
<1>2. CallInv' /\ WaitInv' /\ DataInv'
  BY <1>1, DataStays, Zenon DEF TransferInv, CallInv
<1>3. IdsInv' /\ OwnInv'
  BY <1>1, IdsTaken, OwnStays, Zenon DEF TransferInv
<1>4. FifoType'
  <2>1. Head(sent) \in Requests /\ Tail(sent) \in Seq(Requests) /\ Len(Tail(sent)) = Len(sent) - 1
    BY <1>1, HeadTailProperties DEF TransferInv, FifoType
  <2>2. Len(Tail(sent)) <= FifoDepth
    BY <2>1, BlockClientAssumption, LenProperties DEF TransferInv, FifoType
  <2> QED BY <1>1, <2>1, <2>2, Zenon DEF TransferInv, FifoType
<1> QED BY <1>2, <1>3, <1>4, Zenon DEF TransferInv

\* How many blocks of a slice a request moves.
LEMMA BlocksFit ==
    ASSUME NEW k, k.len \in Int, k.at \in Int
    PROVE  /\ to_do(k) \in Int /\ to_blocks(to_do(k)) \in Int
           /\ to_blocks(to_do(k)) <= TempBlocks /\ TempBlocks \in Int
<1>1. block_size \in Nat /\ block_size > 0 /\ TEMP_VMO_SIZE \in Nat
  BY BlockClientAssumption
<1>2. to_do(k) \in Int /\ to_do(k) <= TEMP_VMO_SIZE
  BY <1>1 DEF to_do, Left, min
<1>3. ASSUME NEW a \in Int, a <= TEMP_VMO_SIZE
      PROVE  a \div block_size \in Int /\ a \div block_size <= TEMP_VMO_SIZE \div block_size
  BY <1>1, <1>3
<1> QED BY <1>1, <1>2, <1>3 DEF to_blocks, TempBlocks

\* A call that waits leaves, and no request of it goes through temp_vmo any more.
LEMMA LeaveMoves ==
    ASSUME TransferInv, NEW c \in Callers, Waiting(c), ~MemWaits(c) \/ map[call[c].id].result # None,
           call'[c].pc # "waiting", \A x \in Callers \ {c} : call'[x] = call[x], CallInv',
           map' = Without(map, call[c].id),
           UNCHANGED <<next_request_id, sent, queue, inflight, responses, closed, temp_vmo, done, temp_vmo_id>>
    PROVE  TransferInv'
<1>1. \A x \in Callers : Waiting(x)' => Waiting(x) /\ x # c /\ call'[x] = call[x]
  BY Zenon DEF Waiting
<1>2. /\ DOMAIN map' = DOMAIN map \ {call[c].id}
      /\ \A i \in DOMAIN map' : map'[i] = map[i]
  BY Zenon DEF Without, Restrict
<1>3. \A x \in Callers : Waiting(x) /\ x # c => call[x].id \in DOMAIN map'
  BY <1>2, Zenon DEF TransferInv, WaitInv
<1>4. WaitInv'
  BY <1>1, <1>3, Zenon DEF TransferInv, WaitInv
<1>5. FifoType'
  BY Zenon DEF TransferInv, FifoType
<1>6. DataInv'
  <2>1. SUFFICES ASSUME NEW x \in Callers, MemWaits(x)', Told(x)' PROVE Moved(x)'
    BY Zenon DEF DataInv
  <2>2. MemWaits(x) /\ call'[x] = call[x] /\ call[x].id \in DOMAIN map'
    BY <1>1, <1>3, <2>1, Zenon DEF MemWaits
  <2>3. Told(x)
    BY <1>2, <2>1, <2>2, Zenon DEF Told
  <2>4. Moved(x)
    BY <2>2, <2>3, Zenon DEF TransferInv, DataInv
  <2> QED BY <2>2, <2>4, Zenon DEF Moved
<1>7. ASSUME ~closed PROVE IdsInv' /\ OwnInv'
  <2>1. IdsInv' /\ Pending' = Pending /\ OwnInv
    BY <1>7, IdsStay, Zenon DEF TransferInv
  <2>2. SUFFICES ASSUME NEW r \in Pending
                 PROVE  (r.vmo = "temp" => Awaited(r)') /\ Through(r)'
    BY <2>1, Zenon DEF OwnInv
  <2>3. r.from \in Callers
    BY PendingType DEF Requests, TransferInv
  <2>4. Through(r)'
    BY <1>1, <2>1, Zenon DEF OwnInv, Through, MemWaits
  <2>5. ASSUME Awaited(r) PROVE Awaited(r)'
    <3>1. r.from # c /\ Waiting(r.from) /\ call[r.from].id = r.id
      BY <2>5, Zenon DEF Awaited, MemWaits
    <3>2. call'[r.from] = call[r.from] /\ map'[r.id] = map[r.id]
      BY <1>2, <1>3, <2>3, <3>1, Zenon
    <3>3. Stored(r) => Stored(r)'
      BY Zenon DEF Stored
    <3>4. MemWaits(r.from)'
      BY <2>5, <3>2, Zenon DEF Awaited, MemWaits, Waiting
    <3> QED BY <2>5, <3>2, <3>3, <3>4, Zenon DEF Awaited
  <2> QED BY <2>1, <2>4, <2>5, Zenon DEF OwnInv
<1> QED BY <1>4, <1>5, <1>6, <1>7, Zenon DEF TransferInv

\* A call reads its answer, or waits on.
LEMMA PollResponseMoves ==
    ASSUME ClientInv, TransferInv, NEW c \in Callers, PollResponse(c)
    PROVE  TransferInv'
<1> DEFINE k == call[c]
           n == to_blocks(to_do(k))
<1>1. /\ Waiting(c)
      /\ UNCHANGED <<next_request_id, sent, queue, inflight, responses, closed, temp_vmo, done, temp_vmo_id>>
  BY Zenon DEF PollResponse, deviceVars
<1>2. k # Idle /\ IsCall(k)
  <2>1. k # Idle
    BY <1>1 DEF Waiting, Idle
  <2> QED BY <2>1, Zenon DEF ClientInv, ClientType
<1>3. k.at \in Int /\ k.len \in Int /\ n \in Int
  <2>1. k.at \in Int /\ k.len \in Int
    BY <1>2, Zenon DEF TransferInv, CallInv
  <2> QED BY <2>1, BlocksFit, Zenon
<1>4. CASE map' = [map EXCEPT ![k.id].waker = TRUE] /\ UNCHANGED call
  <2>1. DOMAIN map' = DOMAIN map
    BY <1>4, Zenon
  <2>2. \A x \in DOMAIN map : map'[x].result = map[x].result
    <3>1. SUFFICES ASSUME NEW x \in DOMAIN map PROVE map'[x].result = map[x].result
      BY Zenon
    <3>2. IsEntry(map[x])
      BY Zenon DEF ClientInv, ClientType
    <3>3. map'[x] = IF x = k.id THEN [map[x] EXCEPT !.waker = TRUE] ELSE map[x]
      BY <1>4, Zenon
    <3> QED BY <3>2, <3>3, Zenon DEF IsEntry
  <2>3. WaitInv' /\ DataInv' /\ CallInv' /\ FifoType'
    BY <1>1, <1>4, <2>1, <2>2, DataStays, Zenon DEF TransferInv, CallInv, FifoType
  <2>4. ASSUME ~closed PROVE IdsInv' /\ OwnInv'
    BY <1>1, <1>4, <2>1, <2>2, <2>4, IdsStay, OwnStays, Zenon DEF TransferInv
  <2> QED BY <1>1, <2>3, <2>4, Zenon DEF TransferInv
<1>5. CASE map[k.id].result # None /\ map' = Without(map, k.id) /\ return(c)
  <2>1. call'[c] = Idle /\ \A x \in Callers \ {c} : call'[x] = call[x]
    BY <1>5, ReturnDoes, Zenon
  <2>2. call'[c].pc # "waiting"
    BY <2>1 DEF Idle
  <2>3. CallInv'
    BY <2>1, CallInvStays, Zenon DEF TransferInv
  <2> QED BY <1>1, <1>5, <2>1, <2>2, <2>3, LeaveMoves, Zenon
<1>6. CASE /\ map[k.id].result # None /\ map' = Without(map, k.id)
           /\ call' = [call EXCEPT ![c].pc = "copying", ![c].at = @ + n]
  <2>1. /\ \A x \in Callers \ {c} : call'[x] = call[x]
        /\ call'[c] = [k EXCEPT !.pc = "copying", !.at = @ + n]
    BY <1>6, Zenon DEF ClientInv, ClientType
  <2> HIDE DEF n
  <2>2. /\ call'[c].pc = "copying" /\ call'[c].at = k.at + n /\ call'[c].offset = k.offset
        /\ call'[c].len = k.len /\ call'[c].mem = k.mem /\ call'[c].op = k.op
    BY <1>2, <2>1, Zenon DEF IsCall
  <2>3. call'[c].at \in Int
    BY <1>3, <2>2
  <2>4. CallInv'
    BY <1>2, <2>1, <2>2, <2>3, CallInvStays, Zenon DEF TransferInv
  <2>5. call'[c].pc # "waiting"
    BY <2>2
  <2> QED BY <1>1, <1>6, <2>1, <2>5, <2>4, LeaveMoves, Zenon
<1> QED BY <1>4, <1>5, <1>6, Zenon DEF PollResponse

\* A call is dropped at an await; it has no slice of memory.
LEMMA DropCallMoves ==
    ASSUME ClientInv, TransferInv, NEW c \in Callers, DropCall(c)
    PROVE  TransferInv'
<1>1. /\ c \in Cancelled /\ return(c) /\ map' = IF Waiting(c) THEN Without(map, call[c].id) ELSE map
      /\ UNCHANGED <<next_request_id, sent, queue, inflight, responses, closed, temp_vmo, done, temp_vmo_id>>
  BY Zenon DEF DropCall, deviceVars
<1>2. CASE ~Waiting(c)
  BY <1>1, <1>2, ReturnMoves, Zenon
<1>3. CASE Waiting(c)
  <2>1. call'[c] = Idle /\ \A x \in Callers \ {c} : call'[x] = call[x]
    BY <1>1, ReturnDoes, Zenon
  <2>2. call'[c].pc # "waiting" /\ call[c] # Idle
    BY <1>3, <2>1 DEF Idle, Waiting
  <2>3. CallInv'
    BY <2>1, CallInvStays, Zenon DEF TransferInv
  <2>4. ~MemWaits(c)
    BY <1>1, <2>2, Zenon DEF MemWaits, TransferInv, CallInv
  <2> QED BY <1>1, <1>3, <2>1, <2>2, <2>3, <2>4, LeaveMoves, Zenon
<1> QED BY <1>2, <1>3, Zenon

\* What the responses tell the map.
LEMMA AnsweredTells ==
    ASSUME NEW m, NEW rs
    PROVE  /\ DOMAIN Answered(m, rs) = DOMAIN m
           /\ \A x \in DOMAIN m :
                \/ /\ Answered(m, rs)[x] = m[x]
                \/ \E i \in DOMAIN rs : rs[i].id = x /\ Answered(m, rs)[x].result = rs[i].status
<1>1. DOMAIN Answered(m, rs) = DOMAIN m
  BY Zenon DEF Answered
<1>2. SUFFICES ASSUME NEW x \in DOMAIN m
               PROVE  \/ Answered(m, rs)[x] = m[x]
                      \/ \E i \in DOMAIN rs : rs[i].id = x /\ Answered(m, rs)[x].result = rs[i].status
  BY <1>1, Zenon
<1> DEFINE last == CHOOSE i \in DOMAIN rs : IsLast(rs, i, x)
<1>3. CASE ~\E i \in DOMAIN rs : IsLast(rs, i, x)
  BY <1>3, Zenon DEF Answered
<1>4. CASE \E i \in DOMAIN rs : IsLast(rs, i, x)
  <2>1. last \in DOMAIN rs /\ IsLast(rs, last, x)
    BY <1>4, Zenon
  <2>2. Answered(m, rs)[x].result = rs[last].status
    BY <1>4, Zenon DEF Answered
  <2> HIDE DEF last
  <2> QED BY <2>1, <2>2, Zenon DEF IsLast
<1> QED BY <1>3, <1>4, Zenon

\* The poller gives the responses to the calls and sends what is queued.
LEMMA PollMoves ==
    ASSUME TransferInv, Poll
    PROVE  TransferInv'
<1> DEFINE m == Answered(map, responses)
           a == awake \cup Woken(map, {r.id : r \in Range(responses)} \cap DOMAIN map)
<1>1. UNCHANGED <<next_request_id, call, temp_vmo_id, inflight, closed, done, temp_vmo>> /\ CallInv'
  BY Zenon DEF Poll, callVars, TransferInv, CallInv
<1>2. CASE UNCHANGED <<queue, map, sent, responses>>
  <2>1. WaitInv' /\ DataInv' /\ FifoType'
    BY <1>1, <1>2, DataStays, Zenon DEF TransferInv, FifoType
  <2>2. ASSUME ~closed PROVE IdsInv' /\ OwnInv'
    BY <1>1, <1>2, <2>2, IdsStay, OwnStays, Zenon DEF TransferInv
  <2> QED BY <1>1, <2>1, <2>2, Zenon DEF TransferInv
<1>3. ASSUME DOMAIN map' = DOMAIN map, \A x \in Callers : Waiting(x) /\ Told(x)' => Told(x)
      PROVE  WaitInv' /\ DataInv'
  <2>1. WaitInv' /\ \A x \in Callers : (Waiting(x)' <=> Waiting(x)) /\ (MemWaits(x)' <=> MemWaits(x))
    BY <1>1, <1>3, Zenon DEF TransferInv, WaitInv, Waiting, MemWaits
  <2>2. \A x \in Callers : MemWaits(x) => Waiting(x)
    BY Zenon DEF MemWaits
  <2>3. \A x \in Callers : Moved(x) => Moved(x)'
    BY <1>1, Zenon DEF Moved
  <2> QED BY <1>3, <2>1, <2>2, <2>3, Zenon DEF TransferInv, DataInv
<1>4. CASE closed /\ terminate(map, awake, "done") /\ UNCHANGED <<queue, sent, responses>>
  <2>1. /\ DOMAIN map' = DOMAIN map
        /\ \A x \in DOMAIN map : map'[x].result = "ok" => map[x].result = "ok"
    BY <1>4, TerminateTells, Zenon
  <2>2. \A x \in Callers : Waiting(x) /\ Told(x)' => Told(x)
    BY <1>1, <1>4, <2>1, Zenon DEF Told, TransferInv, WaitInv
  <2>3. FifoType'
    BY <1>1, <1>4, Zenon DEF TransferInv, FifoType
  <2> QED BY <1>1, <1>3, <1>4, <2>1, <2>2, <2>3, Zenon DEF TransferInv
<1>5. CASE /\ poll_send_requests(queue) /\ responses' = <<>>
           /\ \/ closed /\ terminate(m, a, "done")
              \/ ~closed /\ map' = m
  <2>1. /\ sent' \in Seq(Requests) /\ queue' \in Seq(Requests) /\ Len(sent') <= FifoDepth
        /\ sent' \o queue' = sent \o queue
    BY <1>5, SendsInOrder, Zenon DEF TransferInv, FifoType
  <2>2. UNCHANGED Places /\ UNCHANGED Pending
    BY <1>1, <2>1, Zenon DEF Places, Pending
  <2>3. FifoType'
    <3>1. <<>> \in Seq([id : Ids, status : {"ok", "error"}])
      BY EmptySeq
    <3> QED BY <1>1, <1>5, <2>1, <3>1, Zenon DEF TransferInv, FifoType
  <2>4. /\ DOMAIN m = DOMAIN map
        /\ \A x \in DOMAIN map :
             \/ m[x] = map[x]
             \/ \E i \in DOMAIN responses : responses[i].id = x /\ m[x].result = responses[i].status
    BY AnsweredTells
  <2>5. DOMAIN map' = DOMAIN map /\ \A x \in DOMAIN map : map'[x].result = "ok" => m[x].result = "ok"
    BY <1>5, <2>4, TerminateTells, Zenon
  <2>6. \A x \in Callers : Waiting(x) /\ Told(x)' => Told(x)
    <3>1. SUFFICES ASSUME NEW x \in Callers, Waiting(x), Told(x)' PROVE Told(x)
      BY Zenon
    <3>2. call[x].id \in DOMAIN map
      BY <3>1, Zenon DEF TransferInv, WaitInv
    <3>3. DOMAIN responses' = {}
      BY <1>5
    <3>4. m[call[x].id].result = "ok"
      BY <1>1, <2>5, <3>1, <3>2, <3>3, Zenon DEF Told
    <3> HIDE DEF m
    <3>5. \/ m[call[x].id] = map[call[x].id]
          \/ \E i \in DOMAIN responses :
               responses[i].id = call[x].id /\ m[call[x].id].result = responses[i].status
      BY <2>4, <3>2, Zenon
    <3> QED BY <3>4, <3>5, Zenon DEF Told
  <2>7. ASSUME ~closed PROVE IdsInv' /\ OwnInv'
    <3>1. IdsInv /\ OwnInv /\ FifoType /\ WaitInv
      BY <2>7, Zenon DEF TransferInv
    <3>2. DOMAIN responses' = {} /\ map' = m
      BY <1>5, <2>7
    <3>3. IdsInv'
      BY <1>1, <2>2, <3>1, <3>2, Zenon DEF IdsInv
    <3>4. \A x \in DOMAIN map : (\E r \in Pending : r.id = x) => map'[x].result = map[x].result
      <4> HIDE DEF m
      <4>1. SUFFICES ASSUME NEW x \in DOMAIN map, NEW r \in Pending, r.id = x
                     PROVE  map'[x].result = map[x].result
        BY Zenon
      <4>2. \A i \in DOMAIN responses : responses[i].id # x
        BY <3>1, <4>1, Zenon DEF IdsInv
      <4> QED BY <2>4, <3>2, <4>2, Zenon
    <3> QED BY <1>1, <2>2, <3>1, <3>3, <3>4, OwnStays, Zenon
  <2> QED BY <1>1, <1>3, <2>3, <2>5, <2>6, <2>7, Zenon DEF TransferInv
<1> QED BY <1>2, <1>4, <1>5, Zenon DEF Poll, WriteFails

\* Two calls that go through temp_vmo are one.
LEMMA OneMemWaits ==
    ASSUME ClientInv, NEW c \in Callers, MemWaits(c), NEW d \in Callers, UsesTemp(d) \/ MemWaits(d)
    PROVE  c = d
  BY Zenon DEF ClientInv, LockInv, UsesTemp, MemWaits

\* The device fails a request.
LEMMA FailsMoves ==
    ASSUME TransferInv, NEW r \in inflight, ~closed, inflight' = inflight \ {r},
           responses' = Append(responses, [id |-> r.id, status |-> "error"]),
           UNCHANGED <<next_request_id, call, map, sent, queue, closed, temp_vmo, done, temp_vmo_id>>
    PROVE  TransferInv'
<1> HIDE DEF Requests
<1>1. /\ IdsInv' /\ Pending' \subseteq Pending
      /\ responses' \in Seq([id : Ids, status : {"ok", "error"}])
      /\ \A n \in DOMAIN responses' :
           \/ n \in DOMAIN responses /\ responses'[n] = responses[n]
           \/ responses'[n] = [id |-> r.id, status |-> "error"]
  BY IdsAnswered, Zenon DEF TransferInv
<1>2. FifoType' /\ CallInv' /\ WaitInv'
  <2>1. inflight' \subseteq Requests
    BY Zenon DEF TransferInv, FifoType
  <2> QED BY <1>1, <2>1, Zenon DEF TransferInv, FifoType, CallInv, WaitInv, Waiting
<1>3. OwnInv'
  BY <1>1, OwnStays, Zenon DEF TransferInv
<1>4. \A n \in DOMAIN responses' : responses'[n].status = "ok" => n \in DOMAIN responses /\ responses'[n] = responses[n]
  BY <1>1
<1>5. \A x \in Callers : (Told(x)' => Told(x)) /\ (MemWaits(x)' => MemWaits(x)) /\ (Moved(x) => Moved(x)')
  <2>1. \A x \in Callers : (MemWaits(x)' => MemWaits(x)) /\ (Moved(x) => Moved(x)')
    BY Zenon DEF MemWaits, Waiting, Moved
  <2>2. \A x \in Callers : Told(x)' => Told(x)
    BY <1>4, Zenon DEF Told
  <2> QED BY <2>1, <2>2, Zenon
<1>6. DataInv'
  BY <1>5, Zenon DEF TransferInv, DataInv
<1> QED BY <1>1, <1>2, <1>3, <1>6, Zenon DEF TransferInv

\* The device moves the data of a request: of the call that waits for it.
LEMMA AnswersMoves ==
    ASSUME ClientInv, TransferInv, NEW r \in inflight, DeviceAnswers(r)
    PROVE  TransferInv'
<1> HIDE DEF Requests
<1> DEFINE moved == [i \in 1..r.count |->
                       IF r.op = "read" THEN device[r.block + i - 1]
                       ELSE IF r.vmo = "temp" THEN temp_vmo[i] ELSE Content(r.from, i)]
<1>1. /\ ~closed /\ inflight' = inflight \ {r}
      /\ UNCHANGED <<next_request_id, call, map, sent, queue, closed, temp_vmo_id>>
  BY Zenon DEF DeviceAnswers, callVars
<1>2. CASE /\ responses' = Append(responses, [id |-> r.id, status |-> "error"])
           /\ UNCHANGED <<temp_vmo, done>>
  BY <1>1, <1>2, FailsMoves, Zenon
<1>3. CASE /\ Valid(r) /\ responses' = Append(responses, [id |-> r.id, status |-> "ok"])
           /\ done' = put(done, r.id, moved)
           /\ temp_vmo' = IF r.op = "read" /\ r.vmo = "temp"
                          THEN [i \in 1..TempBlocks |-> IF i <= r.count THEN moved[i] ELSE temp_vmo[i]]
                          ELSE temp_vmo
  <2>1. /\ IdsInv' /\ Pending' \subseteq Pending /\ r \in Pending
        /\ \A s \in Pending' : s.id # r.id
        /\ responses' \in Seq([id : Ids, status : {"ok", "error"}])
        /\ \A n \in DOMAIN responses' :
             \/ n \in DOMAIN responses /\ responses'[n] = responses[n]
             \/ responses'[n] = [id |-> r.id, status |-> "ok"]
    BY <1>1, <1>3, IdsAnswered, Zenon DEF TransferInv
  <2>2. FifoType' /\ CallInv' /\ WaitInv'
    <3>1. inflight' \subseteq Requests
      BY <1>1, Zenon DEF TransferInv, FifoType
    <3> QED BY <1>1, <2>1, <3>1, Zenon DEF TransferInv, FifoType, CallInv, WaitInv, Waiting
  <2>3. /\ DOMAIN done' = DOMAIN done \cup {r.id} /\ done'[r.id] = moved
        /\ \A i \in DOMAIN done : i # r.id => done'[i] = done[i]
    BY <1>3, Zenon DEF put
  <2>4. r \in Requests /\ r.from \in Callers /\ r.count \in Int
    BY <2>1, PendingType DEF TransferInv, Requests
  <2>5. (r.vmo = "temp" => Awaited(r)) /\ Through(r)
    BY <1>1, <2>1, Zenon DEF TransferInv, OwnInv
  <2>6. \A x \in Callers : MemWaits(x)' <=> MemWaits(x)
    BY <1>1, Zenon DEF MemWaits, Waiting
  <2>7. ASSUME NEW x \in Callers, MemWaits(x), r.vmo = "temp"
        PROVE  x = r.from /\ call[x].id = r.id
    BY <2>4, <2>5, <2>7, OneMemWaits, Zenon DEF Awaited
  <2>8. ASSUME NEW x \in Callers, MemWaits(x), call[x].id # r.id PROVE UNCHANGED temp_vmo
    BY <1>3, <2>7, <2>8, Zenon
  <2>9. OwnInv'
    <3>1. SUFFICES ASSUME NEW s \in Pending'
                   PROVE  (s.vmo = "temp" => Awaited(s)') /\ Through(s)'
      BY Zenon DEF OwnInv
    <3>2. s \in Pending /\ s.id # r.id /\ (s.vmo = "temp" => Awaited(s)) /\ Through(s)
      BY <1>1, <2>1, Zenon DEF TransferInv, OwnInv
    <3>3. s.from \in Callers
      BY <3>2, PendingType DEF TransferInv, Requests
    <3>4. Through(s)'
      BY <1>1, <2>6, <3>2, Zenon DEF Through
    <3>5. ASSUME Awaited(s) PROVE Awaited(s)'
      <4>1. MemWaits(s.from) /\ call[s.from].id = s.id
        BY <3>5, Zenon DEF Awaited
      <4>2. UNCHANGED temp_vmo
        BY <2>8, <3>2, <3>3, <4>1, Zenon
      <4>3. Stored(s) => Stored(s)'
        BY <4>2, Zenon DEF Stored
      <4> QED BY <1>1, <2>6, <3>3, <3>5, <4>3, Zenon DEF Awaited
    <3> QED BY <3>2, <3>4, <3>5, Zenon
  <2>10. DataInv'
    <3>1. SUFFICES ASSUME NEW x \in Callers, MemWaits(x), Told(x)' PROVE Moved(x)'
      BY <2>6, Zenon DEF DataInv
    <3>2. CASE call[x].id # r.id
      <4>1. Told(x)
        <5>1. \A n \in DOMAIN responses' : responses'[n].id = call[x].id =>
                n \in DOMAIN responses /\ responses'[n] = responses[n]
          BY <2>1, <3>2
        <5> QED BY <1>1, <3>1, <5>1, Zenon DEF Told
      <4>2. Moved(x)
        BY <3>1, <4>1, Zenon DEF TransferInv, DataInv
      <4> QED BY <1>1, <2>3, <2>8, <3>1, <3>2, <4>2, Zenon DEF Moved
    <3>3. CASE call[x].id = r.id
      <4>1. r.vmo \in {"temp", Invalid} /\ r.op \in {"read", "write"}
        BY <2>5, <3>1, <3>3, Zenon DEF Through
      <4>2. r.vmo = "temp"
        BY <1>3, <4>1, Zenon DEF Valid
      <4>3. x = r.from /\ Awaited(r)
        BY <2>5, <2>7, <3>1, <4>2, Zenon
      <4>4. call[x].op = r.op /\ call[x].at = r.at /\ r.count <= TempBlocks
        BY <4>3, Zenon DEF Awaited
      <4>5. \A i \in 1..r.count : moved[i] = IF r.op = "write" THEN Content(x, r.at + i) ELSE temp_vmo'[i]
        <5>1. CASE r.op = "write"
          <6>1. \A i \in 1..r.count : temp_vmo[i] = Content(x, r.at + i)
            BY <4>3, <5>1, Zenon DEF Awaited, Stored
          <6>2. \A i \in 1..r.count : moved[i] = temp_vmo[i]
            BY <4>2, <5>1
          <6> QED BY <5>1, <6>1, <6>2, Zenon
        <5>2. CASE r.op = "read"
          <6> HIDE DEF moved
          <6>1. temp_vmo' = [i \in 1..TempBlocks |-> IF i <= r.count THEN moved[i] ELSE temp_vmo[i]]
            BY <1>3, <4>2, <5>2, Zenon
          <6>2. TempBlocks \in Int
            BY BlockClientAssumption DEF TempBlocks
          <6>3. \A i \in 1..r.count : i \in 1..TempBlocks /\ i <= r.count
            BY <2>4, <4>4, <6>2
          <6>4. \A i \in 1..r.count : temp_vmo'[i] = moved[i]
            BY <6>1, <6>3, Zenon
          <6> QED BY <5>2, <6>4
        <5> QED BY <4>1, <5>1, <5>2, Zenon
      <4>6. DOMAIN moved = 1..r.count
        BY Zenon
      <4> HIDE DEF moved
      <4> QED BY <1>1, <2>3, <3>3, <4>4, <4>5, <4>6, Zenon DEF Moved
    <3> QED BY <3>2, <3>3, Zenon
  <2> QED BY <2>1, <2>2, <2>9, <2>10, Zenon DEF TransferInv
<1> QED BY <1>2, <1>3, Zenon DEF DeviceAnswers

\* What it means that c waits for request r, which is new in the queue or the fifo.
Enqueued(c, r) ==
    /\ \A x \in Callers \ {c} : call'[x] = call[x]
    /\ Waiting(c)' /\ call'[c].id = next_request_id /\ call'[c].at = call[c].at
    /\ call'[c].offset = call[c].offset /\ call'[c].len = call[c].len
    /\ call'[c].mem = call[c].mem /\ call'[c].op = call[c].op
    /\ Places' = Append(Places, r)
    /\ FifoType' /\ DOMAIN map' = DOMAIN map \cup {next_request_id}
    /\ map'[next_request_id].result # "ok"
    /\ \A x \in DOMAIN map \ {next_request_id} : map'[x].result = "ok" => map[x].result = "ok"
    /\ ~closed => /\ map'[next_request_id].result = None
                  /\ \A x \in DOMAIN map \ {next_request_id} : map'[x] = map[x]

\* send, as far as the fifo, the map and the calls go.
LEMMA SendDoes ==
    ASSUME ClientInv, FifoType, NEW c \in Callers, call[c] # Idle, NEW op, NEW vmo, NEW block, NEW count,
           BlockFifoRequest(c, op, vmo, block, count, next_request_id) \in Requests,
           send(c, op, vmo, block, count), UNCHANGED <<inflight, responses, temp_vmo_id>>
    PROVE  \/ return(c) /\ UNCHANGED <<next_request_id, map, sent, queue>>
           \/ Enqueued(c, BlockFifoRequest(c, op, vmo, block, count, next_request_id))
<1> HIDE DEF Requests
<1> DEFINE id == next_request_id
           r == BlockFifoRequest(c, op, vmo, block, count, id)
           m == put(map, id, [result |-> None, waker |-> FALSE])
           q == Append(queue, r)
<1>1. CASE ~connected /\ return(c) /\ UNCHANGED <<fifoVars, sent>>
  BY <1>1, Zenon DEF fifoVars
<1>2. CASE /\ next_request_id' = (id + 1) % RequestIds
           /\ \/ WriteFails(q) /\ terminate(m, awake \cup {c}, PollerWoken) /\ queue' = q /\ UNCHANGED sent
              \/ /\ map' = m
                 /\ poll_send_requests(q) \/ (queue' = q /\ UNCHANGED sent)
           /\ call' = [call EXCEPT ![c].pc = "waiting", ![c].id = id]
  <2>1. IsCall(call[c])
    BY Zenon DEF ClientInv, ClientType
  <2>2. /\ \A x \in Callers \ {c} : call'[x] = call[x]
        /\ call'[c] = [call[c] EXCEPT !.pc = "waiting", !.id = id]
    BY <1>2, Zenon DEF ClientInv, ClientType
  <2>3. /\ Waiting(c)' /\ call'[c].id = id /\ call'[c].at = call[c].at
        /\ call'[c].offset = call[c].offset /\ call'[c].len = call[c].len
        /\ call'[c].mem = call[c].mem /\ call'[c].op = call[c].op
    BY <2>1, <2>2, Zenon DEF IsCall, Waiting
  <2>4. q \in Seq(Requests)
    BY AppendProperties DEF FifoType
  <2>5. next_request_id' \in Ids
    BY <1>2, IdsWrap, Zenon DEF FifoType
  <2> HIDE DEF r
  <2>6. /\ sent' \in Seq(Requests) /\ queue' \in Seq(Requests) /\ Len(sent') <= FifoDepth
        /\ sent' \o queue' = sent \o q
    <3> HIDE DEF q
    <3> QED BY <1>2, <2>4, SendsInOrder, Zenon DEF FifoType
  <2>7. Places' = Append(Places, r)
    BY <2>6, PlacesAppend, Zenon DEF Places, FifoType, r
  <2>8. FifoType'
    BY <2>5, <2>6, Zenon DEF FifoType
  <2>9. /\ DOMAIN m = DOMAIN map \cup {id} /\ m[id].result = None
        /\ \A x \in DOMAIN map \ {id} : m[x] = map[x]
    BY Zenon DEF put
  <2> HIDE DEF m
  <2>10. /\ DOMAIN map' = DOMAIN m /\ \A x \in DOMAIN m : map'[x].result = "ok" => m[x].result = "ok"
         /\ ~closed => map' = m
    BY <1>2, TerminateTells, Zenon DEF WriteFails
  <2>11. map'[id].result # "ok"
    BY <2>9, <2>10 DEF None
  <2>12. Enqueued(c, r)
    BY <2>2, <2>3, <2>7, <2>8, <2>9, <2>10, <2>11, Zenon DEF Enqueued
  <2> QED BY <2>12, Zenon DEF r
<1> QED BY <1>1, <1>2, Zenon DEF send

\* A request is sent: with a fresh id, and with temp_vmo if it goes through it.
LEMMA SendMoves ==
    ASSUME ClientInv, TransferInv, NextIdIsFree, NEW c \in Callers, ~Waiting(c), call[c] # Idle,
           NEW op, NEW vmo, NEW block, NEW count,
           BlockFifoRequest(c, op, vmo, block, count, next_request_id) \in Requests,
           send(c, op, vmo, block, count), UNCHANGED <<inflight, responses, closed, done, temp_vmo_id>>,
           UNCHANGED temp_vmo \/ UsesTemp(c),
           call[c].mem => vmo \in {"temp", Invalid} /\ op \in {"read", "write"} /\ op = call[c].op
                            /\ count <= TempBlocks,
           vmo = "temp" => /\ call[c].mem
                           /\ op = "write" => \A i \in 1..count : temp_vmo'[i] = Content(c, call[c].at + i)
    PROVE  TransferInv'
<1> HIDE DEF Requests
<1> DEFINE id == next_request_id
<1>4. PICK r \in Requests : r = BlockFifoRequest(c, op, vmo, block, count, id)
  BY Zenon
<1>1. \A x \in Callers : MemWaits(x) => x # c /\ UNCHANGED temp_vmo
  <2>1. \A x \in Callers : MemWaits(x) => x # c
    BY Zenon DEF MemWaits
  <2> QED BY <2>1, OneMemWaits, Zenon
<1>2. CASE return(c) /\ UNCHANGED <<next_request_id, map, sent, queue>>
  BY <1>1, <1>2, ReturnMoves, Zenon
<1>3. CASE Enqueued(c, r)
  <2>1. /\ r.op = op /\ r.vmo = vmo /\ r.count = count /\ r.id = id /\ r.from = c /\ r.at = call[c].at
        /\ r \in Requests
    BY <1>4 DEF BlockFifoRequest
  <2>2. id \notin DOMAIN map
    BY Zenon DEF NextIdIsFree
  <2>9. \A x \in Callers : x # c => call'[x] = call[x]
    BY <1>3, Zenon DEF Enqueued
  <2>10. Waiting(c)' /\ call'[c].id = id
    BY <1>3, Zenon DEF Enqueued
  <2>11. call'[c].at = call[c].at /\ call'[c].mem = call[c].mem /\ call'[c].op = call[c].op
    BY <1>3, Zenon DEF Enqueued
  <2>3. CallInv'
    <3>1. call'[c].at \in Int
      BY <1>3, Zenon DEF Enqueued, TransferInv, CallInv
    <3> QED BY <1>3, <3>1, CallInvStays, Zenon DEF Enqueued, TransferInv
  <2>4. \A x \in Callers : x # c => (Waiting(x)' <=> Waiting(x)) /\ (MemWaits(x)' <=> MemWaits(x))
    BY <2>9, Zenon DEF Waiting, MemWaits
  <2>5. \A x \in Callers : Waiting(x) => call[x].id \in DOMAIN map /\ call[x].id # id
    BY <2>2, Zenon DEF TransferInv, WaitInv
  <2>6. WaitInv'
    <3>1. \A x \in Callers : Waiting(x)' => call'[x].id \in DOMAIN map'
      BY <1>3, <2>4, <2>5, Zenon DEF Enqueued
    <3>2. ASSUME NEW x \in Callers, NEW y \in Callers, Waiting(x)', Waiting(y)', call'[x].id = call'[y].id
          PROVE  x = y
      <4>1. CASE x # c /\ y # c
        BY <2>4, <2>9, <3>2, <4>1, Zenon DEF TransferInv, WaitInv
      <4>2. CASE x = c \/ y = c
        BY <2>4, <2>5, <2>9, <2>10, <3>2, <4>2, Zenon
      <4> QED BY <4>1, <4>2, Zenon
    <3> QED BY <3>1, <3>2, Zenon DEF WaitInv
  <2>7. DataInv'
    <3>1. SUFFICES ASSUME NEW x \in Callers, MemWaits(x)', Told(x)' PROVE Moved(x)'
      BY Zenon DEF DataInv
    <3>2. x # c
      BY <1>3, <3>1, Zenon DEF Enqueued, Told, NextIdIsFree
    <3>3. MemWaits(x) /\ Waiting(x) /\ call'[x] = call[x] /\ UNCHANGED temp_vmo
      BY <1>1, <1>3, <2>4, <3>1, <3>2, Zenon DEF Enqueued, MemWaits
    <3>4. Told(x)
      <4>1. call[x].id \in DOMAIN map \ {id}
        BY <2>5, <3>3, Zenon
      <4>2. map'[call[x].id].result = "ok" => map[call[x].id].result = "ok"
        BY <1>3, <4>1, Zenon DEF Enqueued
      <4> QED BY <3>1, <3>3, <4>2, Zenon DEF Told
    <3>5. Moved(x)
      BY <3>3, <3>4, Zenon DEF TransferInv, DataInv
    <3> QED BY <3>3, <3>5, Zenon DEF Moved
  <2>8. ASSUME ~closed PROVE IdsInv' /\ OwnInv'
    <3>1. IdsInv /\ OwnInv /\ FifoType /\ map'[id].result = None
          /\ \A x \in DOMAIN map \ {id} : map'[x] = map[x]
      BY <1>3, <2>8, Zenon DEF Enqueued, TransferInv
    <3>2. IdsInv' /\ Pending' = Pending \cup {r}
      BY <1>3, <2>1, <3>1, IdsAdded, Zenon DEF Enqueued
    <3>3. ASSUME NEW s \in Pending PROVE (s.vmo = "temp" => Awaited(s)') /\ Through(s)'
      <4>1. s.from \in Callers /\ s.id # id /\ (s.vmo = "temp" => Awaited(s)) /\ Through(s)
        BY <3>1, PendingType DEF OwnInv, NextIdIsFree, Requests
      <4>2. Through(s)'
        BY <1>3, <2>4, <4>1, Zenon DEF Enqueued, Through
      <4>3. ASSUME Awaited(s) PROVE Awaited(s)'
        <5>1. MemWaits(s.from) /\ call[s.from].id = s.id /\ s.from # c /\ UNCHANGED temp_vmo
          BY <1>1, <4>1, <4>3, Zenon DEF Awaited
        <5>2. call'[s.from] = call[s.from] /\ map'[s.id] = map[s.id] /\ MemWaits(s.from)'
          BY <2>4, <2>5, <2>9, <3>1, <4>1, <5>1, Zenon DEF MemWaits
        <5>3. Stored(s) => Stored(s)'
          BY <5>1, Zenon DEF Stored
        <5> QED BY <4>3, <5>2, <5>3, Zenon DEF Awaited
      <4> QED BY <4>1, <4>2, <4>3, Zenon
    <3>4. r.vmo = "temp" => Awaited(r)'
      <4>1. SUFFICES ASSUME r.vmo = "temp" PROVE Awaited(r)'
        BY Zenon
      <4>2. MemWaits(c)'
        BY <2>1, <2>10, <2>11, <4>1, Zenon DEF MemWaits
      <4>3. r.op = "write" => Stored(r)'
        BY <2>1, <4>1, Zenon DEF Stored
      <4>4. call[c].op = r.op /\ r.count <= TempBlocks
        BY <2>1, <4>1, Zenon
      <4> QED BY <2>1, <2>10, <2>11, <3>1, <4>2, <4>3, <4>4, Zenon DEF Awaited
    <3>5. Through(r)'
      <4>1. SUFFICES ASSUME NEW x \in Callers, MemWaits(x)', call'[x].id = id
                     PROVE  r.vmo \in {"temp", Invalid} /\ r.op \in {"read", "write"}
        BY <2>1, Zenon DEF Through
      <4>2. x = c /\ call[c].mem
        BY <2>4, <2>5, <2>9, <2>10, <2>11, <4>1, Zenon DEF MemWaits
      <4> QED BY <2>1, <4>2, Zenon
    <3> QED BY <3>2, <3>3, <3>4, <3>5, Zenon DEF OwnInv
  <2> QED BY <1>3, <2>3, <2>6, <2>7, <2>8, Zenon DEF Enqueued, TransferInv
<1>5. FifoType
  BY Zenon DEF TransferInv
<1>6. (return(c) /\ UNCHANGED <<next_request_id, map, sent, queue>>) \/ Enqueued(c, r)
  BY <1>4, <1>5, SendDoes, Zenon
<1> QED BY <1>2, <1>3, <1>6, Zenon

\* A call with a VMO of its own, flush and detach_vmo.
LEMMA SendVmoMoves ==
    ASSUME ClientInv, TransferInv, NextIdIsFree, NEW c \in Callers, SendVmo(c)
    PROVE  TransferInv'
<1>1. /\ call[c] # Idle /\ ~Waiting(c) /\ ~call[c].mem
      /\ UNCHANGED <<temp_vmo_id, inflight, responses, closed, done, temp_vmo>>
  <2>1. call[c].pc = "sending" /\ ~call[c].mem
    BY Zenon DEF SendVmo, ClientInv, LockInv
  <2> QED BY <2>1 DEF SendVmo, Waiting, Idle, deviceVars
<1>2. call[c].at \in Int /\ call[c].offset \in Int /\ call[c].len \in Int /\ next_request_id \in Ids
  BY <1>1, Zenon DEF TransferInv, CallInv, FifoType
<1>3. CASE return(c) /\ UNCHANGED <<fifoVars, sent>>
  BY <1>1, <1>3, ReturnMoves, Zenon DEF fifoVars
<1>4. ASSUME NEW op \in {"read", "write", "flush", "close_vmo"}, NEW vmo \in {"own", Invalid},
             NEW block \in Int, NEW count \in Int, send(c, op, vmo, block, count)
      PROVE  TransferInv'
  <2>1. BlockFifoRequest(c, op, vmo, block, count, next_request_id) \in Requests
    BY <1>2 DEF Requests, BlockFifoRequest
  <2>2. vmo # "temp"
    BY DEF Invalid
  <2> QED BY <1>1, <1>4, <2>1, <2>2, SendMoves, Zenon
<1>5. CASE /\ call[c].op \in {"read", "write"}
           /\ send(c, call[c].op, "own", to_blocks(call[c].offset), to_blocks(call[c].len))
  <2>1. to_blocks(call[c].offset) \in Int /\ to_blocks(call[c].len) \in Int
    BY <1>2, BlockClientAssumption DEF to_blocks
  <2> QED BY <1>4, <1>5, <2>1, Zenon
<1>6. CASE flush(c) \/ detach_vmo(c)
  <2>1. 0 \in Int
    OBVIOUS
  <2> QED BY <1>4, <1>6, <2>1, Zenon DEF flush, detach_vmo
<1> QED BY <1>3, <1>5, <1>6, Zenon DEF SendVmo

\* A turn of the loop of a call with a slice of memory.
LEMMA SendMemoryMoves ==
    ASSUME ClientInv, TransferInv, NextIdIsFree, NEW c \in Callers, SendMemory(c), call[c].mem
    PROVE  TransferInv'
<1> DEFINE k == call[c]
           n == to_blocks(to_do(k))
           block == to_blocks(k.offset) + k.at
<1>1. /\ k # Idle /\ ~Waiting(c) /\ UsesTemp(c)
      /\ UNCHANGED <<temp_vmo_id, inflight, responses, closed, done>>
  BY DEF SendMemory, Waiting, Idle, UsesTemp, deviceVars
<1>2. /\ k.at \in Int /\ k.offset \in Int /\ k.len \in Int /\ k.op \in {"read", "write"}
      /\ next_request_id \in Ids /\ temp_vmo_id \in {"temp", Invalid}
  BY <1>1, Zenon DEF TransferInv, CallInv, FifoType
<1>3. CASE return(c) /\ UNCHANGED <<fifoVars, sent, temp_vmo>>
  BY <1>1, <1>3, ReturnMoves, Zenon DEF fifoVars
<1>4. CASE /\ temp_vmo' = [i \in 1..TempBlocks |->
                IF k.op = "write" /\ i <= n THEN Content(c, k.at + i) ELSE temp_vmo[i]]
           /\ send(c, k.op, temp_vmo_id, block, n)
  <2>1. n \in Int /\ n <= TempBlocks /\ TempBlocks \in Int
    BY <1>2, BlocksFit, Zenon
  <2>2. block \in Int
    BY <1>2, BlockClientAssumption DEF to_blocks
  <2> HIDE DEF n, block
  <2>3. BlockFifoRequest(c, k.op, temp_vmo_id, block, n, next_request_id) \in Requests
    BY <1>2, <2>1, <2>2 DEF Requests, BlockFifoRequest
  <2>4. \A i \in 1..n : i \in 1..TempBlocks /\ i <= n
    BY <2>1
  <2>5. k.op = "write" => \A i \in 1..n : temp_vmo'[i] = Content(c, k.at + i)
    BY <1>4, <2>4, Zenon
  <2> QED BY <1>1, <1>2, <1>4, <2>1, <2>3, <2>5, SendMoves, Zenon
<1> QED BY <1>3, <1>4, Zenon DEF SendMemory

\* Only calls with a slice of memory wait for the lock or copy.
MemInv == \A c \in Callers : call[c].pc \in {"locking", "copying"} => call[c].mem

\* A call leaves "locking" and "copying" only for each other, for waiting, or back.
LEMMA MemKeeps ==
    ASSUME ClientInv, MemInv, Next
    PROVE  MemInv'
<1>1. ASSUME NEW c \in Callers, \A x \in Callers \ {c} : call'[x] = call[x],
             call'[c].pc \in {"locking", "copying"} => call'[c].mem
      PROVE  MemInv'
  BY <1>1, Zenon DEF MemInv
<1>2. ASSUME NEW c \in Callers, return(c) PROVE MemInv'
  <2>1. call'[c].pc \notin {"locking", "copying"}
    BY <1>2, ReturnDoes DEF Idle
  <2> QED BY <1>1, <1>2, <2>1, ReturnDoes, Zenon
<1>3. CASE UNCHANGED call
  BY <1>3, Zenon DEF MemInv
<1>4. ASSUME NEW c \in Callers, NEW k \in Calls[c], Call(c, k) PROVE MemInv'
  <2>1. /\ \A x \in Callers \ {c} : call'[x] = call[x]
        /\ call'[c] = [op |-> k.op, mem |-> k.mem, offset |-> k.offset, len |-> k.len, at |-> 0, id |-> 0,
                       pc |-> IF k.op = "close" THEN "closing"
                              ELSE IF k.mem THEN "locking" ELSE "sending"]
    BY <1>4, Zenon DEF ClientInv, ClientType, Call
  <2>2. call'[c].pc \in {"locking", "copying"} => call'[c].mem
    BY <2>1
  <2> QED BY <1>1, <2>1, <2>2, Zenon
<1>5. ASSUME NEW c \in Callers, call[c] # Idle, NEW s, call' = [call EXCEPT ![c].pc = s],
             call[c].pc = "locking"
      PROVE  MemInv'
  <2>1. IsCall(call[c]) /\ call[c].mem
    BY <1>5, Zenon DEF ClientInv, ClientType, MemInv
  <2>2. /\ \A x \in Callers \ {c} : call'[x] = call[x]
        /\ call'[c] = [call[c] EXCEPT !.pc = s]
    BY <1>5, Zenon DEF ClientInv, ClientType
  <2>3. call'[c].mem
    BY <2>1, <2>2, Zenon DEF IsCall
  <2> QED BY <1>1, <2>2, <2>3, Zenon
<1>6. ASSUME NEW c \in Callers, Lock(c) PROVE MemInv'
  <2>1. call[c] # Idle
    BY <1>6 DEF Lock, Idle
  <2> QED BY <1>5, <1>6, <2>1, Zenon DEF Lock
<1>7. ASSUME NEW c \in Callers, NEW id, call[c] # Idle,
             call' = [call EXCEPT ![c].pc = "waiting", ![c].id = id]
      PROVE  MemInv'
  <2>1. /\ \A x \in Callers \ {c} : call'[x] = call[x]
        /\ call'[c] = [call[c] EXCEPT !.pc = "waiting", !.id = id]
    BY <1>7, Zenon DEF ClientInv, ClientType
  <2>2. IsCall(call[c])
    BY <1>7, Zenon DEF ClientInv, ClientType
  <2>3. call'[c].pc = "waiting"
    BY <2>1, <2>2, Zenon DEF IsCall
  <2>4. call'[c].pc \notin {"locking", "copying"}
    BY <2>3
  <2> QED BY <1>1, <2>1, <2>4, Zenon
<1>8. ASSUME NEW c \in Callers, NEW op, NEW vmo, NEW block, NEW count, call[c] # Idle,
             send(c, op, vmo, block, count)
      PROVE  MemInv'
  BY <1>2, <1>7, <1>8, Zenon DEF send
<1>9. ASSUME NEW c \in Callers, SendVmo(c) \/ SendMemory(c) PROVE MemInv'
  <2>1. call[c] # Idle
    BY <1>9 DEF SendVmo, SendMemory, Idle
  <2> QED BY <1>2, <1>8, <1>9, <2>1, Zenon DEF SendVmo, SendMemory, flush, detach_vmo
<1>10. ASSUME NEW c \in Callers, PollResponse(c) PROVE MemInv'
  <2> DEFINE n == to_blocks(to_do(call[c]))
  <2>1. CASE call[c].mem /\ call' = [call EXCEPT ![c].pc = "copying", ![c].at = @ + n]
    <3> HIDE DEF n
    <3>1. /\ \A x \in Callers \ {c} : call'[x] = call[x]
          /\ call'[c] = [call[c] EXCEPT !.pc = "copying", !.at = @ + n]
      BY <2>1, Zenon DEF ClientInv, ClientType
    <3>2. call[c] # Idle
      BY <1>10 DEF PollResponse, Waiting, Idle
    <3>3. IsCall(call[c])
      BY <3>2, Zenon DEF ClientInv, ClientType
    <3>4. call'[c].mem = call[c].mem
      BY <3>1, <3>3, Zenon DEF IsCall
    <3> QED BY <1>1, <2>1, <3>1, <3>4, Zenon
  <2> QED BY <1>2, <1>3, <1>10, <2>1, Zenon DEF PollResponse
<1>11. ASSUME NEW c \in Callers, DropCall(c) \/ CloseFifo(c) PROVE MemInv'
  BY <1>2, <1>11, Zenon DEF DropCall, CloseFifo
<1>12. CASE DropClient \/ Poll \/ DeviceTakes \/ DeviceCloses \/ \E r \in inflight : DeviceAnswers(r)
  BY <1>3, <1>12, Zenon DEF DropClient, Poll, DeviceTakes, DeviceCloses, DeviceAnswers, callVars
<1> QED BY <1>4, <1>6, <1>9, <1>10, <1>11, <1>12, Zenon DEF Next, CallStep

-----------------------------------------------------------------------------

\* TransferInv is inductive as long as the ids of requests do not run into each other.
LEMMA TransferKeeps ==
    ASSUME NoneCancelled, ClientInv, MemInv, TransferInv, NextIdIsFree, [Next]_vars
    PROVE  TransferInv'
<1>1. ASSUME NEW c \in Callers, SendMemory(c) PROVE call[c].mem
  BY <1>1 DEF MemInv, SendMemory
<1>2. ASSUME NEW c \in Callers, (\E k \in Calls[c] : Call(c, k)) \/ CallStep(c) \/ DropCall(c)
      PROVE  TransferInv'
  BY <1>1, <1>2, CallMoves, SendVmoMoves, LockMoves, SendMemoryMoves, PollResponseMoves, CloseFifoMoves,
     DropCallMoves, Zenon DEF CallStep
<1>3. CASE UNCHANGED vars
  <2>1. UNCHANGED <<next_request_id, call, map, sent, queue, inflight, responses, closed, temp_vmo, done, temp_vmo_id>>
    BY <1>3, Zenon DEF vars, fifoVars, callVars, deviceVars
  <2>2. WaitInv' /\ DataInv' /\ FifoType' /\ CallInv'
    BY <2>1, DataStays, Zenon DEF TransferInv, FifoType, CallInv
  <2>3. ASSUME ~closed PROVE IdsInv' /\ OwnInv'
    BY <2>1, <2>3, IdsStay, OwnStays, Zenon DEF TransferInv
  <2> QED BY <2>1, <2>2, <2>3, Zenon DEF TransferInv
<1> QED BY <1>2, <1>3, DropClientMoves, PollMoves, DeviceTakesMoves, DeviceClosesMoves, AnswersMoves,
        Zenon DEF Next

\* At first nothing is sent and nobody waits.
LEMMA TransferInit ==
    ASSUME Init
    PROVE  TransferInv /\ MemInv
<1>1. \A c \in Callers : call[c] = Idle /\ ~Waiting(c)
  BY DEF Init, Waiting, Idle
<1>2. CallInv /\ WaitInv /\ DataInv
  BY <1>1, Zenon DEF CallInv, WaitInv, DataInv, MemWaits
<1>3. MemInv
  BY <1>1 DEF MemInv, Idle
<1>4. FifoType
  <2>1. next_request_id \in Ids /\ 0 <= FifoDepth
    BY BlockClientAssumption DEF Init, Ids
  <2>2. <<>> \in Seq(Requests) /\ <<>> \in Seq([id : Ids, status : {"ok", "error"}]) /\ Len(<<>>) = 0
    BY EmptySeq
  <2> QED BY <2>1, <2>2 DEF Init, FifoType
<1>5. DOMAIN Places = {} /\ inflight = {} /\ Pending = {} /\ DOMAIN responses = {}
  <2>1. Places = <<>> /\ inflight = {} /\ responses = <<>>
    BY EmptySeq, ConcatEmptySeq DEF Init, Places
  <2> QED BY <2>1 DEF Pending, Range
<1>6. IdsInv /\ OwnInv
  BY <1>5, Zenon DEF IdsInv, OwnInv
<1> QED BY <1>2, <1>3, <1>4, <1>6, Zenon DEF TransferInv

\* A call with a slice of memory that is told that its request succeeded has had
\* its own data moved through temp_vmo (Common::read_at and write_at), whatever
\* the device does and whichever other calls are dropped at their awaits, as long
\* as calls with slices are not, and a new request gets an id that no request has.
THEOREM DataOfOwnCall ==
    ASSUME NoneCancelled
    PROVE  Spec /\ []NextIdIsFree => []DataIsOwn
<1>1. Init => TransferInv /\ MemInv
  BY TransferInit, Zenon
<1>2. ClientInv /\ MemInv /\ TransferInv /\ NextIdIsFree /\ [Next]_vars => MemInv' /\ TransferInv'
  <2> SUFFICES ASSUME ClientInv, MemInv, TransferInv, NextIdIsFree, [Next]_vars
               PROVE  MemInv' /\ TransferInv'
    BY Zenon
  <2>1. UNCHANGED vars => MemInv'
    BY Zenon DEF MemInv, vars, callVars
  <2> QED BY <2>1, MemKeeps, TransferKeeps, Zenon
<1>3. TransferInv => DataIsOwn
  BY Zenon DEF TransferInv, DataInv, DataIsOwn, MemWaits, Told, Moved
<1> QED BY <1>1, <1>2, <1>3, ClientInvariant, PTL DEF Spec

=============================================================================
