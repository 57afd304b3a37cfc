---------------------------- MODULE FilesProofs ----------------------------
(***************************************************************************)
(* Proofs about Files: what a connection owes the file it opened and the   *)
(* scope that runs it, for any number of connections and callers of wait().*)
(***************************************************************************)
EXTENDS Files, FiniteSetTheorems, TLAPS

VmoStates ==
    {v \in [state : {"Initialized"}, capacity : Nat, resizable : BOOLEAN, size : Nat,
            vmo_size : Nat, connection_count : Int, declared : Nat] :
        v.size <= v.declared /\ v.capacity <= v.declared}

\* A number that is no i64 only as far as `limit` allows.
Fits(n, limit) == n \in Nat /\ (n \in i64 \/ n <= limit)

Declared == IF Initialized THEN vmo.declared ELSE 0

Typed ==
    /\ running \subseteq Tasks
    /\ waiters \subseteq Waiters
    /\ waited \subseteq Waiters
    /\ phase \in [Conns -> Phases]
    /\ flags = [c \in Conns |-> flags[c]]
    /\ seek = [c \in Conns |-> seek[c]]
    /\ open_file_held \in [Conns -> BOOLEAN]
    /\ closes \in [Conns -> Nat]
    /\ awaited \in [Waiters -> SUBSET Conns]
    /\ kind \in Kinds

\* Who is to close the file of c: its own task while it runs, by the request
\* Close or when it drops the connection, later the task that Drop spawned.
CloseIsOwed(c) ==
    /\ phase[c] \in {"unused", "start", "closing"} => ~open_file_held[c]
    /\ phase[c] \in {"opening", "truncating", "serving"} => open_file_held[c]
    /\ phase[c] = "unused" => c \notin running
    /\ phase[c] \notin {"unused", "ended"} => c \in running
    /\ phase[c] # "ended" => CloseTask(c) \notin running
    /\ phase[c] \notin {"dropping", "ended"} => closes[c] = 0
    /\ phase[c] = "dropping" => closes[c] = IF open_file_held[c] THEN 0 ELSE 1
    /\ phase[c] = "ended" => closes[c] = IF CloseTask(c) \in running THEN 0 ELSE 1
    /\ phase[c] \notin {"locking", "initializing", "describing", "hosted"}

\* A caller of wait() is told only when what it waits for is closed.
WaitIsKept ==
    /\ \A w \in waiters \cup waited : awaited[w] \subseteq Alive
    /\ \A w \in waited : \A c \in awaited[w] : closes[c] = 1

FileInv == kind = "file" => WaitIsKept /\ \A c \in Conns : CloseIsOwed(c)

\* The mutex is held across init_vmo and nowhere else, so the connections that
\* were counted were counted after it.
LockIsOwn ==
    /\ state_lock \in Conns \cup {NoConn}
    /\ \A c \in Conns : phase[c] = "initializing" <=> state_lock = c
    /\ state_lock # NoConn => ~Initialized

VmoInv ==
    /\ kind # "vmo" => vmo = Uninitialized
    /\ kind = "vmo" =>
        /\ LockIsOwn
        /\ vmo = Uninitialized \/ vmo \in VmoStates
        /\ ~Initialized => Counted = {}
        /\ Initialized => vmo.connection_count >= Cardinality(Counted)
        /\ \A c \in Conns : Fits(seek[c], Declared)

\* A node without a service behind it was asked for as a node, or is the clone of one.
ServiceInv ==
    kind = "service" => \A c \in Conns :
        /\ phase[c] = "start" => Has(c, "NODE_REFERENCE")
        /\ Serving(c) => Has(c, "NODE_REFERENCE") /\ flags[c] \cap FS_RIGHTS = {}
        /\ phase[c] = "hosted" => Has(c, "RIGHT_READABLE") /\ ~Has(c, "NODE_REFERENCE")

Inv == Typed /\ FileInv /\ VmoInv /\ ServiceInv

-----------------------------------------------------------------------------
(***************************************************************************)
(* Connections to an implementation of File.                               *)
(***************************************************************************)

\* What a caller of wait() was promised survives a step that tells no caller.
LEMMA NobodyTold ==
    ASSUME Typed, WaitIsKept, UNCHANGED <<waiters, waited, awaited>>,
           \A c \in Conns : phase[c] # "unused" => phase'[c] # "unused",
           \A c \in Conns : closes[c] = 1 => closes'[c] = 1
    PROVE  WaitIsKept'
  BY Zenon DEF Typed, WaitIsKept, Alive

\* The last task to leave the scope leaves no file open behind it.
LEMMA LastOneTells ==
    ASSUME Typed, WaitIsKept, UNCHANGED awaited, NEW t \in Tasks, task_did_finish(t), phase' = phase,
           \A c \in Conns : closes[c] = 1 => closes'[c] = 1,
           \A c \in Conns : CloseIsOwed(c)'
    PROVE  WaitIsKept'
  <1>1. CASE running' = {}
    <2>1. ASSUME NEW c \in Conns, phase[c] # "unused" PROVE closes'[c] = 1
      BY <1>1, <2>1, Zenon DEF CloseIsOwed
    <2>. QED  BY <1>1, <2>1, Zenon DEF Typed, WaitIsKept, Alive, task_did_finish
  <1>2. CASE running' # {}
    BY <1>2, NobodyTold, Zenon DEF task_did_finish
  <1>. QED  BY <1>1, <1>2, Zenon

FileConnsInv == Typed /\ kind = "file" /\ WaitIsKept /\ \A c \in Conns : CloseIsOwed(c)

\* The phases in which a task runs, with what they say of OpenFile::file and of
\* the calls of File::close.
Settled(p, held, n) ==
    \/ p \in {"opening", "truncating", "serving"} /\ held = TRUE /\ n = 0
    \/ p = "closing" /\ held = FALSE /\ n = 0
    \/ p = "dropping" /\ held = TRUE /\ n = 0
    \/ p = "dropping" /\ held = FALSE /\ n = 1

\* Their types.
LEMMA SettledTypes ==
    ASSUME NEW p, NEW held, NEW n, Settled(p, held, n)
    PROVE  p \in Phases /\ held \in BOOLEAN /\ n \in Nat
  <1>1. p \in Phases
    BY Zenon DEF Settled, Phases
  <1>2. held \in BOOLEAN
    BY Zenon DEF Settled
  <1>3. n \in Nat
    BY DEF Settled
  <1>. QED  BY <1>1, <1>2, <1>3, Zenon

\* A step of the running task of c to the phase p that keeps the slab as it is.
Moves(c, p, held, n) ==
    /\ phase[c] \notin {"unused", "ended"} /\ closes[c] = 0
    /\ goto(c, p) /\ UNCHANGED <<scopeVars, kind, awaited>>
    /\ open_file_held' = [open_file_held EXCEPT ![c] = held]
    /\ closes' = [closes EXCEPT ![c] = n]
    /\ flags' = [d \in Conns |-> flags'[d]] /\ seek' = [d \in Conns |-> seek'[d]]

\* The phases of the others stay, and who closes the file of c is still settled.
LEMMA MoveKeeps ==
    ASSUME FileConnsInv, NEW c \in Conns, NEW p, NEW held, NEW n,
           Moves(c, p, held, n), Settled(p, held, n)
    PROVE  FileConnsInv'
  <1>. USE DEF FileConnsInv, Moves, goto, scopeVars
  <1>1. Typed'
    <2>1. p \in Phases /\ held \in BOOLEAN /\ n \in Nat
      BY SettledTypes, Zenon
    <2>. QED  BY <2>1, Zenon DEF Typed
  <1>2. CloseIsOwed(c)'
    <2>1. c \in running /\ CloseTask(c) \notin running
      BY Zenon DEF CloseIsOwed
    <2>2. phase'[c] = p /\ open_file_held'[c] = held /\ closes'[c] = n
      BY Zenon DEF Typed
    <2>. QED  BY <2>1, <2>2, Zenon DEF CloseIsOwed, Settled
  <1>3. ASSUME NEW d \in Conns, d # c PROVE CloseIsOwed(d)'
    BY <1>3, Zenon DEF CloseIsOwed, Typed
  <1>4. WaitIsKept'
    <2>1. \A d \in Conns : phase[d] # "unused" => phase'[d] # "unused"
      BY Zenon DEF Typed, Settled
    <2>2. \A d \in Conns : closes[d] = 1 => closes'[d] = 1
      BY DEF Typed
    <2>3. UNCHANGED <<waiters, waited, awaited>> /\ Typed /\ WaitIsKept
      BY Zenon
    <2>. QED  BY <2>1, <2>2, <2>3, NobodyTold, Zenon
  <1>. QED  BY <1>1, <1>2, <1>3, <1>4, Zenon

\* The moves the code makes.
LEMMA SettledMoves ==
    /\ \A p \in {"opening", "truncating", "serving", "dropping"} : Settled(p, TRUE, 0)
    /\ Settled("closing", FALSE, 0) /\ Settled("dropping", FALSE, 1)
  BY Zenon DEF Settled

\* What the invariant says of a task that runs.
LEMMA RunsSettled ==
    ASSUME FileConnsInv, NEW c \in Conns
    PROVE  /\ phase[c] \in {"start", "closing"} => ~open_file_held[c] /\ closes[c] = 0
           /\ phase[c] \in {"opening", "truncating", "serving"} => open_file_held[c] /\ closes[c] = 0
           /\ open_file_held = [open_file_held EXCEPT ![c] = open_file_held[c]]
           /\ closes = [closes EXCEPT ![c] = closes[c]]
           /\ phase[c] = "serving" => phase = [phase EXCEPT ![c] = "serving"]
  BY Zenon DEF FileConnsInv, CloseIsOwed, Typed

\* A request that is answered, or whose answer cannot be sent.
LEMMA AnswerKeeps ==
    ASSUME FileConnsInv, NEW c \in Conns, Serving(c), answer(c),
           UNCHANGED <<scopeVars, open_file_held, closes, kind, awaited>>,
           flags' = [d \in Conns |-> flags'[d]], seek' = [d \in Conns |-> seek'[d]]
    PROVE  FileConnsInv'
  <1>1. PICK p \in {"serving", "dropping"} : goto(c, p)
    BY RunsSettled, Zenon DEF answer, Serving, goto
  <1>2. open_file_held[c] = TRUE /\ closes[c] = 0
    BY RunsSettled, Zenon DEF Serving, FileConnsInv, Typed
  <1>3. /\ open_file_held' = [open_file_held EXCEPT ![c] = TRUE]
        /\ closes' = [closes EXCEPT ![c] = 0]
    BY <1>2, RunsSettled, Zenon
  <1>4. Moves(c, p, TRUE, 0)
    BY <1>1, <1>2, <1>3, Zenon DEF Moves, Serving
  <1>. QED  BY <1>4, MoveKeeps, SettledMoves, Zenon

\* Opening a connection, by a client or by Clone.
LEMMA FileCreateKeeps ==
    ASSUME FileConnsInv, NEW c \in Conns, NEW requested, create_connection(c, requested),
           UNCHANGED <<fileVars, kind, awaited>>
    PROVE  FileConnsInv'
  <1>. USE DEF FileConnsInv, create_connection, goto, spawn, fileVars
  <1>1. Typed'
    BY KindsAssumption, Zenon DEF Typed, Phases
  <1>2. ASSUME NEW d \in Conns PROVE CloseIsOwed(d)'
    BY KindsAssumption, Zenon DEF CloseIsOwed, Typed
  <1>3. WaitIsKept'
    BY NobodyTold, Zenon DEF Typed
  <1>. QED  BY <1>1, <1>2, <1>3, Zenon

\* Drop leaves the file to a task that is in the scope before the step ends.
LEMMA FileDropKeeps ==
    ASSUME FileConnsInv, NEW c \in Conns, FileDrop(c), UNCHANGED <<kind, awaited>>
    PROVE  FileConnsInv'
  <1>. USE DEF FileConnsInv, FileDrop, goto, spawn, scopeVars
  <1>1. Typed'
    BY KindsAssumption DEF Typed, Phases
  <1>2. ASSUME NEW d \in Conns PROVE CloseIsOwed(d)'
    BY KindsAssumption DEF CloseIsOwed, Typed, CloseTask
  <1>3. WaitIsKept'
    <2>1. UNCHANGED <<waiters, waited>> /\ \A d \in Conns : phase[d] # "unused" => phase'[d] # "unused"
      BY Zenon DEF Typed
    <2>. QED  BY <2>1, NobodyTold, Zenon
  <1>. QED  BY <1>1, <1>2, <1>3, Zenon

\* The task of a connection leaves the scope.
LEMMA FileFinishKeeps ==
    ASSUME FileConnsInv, NEW c \in Conns, ConnectionFinish(c), UNCHANGED <<fileVars, kind, awaited>>
    PROVE  FileConnsInv'
  <1>. USE DEF FileConnsInv, ConnectionFinish, forget, fileVars
  <1>1. Typed'
    BY Zenon DEF Typed, task_did_finish
  <1>2. ASSUME NEW d \in Conns PROVE CloseIsOwed(d)'
    BY KindsAssumption DEF CloseIsOwed, Typed, task_did_finish
  <1>3. WaitIsKept'
    BY <1>2, LastOneTells, KindsAssumption, Zenon
  <1>. QED  BY <1>1, <1>2, <1>3, Zenon

\* The task that Drop spawned closes the file and leaves the scope.
LEMMA FileCloseTaskKeeps ==
    ASSUME FileConnsInv, NEW c \in Conns, FileCloseTask(c), UNCHANGED <<kind, awaited>>
    PROVE  FileConnsInv'
  <1>. USE DEF FileConnsInv, FileCloseTask, connVars
  <1>1. Typed'
    BY DEF Typed, task_did_finish
  <1>2. phase[c] = "ended" /\ closes[c] = 0
    BY Zenon DEF CloseIsOwed, Typed, task_did_finish
  <1>3. ASSUME NEW d \in Conns PROVE CloseIsOwed(d)'
    BY <1>2, KindsAssumption DEF CloseIsOwed, Typed, task_did_finish, CloseTask
  <1>4. WaitIsKept'
    <2>1. \A d \in Conns : closes[d] = 1 => closes'[d] = 1
      BY <1>2 DEF Typed
    <2>. QED  BY <1>3, <2>1, LastOneTells, KindsAssumption, Zenon
  <1>. QED  BY <1>1, <1>3, <1>4, Zenon

\* A step of a task that moves on without a request.
LEMMA FileMoveKeeps ==
    ASSUME FileConnsInv, NEW c \in Conns, UNCHANGED <<kind, awaited>>,
           \/ FileStart(c) \/ FileOpened(c) \/ FileTruncated(c) \/ FileClosed(c)
           \/ FileShutdown(c) \/ FileClose(c) \/ FileHangup(c)
    PROVE  FileConnsInv'
  <1>1. CASE FileStart(c)
    <2>1. phase[c] = "start"
      BY <1>1, Zenon DEF FileStart
    <2>2. Moves(c, "opening", TRUE, 0) \/ Moves(c, "dropping", TRUE, 0)
      BY <1>1, <2>1, RunsSettled, Zenon DEF FileConnsInv, Typed, FileStart, Moves, goto, fileVars
    <2>. QED  BY <2>2, MoveKeeps, SettledMoves, Zenon
  <1>2. CASE FileOpened(c)
    <2>1. phase[c] = "opening"
      BY <1>2, Zenon DEF FileOpened
    <2>2. Moves(c, "truncating", TRUE, 0) \/ Moves(c, "serving", TRUE, 0) \/ Moves(c, "dropping", TRUE, 0)
      BY <1>2, <2>1, RunsSettled, Zenon DEF FileConnsInv, Typed, FileOpened, Moves, goto, begin_requests, fileVars
    <2>. QED  BY <2>2, MoveKeeps, SettledMoves, Zenon
  <1>3. CASE FileTruncated(c)
    <2>1. phase[c] = "truncating"
      BY <1>3, Zenon DEF FileTruncated
    <2>2. Moves(c, "serving", TRUE, 0) \/ Moves(c, "dropping", TRUE, 0)
      BY <1>3, <2>1, RunsSettled, Zenon DEF FileConnsInv, Typed, FileTruncated, Moves, goto, begin_requests, fileVars
    <2>. QED  BY <2>2, MoveKeeps, SettledMoves, Zenon
  <1>4. CASE FileClosed(c)
    <2>1. phase[c] = "closing"
      BY <1>4, Zenon DEF FileClosed
    <2>2. open_file_held[c] = FALSE /\ closes[c] = 0
      BY <2>1, RunsSettled, Zenon DEF FileConnsInv, Typed
    <2>3. /\ open_file_held' = [open_file_held EXCEPT ![c] = FALSE]
          /\ closes' = [closes EXCEPT ![c] = 1]
      BY <1>4, <2>2, RunsSettled DEF FileClosed
    <2>4. Moves(c, "dropping", FALSE, 1)
      BY <1>4, <2>1, <2>2, <2>3, Zenon DEF FileConnsInv, Typed, FileClosed, Moves
    <2>. QED  BY <2>4, MoveKeeps, SettledMoves, Zenon
  <1>5. CASE FileShutdown(c)
    <2>1. phase[c] = "serving"
      BY <1>5, Zenon DEF FileShutdown, Serving
    <2>2. Moves(c, "dropping", TRUE, 0)
      BY <1>5, <2>1, RunsSettled, Zenon DEF FileConnsInv, Typed, FileShutdown, Moves, goto, Serving, fileVars
    <2>. QED  BY <2>2, MoveKeeps, SettledMoves, Zenon
  <1>6. CASE FileHangup(c)
    <2>1. phase[c] = "serving"
      BY <1>6, Zenon DEF FileHangup, Serving
    <2>2. Moves(c, "dropping", TRUE, 0)
      BY <1>6, <2>1, RunsSettled, Zenon DEF FileConnsInv, Typed, FileHangup, Moves, goto, Serving, fileVars
    <2>. QED  BY <2>2, MoveKeeps, SettledMoves, Zenon
  <1>7. CASE FileClose(c)
    <2>1. phase[c] = "serving"
      BY <1>7, Zenon DEF FileClose, Serving
    <2>2. Moves(c, "closing", FALSE, 0)
      BY <1>7, <2>1, RunsSettled, Zenon DEF FileConnsInv, Typed, FileClose, Moves, goto, Serving, fileVars
    <2>. QED  BY <2>2, MoveKeeps, SettledMoves, Zenon
  <1>. QED  BY <1>1, <1>2, <1>3, <1>4, <1>5, <1>6, <1>7, Zenon

\* A request that the client gets an answer to.
LEMMA FileRequestKeeps ==
    ASSUME FileConnsInv, NEW c \in Conns, UNCHANGED <<kind, awaited>>,
           \/ FileRead(c) \/ FileWrite(c) \/ FileWriteAt(c) \/ FileSeek(c)
           \/ FileResize(c) \/ FileSetFlags(c)
    PROVE  FileConnsInv'
  <1>1. /\ Serving(c) /\ answer(c) /\ UNCHANGED <<scopeVars, open_file_held, closes>>
        /\ flags' = [d \in Conns |-> flags'[d]] /\ seek' = [d \in Conns |-> seek'[d]]
    <2>. USE DEF FileConnsInv, Typed, fileVars
    <2>1. CASE FileRead(c)      BY <2>1, Zenon DEF FileRead
    <2>2. CASE FileWrite(c)     BY <2>2, Zenon DEF FileWrite
    <2>3. CASE FileWriteAt(c)   BY <2>3, Zenon DEF FileWriteAt
    <2>4. CASE FileSeek(c)      BY <2>4, Zenon DEF FileSeek
    <2>5. CASE FileResize(c)    BY <2>5, Zenon DEF FileResize
    <2>6. CASE FileSetFlags(c)  BY <2>6, Zenon DEF FileSetFlags
    <2>. QED  BY <2>1, <2>2, <2>3, <2>4, <2>5, <2>6, Zenon
  <1>. QED  BY <1>1, AnswerKeeps, Zenon

\* Every step there is when the node is an implementation of File.
LEMMA FileKindKeeps ==
    ASSUME Inv, kind = "file", [Next]_vars
    PROVE  FileConnsInv'
  <1>1. FileConnsInv
    BY Zenon DEF Inv, FileInv, FileConnsInv
  <1>2. CASE UseScope
    <2>1. Typed' /\ \A c \in Conns : CloseIsOwed(c)'
      BY <1>1, <1>2, Zenon DEF FileConnsInv, Typed, CloseIsOwed, UseScope, shutdown, clone_scope, drop_scope, connVars, fileVars
    <2>2. WaitIsKept'
      BY <1>1, <1>2, NobodyTold, Zenon DEF FileConnsInv, UseScope, shutdown, clone_scope, drop_scope, connVars, fileVars
    <2>. QED  BY <1>1, <1>2, <2>1, <2>2, Zenon DEF FileConnsInv, UseScope
  <1>3. ASSUME NEW w \in Waiters, Wait(w) PROVE FileConnsInv'
    <2>. USE DEF FileConnsInv, Wait, wait, connVars, fileVars
    <2>1. Typed' /\ \A c \in Conns : CloseIsOwed(c)'
      BY <1>1, <1>3 DEF Typed, CloseIsOwed, Alive
    <2>2. running = {} => \A c \in Alive : closes[c] = 1
      BY <1>1, Zenon DEF CloseIsOwed, Alive
    <2>3. WaitIsKept'
      BY <1>1, <1>3, <2>2 DEF Typed, WaitIsKept, Alive
    <2>. QED  BY <1>1, <1>3, <2>1, <2>3, Zenon
  <1>4. ASSUME NEW c \in Conns, OpenFile(c) PROVE FileConnsInv'
    BY <1>1, <1>4, FileCreateKeeps, Zenon DEF OpenFile, open_file
  <1>5. ASSUME NEW c \in Conns, FileStep(c) PROVE FileConnsInv'
    <2>1. CASE FileClone(c)
      BY <1>1, <1>5, <2>1, FileCreateKeeps, Zenon DEF FileClone, handle_clone, FileStep
    <2>2. CASE FileDrop(c) \/ FileCloseTask(c) \/ (ConnectionFinish(c) /\ UNCHANGED fileVars)
      BY <1>1, <1>5, <2>2, FileDropKeeps, FileCloseTaskKeeps, FileFinishKeeps, Zenon DEF FileStep
    <2>3. CASE ~FileClone(c) /\ ~FileDrop(c) /\ ~FileCloseTask(c) /\ ~(ConnectionFinish(c) /\ UNCHANGED fileVars)
      BY <1>1, <1>5, <2>3, FileMoveKeeps, FileRequestKeeps, Zenon DEF FileStep, FileTask, FileRequests
    <2>. QED  BY <2>1, <2>2, <2>3, Zenon
  <1>6. CASE UNCHANGED vars
    BY <1>1, <1>6, Zenon DEF FileConnsInv, Typed, WaitIsKept, CloseIsOwed, Alive, vars, scopeVars, connVars, fileVars
  <1>. QED  BY <1>1, <1>2, <1>3, <1>4, <1>5, <1>6, Zenon DEF Next, VmoStep, ServiceStep, FileConnsInv

-----------------------------------------------------------------------------
(***************************************************************************)
(* The state of a VmoFile.                                                 *)
(***************************************************************************)

\* A Result and what it holds.
LEMMA Results ==
    /\ \A value : Ok(value).status = "OK" /\ Ok(value).value = value
    /\ \A status : Err(status).status = status
  BY Zenon DEF Ok, Err

\* The smaller of two numbers.
LEMMA MinOfTwo ==
    ASSUME NEW a \in Int, NEW b \in Int
    PROVE  Min({a, b}) = IF a <= b THEN a ELSE b
  BY DEF Min

\* The larger of two numbers.
LEMMA MaxOfTwo ==
    ASSUME NEW a \in Int, NEW b \in Int
    PROVE  Max({a, b}) = IF a >= b THEN a ELSE b
  BY DEF Max

\* A number fits whatever fits a larger one, or a larger limit.
LEMMA FitsBelow ==
    ASSUME NEW limit \in Nat
    PROVE  /\ Fits(0, limit)
           /\ \A n \in Nat : n <= limit => Fits(n, limit)
           /\ \A n \in Nat, m \in Nat : n <= m /\ Fits(m, limit) => Fits(n, limit)
           /\ \A n : Fits(n, 0) => n \in i64
           /\ \A n : \A less \in Nat : less <= limit /\ Fits(n, less) => Fits(n, limit)
  <1>1. Width - 1 \in Int
    BY ConnectionsAssumption
  <1>2. 2^(Width - 1) \in Int /\ 2^(Width - 1) > 0
    BY <1>1, ConnectionsAssumption
  <1>. QED  BY <1>2 DEF Fits, i64

\* What a state of the file is made of.
LEMMA VmoStatesFields ==
    ASSUME NEW v \in VmoStates
    PROVE  /\ v.size \in Nat /\ v.capacity \in Nat /\ v.declared \in Nat /\ v.vmo_size \in Nat
           /\ v.connection_count \in Int /\ v.state = "Initialized" /\ v.resizable \in BOOLEAN
           /\ v.size <= v.declared /\ v.capacity <= v.declared
  BY DEF VmoStates

\* A size rounded up to a page.
LEMMA RoundIsNat ==
    ASSUME NEW n \in Nat
    PROVE  Round(n) \in Nat
  <1>1. (n + Page - 1) \div Page \in Nat
    BY VmoAssumption
  <1>. QED  BY <1>1, VmoAssumption DEF Round

\* ensure_vmo makes a state of whatever init_vmo returned.
LEMMA EnsureTyped ==
    ASSUME NEW new \in NewVmos
    PROVE  ensure_vmo(new) \in VmoStates /\ ensure_vmo(new).connection_count = 0
  <1>1. /\ new.size \in u64 /\ new.capacity \in u64 /\ new.vmo_size \in Nat
        /\ new.resizable \in BOOLEAN
    BY VmoAssumption, Zenon
  <1>2. new.size \in Nat /\ new.capacity \in Nat
    BY <1>1 DEF u64
  <1>3. Round(new.size) \in Nat
    BY <1>2, RoundIsNat, Zenon
  <1>4. /\ Max({new.size, new.capacity}) \in Nat
        /\ new.size <= Max({new.size, new.capacity}) /\ new.capacity <= Max({new.size, new.capacity})
    BY <1>2, MaxOfTwo
  <1>. QED  BY <1>1, <1>2, <1>3, <1>4 DEF ensure_vmo, VmoStates

\* truncate_vmo never exceeds the capacity, and counts nobody.
LEMMA TruncateTyped ==
    ASSUME NEW v \in VmoStates, NEW n \in Nat, truncate_vmo(v, n).status = "OK"
    PROVE  /\ truncate_vmo(v, n).value \in VmoStates
           /\ truncate_vmo(v, n).value.connection_count = v.connection_count
           /\ truncate_vmo(v, n).value.declared = v.declared
  <1>2. ~(n > Max({v.size, v.capacity})) /\ v.resizable
    BY Results DEF truncate_vmo
  <1>3. truncate_vmo(v, n) = Ok([v EXCEPT !.size = n, !.vmo_size = Round(n)])
    BY <1>2, Zenon DEF truncate_vmo
  <1>4. n <= v.declared
    BY <1>2, VmoStatesFields, MaxOfTwo
  <1>5. [v EXCEPT !.size = n, !.vmo_size = Round(n)] \in VmoStates
    BY <1>4, RoundIsNat, Zenon DEF VmoStates
  <1>6. /\ [v EXCEPT !.size = n, !.vmo_size = Round(n)].connection_count = v.connection_count
        /\ [v EXCEPT !.size = n, !.vmo_size = Round(n)].declared = v.declared
    BY DEF VmoStates
  <1>. QED  BY <1>3, <1>5, <1>6, Results, Zenon

\* vmo_write_at never writes past the capacity.
LEMMA WriteTyped ==
    ASSUME NEW v \in VmoStates, NEW offset \in Nat, NEW length \in Nat,
           vmo_write_at(v, offset, length).status = "OK"
    PROVE  /\ vmo_write_at(v, offset, length).value.vmo \in VmoStates
           /\ vmo_write_at(v, offset, length).value.vmo.connection_count = v.connection_count
           /\ vmo_write_at(v, offset, length).value.vmo.declared = v.declared
           /\ offset + vmo_write_at(v, offset, length).value.actual \in Nat
           /\ offset + vmo_write_at(v, offset, length).value.actual <= v.declared
  <1>. DEFINE capacity == Max({v.size, v.capacity})
              actual == Min({length, capacity - offset})
              end == offset + actual
              grown == [v EXCEPT !.size = Max({@, end}), !.vmo_size = IF end > @ THEN Round(end) ELSE @]
  <1>1. /\ v.size \in Nat /\ v.capacity \in Nat /\ v.vmo_size \in Nat /\ v.declared \in Nat
        /\ v.size <= v.declared /\ v.capacity <= v.declared
    BY VmoStatesFields, Zenon
  <1>2. capacity \in Nat /\ capacity <= v.declared
    BY <1>1, MaxOfTwo
  <1>3. offset <= capacity /\ vmo_write_at(v, offset, length) = Ok([vmo |-> grown, actual |-> actual])
    <2>1. ~(offset > capacity)
      BY Results DEF vmo_write_at
    <2>2. vmo_write_at(v, offset, length) = Ok([vmo |-> grown, actual |-> actual])
      BY <2>1, Results DEF vmo_write_at
    <2>. QED  BY <1>2, <2>1, <2>2
  <1>4. actual \in Nat /\ actual <= capacity - offset
    <2>. HIDE DEF capacity
    <2>1. capacity - offset \in Nat
      BY <1>2, <1>3
    <2>. QED  BY <2>1, MinOfTwo
  <1>5. end \in Nat /\ end <= v.declared
    <2>. HIDE DEF actual, capacity
    <2>. QED  BY <1>1, <1>2, <1>3, <1>4
  <1>6. Max({v.size, end}) \in Nat /\ Max({v.size, end}) <= v.declared /\ Round(end) \in Nat
    <2>. HIDE DEF end
    <2>. QED  BY <1>1, <1>5, MaxOfTwo, RoundIsNat
  <1>7. /\ grown \in VmoStates /\ grown.connection_count = v.connection_count
        /\ grown.declared = v.declared
    <2>. HIDE DEF end
    <2>. QED  BY <1>1, <1>6, Zenon DEF VmoStates
  <1>. QED
    <2>. HIDE DEF grown, actual
    <2>. QED  BY <1>3, <1>5, <1>7 DEF Ok

-----------------------------------------------------------------------------
(***************************************************************************)
(* Connections to a VmoFile.                                               *)
(***************************************************************************)

VmoStateOK ==
    /\ vmo = Uninitialized \/ vmo \in VmoStates
    /\ ~Initialized => Counted = {}
    /\ Initialized => vmo.connection_count >= Cardinality(Counted)

SeeksFit == \A c \in Conns : Fits(seek[c], Declared)

VmoConnsInv == Typed /\ kind = "vmo" /\ LockIsOwn /\ VmoStateOK /\ SeeksFit

\* How the count of connections follows the phase of one of them.
LEMMA CountedMoves ==
    ASSUME Typed, NEW c \in Conns, NEW p \in Phases, goto(c, p)
    PROVE  /\ Cardinality(Counted) \in Nat
           /\ Cardinality(Counted') \in Nat
           /\ Cardinality(Counted') <= Cardinality(Counted) + 1
           /\ p \notin {"describing", "serving"} => Cardinality(Counted') <= Cardinality(Counted)
           /\ p \notin {"describing", "serving"} /\ c \in Counted => Cardinality(Counted') = Cardinality(Counted) - 1
           /\ c \in Counted => Cardinality(Counted') <= Cardinality(Counted)
  <1>1. IsFiniteSet(Counted) /\ IsFiniteSet(Counted')
    <2>1. IsFiniteSet(Conns)
      BY ScopeAssumption, ConnectionsAssumption, FS_Subset, Zenon
    <2>2. Counted \subseteq Conns /\ Counted' \subseteq Conns
      BY Zenon DEF Counted
    <2>. QED  BY <2>1, <2>2, FS_Subset, Zenon
  <1>2. Counted' = IF p \in {"describing", "serving"} THEN Counted \cup {c} ELSE Counted \ {c}
    BY Zenon DEF Typed, goto, Counted
  <1>3. Cardinality(Counted) \in Nat /\ Cardinality(Counted') \in Nat
    BY <1>1, FS_CardinalityType, Zenon
  <1>4. Cardinality(Counted \cup {c}) = IF c \in Counted THEN Cardinality(Counted) ELSE Cardinality(Counted) + 1
    BY <1>1, FS_AddElement, Zenon
  <1>5. Cardinality(Counted \ {c}) = IF c \in Counted THEN Cardinality(Counted) - 1 ELSE Cardinality(Counted)
    BY <1>1, FS_RemoveElement, Zenon
  <1>. QED  BY <1>2, <1>3, <1>4, <1>5

\* A phase that changes without the state of the file.
LEMMA VmoMoveKeeps ==
    ASSUME VmoConnsInv, NEW c \in Conns, NEW p \in Phases, goto(c, p),
           p \notin {"describing", "serving"} \/ c \in Counted,
           UNCHANGED <<vmo, kind>>, Typed', LockIsOwn', SeeksFit'
    PROVE  VmoConnsInv'
  <1>1. ~Initialized => Counted' = {}
    BY Zenon DEF VmoConnsInv, VmoStateOK, Counted, Typed, goto
  <1>2. Cardinality(Counted') <= Cardinality(Counted) /\ Cardinality(Counted) \in Nat /\ Cardinality(Counted') \in Nat
    BY CountedMoves, Zenon DEF VmoConnsInv
  <1>3. Initialized => vmo \in VmoStates /\ vmo.connection_count \in Int
    BY VmoStatesFields DEF VmoConnsInv, VmoStateOK, Initialized, Uninitialized
  <1>4. Initialized => vmo.connection_count >= Cardinality(Counted')
    BY <1>2, <1>3 DEF VmoConnsInv, VmoStateOK
  <1>. QED  BY <1>1, <1>4, Zenon DEF VmoConnsInv, VmoStateOK, Initialized

\* What attach does to the state of the file and to the phase of c.
LEMMA AttachEffect ==
    ASSUME NEW c \in Conns, NEW v \in VmoStates, attach(c, v)
    PROVE  /\ vmo' \in VmoStates /\ vmo'.declared = v.declared
           /\ \E p \in {"ended", "describing", "serving"} :
                /\ goto(c, p)
                /\ vmo'.connection_count \in {v.connection_count, v.connection_count + 1}
                /\ p # "ended" => vmo'.connection_count = v.connection_count + 1
  <1>. DEFINE truncated == IF Has(c, "TRUNCATE") THEN truncate_vmo(v, 0) ELSE Ok(v)
  <1>1. truncated.status = "OK" =>
            /\ truncated.value \in VmoStates /\ truncated.value.connection_count = v.connection_count
            /\ truncated.value.declared = v.declared
    BY TruncateTyped, Results, Zenon
  <1>2. CASE truncated.status # "OK"
    BY <1>2, Zenon DEF attach
  <1>3. CASE truncated.status = "OK"
    <2>1. vmo' = [truncated.value EXCEPT !.connection_count = @ + 1] /\ \E p \in {"ended", "describing", "serving"} : goto(c, p)
      BY <1>3, Zenon DEF attach
    <2>. HIDE DEF truncated
    <2>2. /\ vmo' \in VmoStates /\ vmo'.connection_count = v.connection_count + 1
          /\ vmo'.declared = v.declared
      BY <1>1, <1>3, <2>1 DEF VmoStates
    <2>. QED  BY <2>1, <2>2, Zenon
  <1>. QED  BY <1>2, <1>3, Zenon

\* The first or a later connection is attached: it is counted before it is served.
LEMMA AttachKeeps ==
    ASSUME VmoConnsInv, NEW c \in Conns, NEW v \in VmoStates, attach(c, v),
           v.connection_count >= Cardinality(Counted), c \notin Counted, ~Initialized \/ v = vmo,
           UNCHANGED <<flags, seek, scopeVars, fileVars, kind, awaited>>,
           phase[c] \in {"locking", "initializing"},
           state_lock \in {c, NoConn}, state_lock' = NoConn
    PROVE  VmoConnsInv'
  <1>1. PICK p \in {"ended", "describing", "serving"} :
            /\ goto(c, p)
            /\ vmo'.connection_count \in {v.connection_count, v.connection_count + 1}
            /\ p # "ended" => vmo'.connection_count = v.connection_count + 1
    BY AttachEffect, Zenon
  <1>2. vmo' \in VmoStates /\ Initialized' /\ v.connection_count \in Int
    BY AttachEffect, VmoStatesFields, Zenon DEF Initialized
  <1>3. p \in Phases
    BY Zenon DEF Phases
  <1>4. Typed'
    BY <1>1, <1>3, Zenon DEF VmoConnsInv, Typed, goto, scopeVars, fileVars
  <1>5. LockIsOwn'
    BY <1>1, <1>2, VmoAssumption, Zenon DEF VmoConnsInv, Typed, LockIsOwn, goto
  <1>6. vmo'.connection_count >= Cardinality(Counted')
    <2>1. /\ Cardinality(Counted) \in Nat /\ Cardinality(Counted') \in Nat
          /\ Cardinality(Counted') <= Cardinality(Counted) + 1
          /\ p = "ended" => Cardinality(Counted') <= Cardinality(Counted)
      BY <1>1, <1>3, CountedMoves, Zenon DEF VmoConnsInv
    <2>. QED  BY <1>1, <1>2, <2>1
  <1>7. SeeksFit'
    <2>1. Declared \in Nat /\ Declared' \in Nat /\ Declared <= Declared'
      <3>1. vmo'.declared \in Nat /\ Declared' = vmo'.declared /\ vmo'.declared = v.declared
        BY <1>2, AttachEffect, VmoStatesFields, Zenon DEF Declared
      <3>2. Declared = 0 \/ Declared = v.declared
        BY Zenon DEF Declared
      <3>. QED  BY <3>1, <3>2
    <2>2. \A d \in Conns : Fits(seek[d], Declared)
      BY Zenon DEF VmoConnsInv, SeeksFit
    <2>3. \A d \in Conns : Fits(seek[d], Declared')
      <3>1. PICK limit \in Nat, less \in Nat : limit = Declared' /\ less = Declared /\ less <= limit
        BY <2>1, Zenon
      <3>2. \A n : Fits(n, less) => Fits(n, limit)
        BY <3>1, FitsBelow, Zenon
      <3>. QED  BY <2>2, <3>1, <3>2, Zenon
    <2>. QED  BY <2>3, Zenon DEF SeeksFit
  <1>. QED  BY <1>2, <1>4, <1>5, <1>6, <1>7, Zenon DEF VmoConnsInv, VmoStateOK

\* A step of a task that waits for the mutex, holds it, or ends without it.
LEMMA VmoTaskKeeps ==
    ASSUME VmoConnsInv, NEW c \in Conns, UNCHANGED <<fileVars, kind, awaited>>, VmoTask(c)
    PROVE  VmoConnsInv'
  <1>. USE DEF scopeVars, fileVars, vmoVars
  <1>0. /\ Typed /\ LockIsOwn /\ VmoStateOK /\ SeeksFit /\ kind = "vmo"
        /\ c \in Counted <=> phase[c] \in {"describing", "serving"}
    BY Zenon DEF VmoConnsInv, Counted
  <1>1. CASE VmoStart(c)
    <2>1. PICK p \in {"locking", "ended"} : goto(c, p)
      BY <1>1, Zenon DEF VmoStart
    <2>2. flags' = [d \in Conns |-> flags'[d]]
      BY <1>0, <1>1, Zenon DEF VmoStart, Typed
    <2>3. Typed'
      BY <1>0, <1>1, <2>1, <2>2, Zenon DEF VmoStart, Typed, goto, Phases
    <2>4. LockIsOwn'
      BY <1>0, <1>1, <2>1, Zenon DEF VmoStart, LockIsOwn, Typed, goto, Initialized
    <2>. QED  BY <1>0, <1>1, <2>1, <2>3, <2>4, VmoMoveKeeps, Zenon DEF VmoStart, SeeksFit, Declared, Initialized, Phases
  <1>2. CASE VmoLock(c) /\ Initialized
    <2>1. vmo \in VmoStates /\ vmo.connection_count >= Cardinality(Counted)
      BY <1>0, <1>2 DEF VmoStateOK, Uninitialized, Initialized
    <2>2. /\ attach(c, vmo) /\ state_lock' = NoConn /\ state_lock = NoConn /\ phase[c] = "locking"
          /\ UNCHANGED <<flags, seek, scopeVars>>
      BY <1>2, Zenon DEF VmoLock, Unlocked
    <2>. QED  BY <1>0, <2>1, <2>2, AttachKeeps, Zenon
  <1>3. CASE VmoLock(c) /\ ~Initialized
    <2>1. /\ goto(c, "initializing") /\ state_lock' = c /\ UNCHANGED <<vmo, flags, seek, scopeVars>>
          /\ state_lock = NoConn
      BY <1>3, Zenon DEF VmoLock, Unlocked
    <2>2. Typed' /\ SeeksFit'
      BY <1>0, <2>1, Zenon DEF Typed, goto, Phases, SeeksFit, Declared, Initialized
    <2>3. LockIsOwn'
      BY <1>0, <1>3, <2>1, VmoAssumption, Zenon DEF LockIsOwn, Typed, goto, Initialized
    <2>. QED  BY <1>0, <2>1, <2>2, <2>3, VmoMoveKeeps, Zenon DEF Phases
  <1>4. CASE VmoInitialized(c)
    <2>1. /\ phase[c] = "initializing" /\ state_lock = c /\ ~Initialized /\ state_lock' = NoConn
          /\ UNCHANGED <<flags, seek, scopeVars>>
      BY <1>0, <1>4, VmoAssumption, Zenon DEF VmoInitialized, LockIsOwn
    <2>2. CASE goto(c, "ended") /\ UNCHANGED vmo
      <3>1. Typed' /\ SeeksFit'
        BY <1>0, <2>1, <2>2, Zenon DEF Typed, goto, Phases, SeeksFit, Declared, Initialized
      <3>2. LockIsOwn'
        BY <1>0, <2>1, <2>2, VmoAssumption, Zenon DEF LockIsOwn, Typed, goto, Initialized
      <3>. QED  BY <1>0, <2>1, <2>2, <3>1, <3>2, VmoMoveKeeps, Zenon DEF Phases
    <2>3. ASSUME NEW new \in NewVmos, attach(c, ensure_vmo(new)) PROVE VmoConnsInv'
      <3>1. Counted = {}
        BY <1>0, <2>1, Zenon DEF VmoStateOK
      <3>2. Cardinality(Counted) = 0
        BY <3>1, FS_EmptySet, Zenon
      <3>3. ensure_vmo(new).connection_count >= Cardinality(Counted)
        BY <3>2, EnsureTyped
      <3>. QED  BY <1>0, <2>1, <2>3, <3>3, EnsureTyped, AttachKeeps, Zenon
    <2>. QED  BY <1>4, <2>2, <2>3, Zenon DEF VmoInitialized
  <1>5. CASE VmoDescribe(c)
    <2>1. PICK p \in {"serving", "ended"} : goto(c, p)
      BY <1>5, Zenon DEF VmoDescribe
    <2>2. phase[c] = "describing" /\ UNCHANGED <<flags, seek, vmo, state_lock, scopeVars>>
      BY <1>5, Zenon DEF VmoDescribe
    <2>3. Typed' /\ SeeksFit'
      BY <1>0, <2>1, <2>2, Zenon DEF Typed, goto, Phases, SeeksFit, Declared, Initialized
    <2>4. LockIsOwn'
      BY <1>0, <2>1, <2>2, Zenon DEF LockIsOwn, Typed, goto, Initialized
    <2>. QED  BY <1>0, <2>1, <2>2, <2>3, <2>4, VmoMoveKeeps, Zenon DEF Phases
  <1>6. CASE VmoAbort(c)
    <2>1. Typed' /\ SeeksFit'
      BY <1>0, <1>6, Zenon DEF VmoAbort, Typed, goto, Phases, SeeksFit, Declared, Initialized
    <2>2. LockIsOwn'
      BY <1>0, <1>6, VmoAssumption, Zenon DEF VmoAbort, LockIsOwn, Typed, goto, Initialized
    <2>. QED  BY <1>0, <1>6, <2>1, <2>2, VmoMoveKeeps, Zenon DEF VmoAbort, Phases
  <1>7. CASE VmoFinish(c)
    <2>1. Typed'
      BY <1>0, <1>7, Zenon DEF VmoFinish, forget, task_did_finish, Typed
    <2>2. UNCHANGED <<phase, vmo, state_lock>> /\ SeeksFit'
      <3>1. UNCHANGED <<phase, vmo, state_lock>> /\ Declared' = Declared
        BY <1>7, Zenon DEF VmoFinish, forget, Declared, Initialized
      <3>2. Declared \in Nat
        BY <1>0, VmoStatesFields DEF Declared, VmoStateOK, Uninitialized, Initialized
      <3>. QED  BY <1>0, <1>7, <3>1, <3>2, FitsBelow, Zenon DEF VmoFinish, forget, Typed, SeeksFit, Declared, Initialized
    <2>. QED  BY <1>0, <2>1, <2>2, Zenon DEF VmoConnsInv, LockIsOwn, VmoStateOK, Initialized, Counted
  <1>. QED  BY <1>1, <1>2, <1>3, <1>4, <1>5, <1>6, <1>7, Zenon DEF VmoTask

\* A request, which is handled with the mutex free and the file initialized.
LEMMA VmoRequestKeeps ==
    ASSUME VmoConnsInv, NEW c \in Conns, UNCHANGED <<fileVars, kind, awaited>>,
           VmoRead(c) \/ VmoWrite(c) \/ VmoSeek(c) \/ VmoResize(c) \/ VmoClose(c)
    PROVE  VmoConnsInv'
  <1>. USE DEF scopeVars, fileVars, vmoVars
  <1>0. /\ Typed /\ LockIsOwn /\ VmoStateOK /\ SeeksFit /\ kind = "vmo"
        /\ Initialized /\ vmo \in VmoStates /\ Fits(seek[c], Declared)
    BY DEF VmoConnsInv, VmoRead, VmoWrite, VmoSeek, VmoResize, VmoClose, VmoServing,
           VmoStateOK, Initialized, Uninitialized, SeeksFit
  <1>1. /\ vmo.size \in Nat /\ vmo.capacity \in Nat /\ vmo.connection_count \in Int
        /\ seek[c] \in Nat /\ Declared = vmo.declared /\ Declared \in Nat
        /\ vmo.size <= Declared /\ vmo.capacity <= Declared
    BY <1>0, VmoStatesFields, Zenon DEF Fits, Declared
  <1>2. ASSUME NEW n, Fits(n, Declared), seek' = [seek EXCEPT ![c] = n], Declared' = Declared
        PROVE  SeeksFit' /\ seek' = [d \in Conns |-> seek'[d]]
    BY <1>0, <1>2, Zenon DEF SeeksFit, Declared, Initialized, Typed
  <1>3. ASSUME UNCHANGED <<phase, flags, state_lock, scopeVars>>, vmo' \in VmoStates,
               vmo'.connection_count = vmo.connection_count,
               SeeksFit', seek' = [d \in Conns |-> seek'[d]]
        PROVE  VmoConnsInv'
    <2>1. Typed' /\ Initialized'
      BY <1>0, <1>3, VmoStatesFields, Zenon DEF Typed, Initialized
    <2>. QED  BY <1>0, <1>3, <2>1, Zenon DEF VmoConnsInv, LockIsOwn, VmoStateOK, Initialized, Counted
  <1>4. CASE VmoRead(c)
    <2>1. PICK count \in VmoLengths :
            seek' = [seek EXCEPT ![c] = IF @ > vmo.size THEN @ ELSE @ + Min({count, vmo.size - @})]
      BY <1>4, Zenon DEF VmoRead
    <2>2. count \in Nat
      BY VmoAssumption, Zenon
    <2>3. seek[c] <= vmo.size =>
            /\ seek[c] + Min({count, vmo.size - seek[c]}) \in Nat
            /\ seek[c] + Min({count, vmo.size - seek[c]}) <= Declared
      BY <1>1, <2>2, MinOfTwo
    <2>4. Fits(IF seek[c] > vmo.size THEN seek[c] ELSE seek[c] + Min({count, vmo.size - seek[c]}), Declared)
      <3>1. CASE seek[c] > vmo.size
        BY <1>0, <3>1, Zenon
      <3>2. CASE seek[c] <= vmo.size
        BY <1>1, <2>3, <3>2, FitsBelow
      <3>. QED  BY <1>1, <3>1, <3>2
    <2>5. Declared' = Declared
      BY <1>4, Zenon DEF VmoRead, Declared, Initialized
    <2>. QED  BY <1>0, <1>2, <1>3, <1>4, <2>1, <2>4, <2>5, Zenon DEF VmoRead
  <1>5. CASE VmoWrite(c)
    <2>1. PICK length \in VmoLengths, offset \in u64 :
            LET result == vmo_write_at(vmo, offset, length)
            IN  /\ result.status = "OK" /\ vmo' = result.value.vmo
                /\ \/ offset = seek[c] /\ seek' = [seek EXCEPT ![c] = @ + result.value.actual]
                   \/ UNCHANGED seek
      BY <1>5, Zenon DEF VmoWrite
    <2>2. length \in Nat /\ offset \in Nat
      BY VmoAssumption DEF u64
    <2>3. /\ vmo' \in VmoStates /\ vmo'.connection_count = vmo.connection_count
          /\ vmo'.declared = vmo.declared
          /\ offset + vmo_write_at(vmo, offset, length).value.actual \in Nat
          /\ offset + vmo_write_at(vmo, offset, length).value.actual <= vmo.declared
      BY <1>0, <2>1, <2>2, WriteTyped, Zenon
    <2>4. Declared' = Declared
      BY <1>0, <2>3, VmoStatesFields, Zenon DEF Declared, Initialized
    <2>5. Fits(offset + vmo_write_at(vmo, offset, length).value.actual, Declared)
      BY <1>1, <2>3, FitsBelow, Zenon
    <2>6. SeeksFit' /\ seek' = [d \in Conns |-> seek'[d]]
      BY <1>0, <1>2, <2>1, <2>4, <2>5, Zenon DEF SeeksFit, Declared, Initialized, Typed
    <2>. QED  BY <1>3, <1>5, <2>3, <2>6, Zenon DEF VmoWrite
  <1>6. CASE VmoSeek(c)
    <2>1. PICK origin \in {0, seek[c], vmo.size}, offset \in i64 :
            Fits(origin + offset, Declared) /\ seek' = [seek EXCEPT ![c] = origin + offset]
      BY <1>6, Zenon DEF VmoSeek, Fits
    <2>2. Declared' = Declared
      BY <1>6, Zenon DEF VmoSeek, Declared, Initialized
    <2>. QED  BY <1>0, <1>2, <1>3, <1>6, <2>1, <2>2, Zenon DEF VmoSeek
  <1>7. CASE VmoResize(c)
    <2>1. PICK length \in u64 :
            /\ truncate_vmo(vmo, length).status = "OK" /\ vmo' = truncate_vmo(vmo, length).value
            /\ seek' = [seek EXCEPT ![c] = Min({@, Max({length, vmo.capacity})})]
      BY <1>7, Zenon DEF VmoResize
    <2>2. length \in Nat
      BY DEF u64
    <2>3. /\ vmo' \in VmoStates /\ vmo'.connection_count = vmo.connection_count
          /\ vmo'.declared = vmo.declared
      BY <1>0, <2>1, <2>2, TruncateTyped, Zenon
    <2>4. Max({length, vmo.capacity}) \in Nat
      BY <1>1, <2>2, MaxOfTwo
    <2>5. Fits(Min({seek[c], Max({length, vmo.capacity})}), Declared)
      <3>. DEFINE m == Max({length, vmo.capacity})
      <3>. HIDE DEF m
      <3>1. m \in Nat /\ seek[c] \in Nat
        BY <1>0, <1>1, <2>4, Zenon DEF m
      <3>2. Min({seek[c], m}) \in Nat /\ Min({seek[c], m}) <= seek[c]
        BY <3>1, MinOfTwo
      <3>. QED  BY <1>0, <1>1, <3>1, <3>2, FitsBelow, Zenon DEF m
    <2>6. Declared' = Declared
      BY <1>0, <2>3, VmoStatesFields, Zenon DEF Declared, Initialized
    <2>. QED  BY <1>2, <1>3, <1>7, <2>1, <2>3, <2>5, <2>6, Zenon DEF VmoResize
  <1>8. CASE VmoClose(c)
    <2>1. /\ goto(c, "ended") /\ vmo' = [vmo EXCEPT !.connection_count = @ - 1] /\ c \in Counted
          /\ UNCHANGED <<flags, seek, state_lock, scopeVars>> /\ phase[c] = "serving"
      BY <1>8, Zenon DEF VmoClose, VmoServing, Serving, Counted
    <2>2. /\ vmo' \in VmoStates /\ vmo'.connection_count = vmo.connection_count - 1
          /\ Initialized' /\ Declared' = Declared
      BY <1>0, <2>1 DEF VmoStates, Initialized, Declared
    <2>3. /\ Cardinality(Counted') = Cardinality(Counted) - 1
          /\ Cardinality(Counted) \in Nat /\ vmo.connection_count >= Cardinality(Counted)
      BY <1>0, <2>1, CountedMoves, Zenon DEF Phases, VmoStateOK
    <2>4. vmo'.connection_count >= Cardinality(Counted')
      BY <1>1, <2>2, <2>3
    <2>5. Typed' /\ SeeksFit'
      BY <1>0, <2>1, <2>2, Zenon DEF Typed, goto, Phases, SeeksFit, Declared, Initialized
    <2>6. LockIsOwn'
      BY <1>0, <2>1, <2>2, VmoAssumption, Zenon DEF LockIsOwn, Typed, goto
    <2>. QED  BY <1>0, <2>2, <2>4, <2>5, <2>6, Zenon DEF VmoConnsInv, VmoStateOK
  <1>. QED  BY <1>4, <1>5, <1>6, <1>7, <1>8, Zenon

\* Opening a connection, by a client or by Clone.
LEMMA VmoCreateKeeps ==
    ASSUME VmoConnsInv, NEW c \in Conns, NEW requested, create_connection(c, requested),
           UNCHANGED <<fileVars, vmoVars, kind, awaited>>
    PROVE  VmoConnsInv'
  <1>. USE DEF VmoConnsInv, create_connection, spawn, fileVars, vmoVars
  <1>1. Typed' /\ SeeksFit'
    BY KindsAssumption, Zenon DEF Typed, Phases, goto, SeeksFit, Declared, Initialized
  <1>2. LockIsOwn'
    BY Zenon DEF LockIsOwn, Typed, goto, Initialized
  <1>. QED  BY <1>1, <1>2, VmoMoveKeeps, Zenon DEF Phases

\* Every step there is when the node is a VmoFile.
LEMMA VmoKindKeeps ==
    ASSUME Inv, kind = "vmo", [Next]_vars
    PROVE  VmoConnsInv'
  <1>1. VmoConnsInv
    BY Zenon DEF Inv, VmoInv, VmoConnsInv, VmoStateOK, SeeksFit
  <1>2. ASSUME Typed', UNCHANGED <<connVars, vmoVars, kind>> PROVE VmoConnsInv'
    BY <1>1, <1>2, Zenon DEF VmoConnsInv, connVars, vmoVars, LockIsOwn, VmoStateOK, SeeksFit, Declared, Initialized, Counted
  <1>3. CASE UseScope
    BY <1>1, <1>2, <1>3, Zenon DEF VmoConnsInv, Typed, UseScope, shutdown, clone_scope, drop_scope, connVars, fileVars
  <1>4. ASSUME NEW w \in Waiters, Wait(w) PROVE VmoConnsInv'
    <2>1. Typed'
      BY <1>1, <1>4, Zenon DEF VmoConnsInv, Typed, Wait, wait, connVars, fileVars, Alive
    <2>. QED  BY <1>2, <1>4, <2>1, Zenon DEF Wait
  <1>5. ASSUME NEW c \in Conns, OpenFile(c) PROVE VmoConnsInv'
    BY <1>1, <1>5, VmoCreateKeeps, Zenon DEF OpenFile, open_file
  <1>6. ASSUME NEW c \in Conns, VmoStep(c) PROVE VmoConnsInv'
    <2>1. CASE VmoClone(c)
      BY <1>1, <1>6, <2>1, VmoCreateKeeps, Zenon DEF VmoClone, handle_clone, VmoStep
    <2>2. CASE ~VmoClone(c)
      BY <1>1, <1>6, <2>2, VmoTaskKeeps, VmoRequestKeeps, Zenon DEF VmoStep, VmoRequestsNext
    <2>. QED  BY <2>1, <2>2, Zenon
  <1>7. CASE UNCHANGED vars
    BY <1>1, <1>2, <1>7, Zenon DEF VmoConnsInv, Typed, vars, scopeVars, connVars, fileVars
  <1>. QED  BY <1>3, <1>4, <1>5, <1>6, <1>7, Zenon DEF Next, FileStep, ServiceStep

-----------------------------------------------------------------------------
(***************************************************************************)
(* Connections to a service.                                               *)
(***************************************************************************)

NodeFlagsOK(c) ==
    /\ phase[c] = "start" => Has(c, "NODE_REFERENCE")
    /\ Serving(c) => Has(c, "NODE_REFERENCE") /\ flags[c] \cap FS_RIGHTS = {}
    /\ phase[c] = "hosted" => Has(c, "RIGHT_READABLE") /\ ~Has(c, "NODE_REFERENCE")

ServiceConnsInv == Typed /\ kind = "service" /\ \A c \in Conns : NodeFlagsOK(c)

\* new_connection_validate_flags leaves a node no rights, and asks a client of
\* the service for read permission.
LEMMA ServiceFlags ==
    ASSUME NEW requested, NEW mode, service_new_connection_validate_flags(requested, mode).status = "OK"
    PROVE  LET valid == service_new_connection_validate_flags(requested, mode).value
           IN  /\ "NODE_REFERENCE" \in requested =>
                    "NODE_REFERENCE" \in valid /\ valid \cap FS_RIGHTS = {}
               /\ "NODE_REFERENCE" \notin requested =>
                    "RIGHT_READABLE" \in valid /\ "NODE_REFERENCE" \notin valid
  BY Zenon DEF service_new_connection_validate_flags, Ok, Err, PosixFlags, FS_RIGHTS,
         OPEN_FLAGS_ALLOWED_WITH_NODE_REFERENCE

\* A clone of a node reference is one.
LEMMA ClonesAreNodes ==
    ASSUME NEW requested, inherit_rights_for_clone({"NODE_REFERENCE"}, requested).status = "OK"
    PROVE  "NODE_REFERENCE" \in inherit_rights_for_clone({"NODE_REFERENCE"}, requested).value
  BY Zenon DEF inherit_rights_for_clone, Ok, Err, PosixFlags

\* Every step there is when the node is a service.
LEMMA ServiceKindKeeps ==
    ASSUME Inv, kind = "service", [Next]_vars
    PROVE  ServiceConnsInv'
  <1>. USE DEF scopeVars, connVars, fileVars, vmoVars
  <1>1. ServiceConnsInv
    BY Zenon DEF Inv, ServiceInv, ServiceConnsInv, NodeFlagsOK
  <1>2. ASSUME Typed', UNCHANGED <<phase, flags, kind>> PROVE ServiceConnsInv'
    BY <1>1, <1>2, Zenon DEF ServiceConnsInv, NodeFlagsOK, Has, Serving
  <1>3. ASSUME NEW c \in Conns, Typed', UNCHANGED kind, NEW p, goto(c, p), NodeFlagsOK(c)',
               \A d \in Conns \ {c} : flags'[d] = flags[d]
        PROVE  ServiceConnsInv'
    BY <1>1, <1>3, Zenon DEF ServiceConnsInv, NodeFlagsOK, Has, Serving, goto, Typed
  <1>4. CASE UseScope \/ UNCHANGED vars
    BY <1>1, <1>2, <1>4, Zenon DEF ServiceConnsInv, Typed, UseScope, shutdown, clone_scope, drop_scope, vars
  <1>5. ASSUME NEW w \in Waiters, Wait(w) PROVE ServiceConnsInv'
    <2>1. Typed'
      BY <1>1, <1>5, Zenon DEF ServiceConnsInv, Typed, Wait, wait, Alive
    <2>. QED  BY <1>2, <1>5, <2>1, Zenon DEF Wait
  <1>6. ASSUME NEW c \in Conns, NEW requested, "NODE_REFERENCE" \in requested,
               create_connection(c, requested), UNCHANGED <<fileVars, vmoVars, kind, awaited>>
        PROVE  ServiceConnsInv'
    <2>1. Typed'
      BY <1>1, <1>6, KindsAssumption, Zenon DEF ServiceConnsInv, create_connection, spawn, Typed, Phases, goto
    <2>2. NodeFlagsOK(c)' /\ \A d \in Conns \ {c} : flags'[d] = flags[d]
      BY <1>1, <1>6, Zenon DEF ServiceConnsInv, create_connection, Typed, goto, NodeFlagsOK, Has, Serving
    <2>. QED  BY <1>3, <1>6, <2>1, <2>2, Zenon DEF create_connection
  <1>7. ASSUME NEW c \in Conns, OpenFile(c) PROVE ServiceConnsInv'
    <2>1. PICK requested \in ServiceRequests, mode \in ServiceModes :
            IF "NODE_REFERENCE" \in requested THEN open_as_node(c, requested, mode)
            ELSE open_as_service(c, requested, mode)
      BY <1>7, <1>1, Zenon DEF OpenFile, open_service, ServiceConnsInv
    <2>2. UNCHANGED <<fileVars, vmoVars, kind, awaited>>
      BY <1>7, Zenon DEF OpenFile
    <2>3. CASE "NODE_REFERENCE" \in requested /\ create_connection(c, requested)
      BY <1>6, <2>2, <2>3, Zenon
    <2>4. CASE goto(c, "ended") /\ spawn(c) /\ UNCHANGED <<flags, seek>>
      <3>1. Typed' /\ NodeFlagsOK(c)'
        BY <1>1, <2>2, <2>4, KindsAssumption, Zenon DEF ServiceConnsInv, spawn, Typed, Phases, goto, NodeFlagsOK, Serving
      <3>. QED  BY <1>3, <2>2, <2>4, <3>1, Zenon
    <2>5. CASE "NODE_REFERENCE" \notin requested /\ open_as_service(c, requested, mode)
      <3>. DEFINE valid == service_new_connection_validate_flags(requested, mode)
      <3>1. "RIGHT_READABLE" \in valid.value /\ "NODE_REFERENCE" \notin valid.value
        BY <2>5, ServiceFlags, Zenon DEF open_as_service
      <3>2. /\ goto(c, "hosted") /\ spawn(c) /\ UNCHANGED seek
            /\ flags' = [flags EXCEPT ![c] = valid.value]
        BY <2>5, Zenon DEF open_as_service
      <3>. HIDE DEF valid
      <3>3. Typed'
        BY <1>1, <2>2, <3>2, KindsAssumption, Zenon DEF ServiceConnsInv, spawn, Typed, Phases, goto
      <3>4. NodeFlagsOK(c)' /\ \A d \in Conns \ {c} : flags'[d] = flags[d]
        BY <1>1, <3>1, <3>2, Zenon DEF ServiceConnsInv, Typed, goto, NodeFlagsOK, Has, Serving
      <3>. QED  BY <1>3, <2>2, <3>2, <3>3, <3>4, Zenon
    <2>. QED  BY <2>1, <2>3, <2>4, <2>5, Zenon DEF open_as_node
  <1>8. ASSUME NEW c \in Conns, ServiceStep(c) PROVE ServiceConnsInv'
    <2>0. UNCHANGED <<fileVars, vmoVars, kind, awaited>>
      BY <1>8, Zenon DEF ServiceStep
    <2>1. CASE ServiceStart(c) /\ ~goto(c, "ended")
      <3>. DEFINE valid == service_new_connection_validate_flags(flags[c], "none")
      <3>1. /\ phase[c] = "start" /\ valid.status = "OK" /\ goto(c, "serving") /\ UNCHANGED <<seek, scopeVars>>
            /\ flags' = [flags EXCEPT ![c] = valid.value]
        BY <2>1, Zenon DEF ServiceStart
      <3>2. "NODE_REFERENCE" \in valid.value /\ valid.value \cap FS_RIGHTS = {}
        BY <1>1, <3>1, ServiceFlags, Zenon DEF ServiceConnsInv, NodeFlagsOK, Has
      <3>. HIDE DEF valid
      <3>3. Typed'
        BY <1>1, <2>0, <3>1, Zenon DEF ServiceConnsInv, Typed, Phases, goto
      <3>4. NodeFlagsOK(c)' /\ \A d \in Conns \ {c} : flags'[d] = flags[d]
        BY <1>1, <3>1, <3>2, Zenon DEF ServiceConnsInv, Typed, goto, NodeFlagsOK, Has, Serving
      <3>. QED  BY <1>3, <2>0, <3>1, <3>3, <3>4, Zenon
    <2>2. CASE goto(c, "ended") /\ (ServiceStart(c) \/ ServiceClose(c) \/ HostedReturns(c) \/ ServiceAbort(c))
      <3>1. UNCHANGED <<seek, scopeVars>> /\ flags' = [d \in Conns |-> flags'[d]] /\ \A d \in Conns \ {c} : flags'[d] = flags[d]
        BY <1>1, <2>2, Zenon DEF ServiceConnsInv, Typed, ServiceStart, ServiceClose, HostedReturns, ServiceAbort
      <3>2. Typed' /\ NodeFlagsOK(c)'
        BY <1>1, <2>0, <2>2, <3>1, Zenon DEF ServiceConnsInv, Typed, Phases, goto, NodeFlagsOK, Serving
      <3>. QED  BY <1>3, <2>0, <2>2, <3>1, <3>2, Zenon
    <2>3. CASE ServiceFinish(c)
      <3>1. Typed' /\ phase' = [phase EXCEPT ![c] = "ended"] /\ NodeFlagsOK(c)' /\ \A d \in Conns \ {c} : flags'[d] = flags[d]
        BY <1>1, <2>0, <2>3, Zenon DEF ServiceConnsInv, Typed, ServiceFinish, task_did_finish, forget, NodeFlagsOK, Serving
      <3>. QED  BY <1>3, <2>0, <3>1, Zenon DEF goto
    <2>4. CASE ServiceClone(c)
      BY <1>6, <2>0, <2>4, ClonesAreNodes, Zenon DEF ServiceClone
    <2>. QED  BY <1>8, <2>1, <2>2, <2>3, <2>4, Zenon
              DEF ServiceStep, ServiceTask, ServiceRequestsNext, ServiceClose, HostedReturns, ServiceAbort
  <1>. QED  BY <1>4, <1>5, <1>7, <1>8, Zenon DEF Next, FileStep, VmoStep

-----------------------------------------------------------------------------
(***************************************************************************)
(* The invariant, and what follows from it.                                *)
(***************************************************************************)

\* The state of a VmoFile is left alone when the node is of another kind.
LEMMA OtherKindsKeepVmo ==
    ASSUME Inv, kind # "vmo", [Next]_vars
    PROVE  vmo' = Uninitialized /\ kind' = kind
  BY Zenon DEF Inv, VmoInv, Next, vars, UseScope, Wait, OpenFile, FileStep, VmoStep, ServiceStep, vmoVars

\* Every step keeps the invariant.
LEMMA StepKeepsInv ==
    ASSUME Inv, [Next]_vars
    PROVE  Inv'
  <1>1. CASE kind = "file"
    BY <1>1, FileKindKeeps, OtherKindsKeepVmo, Zenon DEF Inv, FileInv, VmoInv, ServiceInv, FileConnsInv
  <1>2. CASE kind = "vmo"
    BY <1>2, VmoKindKeeps, Zenon DEF Inv, FileInv, VmoInv, ServiceInv, VmoConnsInv, VmoStateOK, SeeksFit
  <1>3. CASE kind = "service"
    BY <1>3, ServiceKindKeeps, OtherKindsKeepVmo, Zenon DEF Inv, FileInv, VmoInv, ServiceInv, ServiceConnsInv, NodeFlagsOK
  <1>. QED  BY <1>1, <1>2, <1>3, KindsAssumption, Zenon DEF Inv, Typed

\* Inv holds in every reachable state.
THEOREM FilesInvariant == Spec => []Inv
  <1>1. ASSUME Init PROVE Inv
    <2>. USE <1>1 DEF Init, ScopeInit, ConnectionsInit, FileInit, VmoInit
    <2>1. Typed
      BY Zenon DEF Typed, Phases
    <2>2. FileInv
      BY Zenon DEF FileInv, WaitIsKept, CloseIsOwed
    <2>3. Counted = {} /\ ~Initialized
      BY Zenon DEF Counted, Initialized, Uninitialized
    <2>4. LockIsOwn
      BY <2>3, VmoAssumption, Zenon DEF LockIsOwn
    <2>5. VmoInv
      BY <2>3, <2>4, FitsBelow, Zenon DEF VmoInv, Declared
    <2>6. ServiceInv
      BY Zenon DEF ServiceInv, Serving
    <2>. QED  BY <2>1, <2>2, <2>5, <2>6, Zenon DEF Inv
  <1>. QED  BY <1>1, StepKeepsInv, PTL DEF Spec

\* OpenFile: however a connection ends, its file is closed exactly once.
THEOREM ClosedOnceHolds == Spec => []ClosedOnce
  <1>1. Inv => ClosedOnce
    BY DEF Inv, FileInv, CloseIsOwed, ClosedOnce, Typed, Phases
  <1>. QED  BY <1>1, FilesInvariant, PTL

\* ExecutionScope::wait: when it returns, what was alive is closed.
THEOREM ClosedWhenWaitReturnsHolds == Spec => []ClosedWhenWaitReturns
  <1>1. Inv => ClosedWhenWaitReturns
    BY Zenon DEF Inv, FileInv, WaitIsKept, ClosedWhenWaitReturns
  <1>. QED  BY <1>1, FilesInvariant, PTL

\* handle_close never takes the count of connections below zero.
THEOREM CountCoversConnectionsHolds == Spec => []CountCoversConnections
  <1>1. Inv => CountCoversConnections
    BY DEF Inv, VmoInv, CountCoversConnections, Initialized, Uninitialized
  <1>. QED  BY <1>1, FilesInvariant, PTL

\* handle_seek fails to convert the position or the size only on a file whose
\* init_vmo declared more than an i64 holds.
THEOREM SeekFitsI64Holds == Spec => []SeekFitsI64
  <1>1. Inv => SeekFitsI64
    <2>. SUFFICES ASSUME VmoInv, kind = "vmo"
                  PROVE  /\ Initialized => vmo.size <= vmo.declared
                         /\ \A c \in Conns : seek[c] \in i64 \/ (Initialized /\ seek[c] <= vmo.declared)
      BY Zenon DEF Inv, SeekFitsI64
    <2>1. Initialized => vmo \in VmoStates
      BY DEF VmoInv, Initialized, Uninitialized
    <2>2. \A c \in Conns : Fits(seek[c], Declared)
      BY Zenon DEF VmoInv
    <2>3. CASE Initialized
      BY <2>1, <2>2, <2>3, VmoStatesFields, Zenon DEF Fits, Declared
    <2>4. CASE ~Initialized
      BY <2>2, <2>4, FitsBelow DEF Declared
    <2>. QED  BY <2>3, <2>4, Zenon
  <1>. QED  BY <1>1, FilesInvariant, PTL

\* new_connection_validate_flags of a service: no rights through a node reference.
THEOREM NodesHaveNoRightsHolds == Spec => []NodesHaveNoRights
  <1>1. Inv => NodesHaveNoRights
    BY Zenon DEF Inv, ServiceInv, NodesHaveNoRights
  <1>. QED  BY <1>1, FilesInvariant, PTL

\* handle_get_buffer, for any flags of the connection and of the request.
LEMMA BuffersAreReadOnly ==
    ASSUME NEW connection, NEW request, handle_get_buffer(connection, request).status = "OK"
    PROVE  LET value == handle_get_buffer(connection, request).value
           IN  /\ value.shared => value.rights \cap {"WRITE", "SET_PROPERTY"} = {}
               /\ "EXECUTE" \in value.rights => "RIGHT_EXECUTABLE" \in connection
  BY Zenon DEF handle_get_buffer, get_buffer_validate_flags, vmo_flags_to_rights, Ok, Err

\* get_node_info, for any flags of the connection.
LEMMA NodeInfoIsReadOnly ==
    ASSUME NEW connection, get_node_info(connection).status = "OK"
    PROVE  LET value == get_node_info(connection).value
           IN  /\ value.rights \cap {"WRITE", "SET_PROPERTY"} = {}
               /\ "EXECUTE" \in value.rights => "RIGHT_EXECUTABLE" \in connection
  BY Zenon DEF get_node_info, Ok, Err

\* No handle to the shared pages of a VmoFile can write or resize them.
THEOREM SharedHandlesAreReadOnlyHolds == Spec => []SharedHandlesAreReadOnly
  <1>1. Inv => SharedHandlesAreReadOnly
    BY BuffersAreReadOnly, NodeInfoIsReadOnly, Zenon DEF SharedHandlesAreReadOnly, Has
  <1>. QED  BY <1>1, FilesInvariant, PTL

=============================================================================
