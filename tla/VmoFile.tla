------------------------------ MODULE VmoFile ------------------------------
(***************************************************************************)
(* vfs/rust/src/file/vmo: connections to a file backed by one VMO that the *)
(* first connection makes init_vmo create (asynchronous.rs and             *)
(* connection/io1.rs).  The state of the file is under an async mutex,     *)
(* which a task holds across an await only while init_vmo runs.  The VMO   *)
(* itself is a kernel object: its size is a multiple of the page, it can   *)
(* be resized if it was created so.  A call of it that fails leaves the    *)
(* state as it was, or grown by a write that does not move the position.   *)
(***************************************************************************)
EXTENDS Connections

CONSTANTS
    Page,           \* bytes in a page
    NewVmos,        \* values init_vmo may return: size, vmo_size, capacity, resizable
    VmoLengths,     \* bound: byte counts of requests
    VmoHandleRights \* rights of the handle init_vmo returns

NoConn == "none"

ASSUME VmoAssumption ==
    /\ Page \in Nat \ {0}
    /\ VmoLengths \subseteq Nat
    /\ NewVmos \subseteq [size : u64, vmo_size : Nat, capacity : u64, resizable : BOOLEAN]
    /\ \A v \in NewVmos : v.vmo_size % Page = 0
    /\ NoConn \notin Conns

VARIABLES
    vmo,            \* VmoFileState
    state_lock      \* the connection whose task holds the mutex across an await

vmoVars == <<vmo, state_lock>>

Uninitialized == [state |-> "Uninitialized"]
Initialized == vmo.state = "Initialized"

\* VmoFile::new
VmoInit ==
    /\ vmo = Uninitialized
    /\ state_lock = NoConn

Unlocked == state_lock = NoConn
Round(size) == ((size + Page - 1) \div Page) * Page

-----------------------------------------------------------------------------
(***************************************************************************)
(* Operations on the state, as functions of it.                            *)
(***************************************************************************)

\* What the two ready-made init_vmo handlers return, for content of `size` bytes.
simple_init_vmo_with_capacity(size, capacity) ==
    [size |-> size, vmo_size |-> Round(Max({size, capacity})), capacity |-> capacity, resizable |-> FALSE]

simple_init_vmo_resizable_with_capacity(size, capacity) ==
    [size |-> size, vmo_size |-> Round(size), capacity |-> capacity, resizable |-> TRUE]

\* The state ensure_vmo makes of what init_vmo returned, in a release build: a
\* VMO smaller than the declared size is extended, or the size is reduced.  The
\* field `declared` is a history: the most that init_vmo let the file hold.
ensure_vmo(new) ==
    [state |-> "Initialized", capacity |-> new.capacity, resizable |-> new.resizable,
     size |-> IF new.vmo_size < new.size /\ ~new.resizable THEN new.vmo_size ELSE new.size,
     vmo_size |-> IF new.vmo_size < new.size /\ new.resizable THEN Round(new.size) ELSE new.vmo_size,
     connection_count |-> 0, declared |-> Max({new.size, new.capacity})]

truncate_vmo(v, new_size) ==
    IF new_size > Max({v.size, v.capacity}) THEN Err("OUT_OF_RANGE")
    ELSE IF ~v.resizable THEN Err("UNAVAILABLE")
    ELSE Ok([v EXCEPT !.size = new_size, !.vmo_size = Round(new_size)])

\* The state after `length` bytes at `offset`, and how many were written.
vmo_write_at(v, offset, length) ==
    LET capacity == Max({v.size, v.capacity})
        actual == Min({length, capacity - offset})
        end == offset + actual
        grown == [v EXCEPT !.size = Max({@, end}),
                           !.vmo_size = IF end > @ THEN Round(end) ELSE @]
    IN  IF offset > capacity THEN Err("OUT_OF_RANGE")
        ELSE IF end > v.size /\ end > v.vmo_size /\ ~v.resizable THEN Err("UNAVAILABLE")
        ELSE Ok([vmo |-> grown, actual |-> actual])

\* Mutant: a writable buffer need not be a private clone.
handle_get_buffer_SharedWrite(connection_flags, vmo_flags) ==
    LET valid == get_buffer_validate_flags(vmo_flags, connection_flags)
        private == "PRIVATE_CLONE" \in vmo_flags
    IN  IF valid # "OK" THEN Err(valid)
        ELSE IF {"WRITE", "EXECUTE"} \subseteq vmo_flags THEN Err("NOT_SUPPORTED")
        ELSE Ok([shared |-> ~private, rights |-> vmo_flags_to_rights(vmo_flags)])

\* The handle GetBackingMemory gives out.
handle_get_buffer(connection_flags, vmo_flags) ==
    LET valid == get_buffer_validate_flags(vmo_flags, connection_flags)
        private == "PRIVATE_CLONE" \in vmo_flags
        rights == vmo_flags_to_rights(vmo_flags) \cup {"BASIC", "MAP", "GET_PROPERTY"}
    IN  IF valid # "OK" THEN Err(valid)
        ELSE IF \/ "WRITE" \in vmo_flags /\ ~private
                \/ {"WRITE", "EXECUTE"} \subseteq vmo_flags
             THEN Err("NOT_SUPPORTED")
        ELSE Ok([shared |-> ~private,
                 rights |-> rights \cup IF private THEN {"SET_PROPERTY"} ELSE {}])

\* The handle Describe and the OnOpen event give out, for a connection that is
\* neither a node reference nor writable.
get_node_info(connection_flags) ==
    IF connection_flags \cap {"NODE_REFERENCE", "RIGHT_WRITABLE"} # {} THEN Err("File")
    ELSE Ok([shared |-> TRUE,
             rights |-> VmoHandleRights
                        \ ({"WRITE", "SET_PROPERTY"}
                           \cup IF "RIGHT_EXECUTABLE" \in connection_flags THEN {} ELSE {"EXECUTE"})])

-----------------------------------------------------------------------------
(***************************************************************************)
(* create_connection_task.                                                 *)
(***************************************************************************)

VmoStart(c) ==
    LET valid == file_new_connection_validate_flags(flags[c], NodeRights, FALSE)
    IN  /\ phase[c] = "start"
        /\ IF valid.status = "OK"
           THEN goto(c, "locking") /\ flags' = [flags EXCEPT ![c] = valid.value]
           ELSE goto(c, "ended") /\ UNCHANGED flags
        /\ UNCHANGED <<seek, vmoVars, scopeVars>>

\* With the mutex held and the state v initialized: truncate if asked to, count
\* the connection, release the mutex, and make the request stream.  A failure
\* of the last leaves the connection counted.
attach(c, v) ==
    LET truncated == IF Has(c, "TRUNCATE") THEN truncate_vmo(v, 0) ELSE Ok(v)
    IN  IF truncated.status # "OK"
        THEN vmo' = v /\ goto(c, "ended")
        ELSE /\ vmo' = [truncated.value EXCEPT !.connection_count = @ + 1]
             /\ \/ goto(c, "ended")
                \/ goto(c, IF Has(c, "DESCRIBE") THEN "describing" ELSE "serving")

\* The mutex is free: go on if the file is initialized, else await init_vmo
\* with the mutex held.
VmoLock(c) ==
    /\ phase[c] = "locking" /\ Unlocked
    /\ IF Initialized
       THEN attach(c, vmo) /\ UNCHANGED state_lock
       ELSE goto(c, "initializing") /\ state_lock' = c /\ UNCHANGED vmo
    /\ UNCHANGED <<flags, seek, scopeVars>>

\* init_vmo returns.
VmoInitialized(c) ==
    /\ phase[c] = "initializing"
    /\ state_lock' = NoConn
    /\ \/ goto(c, "ended") /\ UNCHANGED vmo
       \/ \E new \in NewVmos : attach(c, ensure_vmo(new))
    /\ UNCHANGED <<flags, seek, scopeVars>>

\* The OnOpen event is sent, or the peer is gone.
VmoDescribe(c) ==
    /\ phase[c] = "describing" /\ Unlocked
    /\ \E p \in {"serving", "ended"} : goto(c, p)
    /\ UNCHANGED <<flags, seek, vmoVars, scopeVars>>

-----------------------------------------------------------------------------
(***************************************************************************)
(* Requests.                                                               *)
(***************************************************************************)

VmoServing(c) == Serving(c) /\ Unlocked /\ Initialized

VmoRead(c) ==
    /\ VmoServing(c) /\ Has(c, "RIGHT_READABLE")
    /\ \E count \in VmoLengths :
        seek' = [seek EXCEPT ![c] = IF @ > vmo.size THEN @ ELSE @ + Min({count, vmo.size - @})]
    /\ UNCHANGED <<phase, flags, vmoVars, scopeVars>>

\* handle_write, handle_write_at: Write is at the seek position and moves it.
VmoWrite(c) ==
    /\ VmoServing(c) /\ Has(c, "RIGHT_WRITABLE")
    /\ \E length \in VmoLengths, offset \in u64 :
        LET result == vmo_write_at(vmo, offset, length)
        IN  /\ result.status = "OK"
            /\ vmo' = result.value.vmo
            /\ \/ offset = seek[c] /\ seek' = [seek EXCEPT ![c] = @ + result.value.actual]
               \/ UNCHANGED seek
    /\ UNCHANGED <<phase, flags, state_lock, scopeVars>>

\* Mutant: the new position is not checked to fit an i64.
VmoSeek_Wraps(c) ==
    /\ VmoServing(c) /\ ~Has(c, "NODE_REFERENCE")
    /\ \E origin \in {0, seek[c], vmo.size} \cap i64, offset \in i64 :
        /\ origin + offset >= 0
        /\ seek' = [seek EXCEPT ![c] = (origin + offset) % 2^Width]
    /\ UNCHANGED <<phase, flags, vmoVars, scopeVars>>

\* handle_seek: checked_add on i64, then a conversion that refuses negatives.  An
\* origin that is no i64 panics, which ends the server: there is no such step.
VmoSeek(c) ==
    /\ VmoServing(c) /\ ~Has(c, "NODE_REFERENCE")
    /\ \E origin \in {0, seek[c], vmo.size} \cap i64, offset \in i64 :
        /\ origin + offset \in i64 \cap Nat
        /\ seek' = [seek EXCEPT ![c] = origin + offset]
    /\ UNCHANGED <<phase, flags, vmoVars, scopeVars>>

\* handle_truncate moves the seek position back only below the new capacity.
VmoResize(c) ==
    /\ VmoServing(c) /\ Has(c, "RIGHT_WRITABLE")
    /\ \E length \in u64 :
        LET result == truncate_vmo(vmo, length)
        IN  /\ result.status = "OK"
            /\ vmo' = result.value
            /\ seek' = [seek EXCEPT ![c] = Min({@, Max({length, vmo.capacity})})]
    /\ UNCHANGED <<phase, flags, state_lock, scopeVars>>

VmoClone(c) == VmoServing(c) /\ handle_clone(c) /\ UNCHANGED vmoVars

\* Mutant: handle_close runs for Close and again when the channel closes.
VmoClose_Repeated(c) ==
    /\ VmoServing(c)
    /\ vmo' = [vmo EXCEPT !.connection_count = @ - 1]
    /\ \E p \in {"serving", "ended"} : goto(c, p)
    /\ UNCHANGED <<flags, seek, state_lock, scopeVars>>

\* handle_close, for Close, a closed channel, or an error.
VmoClose(c) ==
    /\ VmoServing(c)
    /\ vmo' = [vmo EXCEPT !.connection_count = @ - 1]
    /\ goto(c, "ended")
    /\ UNCHANGED <<flags, seek, state_lock, scopeVars>>

\* FirstToFinish: the scope's signal ends a task that is pending.  Its future is
\* dropped, with the mutex guard it may hold, and handle_close is not called.
VmoAbort(c) ==
    /\ c \in taken
    /\ \/ phase[c] \in {"serving", "initializing"}
       \/ phase[c] = "locking" /\ ~Unlocked
    /\ goto(c, "ended")
    /\ state_lock' = IF state_lock = c THEN NoConn ELSE state_lock
    /\ UNCHANGED <<flags, seek, vmo, scopeVars>>

\* The continuation of the task leaves the scope.
VmoFinish(c) ==
    /\ phase[c] = "ended"
    /\ task_did_finish(c)
    /\ forget(c)
    /\ UNCHANGED vmoVars

VmoTask(c) ==
    \/ VmoStart(c) \/ VmoLock(c) \/ VmoInitialized(c) \/ VmoDescribe(c)
    \/ VmoAbort(c) \/ VmoFinish(c)

VmoRequestsNext(c) ==
    \/ VmoRead(c) \/ VmoWrite(c) \/ VmoSeek(c) \/ VmoResize(c)
    \/ VmoClone(c) \/ VmoClose(c)

=============================================================================
