--------------------------- MODULE FileConnection ---------------------------
(***************************************************************************)
(* vfs/rust/src/file/connection/io1.rs: connections to a file that         *)
(* implements the trait File of file.rs.  The implementation of File is    *)
(* outside of the library: an operation of it takes effect at once, and    *)
(* may fail.  The file is closed through OpenFile (connection/util.rs),    *)
(* by the request Close or by a task that dropping the connection spawns.  *)
(***************************************************************************)
EXTENDS Connections

CONSTANTS
    MaxFileSize,    \* bound: bytes the implementation of File can hold
    MaxBuf,         \* fio::MAX_BUF
    SeekOffsets,    \* bound: offsets of Seek requests
    Lengths         \* bound: byte counts of requests

VARIABLES
    file_size,      \* the content of the file
    open_file_held, \* OpenFile::file is Some, by connection
    closes          \* calls of File::close, by connection

fileVars == <<file_size, open_file_held, closes>>

CloseTask(c) == <<"close", c>>

FileInit ==
    /\ file_size = 0
    /\ open_file_held = [c \in Conns |-> FALSE]
    /\ closes = [c \in Conns |-> 0]

-----------------------------------------------------------------------------
(***************************************************************************)
(* create_connection_async.                                                *)
(***************************************************************************)

\* OpenFile::new, then the flags are validated.
FileStart(c) ==
    LET valid == file_new_connection_validate_flags(flags[c], NodeRights, TRUE)
    IN  /\ phase[c] = "start"
        /\ open_file_held' = [open_file_held EXCEPT ![c] = TRUE]
        /\ IF valid.status = "OK"
           THEN goto(c, "opening") /\ flags' = [flags EXCEPT ![c] = valid.value]
           ELSE goto(c, "dropping") /\ UNCHANGED flags
        /\ UNCHANGED <<seek, file_size, closes, scopeVars>>

\* describe, the request stream and the OnOpen event: the first and the last
\* can fail only when the client asked for a description.
begin_requests(c) == \E p \in {"serving", "dropping"} : goto(c, p)

\* File::open returns.
FileOpened(c) ==
    /\ phase[c] = "opening"
    /\ \/ goto(c, "dropping")
       \/ Has(c, "TRUNCATE") /\ goto(c, "truncating")
       \/ ~Has(c, "TRUNCATE") /\ begin_requests(c)
    /\ UNCHANGED <<flags, seek, fileVars, scopeVars>>

\* File::truncate(0) returns.
FileTruncated(c) ==
    /\ phase[c] = "truncating"
    /\ \/ goto(c, "dropping") /\ UNCHANGED file_size
       \/ begin_requests(c) /\ file_size' = 0
    /\ UNCHANGED <<flags, seek, open_file_held, closes, scopeVars>>

-----------------------------------------------------------------------------
(***************************************************************************)
(* Requests.  A request whose answer cannot be sent ends the connection.   *)
(***************************************************************************)

answer(c) == UNCHANGED phase \/ goto(c, "dropping")

\* File::read_at, external: at most `count` bytes before the end.
read_at(offset, count) == IF offset >= file_size THEN 0 ELSE Min({count, file_size - offset})

FileRead(c) ==
    /\ Serving(c) /\ Has(c, "RIGHT_READABLE")
    /\ \E count \in Lengths :
        /\ count <= MaxBuf
        /\ seek' = [seek EXCEPT ![c] = @ + read_at(@, count)]
    /\ answer(c)
    /\ UNCHANGED <<flags, fileVars, scopeVars>>

\* File::write_at and File::append, external: as much as there is room for.
write_at(offset, length) == IF offset >= MaxFileSize THEN 0 ELSE Min({length, MaxFileSize - offset})
size_after(offset, actual) == IF actual = 0 THEN file_size ELSE Max({file_size, offset + actual})

\* handle_write: at the end when the connection appends, else at the seek
\* position, which moves past what was written.
FileWrite(c) ==
    /\ Serving(c) /\ Has(c, "RIGHT_WRITABLE")
    /\ \E length \in Lengths :
        LET offset == IF Has(c, "APPEND") THEN file_size ELSE seek[c]
            actual == write_at(offset, length)
        IN  /\ seek' = [seek EXCEPT ![c] = offset + actual]
            /\ file_size' = size_after(offset, actual)
    /\ answer(c)
    /\ UNCHANGED <<flags, open_file_held, closes, scopeVars>>

\* handle_write_at
FileWriteAt(c) ==
    /\ Serving(c) /\ Has(c, "RIGHT_WRITABLE")
    /\ \E offset \in 0..MaxFileSize, length \in Lengths :
        file_size' = size_after(offset, write_at(offset, length))
    /\ answer(c)
    /\ UNCHANGED <<flags, seek, open_file_held, closes, scopeVars>>

\* handle_seek computes in i128 and keeps the low bits.
FileSeek(c) ==
    /\ Serving(c) /\ ~Has(c, "NODE_REFERENCE")
    /\ \E origin \in {0, seek[c], file_size}, offset \in SeekOffsets :
        /\ origin + offset >= 0
        /\ seek' = [seek EXCEPT ![c] = (origin + offset) % 2^Width]
    /\ answer(c)
    /\ UNCHANGED <<flags, fileVars, scopeVars>>

\* handle_truncate
FileResize(c) ==
    /\ Serving(c) /\ Has(c, "RIGHT_WRITABLE")
    /\ \E length \in 0..MaxFileSize : file_size' = length
    /\ answer(c)
    /\ UNCHANGED <<flags, seek, open_file_held, closes, scopeVars>>

\* SetFlags changes only APPEND.
FileSetFlags(c) ==
    /\ Serving(c)
    /\ \E append \in SUBSET {"APPEND"} :
        flags' = [flags EXCEPT ![c] = (@ \ {"APPEND"}) \cup append]
    /\ answer(c)
    /\ UNCHANGED <<seek, fileVars, scopeVars>>

FileClone(c) == handle_clone(c) /\ UNCHANGED fileVars

\* Mutant: Close leaves the file in OpenFile.
FileClose_NotTaken(c) ==
    /\ Serving(c)
    /\ goto(c, "closing")
    /\ UNCHANGED <<flags, seek, file_size, open_file_held, closes, scopeVars>>

\* Close takes the file out of OpenFile and awaits File::close.
FileClose(c) ==
    /\ Serving(c)
    /\ open_file_held' = [open_file_held EXCEPT ![c] = FALSE]
    /\ goto(c, "closing")
    /\ UNCHANGED <<flags, seek, file_size, closes, scopeVars>>

FileClosed(c) ==
    /\ phase[c] = "closing"
    /\ closes' = [closes EXCEPT ![c] = @ + 1]
    /\ goto(c, "dropping")
    /\ UNCHANGED <<flags, seek, file_size, open_file_held, scopeVars>>

\* The client went away, a message could not be decoded, or the answer could not
\* be sent to a request that changes nothing here: GetAttr, SetAttr, Sync,
\* Describe, GetFlags, GetBackingMemory, QueryFilesystem, AdvisoryLock, and every
\* request that is refused.
FileHangup(c) ==
    /\ Serving(c)
    /\ goto(c, "dropping")
    /\ UNCHANGED <<flags, seek, fileVars, scopeVars>>

\* The scope is shutting down: handle_requests looks at the shutdown channel
\* between two requests.
FileShutdown(c) ==
    /\ Serving(c) /\ c \in taken
    /\ goto(c, "dropping")
    /\ UNCHANGED <<flags, seek, fileVars, scopeVars>>

-----------------------------------------------------------------------------
(***************************************************************************)
(* The end of a connection.                                                *)
(***************************************************************************)

\* Mutant: only the request Close closes the file.
FileDrop_NoClose(c) ==
    /\ phase[c] = "dropping"
    /\ goto(c, "ended")
    /\ open_file_held' = [open_file_held EXCEPT ![c] = FALSE]
    /\ UNCHANGED <<flags, seek, file_size, closes, scopeVars>>

\* Drop for OpenFile: a file that is still held is closed by a task of its own.
FileDrop(c) ==
    /\ phase[c] = "dropping"
    /\ goto(c, "ended")
    /\ open_file_held' = [open_file_held EXCEPT ![c] = FALSE]
    /\ IF open_file_held[c] THEN spawn(CloseTask(c)) ELSE UNCHANGED scopeVars
    /\ UNCHANGED <<flags, seek, file_size, closes>>

\* The future of the connection is gone; its continuation leaves the scope.
ConnectionFinish(c) ==
    /\ phase[c] = "ended"
    /\ task_did_finish(c)
    /\ forget(c)

\* The task that Drop spawned: File::close returns and the task leaves the scope.
FileCloseTask(c) ==
    /\ task_did_finish(CloseTask(c))
    /\ closes' = [closes EXCEPT ![c] = @ + 1]
    /\ UNCHANGED <<connVars, file_size, open_file_held>>

FileTask(c) ==
    \/ FileStart(c) \/ FileOpened(c) \/ FileTruncated(c)
    \/ FileClosed(c) \/ FileShutdown(c) \/ FileDrop(c)
    \/ ConnectionFinish(c) /\ UNCHANGED fileVars
    \/ FileCloseTask(c)

FileRequests(c) ==
    \/ FileRead(c) \/ FileWrite(c) \/ FileWriteAt(c) \/ FileSeek(c) \/ FileResize(c)
    \/ FileSetFlags(c) \/ FileClone(c) \/ FileClose(c) \/ FileHangup(c)

=============================================================================
