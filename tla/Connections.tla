---------------------------- MODULE Connections ----------------------------
(***************************************************************************)
(* What the tasks of file connections have in common: the scope that runs  *)
(* them, the phase a task has reached, the flags of the connection and its *)
(* seek position.  A connection c runs in the task c of the scope.         *)
(***************************************************************************)
EXTENDS ExecutionScope, OpenFlags, Integers, FiniteSetsExt

CONSTANTS
    Conns,          \* connections
    OpenRequests,   \* sets of flags a client passes to Open
    CloneRequests,  \* sets of flags a client passes to Clone
    VmoRequests,    \* sets of flags of GetBackingMemory
    Width,          \* bits of a u64
    NodeRights      \* rights the file supports

ASSUME ConnectionsAssumption ==
    /\ Conns \subseteq Tasks
    /\ OpenRequests \subseteq SUBSET OpenFlagNames
    /\ CloneRequests \subseteq SUBSET OpenFlagNames
    /\ Width \in Nat \ {0, 1}
    /\ 2^(Width - 1) > 0        \* arithmetic that the provers do not know
    /\ NodeRights \subseteq FS_RIGHTS
    /\ ~({"RIGHT_WRITABLE", "RIGHT_EXECUTABLE"} \subseteq NodeRights)

VARIABLES
    phase,          \* how far the task of a connection has come
    flags,          \* flags of a connection: as requested, later as validated
    seek            \* seek position

connVars == <<phase, flags, seek>>

u64 == 0..(2^Width - 1)
i64 == -(2^(Width - 1))..(2^(Width - 1) - 1)

ConnectionsInit ==
    /\ phase = [c \in Conns |-> "unused"]
    /\ flags = [c \in Conns |-> {}]
    /\ seek = [c \in Conns |-> 0]

goto(c, p) == phase' = [phase EXCEPT ![c] = p]
Serving(c) == phase[c] = "serving"
Has(c, flag) == flag \in flags[c]

\* The value of the connection is dropped with its task.
forget(c) ==
    /\ flags' = [flags EXCEPT ![c] = {}]
    /\ seek' = [seek EXCEPT ![c] = 0]
    /\ UNCHANGED phase

\* create_connection: the task starts with the flags of the request.
create_connection(c, requested) ==
    /\ phase[c] = "unused"
    /\ goto(c, "start")
    /\ flags' = [flags EXCEPT ![c] = requested]
    /\ spawn(c)
    /\ UNCHANGED seek

\* DirectoryEntry::open of a file: a path that goes on below it is refused
\* with NOT_DIR, so only an empty path comes this far.
open_file(c) ==
    /\ handles > 0
    /\ \E requested \in OpenRequests : create_connection(c, requested)

\* handle_clone: a new connection with no more rights than this one.
handle_clone(c) ==
    /\ Serving(c)
    /\ \E d \in Conns, requested \in CloneRequests :
        LET inherited == inherit_rights_for_clone(flags[c], requested)
        IN  inherited.status = "OK" /\ create_connection(d, inherited.value)

=============================================================================
