------------------------------- MODULE Files -------------------------------
(***************************************************************************)
(* One execution scope and the connections it hosts to one node, which is  *)
(* a VmoFile, an implementation of File or a Service.  The clients send    *)
(* any request at any time, and the users of the scope shut it down, wait  *)
(* for it and drop it.                                                     *)
(***************************************************************************)
EXTENDS FileConnection, VmoFile, ServiceConnection

CONSTANT Kinds      \* kinds of node considered

ASSUME KindsAssumption ==
    /\ Kinds \subseteq {"file", "vmo", "service"}
    /\ Tasks = Conns \cup {CloseTask(c) : c \in Conns}
    /\ \A c, d \in Conns : CloseTask(c) # d

VARIABLES
    kind,           \* the kind of the node
    awaited         \* history: connections alive when a wait() was called

vars == <<scopeVars, connVars, fileVars, vmoVars, kind, awaited>>

Init ==
    /\ ScopeInit /\ ConnectionsInit /\ FileInit /\ VmoInit
    /\ kind \in Kinds
    /\ awaited = [w \in Waiters |-> {}]

Alive == {c \in Conns : phase[c] # "unused"}

\* A client or a user of the scope.
Wait(w) ==
    /\ wait(w)
    /\ awaited' = [awaited EXCEPT ![w] = Alive]
    /\ UNCHANGED <<connVars, fileVars, vmoVars, kind>>

UseScope ==
    /\ shutdown \/ clone_scope \/ drop_scope
    /\ UNCHANGED <<connVars, fileVars, vmoVars, kind, awaited>>

OpenFile(c) ==
    /\ IF kind = "service" THEN open_service(c) ELSE open_file(c)
    /\ UNCHANGED <<fileVars, vmoVars, kind, awaited>>

FileStep(c) ==
    /\ kind = "file"
    /\ FileTask(c) \/ FileRequests(c)
    /\ UNCHANGED <<vmoVars, kind, awaited>>

VmoStep(c) ==
    /\ kind = "vmo"
    /\ VmoTask(c) \/ VmoRequestsNext(c)
    /\ UNCHANGED <<fileVars, kind, awaited>>

ServiceStep(c) ==
    /\ kind = "service"
    /\ ServiceTask(c) \/ ServiceRequestsNext(c)
    /\ UNCHANGED <<fileVars, vmoVars, kind, awaited>>

Next ==
    \/ UseScope
    \/ \E w \in Waiters : Wait(w)
    \/ \E c \in Conns : OpenFile(c) \/ FileStep(c) \/ VmoStep(c) \/ ServiceStep(c)

\* The executor polls every task that can make progress; clients and users of
\* the scope are under no obligation.
Fairness ==
    \A c \in Conns :
        /\ WF_vars(kind = "file" /\ FileTask(c) /\ UNCHANGED <<vmoVars, kind, awaited>>)
        /\ WF_vars(kind = "vmo" /\ VmoTask(c) /\ UNCHANGED <<fileVars, kind, awaited>>)
        /\ WF_vars(kind = "service" /\ ServiceTask(c) /\ UNCHANGED <<fileVars, vmoVars, kind, awaited>>)

Spec == Init /\ [][Next]_vars /\ Fairness

-----------------------------------------------------------------------------

Phases ==
    {"unused", "start", "opening", "truncating", "locking", "initializing", "describing",
     "serving", "hosted", "closing", "dropping", "ended"}

\* The values of the variables.
TypeOK ==
    /\ ScopeTypeOK
    /\ phase \in [Conns -> Phases]
    /\ flags \in [Conns -> SUBSET OpenFlagNames]
    /\ seek \in [Conns -> u64]
    /\ file_size \in 0..MaxFileSize
    /\ open_file_held \in [Conns -> BOOLEAN]
    /\ closes \in [Conns -> Nat]
    /\ state_lock \in Conns \cup {NoConn}
    /\ kind \in Kinds

\* OpenFile (connection/util.rs): however a connection ends, File::close is
\* called at most once for it, and has been called when its tasks are gone.
ClosedOnce ==
    kind = "file" => \A c \in Conns :
        /\ closes[c] <= 1
        /\ phase[c] = "ended" /\ {c, CloseTask(c)} \cap running = {} => closes[c] = 1

\* wait (execution_scope.rs): when it returns, the connections that were alive
\* when it was called are closed.  The task that closes a file is in the scope
\* before the task of the connection leaves it.
ClosedWhenWaitReturns ==
    kind = "file" => \A w \in waited, c \in Conns : c \in awaited[w] => closes[c] = 1

Counted == {c \in Conns : phase[c] \in {"describing", "serving"}}

\* handle_close (vmo/connection/io1.rs): the count of connections never falls
\* below the connections that will still lower it, so it cannot wrap below zero.
CountCoversConnections ==
    Initialized => vmo.connection_count >= Cardinality(Counted)

\* VmoFileState: a connection is never served while the file is uninitialized,
\* which each handler reports as a bug, and `size` never exceeds `vmo_size`.
ServedWhenInitialized ==
    /\ kind = "vmo" /\ Counted # {} => Initialized
    /\ Initialized => vmo.size <= vmo.vmo_size

\* handle_seek (vmo/connection/io1.rs) converts the seek position, or the size of
\* the file, to i64 and unwraps the result.  Requests alone never make either too
\* large: beyond i64::MAX they stay within the size or capacity that init_vmo
\* declared, so only a file declared larger than i64::MAX can panic.  A position
\* may be left beyond a file that another connection has shortened.
SeekFitsI64 ==
    kind = "vmo" =>
        /\ Initialized => vmo.size <= vmo.declared
        /\ \A c \in Conns : \/ seek[c] \in i64
                            \/ Initialized /\ seek[c] <= vmo.declared

\* handle_get_buffer and get_node_info: a handle that shares the pages of the
\* file can neither write nor resize it, and no handle can execute unless the
\* connection can.
SharedHandlesAreReadOnly ==
    kind = "vmo" => \A c \in Counted :
        \A granted \in {handle_get_buffer(flags[c], f) : f \in VmoRequests} \cup {get_node_info(flags[c])} :
            granted.status = "OK" =>
                /\ granted.value.shared => granted.value.rights \cap {"WRITE", "SET_PROPERTY"} = {}
                /\ "EXECUTE" \in granted.value.rights => Has(c, "RIGHT_EXECUTABLE")

\* new_connection_validate_flags (service/common.rs) keeps NODE_REFERENCE "to make
\* it easier for the caller to distinguish these two cases": who speaks fuchsia.io
\* to the node has no rights, however many clones away from the open, and who
\* speaks to the service has asked for read permission.
NodesHaveNoRights ==
    kind = "service" => \A c \in Conns :
        /\ Serving(c) => Has(c, "NODE_REFERENCE") /\ flags[c] \cap FS_RIGHTS = {}
        /\ phase[c] = "hosted" => Has(c, "RIGHT_READABLE") /\ ~Has(c, "NODE_REFERENCE")

\* shutdown: once every connection has been told to stop, a caller of wait()
\* returns, unless a connection that was not told comes in.
Stopping == \A c \in Conns : c \in running => c \in taken

ShutdownCompletes ==
    \A w \in Waiters : w \in waiters /\ Stopping ~> w \in waited \/ ~Stopping
=============================================================================
