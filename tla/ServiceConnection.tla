------------------------- MODULE ServiceConnection -------------------------
(***************************************************************************)
(* vfs/rust/src/service.rs and service/connection/io1.rs: a node that      *)
(* hosts a service.  A connection is handed to the service, or serves      *)
(* fuchsia.io requests about the node itself when it was opened with       *)
(* NODE_REFERENCE.                                                         *)
(***************************************************************************)
EXTENDS Connections

CONSTANTS
    ServiceRequests,    \* sets of flags a client passes to Open
    ServiceModes,       \* type parts of the mode it passes
    NodeClones          \* sets of flags a client passes to Clone

\* The connection is a node: its task starts with the flags of the request, and
\* ends at once if the mode is not one for a service.
open_as_node(c, requested, mode) ==
    IF service_new_connection_validate_flags({"NODE_REFERENCE"}, mode).status = "OK"
    THEN create_connection(c, requested)
    ELSE /\ phase[c] = "unused"
         /\ goto(c, "ended")
         /\ spawn(c)
         /\ UNCHANGED <<flags, seek>>

\* The connection goes to the service, whose task `host` runs in the scope.  A
\* request that is not valid has no effect but to close the channel.
open_as_service(c, requested, mode) ==
    LET valid == service_new_connection_validate_flags(requested, mode)
    IN  /\ valid.status = "OK"
        /\ phase[c] = "unused"
        /\ goto(c, "hosted")
        /\ flags' = [flags EXCEPT ![c] = valid.value]
        /\ spawn(c)
        /\ UNCHANGED seek

open_service(c) ==
    /\ handles > 0
    /\ \E requested \in ServiceRequests, mode \in ServiceModes :
        IF "NODE_REFERENCE" \in requested THEN open_as_node(c, requested, mode)
        ELSE open_as_service(c, requested, mode)

\* create_connection_task: the flags are validated, and OnOpen is sent.
ServiceStart(c) ==
    LET valid == service_new_connection_validate_flags(flags[c], "none")
    IN  /\ phase[c] = "start"
        /\ \/ /\ valid.status = "OK"
              /\ goto(c, "serving") /\ flags' = [flags EXCEPT ![c] = valid.value]
           \/ goto(c, "ended") /\ UNCHANGED flags
        /\ UNCHANGED <<seek, scopeVars>>

\* handle_clone: the clone is a node, too.
ServiceClone(c) ==
    /\ Serving(c)
    /\ \E d \in Conns, requested \in NodeClones :
        LET inherited == inherit_rights_for_clone({"NODE_REFERENCE"}, requested)
        IN  inherited.status = "OK" /\ create_connection(d, inherited.value)

\* handle_requests ends after Close, an error or a closed channel.
ServiceClose(c) ==
    /\ Serving(c)
    /\ goto(c, "ended")
    /\ UNCHANGED <<flags, seek, scopeVars>>

\* The service is done with the connection.
HostedReturns(c) ==
    /\ phase[c] = "hosted"
    /\ goto(c, "ended")
    /\ UNCHANGED <<flags, seek, scopeVars>>

\* run_abort_with_shutdown drops the future of either.
ServiceAbort(c) ==
    /\ c \in taken
    /\ phase[c] \in {"serving", "hosted"}
    /\ goto(c, "ended")
    /\ UNCHANGED <<flags, seek, scopeVars>>

ServiceFinish(c) ==
    /\ phase[c] = "ended"
    /\ task_did_finish(c)
    /\ forget(c)

ServiceTask(c) == ServiceStart(c) \/ ServiceAbort(c) \/ ServiceFinish(c)
ServiceRequestsNext(c) == ServiceClone(c) \/ ServiceClose(c) \/ HostedReturns(c)

=============================================================================
