------------------------------ MODULE MCFiles ------------------------------
(***************************************************************************)
(* Instances of Files for TLC: two connections, so that one is cloned from *)
(* or races with the other, and numbers of three bits.                     *)
(***************************************************************************)
EXTENDS Files

MCTasks == Conns \cup {CloseTask(c) : c \in Conns}

R == "RIGHT_READABLE"
W == "RIGHT_WRITABLE"

MCOpenRequests ==
    {{R, "TRUNCATE"}, {R, W, "TRUNCATE"}, {"NODE_REFERENCE", R}}
MCCloneRequests == {{R, W, "DESCRIBE"}}
MCVmoRequests ==
    {{"READ"}, {"READ", "WRITE", "PRIVATE_CLONE"}, {"WRITE", "SHARED_BUFFER"}, {"READ", "EXECUTE"}}
MCNodeRights == {R, W}
\* Two that the ready-made handlers return, one of them with a size that the VMO
\* does not have, and one that declares more than an i64 holds.
MCNewVmos ==
    {[simple_init_vmo_with_capacity(1, 2) EXCEPT !.size = 3],
     simple_init_vmo_resizable_with_capacity(1, 2),
     [size |-> 4, vmo_size |-> 2, capacity |-> 4, resizable |-> TRUE]}
MCServiceRequests ==
    {{R}, {R, W, "POSIX_WRITABLE"}, {R, "DESCRIBE"}, {W}, {"NODE_REFERENCE", R, "DESCRIBE"},
     {"NODE_REFERENCE", "APPEND"}, {"NODE_REFERENCE", "DIRECTORY"}}
MCNodeClones == {{"CLONE_SAME_RIGHTS"}, {"CLONE_SAME_RIGHTS", "DESCRIBE"}, {R}}
MCVmoHandleRights == {"READ", "WRITE", "EXECUTE", "SET_PROPERTY", "MAP"}

=============================================================================
