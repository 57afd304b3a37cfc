----------------------------- MODULE OpenFlags -----------------------------
(***************************************************************************)
(* The flags of a connection and the functions of vfs/rust that validate,  *)
(* inherit and convert them (common.rs, file/common.rs, service/common.rs  *)
(* and directory/common.rs).  A fio::OpenFlags or fio::VmoFlags value is the   *)
(* set of the names of its bits; a Result is a record with a status, and   *)
(* the value when the status is "OK".                                      *)
(***************************************************************************)
EXTENDS Naturals

FS_RIGHTS == {"RIGHT_READABLE", "RIGHT_WRITABLE", "RIGHT_EXECUTABLE"}

OPEN_FLAGS_ALLOWED_WITH_NODE_REFERENCE ==
    {"DIRECTORY", "NOT_DIRECTORY", "DESCRIBE", "NODE_REFERENCE"}

PosixFlags == {"POSIX_DEPRECATED", "POSIX_WRITABLE", "POSIX_EXECUTABLE"}

\* Bits every kind of node accepts at open time.
NodeFlags == {"NODE_REFERENCE", "DESCRIBE", "CREATE", "CREATE_IF_ABSENT"}

OpenFlagNames ==
    FS_RIGHTS \cup PosixFlags \cup NodeFlags
        \cup {"APPEND", "TRUNCATE", "DIRECTORY", "NOT_DIRECTORY", "CLONE_SAME_RIGHTS"}

Ok(value) == [status |-> "OK", value |-> value]
Err(status) == [status |-> status]

stricter_or_same_rights(parent_flags, flags) ==
    flags \cap FS_RIGHTS \subseteq parent_flags

inherit_rights_for_clone(parent_flags, flags) ==
    LET same == "CLONE_SAME_RIGHTS" \in flags
        kept == flags \cup (parent_flags \cap {"APPEND", "NODE_REFERENCE"})
        inherited == IF same
                     THEN (kept \ {"CLONE_SAME_RIGHTS"}) \cup (parent_flags \cap FS_RIGHTS)
                     ELSE kept
    IN  IF same /\ flags \cap FS_RIGHTS # {} THEN Err("INVALID_ARGS")
        ELSE IF ~stricter_or_same_rights(parent_flags, inherited) THEN Err("ACCESS_DENIED")
        ELSE Ok(inherited \ PosixFlags)

-----------------------------------------------------------------------------
(***************************************************************************)
(* Files.  node_rights is the subset of FS_RIGHTS the file supports.       *)
(***************************************************************************)

file_new_connection_validate_flags(requested, node_rights, append_allowed) ==
    LET node == "NODE_REFERENCE" \in requested
        masked == IF node THEN requested \cap OPEN_FLAGS_ALLOWED_WITH_NODE_REFERENCE
                  ELSE requested
        rights == IF node THEN {} ELSE node_rights
        writable == "RIGHT_WRITABLE" \in rights
        flags == masked \ (PosixFlags \cup {"NOT_DIRECTORY"})
        allowed_flags == NodeFlags \cup rights
                         \cup (IF writable THEN {"TRUNCATE"} ELSE {})
                         \cup (IF writable /\ append_allowed THEN {"APPEND"} ELSE {})
        prohibited_flags == (((IF "RIGHT_READABLE" \in rights THEN {"TRUNCATE"} ELSE {})
                              \cup (IF writable THEN {"APPEND"} ELSE {})) \ allowed_flags)
                            \cup (IF "RIGHT_WRITABLE" \in flags THEN {} ELSE {"TRUNCATE"})
    IN  IF "DIRECTORY" \in masked THEN Err("NOT_DIR")
        ELSE IF (flags \cap FS_RIGHTS) \ rights # {} THEN Err("ACCESS_DENIED")
        ELSE IF flags \cap prohibited_flags # {} THEN Err("INVALID_ARGS")
        ELSE IF flags \ allowed_flags # {} THEN Err("NOT_SUPPORTED")
        ELSE Ok(flags)

vmo_flags_to_rights(vmo_flags) == vmo_flags \cap {"READ", "WRITE", "EXECUTE"}

get_buffer_validate_flags(vmo_flags, connection_flags) ==
    IF {"PRIVATE_CLONE", "SHARED_BUFFER"} \subseteq vmo_flags THEN "INVALID_ARGS"
    ELSE IF \/ "READ" \in vmo_flags /\ "RIGHT_READABLE" \notin connection_flags
            \/ "WRITE" \in vmo_flags /\ "RIGHT_WRITABLE" \notin connection_flags
            \/ "EXECUTE" \in vmo_flags /\ ~({"RIGHT_EXECUTABLE", "RIGHT_READABLE"} \subseteq connection_flags)
         THEN "ACCESS_DENIED"
    ELSE "OK"

-----------------------------------------------------------------------------
(***************************************************************************)
(* Services.  The type part of an open mode is "none", "service",          *)
(* "directory", "file" or another type.                                    *)
(***************************************************************************)

service_new_connection_validate_flags(requested, mode) ==
    LET node == "NODE_REFERENCE" \in requested
        plain == requested \ (PosixFlags \cup {"NOT_DIRECTORY"})
        flags == IF node THEN plain \ {"RIGHT_READABLE", "RIGHT_WRITABLE"} ELSE plain
    IN  IF mode = "directory" \/ "DIRECTORY" \in flags THEN Err("NOT_DIR")
        ELSE IF mode = "file" THEN Err("NOT_FILE")
        ELSE IF mode \notin {"none", "service"} THEN Err("INVALID_ARGS")
        ELSE IF node
        THEN IF flags \subseteq OPEN_FLAGS_ALLOWED_WITH_NODE_REFERENCE
             THEN Ok(flags \cap {"NODE_REFERENCE", "DESCRIBE"}) ELSE Err("INVALID_ARGS")
        ELSE IF "RIGHT_READABLE" \notin flags THEN Err("ACCESS_DENIED")
        ELSE IF flags \subseteq {"RIGHT_READABLE", "RIGHT_WRITABLE"} THEN Ok(flags)
        ELSE Err("INVALID_ARGS")

-----------------------------------------------------------------------------
(***************************************************************************)
(* Directories.  The type part of an open mode is "none", "directory",     *)
(* "file" or another type.                                                 *)
(***************************************************************************)

directory_new_connection_validate_flags(requested) ==
    LET masked == IF "NODE_REFERENCE" \in requested
                  THEN requested \cap OPEN_FLAGS_ALLOWED_WITH_NODE_REFERENCE
                  ELSE requested
        posix == masked \cap PosixFlags
        expanded == masked
            \cup (IF posix \cap {"POSIX_DEPRECATED", "POSIX_EXECUTABLE"} # {}
                  THEN {"RIGHT_EXECUTABLE"} ELSE {})
            \cup (IF posix \cap {"POSIX_DEPRECATED", "POSIX_WRITABLE"} # {}
                  THEN {"RIGHT_WRITABLE"} ELSE {})
        flags == expanded \ (PosixFlags \cup {"DIRECTORY"})
    IN  IF "NOT_DIRECTORY" \in masked THEN Err("NOT_FILE")
        ELSE IF flags \cap {"APPEND", "TRUNCATE"} # {} THEN Err("INVALID_ARGS")
        ELSE IF flags \ (NodeFlags \cup FS_RIGHTS) # {} THEN Err("NOT_SUPPORTED")
        ELSE Ok(flags)

\* Mutant: the POSIX flags are passed on whatever the rights of the parent.
check_child_connection_flags_Posix(parent_flags, flags, mode) ==
    LET new_mode == IF mode = "none" /\ "DIRECTORY" \in flags THEN "directory" ELSE mode
    IN  IF \/ mode \notin {"none", "directory"} /\ "DIRECTORY" \in flags
           \/ mode = "directory" /\ "NOT_DIRECTORY" \in flags
           \/ {"NOT_DIRECTORY", "DIRECTORY"} \subseteq flags
           \/ "CREATE_IF_ABSENT" \in flags /\ "CREATE" \notin flags
           \/ "CLONE_SAME_RIGHTS" \in flags
        THEN Err("INVALID_ARGS")
        ELSE IF \/ "CREATE" \in flags /\ "RIGHT_WRITABLE" \notin parent_flags
                \/ ~stricter_or_same_rights(parent_flags, flags)
             THEN Err("ACCESS_DENIED")
        ELSE Ok([flags |-> flags, mode |-> new_mode])

check_child_connection_flags(parent_flags, flags, mode) ==
    LET posix == IF "POSIX_DEPRECATED" \in flags
                 THEN {"POSIX_WRITABLE", "POSIX_EXECUTABLE"} ELSE flags \cap PosixFlags
        soft == {f \in posix :
                    \/ f = "POSIX_WRITABLE" /\ "RIGHT_WRITABLE" \in parent_flags
                    \/ f = "POSIX_EXECUTABLE" /\ "RIGHT_EXECUTABLE" \in parent_flags}
        checked == (flags \ PosixFlags) \cup soft
        new_mode == IF mode = "none" /\ "DIRECTORY" \in flags THEN "directory" ELSE mode
    IN  IF \/ mode \notin {"none", "directory"} /\ "DIRECTORY" \in flags
           \/ mode = "directory" /\ "NOT_DIRECTORY" \in flags
           \/ {"NOT_DIRECTORY", "DIRECTORY"} \subseteq flags
           \/ "CREATE_IF_ABSENT" \in flags /\ "CREATE" \notin flags
           \/ "CLONE_SAME_RIGHTS" \in flags
        THEN Err("INVALID_ARGS")
        ELSE IF \/ "CREATE" \in flags /\ "RIGHT_WRITABLE" \notin parent_flags
                \/ ~stricter_or_same_rights(parent_flags, flags)
             THEN Err("ACCESS_DENIED")
        ELSE Ok([flags |-> checked, mode |-> new_mode])

=============================================================================
