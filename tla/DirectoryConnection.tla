------------------------- MODULE DirectoryConnection -------------------------
(***************************************************************************)
(* The connections to the directories of SimpleDirectory: BaseConnection   *)
(* (directory/connection/io1.rs) with what MutableConnection and           *)
(* ImmutableConnection add, the token registry they rename through         *)
(* (registry/token_registry.rs) and the entry constructor they create      *)
(* entries with.  A connection is a task and handles one request at a      *)
(* time, while the other connections handle theirs.                        *)
(***************************************************************************)
EXTENDS SimpleDirectory, OpenFlags

CONSTANTS
    Immutable,      \* directories made with immutable::simple()
    Held,           \* nodes of which the server itself keeps an Arc
    OpenRequests,   \* [text, flags, mode] of an Open
    CloneRequests,  \* flags of a Clone
    RenameSources,  \* texts a client passes to Rename, and
    RenameTargets,  \* texts it renames to
    UnlinkNames,    \* texts a client passes to Unlink
    Listers,        \* connections whose client lists the directory
    Rooms           \* numbers of entries that fit into the buffer of ReadDirents

ASSUME DirectoryConnectionAssumption ==
    /\ Immutable \subseteq Held /\ Root \in Held
    /\ Held \subseteq Nodes /\ Cardinality(Nodes \ Held) <= 1

VARIABLES
    conn,           \* connection -> not there, resolving the path of its Open, or serving
    tokens,         \* Inner::container_to_token: directories with a token
    missed          \* history, connection -> names that were in the directory ever
                    \* since its listing began and that ReadDirents has not returned

connVars == <<conn, tokens>>

Unused == [step |-> "unused"]
Serving(c) == conn[c].step = "serving"
Has_right(c, right) == right \in conn[c].flags

\* The task of a serving connection is waiting for its next request.
Ready(c) ==
    /\ Serving(c)
    /\ rename[c] = Idle
    /\ \A o \in Movers : conn[o].step = "opening" => conn[o].by # c

mutable(c) == conn[c].at \notin Immutable

\* An Arc of the node exists.  A node that no Arc refers to is dropped.
Opened == {conn[c].at : c \in {c \in Movers : conn[c].step # "unused"}}
              \cup {rename[c].to : c \in {c \in Movers : rename[c] # Idle}}
Alive(node) == node \in Held \cup Placed \cup Carried \cup Opened

-----------------------------------------------------------------------------
(***************************************************************************)
(* Open and Clone.                                                         *)
(***************************************************************************)

\* prepare_connection: the flags are validated when the directory is there.
prepare_connection(d, flags) ==
    LET valid == directory_new_connection_validate_flags(flags)
    IN  IF valid.status = "OK"
        THEN [step |-> "serving", at |-> d, flags |-> valid.value, seek |-> Start]
        ELSE Unused

create_connection(c, d, flags) == conn' = [conn EXCEPT ![c] = prepare_connection(d, flags)]

handle_clone(c, new) ==
    /\ Ready(c)
    /\ conn[new] = Unused
    /\ \E flags \in CloneRequests :
        LET inherited == inherit_rights_for_clone(conn[c].flags, flags)
        IN  /\ inherited.status = "OK"
            /\ create_connection(new, conn[c].at, inherited.value)
    /\ UNCHANGED <<dirVars, tokens>>

\* The checks before the directory is asked.
handle_open(c, new) ==
    /\ Ready(c)
    /\ conn[new] = Unused
    /\ ~Has_right(c, "NODE_REFERENCE")
    /\ \E r \in OpenRequests :
        LET path == validate_and_split(r.text)
            asked == r.flags \cup IF path.value.is_dir THEN {"DIRECTORY"} ELSE {}
            checked == check_child_connection_flags(conn[c].flags, asked, r.mode)
        IN  /\ path.status = "OK"
            /\ checked.status = "OK"
            /\ is_empty(path.value) =>
                   checked.value.flags \cap {"NOT_DIRECTORY", "CREATE_IF_ABSENT"} = {}
            /\ conn' = [conn EXCEPT ![new] =
                   [step |-> "opening", by |-> c, at |-> conn[c].at, path |-> path.value,
                    flags |-> checked.value.flags, mode |-> checked.value.mode]]
    /\ UNCHANGED <<dirVars, tokens>>

\* NewEntryType::from_flags_and_mode.
from_flags_and_mode(flags, mode, force_directory) ==
    LET type == IF "DIRECTORY" \in flags \/ mode = "directory" THEN "directory"
                ELSE IF "NOT_DIRECTORY" \in flags \/ mode = "file" THEN "file"
                ELSE IF force_directory THEN "directory" ELSE "file"
    IN  IF mode \notin {"none", "directory", "file"} THEN Err("NOT_SUPPORTED")
        ELSE IF \/ {"DIRECTORY", "NOT_DIRECTORY"} \subseteq flags
                \/ "DIRECTORY" \in flags /\ mode = "file"
                \/ "NOT_DIRECTORY" \in flags /\ mode = "directory"
                \/ force_directory /\ type = "file"
             THEN Err("INVALID_ARGS")
        ELSE Ok(type)

\* The create_entry of tree_constructor: the type of the entry to create, which
\* has to be the last component of the path, or an error.
create_entry(flags, mode, remaining) ==
    LET type == from_flags_and_mode(flags, mode, remaining.is_dir)
    IN  IF type.status = "OK" /\ ~is_empty(remaining) THEN Err("NOT_FOUND") ELSE type

\* entry_not_found of the two kinds of connections.
entry_not_found(d, flags, mode, remaining) ==
    IF "CREATE" \notin flags THEN Err("NOT_FOUND")
    ELSE IF d \in Immutable THEN Err("NOT_SUPPORTED")
    ELSE create_entry(flags, mode, remaining)

\* The open of the entry found: a file ends the resolution (its connections
\* are those of module Files), a directory takes the rest of the path.
open_entry(c, node, type, remaining) ==
    conn' = [conn EXCEPT ![c] = IF type = "file" THEN Unused
                                ELSE [@ EXCEPT !.at = node, !.path = remaining]]

\* Simple::open of the directory that the path has led to: the end of the path,
\* an entry that is there, one that is created, or an error.
OpenHere(c) ==
    LET o == conn[c] IN
    /\ o.step = "opening"
    /\ is_empty(o.path)
    /\ create_connection(c, o.at, o.flags)
    /\ UNCHANGED <<dirVars, tokens>>

OpenExisting(c) ==
    LET o == conn[c]
        name == next_component(o.path)
    IN  /\ o.step = "opening"
        /\ ~is_empty(o.path)
        /\ Unlocked(o.at)
        /\ Has(o.at, name)
        /\ IF "CREATE_IF_ABSENT" \in o.flags
           THEN conn' = [conn EXCEPT ![c] = Unused]
           ELSE open_entry(c, entries[o.at][name], kind[entries[o.at][name]], after_next(o.path))
        /\ UNCHANGED <<dirVars, tokens>>

OpenMissing(c) ==
    LET o == conn[c]
        name == next_component(o.path)
        type == entry_not_found(o.at, o.flags, o.mode, after_next(o.path))
    IN  /\ o.step = "opening"
        /\ ~is_empty(o.path)
        /\ Unlocked(o.at)
        /\ ~Has(o.at, name)
        /\ \/ /\ type.status # "OK"
              /\ conn' = [conn EXCEPT ![c] = Unused]
              /\ UNCHANGED dirVars
           \/ /\ type.status = "OK"
              /\ \E node \in {n \in Nodes : kind[n] = "new"} :
                     /\ get_or_insert(o.at, name, node, type.value)
                     /\ open_entry(c, node, type.value, after_next(o.path))
        /\ UNCHANGED tokens

-----------------------------------------------------------------------------
(***************************************************************************)
(* The other requests.                                                     *)
(***************************************************************************)

\* handle_read_dirents.
ReadDirents(c) ==
    /\ Ready(c) /\ c \in Listers
    /\ ~Has_right(c, "NODE_REFERENCE")
    /\ Unlocked(conn[c].at)
    /\ \E room \in Rooms :
        LET read == read_dirents(conn[c].at, conn[c].seek, room)
            due == IF conn[c].seek = Start THEN DOMAIN entries[conn[c].at] ELSE missed[c]
        IN  /\ conn' = [conn EXCEPT ![c].seek = read.pos]
            /\ missed' = [missed EXCEPT ![c] = due \ {NameOrder[i] : i \in read.seen \ {Start}}]
    /\ UNCHANGED <<dirVars, tokens>>

\* What the other steps do to the history: names that are removed meanwhile do
\* not count.
Listing ==
    missed' = [c \in Movers |->
        IF conn'[c].step # "serving" \/ conn'[c].seek = Start THEN {}
        ELSE missed[c] \cap DOMAIN entries'[conn[c].at]]

Rewind(c) ==
    /\ Ready(c)
    /\ conn' = [conn EXCEPT ![c].seek = Start]
    /\ UNCHANGED <<dirVars, tokens>>

\* handle_unlink.  A name of several components, "." and ".." are refused.
Unlink(c) ==
    /\ Ready(c) /\ mutable(c)
    /\ Has_right(c, "RIGHT_WRITABLE")
    /\ \E name \in UnlinkNames, must_be_directory \in BOOLEAN :
        /\ ~has_slash(name) /\ name[1] \notin {"", ".", ".."}
        /\ remove_entry_impl(conn[c].at, name, must_be_directory)
    /\ UNCHANGED <<kind, lock, rename, connVars>>

\* get_token of the registry, which makes one token per directory.
get_token(d) == tokens' = tokens \cup {d}

\* handle_get_token.
GetToken(c) ==
    /\ Ready(c) /\ mutable(c)
    /\ Has_right(c, "RIGHT_WRITABLE")
    /\ get_token(conn[c].at)
    /\ UNCHANGED <<dirVars, conn>>

\* get_container: a weak reference whose directory was dropped is ignored.
get_container(token) == token \in tokens /\ Alive(token)

\* handle_rename.
Rename(c) ==
    /\ Ready(c) /\ mutable(c)
    /\ Has_right(c, "RIGHT_WRITABLE")
    /\ \E src \in RenameSources, dst \in RenameTargets, token \in tokens :
        LET src_path == validate_and_split(src)
            dst_path == validate_and_split(dst)
        IN  /\ src_path.status = "OK" /\ dst_path.status = "OK"
            /\ is_single_component(src_path.value) /\ is_single_component(dst_path.value)
            /\ get_container(token)
            /\ rename_call(c, conn[c].at, into_string(src_path.value),
                           token, into_string(dst_path.value))
    /\ UNCHANGED connVars

\* Close, the end of the request stream, an error, or the scope's shutdown: the
\* OpenDirectory is dropped with the connection.
CloseConnection(c) ==
    /\ Ready(c)
    /\ conn' = [conn EXCEPT ![c] = Unused]
    /\ UNCHANGED <<dirVars, tokens>>

=============================================================================
