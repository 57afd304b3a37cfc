----------------------------- MODULE Directories -----------------------------
(***************************************************************************)
(* Pseudo directories in use: connections that open, create, list, unlink  *)
(* and rename, the locks a rename takes, and a server that adds and        *)
(* removes entries at the same time.                                       *)
(***************************************************************************)
EXTENDS DirectoryConnection

CONSTANTS
    Tree,           \* node -> its entries when the server starts
    Files,          \* nodes that are files
    First,          \* the connection the server opens to the root
    FirstRights     \* the rights it may have

\* The names that are used are names a directory may hold, and the server has put
\* each node in one place.
ASSUME TreeAssumption ==
    /\ Tree \in [Nodes -> UNION {[S -> Nodes] : S \in SUBSET Names}]
    /\ \A d, e \in Nodes : \A n \in DOMAIN Tree[d], m \in DOMAIN Tree[e] :
            Tree[d][n] = Tree[e][m] => d = e /\ n = m
    /\ \A r \in OpenRequests :
            /\ r.text \in Seq(STRING) \ {<<>>}
            /\ \A i \in DOMAIN r.text : r.text[i] \in {"", ".", ".."} \/ <<r.text[i]>> \in Names
    /\ \A dst \in RenameTargets :
            LET path == validate_and_split(dst)
            IN  path.status = "OK" /\ is_single_component(path.value) => into_string(path.value) \in Names

VARIABLE
    granted         \* the rights the first connection has

vars == <<dirVars, connVars, missed, granted>>

Init ==
    /\ DirectoriesInit(Files, Tree)
    /\ tokens = {}
    /\ granted \in FirstRights
    /\ conn = [c \in Movers |-> IF c = First THEN [step |-> "serving", at |-> Root,
                                                   flags |-> granted, seek |-> Start]
                                 ELSE Unused]
    /\ missed = [c \in Movers |-> {}]

Server == \E d \in ServerDirs : ServerAdd(d) \/ ServerRemove(d)

\* The requests of every connection, and those of mutable connections only.
\* Requests that are left out change nothing.
BaseRequest(c) ==
    \/ Rewind(c) \/ CloseConnection(c)
    \/ \E new \in Movers : handle_clone(c, new) \/ handle_open(c, new)

MutableRequest(c) == Unlink(c) \/ GetToken(c) \/ Rename(c)

ConnectionStep(c) ==
    \/ OpenHere(c) \/ OpenExisting(c) \/ OpenMissing(c)
    \/ BaseRequest(c) \/ MutableRequest(c)

Renaming(c) == RenameStep(c) /\ UNCHANGED <<connVars, granted>> /\ Listing

Next ==
    \/ \E c \in Movers : ReadDirents(c) /\ UNCHANGED granted
    \/ \E c \in Movers : ConnectionStep(c) /\ UNCHANGED granted /\ Listing
    \/ \E c \in Movers : Renaming(c)
    \/ Server /\ UNCHANGED <<connVars, granted>> /\ Listing

\* A task that was polled runs until it returns: a rename that waits for a free
\* mutex gets it.
Fairness == \A c \in Movers : WF_vars(Renaming(c))

Spec == Init /\ [][Next]_vars /\ Fairness

-----------------------------------------------------------------------------
(***************************************************************************)
(* Properties.                                                             *)
(***************************************************************************)

\* The type of the state: entries are nodes that exist, files hold no entries, the
\* mutex of a directory is held exactly by the rename that says so.
TypeOK ==
    /\ kind \in [Nodes -> {"directory", "file", "new"}]
    /\ \A d \in Nodes :
        /\ DOMAIN entries[d] \subseteq Names /\ told[d] \subseteq Names
        /\ \A name \in DOMAIN entries[d] : kind[entries[d][name]] # "new"
        /\ kind[d] # "directory" => entries[d] = <<>>
        /\ \A t \in Movers : lock[d] = t <=>
               \/ rename[t].step \in {"to", "remove"} /\ rename[t].from = d
               \/ rename[t].step \in {"from", "insert"} /\ rename[t].to = d
    /\ \A c \in Movers : Serving(c) => /\ kind[conn[c].at] = "directory"
                                       /\ conn[c].seek \in Start..End
    /\ \A c \in Movers : rename[c] # Idle => Serving(c)

\* No connection has a right that the connection it stems from did not have,
\* through any chain of Open, Clone and of the POSIX flags that ask for more
\* (check_child_connection_flags, inherit_rights_for_clone and
\* new_connection_validate_flags together).
RightsDoNotGrow ==
    \A c \in Movers : conn[c].step # "unused" => conn[c].flags \cap FS_RIGHTS \subseteq granted

\* Directories change only for the server or for a client that may write: with no
\* writable connection left, entries stay what they are (handle_open checks the
\* rights once, before the path is resolved, and the mutation comes later).
ReadersChangeNothing ==
    [][entries' # entries /\ ~Server =>
         \E c \in Movers : \/ Serving(c) /\ Has_right(c, "RIGHT_WRITABLE")
                           \/ /\ conn[c].step = "opening"
                              /\ Has_right(conn[c].by, "RIGHT_WRITABLE")]_vars

\* The places of nodes.  A rename that has added the entry to its new directory
\* still holds the mutex of the old one: the entry is no longer to be seen there.
\* One that has taken it out of the old directory holds the mutex of the new one.
Leaving(d, name) ==
    \E t \in Movers : rename[t].step = "remove" /\ rename[t].from = d /\ rename[t].src = name
Places(node) ==
    {p \in Nodes \X Names : Has(p[1], p[2]) /\ entries[p[1]][p[2]] = node /\ ~Leaving(p[1], p[2])}
        \cup {<<rename[t].to, rename[t].dst>> :
                 t \in {t \in Movers : rename[t].step = "insert" /\ rename[t].entry = node}}

\* A node never appears under two names, in no state of a rename that another
\* connection can see ("Renaming needs to be atomic, even accross two distinct
\* directories", rename_from and rename_to).
InOnePlace == \A node \in Nodes : Cardinality(Places(node)) <= 1

\* No rename loses an entry: a node that leaves the tree was overwritten under its
\* own name, or was removed by an unlink or by the server from a directory that
\* was not locked; a rename that fails leaves the entry where it was.
RenameLosesNothing ==
    [][\A node \in Nodes : Places(node) # {} /\ Places(node)' = {} =>
         \E place \in Places(node) :
             \/ Has(place[1], place[2])' /\ entries'[place[1]][place[2]] # node
             \/ UNCHANGED rename /\ Unlocked(place[1])]_vars

\* The events sent to watchers never leave them with a name that the directory no
\* longer has (events and entries change under one mutex in every operation).
WatchersNotMisled ==
    \A d \in Nodes : Unlocked(d) => told[d] \subseteq DOMAIN entries[d]

\* A client that reads a directory to its end gets every name that was there all
\* the time, whatever is added, removed or renamed between its ReadDirents
\* requests and however small its buffers are (TraversalPosition::Name keeps the
\* name that comes next, not an index).
ListingMissesNothing ==
    \A c \in Movers : Serving(c) /\ conn[c].seek = End => missed[c] = {}

\* Renames never wait for each other in a circle: when all connections are in a
\* rename, one of them comes to its end ("We need to lock directories using the
\* same global order, otherwise we risk a deadlock", filesystem/simple.rs).
RenamesEnd == (\A t \in Movers : rename[t] # Idle) ~> (\E t \in Movers : rename[t] = Idle)
=============================================================================
