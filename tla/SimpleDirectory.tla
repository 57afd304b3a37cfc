--------------------------- MODULE SimpleDirectory ---------------------------
(***************************************************************************)
(* vfs/rust/src/directory/simple.rs and filesystem/simple.rs: directories  *)
(* that are a map from names to nodes under a mutex, the changes a server  *)
(* makes to them, and renames, which lock two directories in the order of  *)
(* their addresses.  A directory is a number, its address; every change    *)
(* sends its watchers an event while the mutex is held.                    *)
(***************************************************************************)
EXTENDS Path, FiniteSets, Functions

CONSTANTS
    Root,           \* the root directory
    Nodes,          \* nodes, the root included: numbers, their addresses
    Movers,         \* tasks that rename
    ServerDirs,     \* directories in which the server adds and removes
    ServerNames,    \* entries, and the names of these
    NameOrder       \* names a directory may hold, in the order of a BTreeMap

ASSUME DirectoryAssumption ==
    /\ Nodes \subseteq Nat /\ Root \in Nodes
    /\ NameOrder \in Seq(Seq(STRING)) /\ IsInjective(NameOrder)
    /\ ServerNames \subseteq {NameOrder[i] : i \in DOMAIN NameOrder}
    /\ ServerDirs \subseteq Nodes
    /\ "free" \notin Movers

VARIABLES
    kind,           \* node -> "directory", "file", or "new" if not created yet
    entries,        \* node -> Inner::entries (empty for files)
    lock,           \* node -> the task in a rename that holds Inner's mutex
    told,           \* node -> the names that a watcher knows from the events sent
    rename          \* task -> the rename it is in

dirVars == <<kind, entries, lock, told, rename>>

Names == Range(NameOrder)
Free == "free"
Idle == [step |-> "idle"]
Unlocked(d) == lock[d] = Free

Has(d, name) == name \in DOMAIN entries[d]
Placed == UNION {Range(entries[d]) : d \in Nodes}
Carried == {rename[t].entry : t \in {t \in Movers : rename[t].step = "insert"}}

without(f, name) == Restrict(f, DOMAIN f \ {name})
with(f, name, node) == [n \in DOMAIN f \cup {name} |-> IF n = name THEN node ELSE f[n]]

\* Simple::new, and the tree the server built before it served.
DirectoriesInit(files, tree) ==
    /\ kind = [n \in Nodes |-> IF n \in files THEN "file"
                               ELSE IF n = Root \/ n \in UNION {Range(tree[d]) : d \in Nodes}
                               THEN "directory" ELSE "new"]
    /\ entries = tree
    /\ lock = [d \in Nodes |-> Free]
    /\ told = [d \in Nodes |-> DOMAIN tree[d]]
    /\ rename = [t \in Movers |-> Idle]

-----------------------------------------------------------------------------
(***************************************************************************)
(* Changes under one mutex.                                                *)
(***************************************************************************)

\* Watchers::send_event with an `added` or `removed` producer.
added(d, name) == told' = [told EXCEPT ![d] = @ \cup {name}]
removed(d, name) == told' = [told EXCEPT ![d] = @ \ {name}]

insert(d, name, node) == entries' = [entries EXCEPT ![d] = with(@, name, node)]

\* add_entry_impl.
add_entry_impl(d, name, node, overwrite) ==
    /\ Unlocked(d)
    /\ ~longer_than_max(name) /\ ~has_slash(name)
    /\ overwrite \/ ~Has(d, name)
    /\ added(d, name)
    /\ insert(d, name, node)

\* Mutant: the watchers are not told.
remove_entry_impl_Silent(d, name, must_be_directory) ==
    /\ Unlocked(d)
    /\ ~at_least_max(name)
    /\ Has(d, name)
    /\ must_be_directory => kind[entries[d][name]] = "directory"
    /\ entries' = [entries EXCEPT ![d] = without(@, name)]
    /\ UNCHANGED told

remove_entry_impl(d, name, must_be_directory) ==
    /\ Unlocked(d)
    /\ ~at_least_max(name)
    /\ Has(d, name)
    /\ must_be_directory => kind[entries[d][name]] = "directory"
    /\ entries' = [entries EXCEPT ![d] = without(@, name)]
    /\ removed(d, name)

\* get_or_insert_entry and get_or_insert: the mutex covers the look-up and the
\* insertion, and no event is sent.
get_or_insert(d, name, node, type) ==
    /\ Unlocked(d)
    /\ ~Has(d, name)
    /\ insert(d, name, node)
    /\ kind' = [kind EXCEPT ![node] = type]
    /\ UNCHANGED <<lock, told, rename>>

\* add_entry and remove_entry, as the server calls them.
ServerAdd(d) ==
    /\ kind[d] = "directory"
    /\ \E name \in ServerNames, node \in Nodes \ (Placed \cup Carried \cup {Root}) :
        kind[node] # "new" /\ add_entry_impl(d, name, node, FALSE)
    /\ UNCHANGED <<kind, lock, rename>>

ServerRemove(d) ==
    /\ \E name \in ServerNames : remove_entry_impl(d, name, FALSE)
    /\ UNCHANGED <<kind, lock, rename>>

-----------------------------------------------------------------------------
(***************************************************************************)
(* SimpleFilesystem::rename.                                               *)
(***************************************************************************)

rename_within(d, src, dst) ==
    /\ ~at_least_max(src) /\ ~at_least_max(dst)
    /\ Unlocked(d)
    /\ Has(d, src)
    /\ told' = [told EXCEPT ![d] = (@ \ {src}) \cup {dst}]
    /\ entries' = IF src = dst THEN entries
                  ELSE [entries EXCEPT ![d] = with(without(@, src), dst, entries[d][src])]
    /\ UNCHANGED <<lock, rename>>

\* The first half of a rename that takes two mutexes: rename_from locks the
\* source, where the entry has to exist, and rename_to locks the destination.
lock_first(t, from, src, to, dst, first) ==
    /\ Unlocked(first)
    /\ first = from => ~at_least_max(src) /\ Has(from, src)
    /\ first = to => ~at_least_max(dst)
    /\ lock' = [lock EXCEPT ![first] = t]
    /\ rename' = [rename EXCEPT ![t] =
            [step |-> IF first = from THEN "to" ELSE "from",
             from |-> from, src |-> src, to |-> to, dst |-> dst]]
    /\ UNCHANGED <<entries, told>>

\* Mutant: the source is locked first, whatever the addresses.
rename_call_SourceFirst(t, from, src, to, dst) ==
    /\ rename[t] = Idle
    /\ kind[from] = "directory" /\ kind[to] = "directory"
    /\ \/ from # to /\ lock_first(t, from, src, to, dst, from)
       \/ from = to /\ rename_within(from, src, dst)
    /\ UNCHANGED kind

rename_call(t, from, src, to, dst) ==
    /\ rename[t] = Idle
    /\ kind[from] = "directory" /\ kind[to] = "directory"
    /\ \/ from < to /\ lock_first(t, from, src, to, dst, from)
       \/ from = to /\ rename_within(from, src, dst)
       \/ from > to /\ lock_first(t, from, src, to, dst, to)
    /\ UNCHANGED kind

finish(t, d) ==
    /\ lock' = [lock EXCEPT ![d] = Free]
    /\ rename' = [rename EXCEPT ![t] = Idle]

\* rename_from calls `to`: the entry is added to the destination, overwriting
\* what is there, or the rename fails.
RenameTo(t) ==
    LET r == rename[t] IN
    /\ r.step = "to"
    /\ Unlocked(r.to)
    /\ IF longer_than_max(r.dst) \/ has_slash(r.dst)
       THEN finish(t, r.from) /\ UNCHANGED <<entries, told>>
       ELSE /\ add_entry_impl(r.to, r.dst, entries[r.from][r.src], TRUE)
            /\ rename' = [rename EXCEPT ![t] = [r EXCEPT !.step = "remove"]]
            /\ UNCHANGED lock
    /\ UNCHANGED kind

\* Mutant: the entry is not removed from the source.
RenameRemove_Keeps(t) ==
    LET r == rename[t] IN
    /\ r.step = "remove"
    /\ removed(r.from, r.src)
    /\ finish(t, r.from)
    /\ UNCHANGED <<kind, entries>>

\* Then rename_from removes it from the source.
RenameRemove(t) ==
    LET r == rename[t] IN
    /\ r.step = "remove"
    /\ entries' = [entries EXCEPT ![r.from] = without(@, r.src)]
    /\ removed(r.from, r.src)
    /\ finish(t, r.from)
    /\ UNCHANGED kind

\* rename_to calls `from`: the entry is taken from the source, or the rename fails.
RenameFrom(t) ==
    LET r == rename[t] IN
    /\ r.step = "from"
    /\ Unlocked(r.from)
    /\ IF at_least_max(r.src) \/ ~Has(r.from, r.src)
       THEN finish(t, r.to) /\ UNCHANGED <<entries, told>>
       ELSE /\ remove_entry_impl(r.from, r.src, FALSE)
            /\ rename' = [rename EXCEPT ![t] = [step |-> "insert", to |-> r.to, dst |-> r.dst,
                                                 entry |-> entries[r.from][r.src]]]
            /\ UNCHANGED lock
    /\ UNCHANGED kind

\* Mutant: the destination refuses the name when the entry has left the source.
RenameInsert_Checked(t) ==
    LET r == rename[t] IN
    /\ r.step = "insert"
    /\ IF has_slash(r.dst) THEN UNCHANGED <<entries, told>>
       ELSE insert(r.to, r.dst, r.entry) /\ added(r.to, r.dst)
    /\ finish(t, r.to)
    /\ UNCHANGED kind

\* Then rename_to inserts it into the destination.
RenameInsert(t) ==
    LET r == rename[t] IN
    /\ r.step = "insert"
    /\ insert(r.to, r.dst, r.entry)
    /\ added(r.to, r.dst)
    /\ finish(t, r.to)
    /\ UNCHANGED kind

RenameStep(t) == RenameTo(t) \/ RenameRemove(t) \/ RenameFrom(t) \/ RenameInsert(t)

-----------------------------------------------------------------------------
(***************************************************************************)
(* read_dirents: from a position, as many names as the sink has room for.  *)
(* A position is the number of the next name in NameOrder: 0 for ".", and  *)
(* one past the last for the end.                                          *)
(***************************************************************************)

Start == 0
End == Len(NameOrder) + 1
\* What a Sink with room for some of the names listed has when it is sealed.
appended(listed, room) == {i \in listed : Cardinality({j \in listed : j < i}) < room}

Listed(d, pos) == {i \in pos..Len(NameOrder) : i = 0 \/ Has(d, NameOrder[i])}

\* Mutant: the position is the name after the one that did not fit.
read_dirents_Skips(d, pos, room) ==
    LET fit == appended(Listed(d, pos), room)
        left == Listed(d, IF pos = Start THEN 1 ELSE pos) \ fit
    IN  [seen |-> fit, pos |-> IF left = {} THEN End ELSE 1 + CHOOSE i \in left : \A j \in left : i <= j]

\* The positions returned, and the position that is left.  A sink without room
\* for "." leaves the position at the first name.
read_dirents(d, pos, room) ==
    LET fit == appended(Listed(d, pos), room)
        left == Listed(d, IF pos = Start THEN 1 ELSE pos) \ fit
    IN  [seen |-> fit, pos |-> IF left = {} THEN End ELSE CHOOSE i \in left : \A j \in left : i <= j]

=============================================================================
