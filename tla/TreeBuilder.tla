----------------------------- MODULE TreeBuilder -----------------------------
(***************************************************************************)
(* vfs/rust/src/tree_builder.rs: a builder of directory trees, a recursive *)
(* algorithm on nested maps.  A builder is a directory, a map from names   *)
(* to builders, or a leaf with an entry.  The path of a call is a sequence *)
(* of names, each a text as in Path.  Every operation yields its status    *)
(* and the builder it leaves behind.                                       *)
(***************************************************************************)
EXTENDS Path, SequencesExt, TLC

CONSTANTS
    TreeCalls,      \* calls a server may make on the builder: op, path, entry
    MaxCalls        \* bound on their number

VARIABLES
    builder,        \* the builder
    last,           \* history: the last call, and whether it succeeded
    tree,           \* the tree it was built into: none or one
    calls           \* number of calls made

vars == <<builder, last, tree, calls>>

Directory(f) == [entries |-> f]
Leaf(entry) == [leaf |-> entry]
IsLeaf(node) == "leaf" \in DOMAIN node

empty_dir == Directory(<<>>)

Result(status, node) == [status |-> status, tree |-> node]

\* The directory with the map f and one more, or one other, child.
With(f, name, child) == Directory((name :> child) @@ f)

-----------------------------------------------------------------------------
\* The inserter of add_entry.  HashMap::insert comes before the error: the
\* leaf replaces what was there even when the call fails.
insert_leaf(f, name, entry) ==
    Result(IF name \notin DOMAIN f THEN "OK"
           ELSE IF IsLeaf(f[name]) THEN "LeafOverLeaf" ELSE "LeafOverDirectory",
           With(f, name, Leaf(entry)))

\* The inserter of add_empty_dir.
insert_dir(f, name) ==
    IF name \notin DOMAIN f THEN Result("OK", With(f, name, empty_dir))
    ELSE Result(IF IsLeaf(f[name]) THEN "EntryInsideLeaf" ELSE "OK", Directory(f))

inserter(f, name, call) ==
    IF call.op = "add_entry" THEN insert_leaf(f, name, call.entry) ELSE insert_dir(f, name)

\* Mutant: the new child is inserted before the rest of the path is.
insert_child_First(f, name, child) == Result(child.status, With(f, name, child.tree))

\* What add_path returns for a new child that was built for it.
insert_child(f, name, child) ==
    IF child.status = "OK" THEN Result("OK", With(f, name, child.tree))
    ELSE Result(child.status, Directory(f))

RECURSIVE add_path(_, _, _)

\* The names add_path refuses.
allowed(name) ==
    IF at_least_max(name) THEN "ComponentNameTooLong"
    ELSE IF has_slash(name) THEN "SlashInComponent" ELSE "OK"

\* Walks along the path; its first name is name, rest is what follows.
add_path(node, path, call) ==
    LET name == Head(path)
        rest == Tail(path)
    IN  IF allowed(name) # "OK" THEN Result(allowed(name), node)
        ELSE IF IsLeaf(node) THEN Result("EntryInsideLeaf", node)
        ELSE IF rest = <<>> THEN inserter(node.entries, name, call)
        ELSE IF name \notin DOMAIN node.entries
             THEN insert_child(node.entries, name, add_path(empty_dir, rest, call))
        ELSE LET child == add_path(node.entries[name], rest, call)
             IN  Result(child.status, With(node.entries, name, child.tree))

add_entry(node, path, entry) ==
    IF path = <<>> THEN Result("EmptyPath", node)
    ELSE add_path(node, path, [op |-> "add_entry", entry |-> entry])

add_empty_dir(node, path) ==
    IF path = <<>> THEN Result("EmptyPath", node)
    ELSE add_path(node, path, [op |-> "add_empty_dir"])

-----------------------------------------------------------------------------
Panic == [panic |-> TRUE]

RECURSIVE build_dyn(_)

\* A directory becomes a Simple with its children as entries, a leaf its entry.
build_dyn(node) ==
    IF IsLeaf(node) THEN node.leaf
    ELSE [simple |-> [name \in DOMAIN node.entries |-> build_dyn(node.entries[name])]]

RECURSIVE BuilderNames(_)

\* The names with which build and build_dyn call Simple::add_entry.
BuilderNames(node) ==
    IF IsLeaf(node) THEN {}
    ELSE DOMAIN node.entries \cup UNION {BuilderNames(child) : child \in Range(node.entries)}

\* Whether Simple::add_entry accepts every name; otherwise its error is a panic.
build_succeeds(node) ==
    \A name \in BuilderNames(node) : ~longer_than_max(name) /\ ~has_slash(name)

Init == builder = empty_dir /\ last = {} /\ tree = {} /\ calls = 0

\* A call of the server, which goes on whatever the status is.
Add(c) ==
    LET result == IF c.op = "add_entry" THEN add_entry(builder, c.path, c.entry)
                  ELSE add_empty_dir(builder, c.path)
    IN  /\ tree = {} /\ calls < MaxCalls
        /\ calls' = calls + 1
        /\ builder' = result.tree
        /\ last' = {<<c, result.status = "OK">>}
        /\ UNCHANGED tree

\* build and build_with_inode_generator consume the builder.
Build ==
    /\ tree = {}
    /\ tree' = {IF build_succeeds(builder) THEN build_dyn(builder) ELSE Panic}
    /\ UNCHANGED <<builder, last, calls>>

Next == (\E c \in TreeCalls : Add(c)) \/ Build

Spec == Init /\ [][Next]_vars

-----------------------------------------------------------------------------
Dir == [dir |-> TRUE]
Nothing == [nothing |-> TRUE]

RECURSIVE Found(_, _)

\* What a client finds at a path of a tree that was built.
Found(built, path) ==
    LET is_dir == "simple" \in DOMAIN built
    IN  IF path = <<>> THEN (IF is_dir THEN Dir ELSE built)
        ELSE IF ~is_dir THEN Nothing
        ELSE IF Head(path) \notin DOMAIN built.simple THEN Nothing
        ELSE Found(built.simple[Head(path)], Tail(path))

\* Every path of the calls, and every prefix of one.
Paths == UNION {{SubSeq(c.path, 1, n) : n \in 1..Len(c.path)} : c \in TreeCalls}

Flat(built) ==
    LET found == {p \in Paths : Found(built, p) # Nothing}
    IN  [p \in found |-> Found(built, p)]

F == INSTANCE FlatTree WITH
        asked <- Flat(build_dyn(builder)), served <- {Flat(built) : built \in tree}

\* After any calls, and in the tree that build returns, there are exactly the
\* leaves and directories that the calls asked for: a refused call leaves
\* nothing behind, not even the directories on its way, and only
\* LeafOverDirectory and LeafOverLeaf change the tree although they are errors.
ImplementsFlatTree == F!Spec

=============================================================================
