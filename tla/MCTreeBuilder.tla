---------------------------- MODULE MCTreeBuilder ----------------------------
(* The instance of TreeBuilder for TLC. *)
EXTENDS TreeBuilder

\* Calls on a TreeBuilder: leaves and directories at "a", "a/b" and "a/b/c", and
\* names that are refused, also behind a good one.
AddEntry(path, entry) == [op |-> "add_entry", path |-> path, entry |-> [entry |-> entry]]
AddEmptyDir(path) == [op |-> "add_empty_dir", path |-> path]
MCTreeCalls ==
    {AddEntry(<<>>, "x"), AddEntry(<<<<"a">>>>, "x"), AddEntry(<<<<"a">>, <<"b">>>>, "x"),
     AddEntry(<<<<"a">>, <<"b">>>>, "y"), AddEntry(<<<<"a">>, <<"b">>, <<"c">>>>, "x"),
     AddEmptyDir(<<<<"a">>>>), AddEmptyDir(<<<<"a">>, <<"b">>>>),
     AddEntry(<<<<"a">>, <<"b">>, <<"c", "d">>>>, "x"), AddEntry(<<<<"c">>, <<"max">>>>, "x"),
     AddEmptyDir(<<<<"long">>>>), AddEmptyDir(<<<<"c">>>>)}
=============================================================================
