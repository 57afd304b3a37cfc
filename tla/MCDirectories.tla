--------------------------- MODULE MCDirectories ---------------------------
(***************************************************************************)
(* The instance of Directories for TLC: a root directory 2 that holds a    *)
(* directory 1 with a file 4 in it and an immutable directory 5, one node  *)
(* 3 that a client may create, and two connections.                        *)
(***************************************************************************)
EXTENDS Directories, TLC

CONSTANTS c1, c2

MCNodes == 1..5
MCNameOrder == <<<<"a">>, <<"b">>, <<"b", "">>, <<"c">>>>
MCTree == (1 :> (<<"b">> :> 4)) @@ (2 :> (<<"a">> :> 1 @@ <<"c">> :> 5)) @@ (3 :> <<>>) @@ (4 :> <<>>) @@ (5 :> <<>>)
MCMovers == {c1, c2}
MCHeld == {1, 2, 4, 5}

RW == {"RIGHT_READABLE", "RIGHT_WRITABLE"}
MCFirstRights == {RW, {"RIGHT_READABLE"}}
MCLongPaths == {<<"a", "b", "b">>}
MCOpenRequests ==
    {[text |-> <<"a">>, flags |-> {"RIGHT_READABLE", "POSIX_WRITABLE", "POSIX_EXECUTABLE"}, mode |-> "none"],
     [text |-> <<"a", "b", "">>, flags |-> {"RIGHT_READABLE", "RIGHT_WRITABLE", "CREATE"}, mode |-> "directory"],
     [text |-> <<"a", "b", "b">>, flags |-> {"RIGHT_READABLE"}, mode |-> "none"],
     [text |-> <<"c">>, flags |-> {"RIGHT_READABLE", "RIGHT_WRITABLE"}, mode |-> "none"],
     [text |-> <<"b">>, flags |-> {"RIGHT_READABLE", "CREATE", "CREATE_IF_ABSENT"}, mode |-> "file"]}
MCCloneRequests == {{"CLONE_SAME_RIGHTS"}}
MCRenameSources == {<<"b">>}
MCRenameTargets == {<<"b">>, <<"b", "">>}
MCServerNames == {<<"a">>}
MCUnlinkNames == {<<"b">>}

=============================================================================
