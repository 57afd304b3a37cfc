------------------------------ MODULE FlatTree ------------------------------
(***************************************************************************)
(* What a TreeBuilder promises, without nested maps: a map from paths to   *)
(* the entry asked for at each of them, or Dir.  build serves that map.    *)
(***************************************************************************)
EXTENDS Path, SequencesExt, TLC

CONSTANTS TreeCalls

VARIABLES
    asked,      \* path -> entry or Dir
    last,       \* the last call, and whether it succeeded
    served      \* the map that is served: none or one

Dir == [dir |-> TRUE]

PathsTo(path) == {SubSeq(path, 1, n) : n \in 1..Len(path)}
Above(path) == PathsTo(path) \ {path}

IsEntry(p) == p \in DOMAIN asked /\ asked[p] # Dir

\* A call is refused for a name, or for an entry that is no directory to it.
Refused(c) ==
    \/ c.path = <<>>
    \/ \E i \in DOMAIN c.path : at_least_max(c.path[i]) \/ has_slash(c.path[i])
    \/ \E p \in Above(c.path) : IsEntry(p)
    \/ c.op = "add_empty_dir" /\ IsEntry(c.path)

Init == asked = <<>> /\ last = {} /\ served = {}

\* The directories on the way come to be; an entry replaces what is at its
\* path and everything below, and replacing is an error all the same.
Add(c) ==
    LET ways == [p \in Above(c.path) |-> Dir]
        below == {p \in DOMAIN asked : c.path \in Above(p)}
        taken == c.op = "add_entry" /\ c.path \in DOMAIN asked
    IN  /\ served = {}
        /\ asked' = IF Refused(c) THEN asked
                    ELSE IF c.op = "add_entry"
                    THEN (c.path :> c.entry) @@ ways @@ Restrict(asked, DOMAIN asked \ below)
                    ELSE (c.path :> Dir) @@ ways @@ asked
        /\ last' = {<<c, ~Refused(c) /\ ~taken>>}
        /\ UNCHANGED served

Build == served = {} /\ served' = {asked} /\ UNCHANGED <<asked, last>>

Next == (\E c \in TreeCalls : Add(c)) \/ Build

Spec == Init /\ [][Next]_<<asked, last, served>>
=============================================================================
