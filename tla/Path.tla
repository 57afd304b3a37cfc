-------------------------------- MODULE Path --------------------------------
(***************************************************************************)
(* vfs/rust/src/path.rs.  The text of a path is the sequence of what stands *)
(* between its slashes: "a/b" is <<"a", "b">>, "/a" is <<"", "a">>, "a/" is *)
(* <<"a", "">> and "/" is <<"", "">>.  The name of an entry is a text too.  *)
(* A Path is a record of is_dir and the components that are left; only its  *)
(* own last slash is remembered.                                            *)
(***************************************************************************)
EXTENDS Naturals, Sequences

CONSTANTS
    LongPaths,          \* texts longer than MAX_PATH
    LongComponents,     \* components longer than MAX_FILENAME
    MaxComponents       \* components of exactly MAX_FILENAME bytes

Dot == [is_dir |-> FALSE, rest |-> <<>>]

validate_and_split(text) ==
    LET is_dir == Len(text) > 1 /\ text[Len(text)] = ""
        leading == Len(text) > 1 /\ Head(text) = ""
        from == IF leading THEN Tail(text) ELSE text
        check == IF is_dir THEN SubSeq(from, 1, Len(from) - 1) ELSE from
    IN  IF text \in LongPaths THEN [status |-> "BAD_PATH"]
        ELSE IF text \in {<<".">>, <<"", "">>} THEN [status |-> "OK", value |-> Dot]
        ELSE IF \E i \in DOMAIN check : check[i] \in {"", ".", ".."}
             THEN [status |-> "INVALID_ARGS"]
        ELSE IF \E i \in DOMAIN check : check[i] \in LongComponents
             THEN [status |-> "BAD_PATH"]
        ELSE [status |-> "OK", value |-> [is_dir |-> is_dir, rest |-> check]]

is_empty(path) == path.rest = <<>>
is_single_component(path) == Len(path.rest) = 1

\* next and next_with_ref: the name of the component and the path that remains.
next_component(path) == <<Head(path.rest)>>
after_next(path) == [path EXCEPT !.rest = Tail(@)]

\* into_string keeps the trailing slash.
into_string(path) == path.rest \o IF path.is_dir /\ path.rest # <<>> THEN <<"">> ELSE <<>>

has_slash(name) == Len(name) > 1
longer_than_max(name) == name[1] \in LongComponents
at_least_max(name) == longer_than_max(name) \/ name[1] \in MaxComponents

=============================================================================
