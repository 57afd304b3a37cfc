----------------------------- MODULE MCWatchers -----------------------------
(***************************************************************************)
(* The instance of Watchers for TLC: two clients and two names.            *)
(***************************************************************************)
EXTENDS Watchers

CONSTANTS w1, w2

All == {"EXISTING", "ADDED", "REMOVED", "IDLE", "DELETED"}
MCMasks == [c \in {w1, w2} |-> IF c = w1 THEN {All} ELSE {{"REMOVED"}}]

=============================================================================
