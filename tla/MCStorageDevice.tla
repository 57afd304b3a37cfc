--------------------------- MODULE MCStorageDevice ---------------------------
(* Instance of StorageDevice for TLC: eleven whole blocks and an odd byte. *)
EXTENDS StorageDevice

Symmetry == Permutations(Tasks)
=============================================================================
