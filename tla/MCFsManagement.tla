--------------------------- MODULE MCFsManagement ---------------------------
(***************************************************************************)
(* An instance of FsManagement for TLC.                                    *)
(***************************************************************************)
EXTENDS FsManagement

=============================================================================
