-------------------------- MODULE MCJournalWriter --------------------------
(***************************************************************************)
(* Instances of JournalWriter for TLC.  A ring of 4 to 7 blocks holds one  *)
(* or two entries of 3 or 4 blocks, so that the ring wraps inside an entry *)
(* and is reused within three operations; blocks 11 and 12 lie outside the *)
(* journal.                                                                *)
(***************************************************************************)
EXTENDS JournalWriter

MCTarget == {11, 12}
MCMetaOps == {{11}, {11, 12}}
MCTrimOps == {{}, {12}}
MCDataOps == {{11}, {12}}
NoTrim == {{}}

=============================================================================
