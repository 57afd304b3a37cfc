----------------------------- MODULE MCJournal -----------------------------
(* Instances of Journal: a journal buffer of 7 blocks holds two transactions *)
(* of 3 blocks and a third one makes FlushPending run; 8 blocks never fit.   *)
EXTENDS Journal

CONSTANTS t1, t2

OneThread == {t1}
TwoThreads == {t1, t2}
MCLengths == {3, 8}
=============================================================================
