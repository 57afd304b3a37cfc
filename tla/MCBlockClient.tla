---------------------------- MODULE MCBlockClient ----------------------------
(* Instances of BlockClient for TLC. *)
EXTENDS BlockClient

Memory(op, offset, len) == [op |-> op, mem |-> TRUE, offset |-> offset, len |-> len]
Vmo(op, offset, len) == [op |-> op, mem |-> FALSE, offset |-> offset, len |-> len]
Plain(op) == [op |-> op, mem |-> FALSE, offset |-> 0, len |-> 0]

\* Caller 1 writes a slice of two requests or one that is not aligned; caller 2
\* reads one block or closes the client; caller 3 uses a VMO of its own.
MCCalls == <<{Memory("write", 0, 4), Memory("read", 0, 3)},
             {Memory("read", 0, 2), Plain("close")},
             {Vmo("read", 0, 4), Vmo("write", 1, 2), Plain("flush"), Plain("close_vmo")}>>
MCBlocks == 0..1

\* A read of memory that may be dropped, and a write.
CancelCalls == <<{Memory("read", 0, 2)}, {Memory("write", 0, 2)}>>
=============================================================================
