-------------------------------- MODULE Disk --------------------------------
(***************************************************************************)
(* What block_client's Cache promises: a disk with std::io::{Read, Write,  *)
(* Seek} whose writes may stay in memory until flush.  A read returns what *)
(* was last written; a call that fails may have written a prefix of its    *)
(* data; what is on the device is at every time something that was written *)
(* there; a successful flush leaves nothing in memory; only reopening the  *)
(* disk can lose what is not on the device.  Every step records its call.  *)
(***************************************************************************)
EXTENDS Integers, Sequences

CONSTANTS
    device_size,    \* bytes of the device
    Buffers,        \* the buffers of read_at and write_at
    StreamBuffers,  \* the buffers of Read and Write
    Offsets,        \* positions a caller may ask for
    Seeks,          \* arguments of seek: <<from, delta>>
    MaxOffset       \* bound on offset: u64::MAX in the code

VARIABLES
    contents,       \* what a reader sees, byte by byte
    device,         \* what is on the device
    offset,         \* the position of Read, Write and Seek
    last            \* the last call, and what it returned

vars == <<contents, device, offset, last>>

Indices == 0..(device_size - 1)

Returns(call, value) == last' = [call |-> call, ok |-> TRUE, value |-> value]
Fails(call) == last' = [call |-> call, ok |-> FALSE, value |-> <<>>]

Overwritten(buf, at, n) ==
    [i \in Indices |-> IF i \in at..(at + n - 1) THEN buf[i - at + 1] ELSE contents[i]]

\* Bytes may go from memory to the device at any time.
WriteBack == \A i \in Indices : device'[i] \in {device[i], contents[i], contents'[i]}

InRange(at, len) == at + len <= device_size

\* Read and Write stop at the end of the device.
Room == IF offset > device_size THEN 0 ELSE device_size - offset
Clamped(len) == IF len < Room THEN len ELSE Room

Reading(call, at, len) ==
    /\ contents' = contents /\ WriteBack
    /\ Returns(call, [i \in 1..len |-> contents[at + i - 1]]) \/ Fails(call)

Writing(call, buf, at, len, value) ==
    /\ WriteBack
    /\ \/ Returns(call, value) /\ contents' = Overwritten(buf, at, len)
       \/ Fails(call) /\ \E n \in 0..len : contents' = Overwritten(buf, at, n)

Refuse(call) == Fails(call) /\ UNCHANGED <<contents, device>>

ReadAt(len, at) ==
    LET call == <<"read_at", len, at>> IN
    /\ IF InRange(at, len) THEN Reading(call, at, len) ELSE Refuse(call)
    /\ UNCHANGED offset

WriteAt(buf, at) ==
    LET call == <<"write_at", buf, at>> IN
    /\ IF InRange(at, Len(buf)) THEN Writing(call, buf, at, Len(buf), <<>>) ELSE Refuse(call)
    /\ UNCHANGED offset

Read(len) ==
    /\ Reading(<<"read", len>>, offset, Clamped(len))
    /\ offset' = IF last'.ok THEN offset + Clamped(len) ELSE offset

Write(buf) ==
    LET n == Clamped(Len(buf)) IN
    /\ Writing(<<"write", buf>>, buf, offset, n, <<n>>)
    /\ offset' = IF last'.ok THEN offset + n ELSE offset

Flush ==
    /\ \/ Returns(<<"flush">>, <<>>) /\ device' = contents
       \/ Fails(<<"flush">>) /\ WriteBack
    /\ UNCHANGED <<contents, offset>>

Seek(from, delta) ==
    LET call == <<"seek", from, delta>>
        to == delta + [start |-> 0, end |-> device_size, current |-> offset][from]
    IN /\ IF to \in 0..MaxOffset THEN Returns(call, <<to>>) /\ offset' = to
          ELSE Fails(call) /\ UNCHANGED offset
       /\ UNCHANGED <<contents, device>>

\* The disk is closed and opened again.
Reopen ==
    /\ contents' = device' /\ offset' = 0
    /\ \A i \in Indices : device'[i] \in {device[i], contents[i]}
    /\ \/ Returns(<<"reopen">>, <<>>) /\ device' = contents
       \/ Fails(<<"reopen">>)

Init ==
    /\ contents = device /\ offset = 0
    /\ last = [call |-> <<"new">>, ok |-> TRUE, value |-> <<>>]

Next ==
    \/ \E buf \in StreamBuffers : Read(Len(buf)) \/ Write(buf)
    \/ \E buf \in Buffers, at \in Offsets : ReadAt(Len(buf), at) \/ WriteAt(buf, at)
    \/ \E seek \in Seeks : Seek(seek[1], seek[2])
    \/ Flush \/ Reopen

Spec == Init /\ [][Next]_vars
=============================================================================
