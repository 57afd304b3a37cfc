---------------------------- MODULE MCBlockCache ----------------------------
(* Instances of BlockCache for TLC. *)
EXTENDS BlockCache

\* Three blocks on the device, the last of one byte, and two in the VMO.
MCBuffers == {<<6>>, <<7, 6, 7>>}
MCStream == {<<7, 6, 7>>}
MCOffsets == {1, 4}
MCSeeks == {<<"start", 0>>, <<"end", 1>>, <<"end", -6>>, <<"current", 3>>}

\* No step depends on what the last call was, and TLC checks the steps to states
\* it has seen too: last need not tell states apart.
View == <<device, vmo, map, offset>>
=============================================================================
