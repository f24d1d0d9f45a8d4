---------------------------- MODULE MCNvmeQueue ----------------------------
(* Rings of three entries for NvmeQueue.                                   *)
EXTENDS NvmeQueue

ThreeEach == [q \in Queue |-> 3]
=============================================================================
