---------------------------- MODULE MCTrapFrames ----------------------------
(* TrapFrames for TLC. *)
EXTENDS TrapFrames

SomeRegisters == {"rax", "r12", "r15"}
=============================================================================
