------------------------------- MODULE MCVfs -------------------------------
(* Vfs for TLC: four nodes at boot and three more; names that are those of *)
(* the mount point and of the device, the dot names, one that is too long  *)
(* and what is left of it, one with a slash in it, and "/", of which no    *)
(* component is left.                                                      *)
EXTENDS Vfs

SomeNames == Short \cup {"cut", "cut off", "dev/null"}

Copied == [nm \in SomeNames |-> IF nm = "cut off" THEN "cut" ELSE nm]

Split ==
  [nm \in SomeNames |-> CASE nm = "/" -> <<>> [] nm = "dev/null" -> <<"dev", "null">> [] OTHER -> <<nm>>]
=============================================================================
