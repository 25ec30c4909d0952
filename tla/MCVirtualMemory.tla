--------------------------- MODULE MCVirtualMemory ---------------------------
(* Instances of VirtualMemory for TLC: two programs of different size. *)
EXTENDS VirtualMemory

Small == <<[start |-> 1, size |-> 1]>>
Large == <<[start |-> 1, size |-> 1], [start |-> 2, size |-> 2]>>
TwoPrograms == {Small, Large}
=============================================================================
