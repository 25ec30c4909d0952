---------------------------- MODULE MCKernelHeap ----------------------------
(* Instances of KernelHeap for TLC. *)
EXTENDS KernelHeap
TwoSizes == {2, 9}
=============================================================================
