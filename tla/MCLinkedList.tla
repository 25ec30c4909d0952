---------------------------- MODULE MCLinkedList ----------------------------
(* Instances of LinkedList for TLC. *)
EXTENDS LinkedList
=============================================================================
