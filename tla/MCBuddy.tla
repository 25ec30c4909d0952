------------------------------- MODULE MCBuddy -------------------------------
(* Instances of Buddy for TLC: 2^MaxOrder pages, every kernel size. *)
EXTENDS Buddy
=============================================================================
