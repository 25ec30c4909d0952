------------------------------ MODULE MCProcess ------------------------------
(***************************************************************************)
(* Workloads for TLC: which system calls the user programs make.  The      *)
(* number of tasks and the two switches are set in the .cfg files.         *)
(***************************************************************************)
EXTENDS ProcessDocs

AllCalls    == SysCalls
FamilyCalls == {"fork", "wait", "get_char"}      \* tasks end by faults
WaitCalls   == {"fork", "exit", "wait"}
ExecCalls   == {"fork", "exit", "exec"}
Status      == {5}
=============================================================================
