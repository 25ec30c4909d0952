----------------------------- MODULE ProcessDocs -----------------------------
(***************************************************************************)
(* What the documents say of wait() and of kernel stacks, stated over the  *)
(* model of Process.  The code contradicts each property: the run that     *)
(* checks it shows how.                                                    *)
(***************************************************************************)
EXTENDS Process

\* User programs that reach wait() execute it.
WaitSpec ==
    /\ FairSpec
    /\ \A t \in Task : SF_vars(cur = t /\ Wait)

\* docs/system_call.md on wait(): "Suspend execution of the calling thread until
\* one of its children terminates."  A caller of wait() that exit_process() has
\* told of a child's death returns from wait().
WaitReturns ==
    \A p, c \in Task :
        (/\ frame[p].call = "wait" /\ frame[p].at /\ frame[p].a0 = c
         /\ state[c] = "DEAD" /\ parent[c] = p)
            ~> (~frame[p].at \/ mode \in Halted)

\* docs/report.md on stack_to_remove: a task cannot free its stack when it exits,
\* "because it is still in use"; two stages put it off until after a yield.  No
\* stack is freed while its owner lives or the CPU is on it.
StackLeft ==
    \A t \in kfreed : state[t] \in Exited /\ stk # t
=============================================================================
