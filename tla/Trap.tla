-------------------------------- MODULE Trap --------------------------------
(***************************************************************************)
(* Traps at the level of the control and status registers: kernel/trap.c,  *)
(* trampoline.S, kernel_vectors.S, the interrupt switches of riscv.h, the  *)
(* UART and the PLIC, and the parts of process.c that turn interrupts on   *)
(* and off (yield, exec_process, sys_get_char).                            *)
(*                                                                         *)
(* One hart.  Each kernel stack is a sequence of activations of user_trap()*)
(* and kernel_trap(); "at" is the point its innermost one has reached.     *)
(* Code that runs with SIE off is cut where a register the hardware also   *)
(* writes (sepc, sstatus, stvec) changes, so that an interrupt let through *)
(* too early would be seen.  Tasks that block are in Process; here a task  *)
(* runs, is preempted, forks or exits.                                     *)
(***************************************************************************)
EXTENDS Integers, Sequences

CONSTANTS
    Task,        \* slots for tasks; init is one of them
    init,
    MaxDepth,    \* bound on nested traps on one kernel stack
    MaxTyped,    \* bound on the characters typed
    FifoSize     \* receive FIFO of the UART

ASSUME InitAssumption == init \in Task
ASSUME BoundsAssumption ==
    MaxDepth \in Nat \ {0} /\ MaxTyped \in Nat /\ FifoSize \in Nat \ {0}

VARIABLES
    priv,      \* privilege mode
    sstatus,   \* its fields sie, spie and spp
    sepc,      \* a point <<task, depth, at>>; depth 0 is user mode
    stvec,     \* "user_vector" or "kernel_vector"
    ssip,      \* a timer tick, forwarded by timer_vector, is pending
    seip,      \* an interrupt of the UART is pending at the PLIC
    rx,        \* receive FIFO of the UART
    typed,     \* characters typed so far; they are numbered
    alive,     \* tasks in all_tasks that have not exited
    runq,      \* runnable_tasks
    cur,       \* running_task
    stk,       \* the task whose kernel stack the CPU is on
    stack,     \* the activations on each kernel stack
    epc,       \* trap_frame->epc of each task
    exposed,   \* history: the allocator was called with interrupts on
    fate       \* "ok", or how control was lost

uart  == <<rx, typed>>
sched == <<alive, runq, cur, stk>>
vars  == <<priv, sstatus, sepc, stvec, ssip, seip, uart, sched, stack, epc, exposed, fate>>

Calls == {"yield", "get_char", "put_char", "fork", "exec", "exit"}

\* Exceptions of programs: page faults of loads and stores, and those that end them.
Exceptions == {"fault", "exit"}

UserPc(t) == <<t, 0, "user">>

Activation(fn, at, ca, pc, st) ==
    [fn |-> fn, at |-> at, call |-> ca, sepc |-> pc, sstatus |-> st, hit |-> FALSE]

Status(sie, spie, spp) == [sie |-> sie, spie |-> spie, spp |-> spp]

\* new_task(): ra is user_trap_return, the stack is empty.
Fresh(t) == <<Activation("user_trap", "ret", "none", UserPc(t), Status(FALSE, FALSE, "U"))>>

\* scheduler() has switched to init with interrupts off; stvec is not yet set.
Init ==
    /\ priv = "S"
    /\ sstatus = Status(FALSE, FALSE, "S")
    /\ sepc = UserPc(init)
    /\ stvec = "none"
    /\ ssip = FALSE /\ seip = FALSE
    /\ rx = <<>> /\ typed = 0
    /\ alive = {init} /\ runq = <<>> /\ cur = init /\ stk = init
    /\ stack = [t \in Task |-> IF t = init THEN Fresh(t) ELSE <<>>]
    /\ epc = [t \in Task |-> UserPc(t)]
    /\ exposed = FALSE
    /\ fate = "ok"

-----------------------------------------------------------------------------
(* The point the CPU is at. *)

Depth == Len(stack[stk])
Top   == stack[stk][Depth]
At(a) == fate = "ok" /\ priv = "S" /\ Top.at = a
Point == IF priv = "U" THEN UserPc(stk) ELSE <<stk, Depth, Top.at>>

\* The innermost activation goes on at a.
Goto(a) == stack' = [stack EXCEPT ![stk][Depth].at = a]

InterruptOff == [sstatus EXCEPT !.sie = FALSE]
InterruptOn  == [sstatus EXCEPT !.sie = TRUE]

\* allocate(), deallocate(), kmalloc() or kfree() is called while SIE is s.  What
\* they do to SIE themselves is undone, or they leave it off: no change if s is.
Allocator(s) == exposed' = (exposed \/ s)

-----------------------------------------------------------------------------
(* Devices. *)

\* timer_vector: machine mode turns its interrupt into a software interrupt.
TimerVector ==
    /\ ~ssip
    /\ ssip' = TRUE
    /\ UNCHANGED <<priv, sstatus, sepc, stvec, seip, uart, sched, stack, epc, exposed, fate>>

\* A key is pressed; a full FIFO loses it.
Type ==
    /\ typed < MaxTyped
    /\ typed' = typed + 1
    /\ rx' = IF Len(rx) < FifoSize THEN Append(rx, typed') ELSE rx
    /\ seip' = TRUE
    /\ UNCHANGED <<priv, sstatus, sepc, stvec, ssip, sched, stack, epc, exposed, fate>>

\* uart_intr() drains the FIFO: the characters go nowhere.  The transmit ring is
\* always empty, as nothing calls uart_putc().
UartIntr == rx' = <<>>

-----------------------------------------------------------------------------
(* Trap entry. *)

\* What the hardware does, then the vector: the point left is in sepc.
Enter == sstatus' = Status(FALSE, sstatus.sie, priv) /\ sepc' = Point /\ priv' = "S"

\* user_vector and user_trap() up to the switch on the cause.
UserTrap(at, ca) ==
    /\ stvec = "user_vector"
    /\ Enter
    /\ IF priv = "S"
       THEN fate' = "panic_user_trap" /\ UNCHANGED <<stvec, epc, stack>>
       ELSE /\ stvec' = "kernel_vector"
            /\ epc' = [epc EXCEPT ![cur] = Point]
            /\ stack' = [stack EXCEPT ![stk] =
                            <<Activation("user_trap", at, ca, Point, sstatus')>>]
            /\ UNCHANGED fate

\* kernel_vector and kernel_trap() up to the switch on the cause.  Its panic about
\* SIE cannot happen: the hardware has just cleared it.
KernelTrap(at) ==
    /\ stvec = "kernel_vector"
    /\ Depth < MaxDepth
    /\ Enter
    /\ IF priv = "U"
       THEN fate' = "panic_kernel_trap" /\ UNCHANGED stack
       ELSE /\ stack' = [stack EXCEPT
                   ![stk] = Append([@ EXCEPT ![Depth].hit = Top.hit \/ Top.at = "sepc"],
                                   Activation("kernel_trap", at, "tick", Point, sstatus'))]
            /\ UNCHANGED fate
    /\ UNCHANGED <<stvec, epc>>

Deliverable == fate = "ok" /\ (priv = "U" \/ sstatus.sie)

\* supervisor_trap_cause() for an external interrupt: plic_claim(), uart_intr(),
\* plic_complete().  It has priority over a software interrupt.
ExternalInterrupt ==
    /\ Deliverable /\ seip
    /\ UserTrap("ret", "none") \/ KernelTrap("back")
    /\ seip' = FALSE
    /\ UartIntr
    /\ UNCHANGED <<ssip, typed, sched, exposed>>

\* Mutant of Acknowledge: SSIP is not cleared.
AcknowledgeNot == UNCHANGED ssip

Acknowledge == ssip' = FALSE

\* supervisor_trap_cause() for the timer clears SSIP; both handlers call yield().
TimerInterrupt ==
    /\ Deliverable /\ ssip /\ ~seip
    /\ UserTrap("yield", "tick") \/ KernelTrap("yield")
    /\ Acknowledge
    /\ UNCHANGED <<seip, uart, sched, exposed>>

Ecall ==
    /\ fate = "ok" /\ priv = "U"
    /\ \E c \in Calls : UserTrap(c, c)
    /\ UNCHANGED <<ssip, seip, uart, sched, exposed>>

\* A page fault, or an illegal instruction or an instruction page fault.
Exception ==
    /\ fate = "ok" /\ priv = "U"
    /\ \E e \in Exceptions : UserTrap(e, "none")
    /\ UNCHANGED <<ssip, seip, uart, sched, exposed>>

-----------------------------------------------------------------------------
(* yield() and switch_context(). *)

\* Mutant of YieldMask: yield() does not begin with interrupt_off().
YieldUnmasked == sstatus

YieldMask == InterruptOff

\* Mutant of Requeue: a task that exits is queued again.
RequeueAlways(leaving) == Append(Tail(runq), cur)

Requeue(leaving) == IF leaving THEN Tail(runq) ELSE Append(Tail(runq), cur)

\* yield() up to switch_context().  A tick that comes here while another yield()
\* has changed running_task but not the stack would save into a wrong context
\* (Process follows it); the model stops there.  A task that leaves has freed its
\* memory before, with SIE as exit_process() found it.
Yield(leaving) ==
    /\ Allocator(YieldMask.sie \/ (leaving /\ sstatus.sie))
    /\ IF runq = <<>>
       THEN /\ Goto("back")
            /\ sstatus' = YieldMask
            /\ fate' = IF leaving THEN "panic_exit" ELSE fate
            /\ UNCHANGED sched
       ELSE /\ Goto("switch")
            /\ cur' = Head(runq)
            /\ runq' = Requeue(leaving)
            /\ alive' = IF leaving THEN alive \ {cur} ELSE alive
            /\ sstatus' = [YieldMask EXCEPT !.sie = TRUE]
            /\ fate' = IF cur = stk THEN fate ELSE "switch"
            /\ UNCHANGED stk
    /\ UNCHANGED <<priv, sepc, stvec, ssip, seip, uart, epc>>

YieldStep == At("yield") /\ Yield(FALSE)

\* exit_process(), which panics for init.
Exit ==
    /\ At("exit")
    /\ IF cur = init
       THEN /\ fate' = "panic_init"
            /\ UNCHANGED <<priv, sstatus, sepc, stvec, ssip, seip, uart, sched, stack, epc, exposed>>
       ELSE Yield(TRUE)

SwitchContext ==
    /\ At("switch")
    /\ stk' = cur
    /\ stack' = [t \in Task |->
          IF t = cur /\ stack[t][Len(stack[t])].at = "switch"
          THEN [stack[t] EXCEPT ![Len(stack[t])].at = "back"]
          ELSE IF t \in alive THEN stack[t] ELSE <<>>]
    /\ UNCHANGED <<priv, sstatus, sepc, stvec, ssip, seip, uart, alive, runq, cur, epc, exposed, fate>>

-----------------------------------------------------------------------------
(* The system calls. *)

\* The rest of the system call around a yield().
Back ==
    /\ At("back") /\ Top.fn = "user_trap"
    /\ Goto(IF Top.call = "get_char" THEN "get_char" ELSE "ret")
    /\ UNCHANGED <<priv, sstatus, sepc, stvec, ssip, seip, uart, sched, epc, exposed, fate>>

\* First loop of sys_get_char(): a character that is there ends it and is dropped.
GetChar ==
    /\ At("get_char")
    /\ Goto(IF rx = <<>> /\ runq # <<>> THEN "yield" ELSE "poll")
    /\ rx' = IF rx = <<>> THEN rx ELSE Tail(rx)
    /\ UNCHANGED <<priv, sstatus, sepc, stvec, ssip, seip, typed, sched, epc, exposed, fate>>

\* uart_getc() with LSR_RX_READY set.
Receive == rx' = Tail(rx)

\* Second loop of sys_get_char().
Poll ==
    /\ At("poll")
    /\ IF rx = <<>> THEN UNCHANGED <<rx, stack>>        \* wfi
       ELSE Receive /\ Goto("ret")
    /\ UNCHANGED <<priv, sstatus, sepc, stvec, ssip, seip, typed, sched, epc, exposed, fate>>

\* The UART interrupts again when the character is sent.
PutChar ==
    /\ At("put_char")
    /\ seip' = TRUE
    /\ Goto("ret")
    /\ UNCHANGED <<priv, sstatus, sepc, stvec, ssip, uart, sched, epc, exposed, fate>>

\* fork_process(), with memory for a child or without.
Fork ==
    /\ At("fork")
    /\ Allocator(sstatus.sie)
    /\ \/ \E t \in Task \ alive :
             /\ alive' = alive \cup {t}
             /\ runq' = Append(runq, t)
             /\ stack' = [stack EXCEPT ![t] = Fresh(t), ![stk][Depth].at = "ret"]
             /\ epc' = [epc EXCEPT ![t] = UserPc(t)]
       \/ Goto("ret") /\ UNCHANGED <<alive, runq, epc>>
    /\ UNCHANGED <<priv, sstatus, sepc, stvec, ssip, seip, uart, cur, stk, fate>>

\* exec_process(): interrupts are on when it calls user_trap_return().  They stay
\* off if there is no such file (-1), or if memory runs out, which ends the task.
Exec ==
    /\ At("exec")
    /\ \/ Goto("ret") /\ sstatus' = InterruptOn /\ Allocator(InterruptOff.sie)
       \/ Goto("ret") /\ sstatus' = InterruptOff /\ UNCHANGED exposed
       \/ Goto("exit") /\ sstatus' = InterruptOff /\ Allocator(InterruptOff.sie)
    /\ UNCHANGED <<priv, sepc, stvec, ssip, seip, uart, sched, epc, fate>>

\* handle_load_page_fault(), handle_store_page_fault(): the stack grows, page by
\* page, or the task ends.
PageFault ==
    /\ At("fault")
    /\ Allocator(sstatus.sie)
    /\ Goto("ret") \/ Goto("exit")
    /\ UNCHANGED <<priv, sstatus, sepc, stvec, ssip, seip, uart, sched, epc, fate>>

-----------------------------------------------------------------------------
(* Returning. *)

ReturnMask == InterruptOff

\* user_trap_return() up to write_stvec().
UserTrapReturn ==
    /\ At("ret")
    /\ sstatus' = ReturnMask
    /\ stvec' = "user_vector"
    /\ Goto("vector")
    /\ UNCHANGED <<priv, sepc, ssip, seip, uart, sched, epc, exposed, fate>>

\* Mutant of UserSepc: sepc is not loaded from the trap frame.
UserSepcKept == sepc

UserSepc == epc[cur]

\* user_trap_return(): SPP, SPIE and sepc.
UserTrapRegisters ==
    /\ At("vector")
    /\ sstatus' = [sstatus EXCEPT !.spp = "U", !.spie = TRUE]
    /\ sepc' = UserSepc
    /\ Goto("user_return")
    /\ UNCHANGED <<priv, stvec, ssip, seip, uart, sched, epc, exposed, fate>>

Sret ==
    /\ priv' = sstatus.spp
    /\ sstatus' = Status(sstatus.spie, TRUE, "U")

\* user_return: sret to wherever sepc says.
UserReturn ==
    /\ At("user_return")
    /\ Sret
    /\ fate' = IF sepc = UserPc(cur) /\ sstatus.spp = "U" THEN fate ELSE "lost_user"
    /\ stack' = [stack EXCEPT ![stk] = <<>>]
    /\ UNCHANGED <<sepc, stvec, ssip, seip, uart, sched, epc, exposed>>

\* kernel_trap(): write_sepc(sepc).
WriteSepc ==
    /\ At("back") /\ Top.fn = "kernel_trap"
    /\ sepc' = Top.sepc
    /\ Goto("sepc")
    /\ UNCHANGED <<priv, sstatus, stvec, ssip, seip, uart, sched, epc, exposed, fate>>

\* Mutant of SavedStatus: the old value is not written back.
SavedStatusKept == sstatus

SavedStatus == Top.sstatus

\* kernel_trap(): write_sstatus(sstatus).
WriteSstatus ==
    /\ At("sepc")
    /\ sstatus' = SavedStatus
    /\ Goto("status")
    /\ UNCHANGED <<priv, sepc, stvec, ssip, seip, uart, sched, epc, exposed, fate>>

\* The end of kernel_vector: back to the point it interrupted, if sepc says so.
KernelReturn ==
    /\ At("status")
    /\ Sret
    /\ fate' = IF sepc = Top.sepc /\ sstatus.spp = "S" THEN fate ELSE "lost_kernel"
    /\ stack' = [stack EXCEPT ![stk] = SubSeq(@, 1, Depth - 1)]
    /\ UNCHANGED <<sepc, stvec, ssip, seip, uart, sched, epc, exposed>>

Kernel ==
    \/ YieldStep \/ Exit \/ SwitchContext \/ Back
    \/ GetChar \/ Poll \/ PutChar \/ Fork \/ Exec \/ PageFault
    \/ UserTrapReturn \/ UserTrapRegisters \/ UserReturn
    \/ WriteSepc \/ WriteSstatus \/ KernelReturn

Lost == fate # "ok" /\ UNCHANGED vars

Next ==
    \/ TimerVector \/ Type
    \/ ExternalInterrupt \/ TimerInterrupt \/ Ecall \/ Exception
    \/ Kernel
    \/ Lost

Spec == Init /\ [][Next]_vars

\* The CPU executes the kernel's code; an interrupt that is pending and enabled
\* again and again is taken.  No program has to call and nobody has to type.
FairSpec ==
    /\ Spec
    /\ WF_vars(Kernel)
    /\ SF_vars(ExternalInterrupt)
    /\ SF_vars(TimerInterrupt)

-----------------------------------------------------------------------------
(* Properties. *)

Ats == Calls \cup Exceptions \cup {"ret", "back", "switch", "poll", "vector", "user_return", "sepc", "status"}

Fates == {"ok", "panic_user_trap", "panic_kernel_trap", "panic_init", "panic_exit",
          "switch", "lost_user", "lost_kernel"}

Points == Task \X (0 .. MaxDepth) \X (Ats \cup {"user"})

Statuses == [sie : BOOLEAN, spie : BOOLEAN, spp : {"U", "S"}]

\* Every variable has its type; the queue holds living tasks other than the
\* running one.
TypeOK ==
    /\ priv \in {"U", "S"}
    /\ sstatus \in Statuses
    /\ sepc \in Points
    /\ stvec \in {"none", "user_vector", "kernel_vector"}
    /\ ssip \in BOOLEAN /\ seip \in BOOLEAN /\ exposed \in BOOLEAN
    /\ Len(rx) <= FifoSize
    /\ \A i \in DOMAIN rx : rx[i] \in 1 .. typed
    /\ alive \subseteq Task
    /\ cur \in alive /\ stk \in Task
    /\ \A i \in DOMAIN runq : runq[i] \in alive \ {cur}
    /\ \A t \in Task : \A i \in DOMAIN stack[t] :
           /\ stack[t][i].fn \in {"user_trap", "kernel_trap"}
           /\ stack[t][i].at \in Ats
           /\ stack[t][i].sepc \in Points
           /\ stack[t][i].sstatus \in Statuses
    /\ epc \in [Task -> Points]
    /\ fate \in Fates

\* A program goes on exactly where it was interrupted, however many tasks
\* trapped and overwrote sepc in between (trap_frame->epc, user_trap_return), and
\* no trap is taken through the wrong vector: the panics "not from user mode" and
\* "not in supervisor mode" of trap.c are dead code, because user_trap() and
\* user_trap_return() change stvec only while nothing can interrupt.
UserResumes == fate \notin {"lost_user", "panic_user_trap", "panic_kernel_trap"}

\* kernel_trap() returns to the point it interrupted, in supervisor mode, however
\* its yield() and nested traps changed sepc and sstatus; the one
\* exception is a trap between its write_sepc() and its write_sstatus(), which
\* it always loses control by.
KernelResumes ==
    At("status") =>
        /\ sstatus.spp = "S"
        /\ sepc = Top.sepc <=> ~Top.hit

\* The page allocator and the heap are never entered with interrupts on, so
\* they need no lock and it does not matter that deallocate() and kmalloc()
\* forget to restore the interrupt status on some paths.
AllocatorMasked == ~exposed

MaskedPoll == At("poll") /\ ~sstatus.sie

\* A timer tick is served unless control is lost: the only place where the
\* kernel holds it off for ever is the second loop of sys_get_char() entered
\* with interrupts off.
TicksServed == ssip ~> (~ssip \/ MaskedPoll \/ fate # "ok")
=============================================================================
