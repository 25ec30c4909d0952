------------------------------- MODULE Process -------------------------------
(***************************************************************************)
(* Processes and the scheduler of the kernel: kernel/process.c together    *)
(* with the traps that call it (kernel/trap.c, kernel/switch.S) and the    *)
(* user-side stubs (user/system.c).                                        *)
(*                                                                         *)
(* There is one CPU.  A trap from user mode runs with interrupts disabled, *)
(* so a system call is one atomic step up to the point where it calls      *)
(* yield().  yield() turns interrupts ON before switch_context(), and what *)
(* a task does after switch_context() resumes it also runs with interrupts *)
(* on: those two stretches are steps of their own (modes "switch" and      *)
(* "kernel"), and a timer tick may fall into them.                         *)
(*                                                                         *)
(* The data of a kernel stack is abstracted to what a saved context does   *)
(* when it is resumed (its continuation).  Memory is abstracted to which   *)
(* kernel stacks were handed back to the page allocator.                   *)
(***************************************************************************)
EXTENDS Integers, Sequences, FiniteSets

CONSTANTS
    MaxTasks,       \* bound on the number of tasks ever created
    UserCalls,      \* system calls the user programs make
    ExitStatuses,   \* arguments of exit()
    KernelTicks,    \* whether the timer may interrupt the kernel itself
    OutOfMemory     \* whether the page allocator may fail

SysCalls == {"fork", "exec", "exit", "wait", "wait_pid", "send_signal",
             "yield", "power_off", "put_char", "get_char", "unknown"}

ASSUME MaxTasksAssumption == MaxTasks \in Nat \ {0}
ASSUME UserCallsAssumption == UserCalls \subseteq SysCalls
ASSUME ExitStatusesAssumption == ExitStatuses \subseteq Int
ASSUME SwitchesAssumption == KernelTicks \in BOOLEAN /\ OutOfMemory \in BOOLEAN

Task == 1 .. MaxTasks        \* a task is its pid; pids are never reused
NULL == 0
init == 1                    \* the task that init_scheduler() creates
ERR  == -1
PTR  == MaxTasks + 1         \* a non-null user pointer
CHAR == MaxTasks + 2         \* a character typed on the console

NOTHING == 0
SIGINT  == 2
SIGKILL == 9

VARIABLES
    state,         \* task->state; "UNUSED" before new_task()
    parent,        \* task->parent
    channel,       \* task->channel
    exitStatus,    \* task->exit_status
    nextPid,       \* next_pid
    runq,          \* runnable_tasks
    cur,           \* running_task
    mode,          \* what the CPU does
    stk,           \* the task whose kernel stack the CPU uses
    dst,           \* old_context of the yield() under way; NULL: now_context
    kont,          \* what is left of the kernel code under way after yield()
    context,       \* task->context: what resuming it would do
    frame,         \* task->trap_frame: the user's registers
    toRemove,      \* stack_to_remove
    toRemoveNext,  \* stack_to_remove_next
    kfreed,        \* tasks whose kernel stack went back to the allocator
    execed,        \* history: tasks whose kernel stack exec has retired
    ticked         \* history: a tick has come between the interrupt_on() of the
                   \* yield() under way and its switch_context()

tree  == <<parent, channel, exitStatus, nextPid>>
reap  == <<toRemove, toRemoveNext, kfreed>>
past  == <<execed, ticked>>
vars  == <<state, tree, runq, cur, mode, stk, dst, kont, context, frame, reap, past>>

States == {"UNUSED", "SLEEPING", "RUNNABLE", "RUNNING", "ZOMBIE", "DEAD"}
Exited == {"ZOMBIE", "DEAD"}

\* The CPU is off, in panic(), or at a point the code does not define.
Halted == {"panic_init", "panic_exit", "panic_unmap", "wild", "off"}
Modes  == {"boot", "user", "switch", "kernel", "masked"} \cup Halted

\* ret: back to user mode.  yield, getc, poll: inside sys_yield() and the two
\* loops of sys_get_char().  wait, wait0: inside sys_wait() with and without a
\* status pointer.  exit: after the yield() of exit_process().  window: the
\* switch_context() call of another task's yield().
Konts == {"none", "ret", "yield", "getc", "poll", "wait", "wait0", "exit", "window"}

\* fresh: new_task()'s (ra = user_trap_return, empty stack).  stale: a context
\* already resumed once, whose stack has been used since.
Contexts == Konts \cup {"fresh", "stale"}

Values == {ERR, NULL, PTR, CHAR, NOTHING, SIGINT, SIGKILL} \cup Task \cup ExitStatuses

\* at: the user pc is on an ecall.  shm: the int in the page shared for results.
Frames == [call : SysCalls \cup {"none"}, a0 : Values, a1 : Values,
           at : BOOLEAN, shm : Values]

NoFrame == [call |-> "none", a0 |-> NULL, a1 |-> NULL, at |-> FALSE, shm |-> NULL]

-----------------------------------------------------------------------------
(* init_scheduler() has created init; scheduler() has not switched to it. *)

Init ==
    /\ state = [t \in Task |-> IF t = init THEN "RUNNABLE" ELSE "UNUSED"]
    /\ parent = [t \in Task |-> NULL]
    /\ channel = [t \in Task |-> NULL]
    /\ exitStatus = [t \in Task |-> NULL]
    /\ nextPid = init + 1
    /\ runq = <<init>>
    /\ cur = NULL
    /\ mode = "boot"
    /\ stk = NULL
    /\ dst = NULL
    /\ kont = "none"
    /\ context = [t \in Task |-> "fresh"]
    /\ frame = [t \in Task |-> NoFrame]
    /\ toRemove = NULL
    /\ toRemoveNext = NULL
    /\ kfreed = {}
    /\ execed = {}
    /\ ticked = FALSE

\* scheduler(): runs once, with interrupts off up to user mode.
Scheduler ==
    /\ mode = "boot"
    /\ runq # <<>>
    /\ state' = [state EXCEPT ![Head(runq)] = "RUNNING"]
    /\ runq' = Tail(runq)
    /\ cur' = Head(runq)
    /\ stk' = Head(runq)
    /\ mode' = "user"
    /\ UNCHANGED <<tree, dst, kont, context, frame, reap, past>>

-----------------------------------------------------------------------------
(* The parts of yield(). *)

\* next_task_to_run() pops entries until a RUNNABLE one is at the head.
Candidates(st, q) == {i \in 1 .. Len(q) : st[q[i]] = "RUNNABLE"}

NextTaskToRun(st, q) ==
    LET first == CHOOSE i \in Candidates(st, q) :
                     \A j \in Candidates(st, q) : i <= j
    IN  SubSeq(q, first, Len(q))

\* Mutants of Requeue: the state is not changed; the task goes to the head.
RequeueStillRunning(st, q) ==
    IF st[cur] = "RUNNING" THEN [st |-> st, q |-> Append(q, cur), old |-> cur]
    ELSE [st |-> st, q |-> q, old |-> NULL]

RequeueAtHead(st, q) ==
    IF st[cur] = "RUNNING"
    THEN [st |-> [st EXCEPT ![cur] = "RUNNABLE"], q |-> <<cur>> \o q, old |-> cur]
    ELSE [st |-> st, q |-> q, old |-> NULL]

\* The running task, if RUNNING, goes back to the tail of the queue.
Requeue(st, q) ==
    IF st[cur] = "RUNNING"
    THEN [st |-> [st EXCEPT ![cur] = "RUNNABLE"], q |-> Append(q, cur), old |-> cur]
    ELSE [st |-> st, q |-> q, old |-> NULL]

\* Mutants of Collect: NULL is deallocated like a page; the stack retired last is
\* deallocated at once; stack_to_remove_next is not cleared.
CollectNull(next) ==
    /\ kfreed' = kfreed \cup {toRemove}
    /\ toRemove' = next
    /\ toRemoveNext' = NULL

CollectAtOnce(next) ==
    /\ kfreed' = kfreed \cup ({next} \ {NULL})
    /\ toRemove' = NULL
    /\ toRemoveNext' = NULL

CollectTwice(next) ==
    /\ kfreed' = kfreed \cup ({toRemove} \ {NULL})
    /\ toRemove' = next
    /\ toRemoveNext' = next

\* The stack retired two yields ago is deallocated, the next one moves up.
Collect(next) ==
    /\ kfreed' = kfreed \cup ({toRemove} \ {NULL})
    /\ toRemove' = next
    /\ toRemoveNext' = NULL

\* yield() with a non-empty queue, up to its call of switch_context().  k is
\* what remains to be done when the context saved by it is resumed.
Dispatch(st, q, k) ==
    LET rq == Requeue(st, q)
    IN  IF Candidates(rq.st, rq.q) = {}
        THEN /\ state' = st              \* head_node(...)->data of an empty list
             /\ runq' = q
             /\ mode' = "wild"
             /\ UNCHANGED <<cur, dst, kont>>
        ELSE LET ready == NextTaskToRun(rq.st, rq.q)
             IN  /\ state' = [rq.st EXCEPT ![Head(ready)] = "RUNNING"]
                 /\ runq' = Tail(ready)
                 /\ cur' = Head(ready)
                 /\ mode' = "switch"
                 /\ dst' = rq.old
                 /\ kont' = k

\* What the kernel code around a yield() does once it has returned: the rest
\* of the system call, then user_trap_return().
Resume(k, fr) ==
    /\ frame' = CASE k = "yield" -> [fr EXCEPT ![cur].a0 = NULL, ![cur].at = FALSE]
                  [] k = "wait"  -> [fr EXCEPT ![cur].shm = fr[cur].a1, ![cur].at = FALSE]
                  [] k = "wait0" -> [fr EXCEPT ![cur].at = FALSE]
                  [] OTHER       -> fr
    /\ mode' = IF k = "exit" THEN "panic_exit" ELSE "user"
    /\ dst' = NULL
    /\ kont' = "none"

\* yield() called with states st, queue q, retired stack next and trap frames
\* fr.  With nothing to run it returns at once, whatever the caller's state.
\* Deallocating a free page again corrupts the allocator.
Yield(st, q, next, k, fr) ==
    /\ Collect(next)
    /\ IF toRemove \in kfreed
       THEN /\ state' = st
            /\ runq' = q
            /\ frame' = fr
            /\ mode' = "wild"
            /\ UNCHANGED <<cur, dst, kont>>
       ELSE IF q = <<>>
            THEN /\ state' = st
                 /\ runq' = q
                 /\ UNCHANGED cur
                 /\ Resume(k, fr)
            ELSE /\ Dispatch(st, q, k)
                 /\ frame' = fr
    /\ ticked' = (mode = "switch")
    /\ UNCHANGED <<stk, context, execed>>

\* removeAt() of single_linked_list.h: it never looks at the head node.
RemoveAt(q, t) ==
    LET found == {i \in 2 .. Len(q) : q[i] = t}
    IN  IF found = {} THEN q
        ELSE LET i == CHOOSE i \in found : \A j \in found : i <= j
             IN  SubSeq(q, 1, i - 1) \o SubSeq(q, i + 1, Len(q))

\* sleep(): block cur on ch, then yield().
Sleep(ch, k) ==
    /\ channel' = [channel EXCEPT ![cur] = ch]
    /\ Yield([state EXCEPT ![cur] = "SLEEPING"], RemoveAt(runq, cur),
             toRemoveNext, k, frame)
    /\ UNCHANGED <<parent, exitStatus, nextPid>>

-----------------------------------------------------------------------------
(* The process tree. *)

\* Mutants of Reparent: nobody moves; every child moves, whoever its parent is.
ReparentNobody(st) == parent

ReparentAll(st) == [t \in Task |-> IF parent[t] # NULL THEN init ELSE NULL]

\* reparent() for every task, run while the exiting task is a ZOMBIE.
Reparent(st) ==
    [t \in Task |-> IF parent[t] # NULL /\ st[parent[t]] = "ZOMBIE"
                    THEN init ELSE parent[t]]

\* Mutants of Wakes: only a parent that waits for this child is woken, or only one
\* that waits for any.
WakesOnChild(t, p) == state[p] = "SLEEPING" /\ channel[p] = t

WakesOnAny(t, p) == state[p] = "SLEEPING" /\ channel[p] = p

\* Parent p is blocked in wait(), or in wait_pid() for t.
Wakes(t, p) == state[p] = "SLEEPING" /\ channel[p] \in {p, t}

\* Mutants of Buried: the parent is put on the CPU; a task that nobody waited for
\* is dropped.
BuriedParentRuns(t, p) ==
    [state EXCEPT ![t] = IF Wakes(t, p) THEN "DEAD" ELSE "ZOMBIE",
                  ![p] = IF Wakes(t, p) THEN "RUNNING" ELSE @]

BuriedUnseen(t, p) ==
    [state EXCEPT ![t] = "DEAD",
                  ![p] = IF Wakes(t, p) THEN "RUNNABLE" ELSE @]

\* The states after exit_process() has looked for a waiting parent.  The queue node
\* made for it is always available: remained_size() never says the heap is full.
Buried(t, p) ==
    [state EXCEPT ![t] = IF Wakes(t, p) THEN "DEAD" ELSE "ZOMBIE",
                  ![p] = IF Wakes(t, p) THEN "RUNNABLE" ELSE @]

\* exit_process(t, s), called by cur.
ExitProcess(t, s) ==
    IF parent[t] = NULL
    THEN /\ mode' = "panic_init"
         /\ UNCHANGED <<state, tree, runq, cur, stk, dst, kont, context, frame, reap, past>>
    ELSE LET par == Reparent([state EXCEPT ![t] = "ZOMBIE"])
             p   == par[t]
         IN  /\ parent' = par
             /\ exitStatus' = [exitStatus EXCEPT ![t] = s]
             /\ Yield(Buried(t, p),
                      IF Wakes(t, p) THEN Append(runq, p) ELSE runq,
                      t, "exit",
                      IF Wakes(t, p) THEN [frame EXCEPT ![p].a0 = t, ![p].a1 = s]
                      ELSE frame)
             /\ UNCHANGED <<channel, nextPid>>

IsAlive(t) == t # NULL /\ (state[t] # "ZOMBIE" \/ state[t] # "DEAD")

Children(t) == {c \in Task : state[c] # "UNUSED" /\ parent[c] = t}

HasAliveChild(t) == \E c \in Children(t) : IsAlive(c)

\* get_one_zombie_child(): all_tasks is in order of creation.
ZombieChildren(t) == {c \in Children(t) : state[c] = "ZOMBIE"}
OneZombieChild(t) ==
    CHOOSE c \in ZombieChildren(t) : \A d \in ZombieChildren(t) : c <= d

FindTask(pid) == IF pid \in Task /\ state[pid] # "UNUSED" THEN pid ELSE NULL

IsAncestor(a, t) ==
    /\ a # NULL
    /\ t # NULL
    /\ LET above[u \in Task] ==
               parent[u] # NULL /\ (parent[u] = a \/ above[parent[u]])
       IN  above[t]

ChildWithPid(t, pid) ==
    LET c == FindTask(pid)
    IN  IF c # NULL /\ parent[c] = t /\ state[c] # "ZOMBIE" THEN c ELSE NULL

-----------------------------------------------------------------------------
(* User mode and the system calls. *)

Arguments(c) ==
    CASE c = "exit"        -> ExitStatuses \X {NULL}
      [] c = "wait"        -> {NULL, PTR} \X {NULL}
      [] c = "wait_pid"    -> (Task \cup {ERR}) \X {NULL, PTR}
      [] c = "send_signal" -> Task \X {NOTHING, SIGINT, SIGKILL}
      [] OTHER             -> {<<NULL, NULL>>}

\* A stub of user/system.c loads the registers; the next instruction is ecall.
UserProgram ==
    /\ mode = "user"
    /\ ~frame[cur].at
    /\ \E c \in UserCalls : \E arg \in Arguments(c) :
           frame' = [frame EXCEPT ![cur] =
                        [@ EXCEPT !.call = c, !.a0 = arg[1], !.a1 = arg[2], !.at = TRUE]]
    /\ UNCHANGED <<state, tree, runq, cur, mode, stk, dst, kont, context, reap, past>>

Syscall(c) == mode = "user" /\ frame[cur].at /\ frame[cur].call = c

\* syscall() stores the result and moves the pc past the ecall.
Return(v) ==
    /\ frame' = [frame EXCEPT ![cur].a0 = v, ![cur].at = FALSE]
    /\ UNCHANGED <<runq, cur, mode, stk, dst, kont, reap, past>>

\* A timer interrupt in user mode.
UserTick ==
    /\ mode = "user"
    /\ Yield(state, runq, toRemoveNext, "ret", frame)
    /\ UNCHANGED tree

\* A stack that is still in use is on a free list: whoever allocates may get it.
LiveStackFreed == \E t \in kfreed : state[t] \notin Exited

Wild ==
    /\ mode' = "wild"
    /\ UNCHANGED <<state, tree, runq, cur, stk, dst, kont, context, frame, reap, past>>

\* fork_process(): a child; -1 if new_task() has no page.  If a page cannot be
\* mapped, new_task() passes fields it has not set to free_user_memory(), and if
\* copying runs out of memory, pages and tasks in use are freed, the caller's own
\* among them: both are left to VirtualMemory.
Fork ==
    /\ Syscall("fork")
    /\ \/ /\ nextPid <= MaxTasks
          /\ state' = [state EXCEPT ![nextPid] = "RUNNABLE"]
          /\ parent' = [parent EXCEPT ![nextPid] = cur]
          /\ nextPid' = nextPid + 1
          /\ runq' = Append(runq, nextPid)
          /\ frame' = [frame EXCEPT
                         ![nextPid] = [frame[cur] EXCEPT !.a0 = NULL, !.at = FALSE,
                                                         !.shm = NULL],
                         ![cur].a0 = nextPid, ![cur].at = FALSE]
          /\ UNCHANGED <<channel, exitStatus, cur, mode, stk, dst, kont, context, reap, past>>
       \/ /\ nextPid > MaxTasks \/ OutOfMemory
          /\ Return(ERR)
          /\ UNCHANGED <<state, tree, context>>
       \/ /\ OutOfMemory \/ LiveStackFreed
          /\ Wild

\* exec_process(): no such file, a new image, or out of memory half way.  The
\* old image is cleared with clear_user_memory_space(), which also retires the
\* kernel stack the call is running on.  Interrupts are on at the end.
Exec ==
    /\ Syscall("exec")
    /\ \/ /\ Return(ERR)
          /\ UNCHANGED <<state, tree, context>>
       \/ /\ toRemoveNext' = cur
          /\ frame' = [frame EXCEPT ![cur] = [NoFrame EXCEPT !.a1 = PTR, !.shm = frame[cur].shm]]
          /\ mode' = "kernel"
          /\ kont' = "ret"
          /\ execed' = execed \cup {cur}
          /\ UNCHANGED <<state, tree, runq, cur, stk, dst, context, toRemove, kfreed, ticked>>
       \/ /\ OutOfMemory
          /\ ExitProcess(cur, ERR)
       \/ /\ OutOfMemory
          /\ mode' = "panic_unmap"
          /\ UNCHANGED <<state, tree, runq, cur, stk, dst, kont, context, frame, reap, past>>
       \/ /\ LiveStackFreed
          /\ Wild

Exit ==
    /\ Syscall("exit")
    /\ ExitProcess(cur, frame[cur].a0)

\* An illegal instruction or a page fault outside the stack's range.
Fault ==
    /\ mode = "user"
    /\ ExitProcess(cur, ERR)

\* A zombie child z is taken off; ptr is the user's status pointer.
Bury(z, ptr) ==
    /\ state' = [state EXCEPT ![z] = "DEAD"]
    /\ frame' = [frame EXCEPT ![cur].a0 = z, ![cur].at = FALSE,
                              ![cur].shm = IF ptr # NULL THEN exitStatus[z] ELSE @]
    /\ UNCHANGED <<tree, runq, cur, mode, stk, dst, kont, context, reap, past>>

WaitKont(ptr) == IF ptr # NULL THEN "wait" ELSE "wait0"

Wait ==
    /\ Syscall("wait")
    /\ IF ZombieChildren(cur) # {}
       THEN Bury(OneZombieChild(cur), frame[cur].a0)
       ELSE IF ~HasAliveChild(cur)
            THEN Return(ERR) /\ UNCHANGED <<state, tree, context>>
            ELSE Sleep(cur, WaitKont(frame[cur].a0))

\* child_with_pid() has turned zombies away, so a given pid never finds one.
WaitPid ==
    /\ Syscall("wait_pid")
    /\ LET pid   == frame[cur].a0
           ptr   == frame[cur].a1
           child == ChildWithPid(cur, pid)
       IN  IF pid = ERR
           THEN IF ZombieChildren(cur) # {}
                THEN Bury(OneZombieChild(cur), ptr)
                ELSE IF ~HasAliveChild(cur)
                     THEN Return(ERR) /\ UNCHANGED <<state, tree, context>>
                     ELSE Sleep(cur, WaitKont(ptr))
           ELSE IF child = NULL
                THEN Return(ERR) /\ UNCHANGED <<state, tree, context>>
                ELSE IF state[child] = "ZOMBIE"
                     THEN Bury(child, ptr)
                     ELSE Sleep(child, WaitKont(ptr))

SendSignal ==
    /\ Syscall("send_signal")
    /\ LET target == FindTask(frame[cur].a0)
           signal == frame[cur].a1
       IN  IF ~IsAncestor(cur, target) \/ IsAlive(target)
           THEN Return(ERR) /\ UNCHANGED <<state, tree, context>>
           ELSE IF signal \in {SIGINT, SIGKILL}
                THEN ExitProcess(target, signal)
                ELSE Return(signal) /\ UNCHANGED <<state, tree, context>>

YieldCall ==
    /\ Syscall("yield")
    /\ Yield(state, runq, toRemoveNext, "yield", frame)
    /\ UNCHANGED tree

PutChar ==
    /\ Syscall("put_char")
    /\ Return(NULL)
    /\ UNCHANGED <<state, tree, context>>

PowerOff ==
    /\ Syscall("power_off")
    /\ IF cur = init
       THEN /\ mode' = "off"
            /\ UNCHANGED <<state, tree, runq, cur, stk, dst, kont, context, frame, reap, past>>
       ELSE Return(ERR) /\ UNCHANGED <<state, tree, context>>

\* The pc stays on the ecall of an unknown system call.
UnknownCall ==
    /\ Syscall("unknown")
    /\ frame' = [frame EXCEPT ![cur].a0 = ERR]
    /\ UNCHANGED <<state, tree, runq, cur, mode, stk, dst, kont, context, reap, past>>

\* The loops of sys_get_char(): the first yields while there is no character
\* and somebody to run; whatever ends it, the second one polls the device.  A tick
\* between the look at the queue and yield() is one before both: if it leaves the
\* queue empty, yield() does no more than another tick.
GetChar ==
    /\ \/ Syscall("get_char")
       \/ mode = "kernel" /\ kont = "getc"
    /\ \/ /\ runq # <<>>
          /\ Yield(state, runq, toRemoveNext, "getc", frame)
       \/ /\ mode' = IF mode = "user" THEN "masked" ELSE "kernel"
          /\ kont' = "poll"
          /\ UNCHANGED <<state, runq, cur, stk, dst, context, frame, reap, past>>
    /\ UNCHANGED tree

\* The second loop sees a character (typed by somebody outside the kernel).
Input ==
    /\ mode \in {"masked", "kernel"}
    /\ kont = "poll"
    /\ frame' = [frame EXCEPT ![cur].a0 = CHAR, ![cur].at = FALSE]
    /\ mode' = "user"
    /\ kont' = "none"
    /\ UNCHANGED <<state, tree, runq, cur, stk, dst, context, reap, past>>

-----------------------------------------------------------------------------
(* The kernel with interrupts on. *)

\* switch_context(old_context, &new_task->context): save, load, and continue.
\* A context resumed a second time (stale) finds a stack written over since;
\* one saved inside another task's yield() (window) continues that yield().
SwitchContext ==
    /\ mode = "switch"
    /\ LET saved == IF dst = NULL THEN context ELSE [context EXCEPT ![dst] = kont]
           k     == saved[cur]
       IN  /\ \/ /\ k \in {"fresh", "stale"}
                 /\ mode' = "kernel"
                 /\ kont' = "ret"
              \/ /\ k \notin {"fresh", "stale", "window"}
                 /\ mode' = "kernel"
                 /\ kont' = k
              \/ /\ k \in {"stale", "window"}
                 /\ mode' = "wild"
                 /\ kont' = "none"
           /\ context' = IF k \in {"fresh", "window"} THEN saved
                         ELSE [saved EXCEPT ![cur] = "stale"]
    /\ stk' = cur
    /\ dst' = NULL
    /\ ticked' = FALSE
    /\ UNCHANGED <<state, tree, runq, cur, frame, reap, execed>>

\* The resumed task leaves the kernel.
KernelReturn ==
    /\ mode = "kernel"
    /\ kont \notin {"getc", "poll"}
    /\ Resume(kont, frame)
    /\ UNCHANGED <<state, tree, runq, cur, stk, context, reap, past>>

\* A timer interrupt in the kernel: kernel_trap() calls yield() on top of what
\* is under way, which goes on when that yield() returns.
KernelTick ==
    /\ KernelTicks
    /\ mode \in {"switch", "kernel"}
    /\ IF runq = <<>> /\ toRemove \notin kfreed
       THEN /\ Collect(toRemoveNext)
            /\ ticked' = (mode = "switch")
            /\ UNCHANGED <<state, runq, cur, mode, stk, dst, kont, context, frame, execed>>
       ELSE Yield(state, runq, toRemoveNext,
                  IF mode = "switch" THEN "window" ELSE kont, frame)
    /\ UNCHANGED tree

\* Nothing happens any more.
Halt ==
    /\ mode \in Halted
    /\ UNCHANGED vars

Next ==
    \/ Scheduler \/ UserProgram \/ UserTick
    \/ Fork \/ Exec \/ Exit \/ Fault \/ Wait \/ WaitPid \/ SendSignal
    \/ YieldCall \/ PutChar \/ PowerOff \/ UnknownCall \/ GetChar \/ Input
    \/ SwitchContext \/ KernelReturn \/ KernelTick
    \/ Halt

Spec == Init /\ [][Next]_vars

\* A timer interrupt stays pending until user mode takes it; the kernel's own
\* code keeps running.  Nobody has to type and no user program has to call.
KernelProgress ==
    Scheduler \/ SwitchContext \/ KernelReturn \/ (mode = "kernel" /\ GetChar)

FairSpec ==
    /\ Spec
    /\ WF_vars(KernelProgress)
    /\ SF_vars(UserTick)

-----------------------------------------------------------------------------
(* Invariants. *)

\* Every variable has its type.
TypeOK ==
    /\ state \in [Task -> States]
    /\ parent \in [Task -> Task \cup {NULL}]
    /\ channel \in [Task -> Task \cup {NULL}]
    /\ exitStatus \in [Task -> Values]
    /\ nextPid \in 2 .. MaxTasks + 1
    /\ runq \in Seq(Task)
    /\ cur \in Task \cup {NULL}
    /\ mode \in Modes
    /\ stk \in Task \cup {NULL}
    /\ dst \in Task \cup {NULL}
    /\ kont \in Konts
    /\ context \in [Task -> Contexts]
    /\ frame \in [Task -> Frames]
    /\ toRemove \in Task \cup {NULL}
    /\ toRemoveNext \in Task \cup {NULL}
    /\ kfreed \subseteq Task
    /\ execed \subseteq Task
    /\ ticked \in BOOLEAN

\* q lists the members of S, each once.
Lists(q, S) ==
    /\ q \in Seq(Task)
    /\ \A i, j \in 1 .. Len(q) : q[i] = q[j] => i = j
    /\ \A t \in Task : t \in S <=> \E i \in 1 .. Len(q) : q[i] = t

Runnable == {t \in Task : state[t] = "RUNNABLE"}

\* The run queue holds exactly the RUNNABLE tasks, each once, however wakeups
\* by exit_process(), preemptions, forks and sleeps interleave: no task is
\* queued twice and none that may run is lost (yield, sleep, fork_process,
\* exit_process).
RunQueueExact == Lists(runq, Runnable)

\* Only the running task is RUNNING; the task the CPU switches to is RUNNING, and
\* one that uses the CPU is not in the queue and has not exited (yield, sleep).
OneRunning ==
    /\ \A t \in Task : state[t] = "RUNNING" => t = cur
    /\ mode = "boot" => cur = NULL
    /\ mode = "switch" => cur \in Task /\ state[cur] = "RUNNING"
    /\ mode \in {"user", "kernel", "masked"} =>
           cur \in Task /\ state[cur] \in {"RUNNING", "SLEEPING"}

\* The process tree stays a tree with init at its root: init never exits, every
\* parent was created before its child and has not exited, so whoever dies
\* leaves no orphan (reparent in exit_process, fork_process).
ParentsAlive ==
    /\ state[init] \notin Exited
    /\ \A t \in Task :
           /\ state[t] = "UNUSED" <=> t >= nextPid
           /\ (state[t] # "UNUSED" /\ t # init) => parent[t] # NULL
           /\ parent[t] # NULL =>
                  parent[t] < t /\ state[parent[t]] \notin Exited \cup {"UNUSED"}

\* A task blocked in wait() for any child has no unreaped zombie: an exit that
\* happens before, during or after the call is never missed (sys_wait against
\* exit_process).  It is stated for every task but init, which inherits zombies.
WaiterHasNoZombie ==
    \A p \in Task \ {init} :
        (state[p] = "SLEEPING" /\ channel[p] = p) => ZombieChildren(p) = {}

\* No wakeup of wait_pid() is lost: a task never sleeps on one that has exited
\* and is still to be collected, whichever of wait_pid() and exit_process() came
\* first.  (It may sleep, for ever, on one that has been collected.)
NoLostWakeup ==
    \A p \in Task : state[p] = "SLEEPING" => state[channel[p]] # "ZOMBIE"

\* yield() returns into exit_process() (the panic "should not reach here") only if
\* every other task is blocked, and none of them for the task that exits.
ExitReturnsIdle ==
    mode = "panic_exit" =>
        \A t \in Task \ {cur} :
            /\ state[t] \in {"UNUSED", "SLEEPING"} \cup Exited
            /\ (state[t] = "SLEEPING" /\ parent[cur] = t) => channel[t] \notin {t, cur}

\* A kernel stack goes back to the allocator only when its owner has exited and
\* the CPU has left it, however exits, yields that return at once and ticks
\* interleave: the two stages stack_to_remove_next and stack_to_remove of yield()
\* are enough.  The two exceptions are named: a stack that exec has retired, and
\* a tick between interrupt_on() and switch_context(), which is a second yield()
\* on the stack of the task that has just exited.
StackReclaimSafe ==
    \A t \in kfreed \ execed : state[t] \in Exited /\ (stk = t => ticked)

\* A context that switch_context() saves, or has saved, inside another yield().
Torn == kont = "window" \/ \E t \in Task : context[t] = "window"

\* There are four ways for the CPU to reach a point the code does not define: the
\* freed stack of a task that called exec, a tick between interrupt_on() and
\* switch_context(), the old context of a task that slept in wait(), and a fork
\* that runs out of memory.  In all other behaviours, ticks in the rest of the
\* kernel included, no context is resumed twice or on a foreign stack, no page is
\* freed twice, and yield() finds a task to run.
WildExplained ==
    mode = "wild" =>
        \/ kfreed \cap execed # {}
        \/ Torn
        \/ channel[cur] # NULL
        \/ OutOfMemory /\ frame[cur].call = "fork" /\ frame[cur].at

-----------------------------------------------------------------------------
(* Action properties. *)

\* A death is announced exactly once and to the right task: a task becomes DEAD
\* only in a step that puts its pid into its parent's result register, with its
\* status beside it if the parent was asleep; and an exited task never runs
\* again (exit_process, sys_wait, sys_wait_pid).
DeathAnnounced ==
    [][\A t \in Task :
          /\ (state[t] # "DEAD" /\ state'[t] = "DEAD") =>
                 /\ frame'[parent'[t]].a0 = t
                 /\ state[t] = "RUNNING" \/ state[t] = "SLEEPING" =>
                        frame'[parent'[t]].a1 = exitStatus'[t]
          /\ state[t] \in Exited => state'[t] \in Exited
          /\ state[t] = "DEAD" => state'[t] = "DEAD"
      ]_vars

\* The status of an exited task is never changed afterwards, and its parent
\* changes only to init.
StatusStable ==
    [][\A t \in Task :
          /\ state[t] \in Exited => exitStatus'[t] = exitStatus[t]
          /\ (parent[t] # NULL /\ parent'[t] # parent[t]) =>
                 parent'[t] = init /\ state'[parent[t]] \in Exited
      ]_vars

-----------------------------------------------------------------------------
(* Liveness. *)

\* Round robin starves nobody: a RUNNABLE task gets the CPU, unless the machine
\* stops or somebody waits for a key in the second loop of sys_get_char().
NoStarvation ==
    \A t \in Task :
        state[t] = "RUNNABLE" ~> (cur = t \/ mode \in Halted \/ kont = "poll")

=============================================================================
