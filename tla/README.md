# Verification of toy-riscv-kernel

A TLA+ development kept beside the kernel: what it models, what TLC checks on
small instances, and what TLAPS proves for every instance.  Paths below are those
of the repository (`kernel/process.c` is `src/kernel/process.c` in `PROJECT.json`).

## 1. The system

One RISC-V hart, one kernel, user programs compiled into the kernel image.

| Component | State | Operations | Interacts with | What is hard, what makes it correct |
|---|---|---|---|---|
| Processes and scheduler (`process.c`, `process.h`, `switch.S`) | task states, parents, channels, exit statuses, `next_pid`, `runnable_tasks`, `running_task`, saved contexts, trap frames, `stack_to_remove(_next)` | `scheduler`, `yield`, `sleep`, `fork_process`, `exec_process`, `exit_process`, ten system calls | called by traps; allocates and frees through `mem_manage.c` | preemption inside the kernel, wakeups against sleeps, deaths against waits, freeing stacks in use; the queue must equal the set of RUNNABLE tasks, the tree must have no orphans, deaths must reach parents |
| Traps (`trap.c`, `trampoline.S`, `kernel_vectors.S`, `riscv.h`) | trap frame, `sepc`, `sstatus`, `stvec`, pending interrupts | `user_trap`, `kernel_trap`, `user_trap_return`, `interrupt_on/off` | enters the scheduler and `syscall()` | interrupts are on in the kernel after a switch; nested traps overwrite shared registers; every return must go where the trap came from |
| Page allocator (`mem_manage.c`) | `buddy_pool`, one sorted list per order | `init_mem_manage`, `allocate`, `deallocate` | used by everything | merging in any order; no page lost or given out twice |
| Kernel heap (`mem_manage.c`) | list of blocks, `free`, `count` | `kmalloc`, `kfree` | page allocator below; tasks and list nodes above | unsigned arithmetic; rewinding the free pointer |
| Linked list (`single_linked_list.h`) | head, tail, size, the nodes and their links | push, pop, `removeAt`, `for_each_node`, clear | run queue, task list, memory sections | nodes are pushed again and again; nodes are freed inside loops; `removeAt` skips the head |
| Virtual memory (`virtual_memory.c`) | three-level page tables | map, unmap, copy, free | fork, exec, exit | undoing half-done work; freeing every table |
| ELF loader (`elf.c`) | none | `load_elf` | exec, boot | which pages a segment touches, which bytes land in them |
| UART, PLIC, printing | receive FIFO, pending interrupt, transmit ring | `uart_getc`, `uart_intr`, `uart_putc_sync` | get_char, put_char | typed characters lost to the interrupt handler |
| Boot (`entry.S`, `start.c`, `main.c`) | CSRs | straight line | starts the scheduler | none after the start |
| User library (`user/system.c`, `ulib.c`, `ulib.h`) and shell (`sh.c`) | registers, shared page, line buffer, `strtok`'s place | system call stubs, `read_until`, `strtok`, `execute_line` | system calls | `exec` packs its strings into one page; editing a line at the limit of its buffer |

## 2. Modules

| Module | Models | Role |
|---|---|---|
| `Process` | `process.c`, `trap.c` control flow, `switch.S`, stubs of `user/system.c`, `removeAt` | component |
| `ProcessDocs` | what the documents say of `wait` and of kernel stacks | documented behaviour the code contradicts |
| `MCProcess` | workloads | TLC instances |
| `ProcessProofs` | - | theorems about `Process`: queue, states, tree, sleeping, dying, stacks |
| `PageAllocator` | the comments of `mem_manage.h` | abstract specification |
| `Buddy`, `MCBuddy` | the buddy allocator of `mem_manage.c` | component, implements `PageAllocator` |
| `BuddyProofs` | - | theorems about `Buddy` |
| `KernelHeap`, `MCKernelHeap` | `kmalloc`, `kfree` | component |
| `KernelHeapProofs` | - | theorems about `KernelHeap` |
| `VirtualMemory`, `MCVirtualMemory` | `virtual_memory.c`, `elf.c`, the memory side of `process.c` | component |
| `FoldProofs` | - | how a fold is reasoned about, for any operator |
| `VirtualMemoryProofs` | - | theorems about `VirtualMemory` |
| `DataList` | what users of a list rely on | abstract specification |
| `LinkedList`, `MCLinkedList` | `single_linked_list.h` | component, implements `DataList` |
| `LinkedListProofs` | - | theorems about `LinkedList` |
| `Trap`, `MCTrap` | `trap.c`, the vectors, `uart.c`, interrupt switches of `riscv.h` and `process.c` | component |
| `TrapProofs` | - | theorems about `Trap` |
| `Exec` | `exec()` of `user/system.c`, `exec_process()`, `load_elf()`, `map_section_for_user()`, byte by byte | component |
| `Shell`, `MCShell` | `read_until()`, `strtok()`, `sh.c` | composed with `Exec`, which it extends |
| `ShellProofs` | - | theorems about `Exec` and `Shell` |

### Process

A task is its pid.  `Task` is `1 .. MaxTasks`, and pids are never reused, as in
the code.  The variables are the fields of `task_struct` and the globals of
`process.c`, plus three about the CPU: `mode`, `stk` (whose kernel stack the CPU is
on) and `kont` (what is left to do after the `yield()` under way).

A trap from user mode runs with interrupts off, so a system call is one atomic
step up to its `yield()`.  `yield()` turns interrupts on *before*
`switch_context()`, and a resumed task runs with interrupts on until
`user_trap_return()`.  These two stretches are the modes `switch` and `kernel`; a
timer tick (`KernelTick`) may fall into either.  `masked` is the second loop of
`sys_get_char()` entered without a switch: it polls with interrupts off.

A saved context is modelled by what resuming it does: `fresh` enters
`user_trap_return()` on an empty stack (so it may be resumed any number of times),
`stale` has been resumed before and its stack has been used since (it returns to
user mode or goes wild), `window` lies inside another task's `yield()`, and the
others continue a system call.  `wild` is a CPU at a point the code does not define:
nothing is claimed of what happens next, and the model stops there.

Only a RUNNING task saves into its own context.  A task that yields asleep saves
into `now_context`, which is never resumed: the model keeps this, so a woken waiter
restarts from an older context with its trap frame still on the `ecall`.

Data that is abstracted: memory images (a failing copy or load is a
nondeterministic outcome under `OutOfMemory`), exec's argument page (it is in `Exec`),
process names, the growth of the user stack (a fault inside the stack range changes
nothing that is modelled), printed characters, and the heap: a queue node is always
available (`remained_size()` never says that a block is full, so `kmalloc()` asks for one
block only), and the damage a heap overrun does to other pages is not followed into `Process`.

`execed` and `ticked` are history variables, read by no guard: whose stack exec has
retired, and whether a tick has come between `interrupt_on()` and `switch_context()` of
the `yield()` under way.  They let `StackReclaimSafe` and `WildExplained` name the cases in
which the code goes wrong and claim everything else.

The constants: `MaxTasks` bounds the tasks ever created (fork returns -1 beyond it,
which the code does when memory is short), `UserCalls` is the workload,
`KernelTicks` allows ticks in the kernel, `OutOfMemory` allows allocations to fail.

### Buddy and PageAllocator

Addresses are page numbers from `KERNEL_START`; each list linked through free pages
is a sequence.  Each turn of a loop of `init_mem_manage()`, each split in `allocate()`
and each recursive `deallocate()` is a step.  `PageAllocator` says what callers may
rely on: aligned blocks nobody else holds, and NULL only if no aligned run of pages
of that size is free.  The refinement maps `free` to the pages of the listed blocks
and of the block under way, so splitting and merging are stuttering steps.

### KernelHeap

Sizes and addresses count units of 8 bytes and `size_t` has `WordBits` bits, so that
the wrap-around of `remained_size()` is the one of the code.  The page allocator
places a block at any unused, aligned place.

### VirtualMemory

What fork, exec, exit and a page fault do to memory.  `space[t]` holds the page table
of a task (root, tables below it, mapped pages) and what `task_struct` says of it
(trap frame, shared page, registered sections, stack).  Addresses are page numbers.  A
table is named by its level and its place: one of the last level maps `Span` pages (512 in
the code), one above it `Span * Span`, so that a stack of any size takes as many tables as
it does in the machine, and mapping another page may need one.
These four operations run with interrupts off and are one step each, built from
operators named after the functions they model.  Every allocation inside them may
fail: memory is finite, so failures happen where they really would, and the
operators follow the error paths.  `fate` is `panic` where the code panics, and `wild`
after the step that freed memory in use (the step itself is taken, so its damage is in the
state); then the model stops.  The page allocator is the one of `Buddy`, by the set of its
free pages: two free buddies are always merged (`Coalesced`), so the set determines the lists, and
`Allocate` takes the head of the first list that is not empty.

Not in the module: the bytes in pages and the permissions of mappings, `kernel_pagetable`,
the kernel stacks (they are in `Process`), segments of one program that share a page
(`map_page` panics), and `kmalloc()` failing.  A task that ends leaves the module at
once, zombies have no memory.  The two models meet in the outcomes of `Fork` and `Exec`
of `Process` under `OutOfMemory`: `wild`, panic in `unmap_page`, or success.

### LinkedList and DataList

Nodes are places, `next` and `data` their fields, `Poison` what a freed node holds: a
loop that reads a node after `kfree()` gets `Poison` and leaves its type.  Nodes are
made, pushed, popped with or without being freed, and pushed again, as `yield()` does
with `running_task`.  Every turn of a loop is a step, so that clearing a list that is
half freed is a state like any other.  `order` and `pos` are history variables: the
nodes the list should hold and how many the loop has passed; no guard reads them.
`DataList` is the sequence that `Process` and `VirtualMemory` work with.  Its
`RemoveEnd` deletes the first match *behind* the head, which is what `removeAt()` does.
That a `func` of `for_each_node()` changes the list it walks over does not occur.

### Trap

The hart at the level of its registers: `priv`, `sstatus` (SIE, SPIE, SPP), `sepc`,
`stvec`, and the two pending interrupts.  Each kernel stack is a sequence of
activations of `user_trap()` and `kernel_trap()`; the field `at` is the point reached.  An
interrupt may be delivered at every point where the hardware allows it.  Code that
runs with SIE off is cut where a register changes that the hardware writes too, so
that an interrupt let through by mistake would do its damage; this is what the
mutants try.  `fate` says how control was lost, if it was; the model stops there:
`switch` is the tick before `switch_context()` (`Process` follows it further),
`lost_kernel` a trap between `write_sepc()` and `write_sstatus()` of `kernel_trap()`.  The
activation it hits is marked (`hit`), which is the exception in `KernelResumes`.
Abstracted: `epc + 4` (a point of a program is "where it was"), general registers,
the meaning of the calls (a task runs, yields, reads, writes, forks, execs or exits;
blocking is in `Process`), and machine mode, where `timer_vector` re-arms the timer and
raises the software interrupt (`TimerVector`).  The UART has a receive FIFO of `FifoSize`.

### Exec and Shell

A character is a model value or a letter, the shared page and the line buffer are
functions from their places; `JUNK` is a byte left by an earlier use, so that reading
beyond what was written shows.  `Shell` takes one key at a time, with DEL and the
limit of the buffer; a NUL can be typed, which is how `strtok()` reaches the end of
the string in the middle of the buffer.  `execute_line()` then builds `argv`, and
`Exec` packs the strings, looks the program up, loads its segments page by page and
hands the pointers to `main()`.  Other programs call `exec()` with arguments of their own
(`Callers`), empty strings and environments included.  Segments start at page
boundaries, as `user.ld` places them.  `poweroff` may or may not end the machine, because
init may be the shell itself.  The name of a task is left out: it is only printed.

## 3. Runs

| Run | Instance | Checks |
|---|---|---|
| `ProcessCalls` | 2 tasks, all calls, kernel ticks, memory may run out | `TypeOK`, `RunQueueExact`, `OneRunning`, `NoLostWakeup`, `ExitReturnsIdle`, `StackReclaimSafe`, `WildExplained` |
| `ProcessFamily` | 3 tasks that fork, fault, wait and read, no kernel ticks, under fairness | `ParentsAlive`, `WaiterHasNoZombie`, `DeathAnnounced`, `StatusStable`, `NoStarvation` |
| `Buddy` | 8 pages, every kernel size | `TypeOK`, `Partition`, `Coalesced`, `Terminates`, `ImplementsPageAllocator` |
| `Heap` | 4 live objects of 2 sizes, pages of 16 words | `TypeOK`, `Disjoint`, `CountExact` |
| `Memory` | 2 tasks, 2 programs, 43 pages, page tables of 3 entries, user stack of at most 4 pages | `NoSharing` (with the types), `MappedIsRegistered`, `ExitReturnsMemory`, `ForkCopies` |
| `List` | 4 nodes, 2 data pointers, every sequence of calls | `TypeOK`, `ListInv`, `ImplementsDataList`, `LoopsEnd` |
| `Trap` | 2 tasks, 2 keys, FIFO of 1, 3 activations on a stack, under fairness | `TypeOK`, `UserResumes`, `KernelResumes`, `AllocatorMasked`, `TicksServed` |
| `Shell` | lines of at most 9 keys, pages of 12 bytes or 5 pointers, 338 direct calls of exec() | `LineAsShown` (with the types), `ArgvExact`, `PointersInPage`, `ImageExact` |
| `DocWait` | 3 tasks, fair | `WaitReturns` is violated |
| `DocExec` | 2 tasks, `exec`, no kernel ticks | `StackLeft` is violated |
| `DocFork` | as `Memory` | `Isolated` is violated |
| `HeapOverrun` | 3 objects | `InsideBlock` is violated |

Bounds.  Two tasks are enough for every system call to meet every other one in
parent and child; three give a grandparent, an orphan and two children at once.  No symmetry is
used: pids are ordered (`get_one_zombie_child` takes the oldest).  Eight pages give
three levels of splitting and merging and blocks of every order; sixteen exceed what
can be explored in minutes.  In `Heap`, addresses start at 64 and a block has at most
32 words, so that, as in the machine (0x80000000 against 128 MiB), an address always
exceeds a block size.  In `Memory`, init takes 20 of the 43 pages and a fork as many or
more, and each exit leaks tables, so that memory runs out in every operation, at
first alone and then through leaks and fragments.  With three entries to a table a grown
stack spans two tables and the sections two more, so mapping fails for want of a table, the
stack grows by several pages at once and fails after some of them, and pages are left out of
a copy silently.  In `ProcessFamily` tasks die of faults,
which is `exit_process()` with another status, and wait for any child; `exit`, `wait_pid()` and
ticks in the kernel meet in `ProcessCalls`, and the theorems about the tree and about deaths
cover them for any number of tasks.

Four nodes give `removeAt()` a head, a middle, a last node and one outside the list,
and two data pointers make matches repeat.  In `Trap`, three activations are a user trap
with two kernel traps nested in it, which is enough for a trap to hit the restoring of
registers by another; with a FIFO of one and two keys a key can be lost to the
interrupt handler, to the first loop of `sys_get_char()` and to a full FIFO, so that the
second loop waits for one more.  In `Shell`
nine keys fill the buffer up to its limit (nine characters and the NUL), or rub characters
out below it (`LineShown` is proved for every mixture); twelve bytes of shared page are filled short of, exactly and beyond the
end, and four words are one more than a table of five pointers (with its two NULLs) holds, while
three fill it exactly; in the code these are 4096 bytes and 512 pointers.
The segments end inside a page, at its end, and are followed by whole pages of zeros.

Fairness.  `FairSpec` assumes that the kernel's own code keeps running
(`WF(KernelProgress)`) and that the timer, re-armed by `timer_vector` in machine mode,
interrupts user mode again and again (`SF(UserTick)`: the software interrupt stays
pending while user code enters and leaves the kernel).  Nothing is assumed of users:
they may loop, and nobody has to type.  `WaitSpec` adds that a program standing on
the `ecall` of wait() executes it.  `Terminates` and `LoopsEnd` assume only that loops
keep running.  `FairSpec` of `Trap` assumes that kernel code goes on (`WF(Kernel)`) and that
an interrupt that is pending and enabled again and again is taken (`SF` on the two
interrupts); no key has to be typed and no program has to make a call.
`NoStarvation` and `TicksServed` except the second loop of `sys_get_char()`, which really
keeps the CPU until a key comes.

Each property of a passing run has a mutant in `PROJECT.json`: a definition (for
example `RequeueAtHead`) that changes one operation the way a slip in the code
would; with it TLC finds the property violated.

## 4. What the runs found

Four disagreements between the code and its documents or comments have a run each.  The
property of such a run says what the document says, without an exception for what the code does:

* **wait() loses its place** (`DocWait`): a sleeping caller's continuation is saved
  into `now_context`, so the woken parent executes wait() a second time, with its
  first argument overwritten by the dead child's pid.
* **exec() frees the stack it runs on** (`DocExec`).
* **A fork without memory frees pages in use** (`DocFork`): `copy_memory_with_pagetable()`
  undoes a failed copy by deallocating pages of the *source*, and `fork_process()` then frees
  the caller instead of the child.
* **kmalloc() never sees its block full** (`HeapOverrun`).

Five more are in the models without a run of their own; the first three are the exceptions that
passing properties name:

* **A tick after an exit frees the stack the CPU is on** (`StackReclaimSafe`): it is a second
  `yield()` before the first one has switched, so the two stages pass too early.
* **A tick before switch_context() tears a context** (`WildExplained`): `running_task` has changed,
  so the registers of the task being left go into the context of the one being entered.
* **Short arguments overrun their table** (`ArgvExact`): more than 510 of them take less than the
  page that `docs/system_call.md` asks for, and their pointers more than one.
* **send_signal() kills nobody** (`SendSignal` of `Process`): `is_alive()` (`||` for `&&`) is true of
  every task, and `sys_send_signal()` turns those away.
* **get_char() drops a waiting key** (`GetChar` of `Trap`): its first loop reads it, the second one
  overwrites it.  A key may be lost to `uart_intr()` as well.

About contexts and interrupts the passing runs say exactly how far the code is right:

* `exit_process()` panics if `yield()` returns into it.  `ExitReturnsIdle`: only when
  every other task is blocked, and none on the task that exits, for instance when the
  last runnable task exits while its parent waits for another child.
* `StackReclaimSafe`: apart from exec and from a tick in the window before `switch_context()`,
  the two stages are enough, for any order of exits, early returns and other ticks.
* `WildExplained`: the CPU leaves the paths the code defines in four ways only: a stack that exec
  retired, a tick in that window, the old context of a task that slept, a fork without memory.
  Queue and states survive all ticks.  In `Trap` the window is the fate `switch`.
* `KernelResumes`: `kernel_trap()` restores `sepc` and `sstatus` with interrupts on after its
  `yield()`; a trap between the two writes is fatal, and nothing else is.
* `AllocatorMasked`: `deallocate()` and `kmalloc()` return on some paths without restoring
  the interrupt status; it does no harm, because they are never entered with interrupts on.
* `NoLostWakeup`: a task never sleeps in wait_pid() beside the zombie it waits for; it may
  sleep for ever on a child that is DEAD already, because `child_with_pid()` turns away only zombies.

In `Exec`: `exec_process()` looks for envp at the address of argv plus the *number* of
arguments, so the environment of a program is wrong as soon as it has arguments
longer than nothing; `PointersInPage` shows that the pointers stay in the page if the first
argument is not empty.  When the strings fill the page exactly or do not fit, the
program gets no arguments at all and no error is reported (`ArgvExact`).  Empty arguments at
the front are skipped.  `virtual_memory.h` says of `map_section_for_user()` that the address need not be
aligned; the bytes of an unaligned segment would be copied to the start of its page.
No program of the repository has one.  `docs/user.md` gives other return values
for `read_until()` (0 and 1) than the code (-1 and 0).

Further divergences are visible in `VirtualMemory`, when memory runs out.
`copy_memory_with_pagetable()` tests for -1 where `map_page()` returns 1, and `copy_all_memory_with_pagetable()` returns
0 when it could not copy the stack: fork then succeeds with pages missing, which is
why `ForkCopies` asks for enough memory.  A failing exec ends in the panic of
`unmap_page()`, because the fields of the old stack are still set.  `free_pagetable()`
does not free last-level tables and frees pairs of pages as single ones, which is why
`ExitReturnsMemory` speaks of data pages only.  `NoSharing` and `MappedIsRegistered` speak of
behaviours up to the first fork that runs out while it copies: `DocFork` shows what it does.

Others are visible in the actions of `Process` and have no run: `reparent()` gives zombies
to init without waking it, so init may sleep in wait() beside an unreaped zombie (for
all other tasks `WaiterHasNoZombie` holds); wait() blocks when all children are dead and
gone; `child_with_pid()` turns zombies away, so wait_pid() of an exited child returns -1.

## 5. Proofs

Seven modules of theorems, and one of lemmas about folds.  Each of the seven proves an
inductive invariant `IInv` for every value of the constants and derives the properties from
it.  TLC checked the `IInv` on the instance of the component's run before it was proved, with one
exception: that of `ShellProofs` quantifies over layouts of a page and positions of keys that TLC
cannot enumerate, so there TLC checked only the four properties.

| Module | Theorem | Statement |
|---|---|---|
| `ProcessProofs` | `TypeCorrect`, `RunQueueCorrect`, `OneRunningCorrect`, `TreeCorrect`, `NoMissedExit` | `Spec` implies `[]TypeOK`, `[]RunQueueExact`, `[]OneRunning`, `[]ParentsAlive`, `[]WaiterHasNoZombie` |
| | `WakeupsArrive`, `PanicsIdle` | `[]NoLostWakeup`, `[]ExitReturnsIdle` |
| | `DeathsAnnounced`, `StatusesStable` | the action properties `DeathAnnounced`, `StatusStable` |
| | `StacksReclaimedSafely`, `WildOnlyAsNamed` | `[]StackReclaimSafe`, `[]WildExplained` |
| `LinkedListProofs` | `Typed`, `ListSafe` | `[]TypeOK`, `[]ListInv` |
| | `Refinement` | `Spec => ImplementsDataList` |
| `TrapProofs` | `Typed`, `ProgramsResume`, `KernelTrapResumes`, `AllocatorAlone` | `[]TypeOK`, `[]UserResumes`, `[]KernelResumes`, `[]AllocatorMasked` |
| `KernelHeapProofs` | `Typed`, `ObjectsDisjoint`, `CountsExact` | `[]TypeOK`, `[]Disjoint`, `[]CountExact` |
| `VirtualMemoryProofs` | `Isolation`, `Registration` | `[]NoSharing`, `[]MappedIsRegistered` |
| | `ExitGivesBack` | the action property `ExitReturnsMemory` |
| `ShellProofs` | `LineShown`, `WordsReachMain` | `[]LineAsShown`, `[]ArgvExact` |
| | `PointersInside`, `ImageIsFile` | `[]PointersInPage`, `[]ImageExact` |
| `BuddyProofs` | `Typed`, `NoPageLost`, `BuddiesMerged` | `[]TypeOK`, `[]Partition`, `[]Coalesced` |
| | `Refinement` | `Spec => ImplementsPageAllocator` |

No theorem has a hypothesis; the proofs use only the named assumptions on the
constants.  Those of `Process`: there is at least one task, the calls are system
calls, statuses are integers, the switches are Booleans; both switches are arbitrary, so
ticks in the kernel and failing allocations are covered.  Those of `KernelHeap`: memory starts
page aligned and ends below 2^WordBits (`WidthAssumption`), each size of an object has a
smallest power of two that is large enough, and blocks are not larger than the address
memory begins at, as 0x80000000 and 128 MiB give (`ObjectsAssumption`).  Those of `Buddy`: there is
an order, and `PowersAssumption`, which is arithmetic and true of every `MaxOrder`: the
provers do not know how `^` is defined.  Those of `VirtualMemory`: the sizes, which
only have to leave room for the stack and five pages (the code's 512 entries, 2^26 pages and 1024
stack pages do), the same `PowersAssumption`, and that programs are
linked to low addresses, two pages below the lowest page of the stack (`ProgramsAssumption`).  Those of
`Exec` and `Shell`: the names of programs are shorter than a page; their segments are page aligned, ascend
with pages of their own, and hold no more in the file than in memory, as `user.ld` places them
(`FilesAssumption`); strings that callers pass hold no NUL (`CallersAssumption`); and the
characters with a meaning of their own are not among the letters (`LettersAssumption`).

The provers cannot instantiate an induction rule.  Where an argument goes by induction on a
number (sizes that double from order to order, where a loop over a list stops, the smallest
free block of a run) it is made with the least counterexample instead, which the
well-foundedness of the natural numbers gives (`LeastNat` of `BuddyProofs`).

Loops over pages, sections and page tables are folds.  `FoldLeft` of the community modules is
a recursive function chosen over the subsets of the places of a sequence, and its operator
cannot be a parameter of a lemma.  In `FoldProofs` it is a constant of the module: a
module takes one instance per loop (`CopyFold == INSTANCE FoldProofs WITH Op <- CopyTurn`).  The module
proves that the recursive function exists and derives `FoldRule`: if the start is in `S[0]` and
element k leads from `S[k-1]` to `S[k]`, the result is in `S[n]`.  The sets `S[k]` are the loop
invariants.

**Process.**  `IInv` of `ProcessProofs` is the conjunction of five invariants, none of
which is inductive alone.  The queue stays exact over a wakeup only because a
SLEEPING parent is not queued and is not the exiting task; that needs the tree to be
ordered by pid (`ParentsAlive`), which an exit keeps only because the exiting task is
alive and in the CPU (`OneRunning`).  The argument is layered: lemmas on queues
(`ListsAppend`, `ListsTail`, `RemoveAtAbsent`, `NextIsHead`), then on the parts of `yield()`
(`RequeueExact`, `DispatchExact`, `YieldExact`), then one lemma per action, of which
`ExitKeeps` is the largest, then `StepKeeps` and the temporal theorems.

The second half of `ProcessProofs` adds what a sleeper sleeps on (`SleepsOnChild`: itself, or its own
child that has not become a zombie), that an unused task has no parent (`UnusedBare`), and that a continuation of `exit_process()` is never resumed
(`ExitNotResumed`).  The two theorems about stacks need `StackInv`, which says for both stages of
`yield()` whose stack is in them and when (`StagesSound`: of a task that has exited, or retired by
exec), on which stack the CPU is (`OnStack`), and of every saved context who may still resume it
(`ContextsSound`): one that was resumed before is resumed again only if its task has slept or a
tick has torn a `yield()`.  Both switches and all calls are arbitrary.

**LinkedList.**  `ListInv` with `TypeOK` is almost inductive; `IInv` adds that allocated
nodes hold data (`HeapData`) and that a walk starts with nothing seen (`SeenReset`).  The
refinement shows that each operation maps to one of `DataList` and every turn of a loop to a stutter.

**Trap.**  `IInv` describes every stack as layers: the lowest activation is a
`user_trap()`, each one above names the point below that it interrupted, at most one of them is in
`switch_context()`, and, unless control was lost, `sstatus`, `sepc` and `stvec` are what the
point on top requires.  It holds for any number of tasks, keys, FIFO places and nested traps.

**KernelHeap.**  `IInv` places every object between the meta data and `free` of the one
block and makes its count the number of objects.  Rewinding `free` is right because the object
ends exactly there.

**Buddy.**  `IInv` says that free blocks, the block under way and the blocks handed out
are a tiling of the memory behind the kernel (`Tiling`: aligned, apart, covering), that the lists are
sorted without buddies, how far the two loops of `init_mem_manage()` have come (`High`, `Low`: the
lists tile the memory from a place that closes in on the kernel's end), and that allocate()
splits only while the smaller lists are empty, so that the recursion of `deallocate()` inside
it never merges.  `Released` is the step lemma: one call of `deallocate()` links the block in or
turns two buddies of the tiling into one block; `BuddyFound` is why looking at one neighbour
in a sorted list is enough.  In the refinement the free pages are those
behind the kernel that nobody holds (`FreeIsUnheld`), so splitting and merging cannot change them.  That
NULL is justified rests on `RunImpliesBlock`: in an aligned run of free pages without a
large enough block, the smallest free block has its buddy in the run, and the buddy is free
too, against `Coalesced`.

**VirtualMemory.**  The steps of fork, exec, exit and a page fault are nested operators on a job
(the free pages, one address space, whether all went well).  `JobOK(m, O)` is the
invariant of a job while it runs, where O are pages that belong to somebody else: each page has one
use, no address has another's page (`Distinct`), what is mapped has its tables (`Entries`), and
sections lie below the stack (`Placed`).  Each operator has a lemma that it keeps `JobOK` for every O, on its
failing paths too, and loops have theirs through `FoldRule`.  `IInv` gives the variables their types
always and, as long as `fate` is "ok", says the same of all address spaces at once (`SpaceOK`,
`Apart`), that what is mapped is registered (`Covered`) and that a task has its root, trap frame and
shared page (`Whole`).
`Isolation` follows with a count: the data pages and the mapped addresses correspond one to one.
In `ExitGivesBack`, O is chosen as everything that is neither free nor the task's own, so the same
lemmas say that nothing of it becomes free.

**Exec and Shell.**  `IInv` is `ExecInv` for the call under way and `ShellInv` for the line.  `Laid`
says where the strings of a call lie in the shared page, the packing loop reaches it through
`FoldRule`, and `StartFacts` finds each of them again behind the pointers that main() gets.  While a
program is loaded (`Loading`) the image grows from below: finished segments are exact, the current one
is exact up to the cursor, and the cursor's place in the file is right as long as it is in
the part the file holds.  `Reads` relates the buffer of `read_until()` to the keys: the characters on the
screen are those no DEL has rubbed out, in order, and they are the buffer.  It needs more
than the buffer shows, namely that deletions pair with characters (`Balanced`), so that the
last character is the one the next DEL meets.  `Parsing` says of `strtok()` that the words before
its place are cut off and whole, and that the rest of the line is as typed; when it ends, the
words are those of the line (`Parsed`), and they are what `exec()` packs.  So `ArgvExact` holds from
the key to main(), with the table of pointers: it overruns its page exactly for lines with more words
than fit (`CountsAre`: argv_size is their number, or 0).

Model-checked only:

* all liveness (`NoStarvation`, `Terminates`, `LoopsEnd`, `TicksServed`) and the
  violated properties: fairness and ENABLED are out of reach of the prover;
* `ForkCopies` of `VirtualMemory`: that memory suffices for the whole of fork needs a count of pages
  and pairs of pages through every operator, on top of what the other proofs use.

## 6. Not modelled, and the plan

Next, proofs: `ForkCopies`.

Left out, and why:

* The kernel's own page table: built once at boot and never changed.  The permissions of
  mappings: given with a mapping and never changed while it lasts.
* Boot (`entry.S`, `start.c`, `main.c`): straight line, one hart, interrupts off.
* The register moves of the assembly files: a trap frame or context is saved and
  restored as a whole.
* Printing and number formatting (`print.c`, the `print_` functions of `ulib.c`): no state.
* The transmit ring of `uart.c`: nothing calls `uart_putc()`, and the synchronous path
  has no state.  The spin locks are empty functions.
* The sample programs: instances of the arbitrary programs of `Process`.
* The magic number and the header fields of an ELF file: the files are built
  with the kernel; `Exec` starts from their list of segments.
