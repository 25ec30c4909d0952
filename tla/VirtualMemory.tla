---------------------------- MODULE VirtualMemory ----------------------------
(***************************************************************************)
(* The memory of processes: kernel/virtual_memory.c, kernel/elf.c, and the *)
(* parts of kernel/process.c that build, copy, enlarge and free address    *)
(* spaces.  Addresses are page numbers.                                    *)
(*                                                                         *)
(* fork, exec, exit and a page fault run with interrupts off, so each is   *)
(* one step, but each allocation in it may fail.  Such a step is a chain   *)
(* of operators on a job [free, page, sp, ok, fate]: the free pages, what  *)
(* allocate() returned last, the address space being worked on, whether    *)
(* everything has succeeded so far, and what has become of the machine.    *)
(* Kernel stacks are left to Process, and kmalloc() does not fail:         *)
(* remained_size() never says that a block is full (see KernelHeap).       *)
(***************************************************************************)
EXTENDS Integers, FiniteSets, SequencesExt

CONSTANTS
    MaxTasks,      \* bound on the number of tasks at a time
    FirstPage,     \* the first physical page behind the kernel
    NPages,        \* physical pages, the kernel's included
    MaxOrder,      \* BUDDY_MAX_ORDER
    MaxVA,         \* MAXVA, in pages
    Span,          \* entries of a page table
    StackPages,    \* limit of the user stack: (SHARED_MEMORY - MIN_STACK_ADDR)
    Programs,      \* ELF files, as sequences of PT_LOAD segments [start, size]
    InitProgram    \* the one init_scheduler() loads

ASSUME MemoryAssumption ==
    /\ MaxTasks \in Nat \ {0} /\ FirstPage \in Nat /\ NPages \in Nat /\ MaxOrder \in Nat
    /\ MaxVA \in Nat /\ Span \in Nat \ {0}
    /\ StackPages \in Nat \ {0} /\ StackPages + 5 <= MaxVA
    /\ InitProgram \in Programs

\* Arithmetic, for any MaxOrder: the provers do not know how ^ is defined.
ASSUME PowersAssumption == \A o \in 0 .. MaxOrder - 1 : 2 ^ (o + 1) = 2 * 2 ^ o

TRAMPOLINE    == MaxVA - 1
TRAPFRAME     == TRAMPOLINE - 1
SHARED_MEMORY == TRAMPOLINE - 2
MinStack      == SHARED_MEMORY - StackPages

\* Programs are linked to low addresses: two pages are left below the stack.
ASSUME ProgramsAssumption ==
    \A program \in Programs :
        /\ program \in Seq([start : Nat, size : Nat])
        /\ \A i \in DOMAIN program : program[i].start + program[i].size + 2 <= MinStack

Task == 1 .. MaxTasks
init == 1
Page == FirstPage .. NPages - 1
NULL == -1
STATIC == NPages               \* the kernel's trampoline page, never allocated

\* A page table below the root is named by its level and its place among the
\* tables of its level: one of level 0 maps Span pages, one of level 1 Span * Span.
VA         == 0 .. TRAMPOLINE
Lower(va)  == <<0, va \div Span>>
Upper(va)  == <<1, va \div (Span * Span)>>
Tables     == ({0} \X (0 .. TRAMPOLINE \div Span))
                  \cup ({1} \X (0 .. TRAMPOLINE \div (Span * Span)))

VARIABLES
    free,          \* pages on the free lists of the buddy allocator
    space,         \* per task: its page table and what task_struct says of it
    fate           \* "ok", "panic", or "wild": memory in use was freed

vars == <<free, space, fate>>

Void == [root |-> NULL, frame |-> NULL, shared |-> NULL,
         table |-> [e \in Tables |-> NULL], map |-> [va \in VA |-> NULL],
         sections |-> <<>>, stack |-> [start |-> 0, size |-> 0]]

Live(t) == space[t].root # NULL

-----------------------------------------------------------------------------
(* The page allocator, by the set of its free pages: what its lists hold      *)
(* follows from it, since two free buddies are always merged (Coalesced of    *)
(* Buddy).                                                                    *)

Block(p, order)   == p .. p + 2 ^ order - 1
BuddyOf(p, order) == IF (p \div 2 ^ order) % 2 = 0 THEN p + 2 ^ order ELSE p - 2 ^ order

Blocks(f, order) == {p \in f : p % 2 ^ order = 0 /\ Block(p, order) \subseteq f}

\* The free list of an order.
List(f, order) ==
    {p \in Blocks(f, order) :
        order = MaxOrder \/ ~(Block(BuddyOf(p, order), order) \subseteq f)}

\* allocate(power): the head of the first list that is not empty; what is left of
\* a larger block is given back.  NULL if every list is empty.
Allocate(m, power) ==
    LET levels == {k \in power .. MaxOrder : List(m.free, k) # {}}
        page   == Min(List(m.free, Min(levels)))
    IN  IF levels = {} THEN [m EXCEPT !.page = NULL]
        ELSE [m EXCEPT !.page = page, !.free = @ \ Block(page, power)]

Failed(m) == [m EXCEPT !.ok = FALSE]
\* Go on with Op, or undo with Op, depending on how m went.
Then(m, Op(_))   == IF m.ok THEN Op(m) ELSE m
OrElse(m, Op(_)) == IF m.ok THEN m ELSE Op(m)

Panic(m)  == [m EXCEPT !.fate = IF @ = "ok" THEN "panic" ELSE @]
Wild(m)   == [m EXCEPT !.fate = IF @ = "ok" THEN "wild" ELSE @]

\* deallocate(p, 0); of a free page it ruins the lists.
Deallocate(m, p) ==
    IF p = NULL THEN m
    ELSE IF p \in m.free THEN Wild(m) ELSE [m EXCEPT !.free = @ \cup {p}]

-----------------------------------------------------------------------------
(* Page tables. *)

\* One turn of the loop of pagetable_entry(): allocate(1) for a missing table.
Table(m, e) ==
    IF m.sp.table[e] # NULL THEN m
    ELSE LET n == Allocate(m, 1) IN [n EXCEPT !.sp.table[e] = n.page]

\* pagetable_entry(va, alloc = 1): there is no entry if a table is missing.
PagetableEntry(m, va) ==
    LET n == Table(m, Upper(va))
    IN  IF n.sp.table[Upper(va)] = NULL THEN n ELSE Table(n, Lower(va))

HasEntry(m, va) == m.sp.table[Lower(va)] # NULL

MapPage(m, va, pa) ==
    LET Enter(n) == IF ~HasEntry(n, va) THEN Failed(n)
                    ELSE IF n.sp.map[va] # NULL THEN Panic(n)
                    ELSE [n EXCEPT !.sp.map[va] = pa]
    IN  Enter(PagetableEntry(m, va))

UnmapPage(m, va) ==
    IF ~HasEntry(m, va) THEN m
    ELSE IF m.sp.map[va] = NULL THEN Panic(m)
    ELSE [m EXCEPT !.sp.map[va] = NULL]

Range1(s) == [i \in 1 .. s.size |-> s.start + i - 1]

\* free_memory() of a section.
FreeMemory(m, s) ==
    FoldLeft(LAMBDA x, va : UnmapPage(Deallocate(x, x.sp.map[va]), va), m, Range1(s))

\* map_page_for_user(): a page of its own, given back if it cannot be mapped.
MapPageForUser(m, va) ==
    LET new == Allocate(m, 0)
    IN  IF new.page = NULL THEN Failed(new)
        ELSE OrElse(MapPage(new, va, new.page), LAMBDA n : Deallocate(n, new.page))

\* map_section_for_user(): if a page cannot be had, those before it are freed.
MapSectionForUser(m, s) ==
    LET Turn(x, va) == OrElse(MapPageForUser(x, va),
                              LAMBDA n : FreeMemory(n, [s EXCEPT !.size = va - s.start]))
    IN  FoldLeft(LAMBDA x, va : Then(x, LAMBDA y : Turn(y, va)), m, Range1(s))

RegisterMemorySection(m, s) == [m EXCEPT !.sp.sections = Append(@, s)]

\* load_elf(): stops at the first segment that cannot be mapped.
LoadElf(m, program) ==
    FoldLeft(LAMBDA x, s :
                 Then(Then(x, LAMBDA y : MapSectionForUser(y, s)),
                      LAMBDA n : RegisterMemorySection(n, s)),
             m, program)

\* free_pagetable(): the root and the tables below it, as single pages.  The
\* tables of the last level are not visited.
FreePagetable(m) ==
    LET places == [i \in 1 .. TRAMPOLINE \div (Span * Span) + 1 |-> <<1, i - 1>>]
    IN  Deallocate(FoldLeft(LAMBDA x, e : Deallocate(x, x.sp.table[e]), m, places), m.sp.root)

-----------------------------------------------------------------------------
(* Address spaces. *)

\* The page table, the trap frame and the shared page of a new task_struct.
Own(m) ==
    LET root   == Allocate(m, 1)
        frame  == Allocate(root, 0)
        shared == Allocate(frame, 0)
    IN  [shared EXCEPT !.sp.root = root.page, !.sp.frame = frame.page, !.sp.shared = shared.page]

\* new_task().  If a page is missing, the trap frame and the shared page are not
\* given back.  If a mapping fails, free_user_memory() uses fields that were
\* never set.
NewTask(m) ==
    LET layout(n) == << <<TRAPFRAME, n.sp.frame>>, <<TRAMPOLINE, STATIC>>,
                        <<SHARED_MEMORY, n.sp.shared>> >>
        Finish(n) == IF NULL \in {n.sp.root, n.sp.frame, n.sp.shared}
                     THEN Failed(Deallocate(n, n.sp.root))
                     ELSE OrElse(FoldLeft(LAMBDA x, e : MapPage(x, e[1], e[2]), n, layout(n)),
                                 Wild)
    IN  Finish(Own(m))

\* set_stack(): the fields are set before the page is mapped.
SetStack(m) ==
    IF m.free = {} THEN Failed(m)
    ELSE MapPageForUser([m EXCEPT !.sp.stack = [start |-> SHARED_MEMORY - 1, size |-> 1]],
                        SHARED_MEMORY - 1)

AvailableFrom(sp) == Max({0} \cup {s.start + s.size : s \in Range(sp.sections)})

\* Two pages for argv and envp behind the last section.
Arguments(m) ==
    LET new == Allocate(m, 1)
        s   == [start |-> AvailableFrom(m.sp), size |-> 2]
    IN  IF new.page = NULL THEN Failed(new)
        ELSE Then(MapPage(RegisterMemorySection(new, s), s.start, new.page),
                  LAMBDA n : MapPage(n, s.start + 1, new.page + 1))

\* The common part of init_scheduler() and exec_process().
Load(m, program) == Then(Then(LoadElf(m, program), SetStack), Arguments)

\* Mutant of ClearUserMemorySpace: the stack is forgotten.
ClearSectionsOnly(m) ==
    [FoldLeft(FreeMemory, m, m.sp.sections) EXCEPT !.sp.sections = <<>>]

\* clear_user_memory_space(): the fields of the stack keep their values.
ClearUserMemorySpace(m) ==
    [FreeMemory(FoldLeft(FreeMemory, m, m.sp.sections), m.sp.stack)
        EXCEPT !.sp.sections = <<>>]

FreeUserMemory(m) ==
    LET pages == Deallocate(Deallocate(m, m.sp.frame), m.sp.shared)
    IN  FreePagetable(ClearUserMemorySpace(pages))

\* The task is no more, so that what its task_struct says does not count.
Gone(m) == [m EXCEPT !.sp = Void]

\* Mutant of CopyMemory: the child maps the parent's pages.
ShareMemory(m, from, s) ==
    FoldLeft(LAMBDA x, va : MapPage(x, va, from.map[va]), m, Range1(s))

\* What copy_memory_with_pagetable() does when pages run out: the copies made so
\* far are unmapped, and the pages that are deallocated are those of the source,
\* which goes on using them.
UndoCopy(m, from, s) ==
    FoldLeft(LAMBDA x, va : Wild(Deallocate(UnmapPage(x, va), from.map[va])), m, Range1(s))

\* copy_memory_with_pagetable().  map_page() reports failure as 1, which is not
\* the -1 tested for, so a page that cannot be mapped is left out silently.
CopyMemory(m, from, s) ==
    LET Copy(n, va) ==
            IF from.map[va] = NULL THEN Panic(n)
            ELSE IF n.page = NULL
            THEN Failed(UndoCopy(n, from, [s EXCEPT !.size = va - s.start]))
            ELSE [MapPage(n, va, n.page) EXCEPT !.ok = TRUE]
    IN  FoldLeft(LAMBDA x, va : Then(x, LAMBDA y : Copy(Allocate(y, 0), va)),
                 m, Range1(s))

\* Mutant of CopyAllMemory: the stack grown so far is not copied.
CopySections(m, from) ==
    FoldLeft(LAMBDA x, s : RegisterMemorySection(CopyMemory(x, from, s), s),
             m, from.sections)

\* copy_all_memory_with_pagetable().  If a section is not copied, the memory of
\* the child is freed.  If the stack is not copied, the pages of the child's
\* sections are freed, and all is reported to be well.
CopyAllMemory(m, from) ==
    LET Section(x, s) ==
            Then(Then(x, LAMBDA y : CopyMemory(y, from, s)),
                 LAMBDA n : RegisterMemorySection(n, s))
        Undone(n) ==
            [FoldLeft(FreeMemory, n, n.sp.sections) EXCEPT !.ok = TRUE]
        Stack(n) ==
            [OrElse(CopyMemory(n, from, from.stack), Undone) EXCEPT !.sp.stack = from.stack]
        Finish(n) == IF n.ok THEN Stack(n) ELSE Gone(FreeUserMemory(n))
    IN  Finish(FoldLeft(Section, m, from.sections))

-----------------------------------------------------------------------------
(* The operations of processes. *)

Job(f, sp) == [free |-> f, page |-> NULL, sp |-> sp, ok |-> TRUE, fate |-> "ok"]

\* The job m is done for task t, or has stopped the machine.
Become(t, m) ==
    /\ fate' = m.fate
    /\ IF m.fate = "panic" THEN UNCHANGED <<free, space>>
       ELSE free' = m.free /\ space' = [space EXCEPT ![t] = m.sp]

\* init_scheduler(), with enough memory to boot.
Init ==
    LET m == Load(NewTask(Job(Page, Void)), InitProgram)
    IN  /\ m.ok
        /\ free = m.free
        /\ space = [t \in Task |-> IF t = init THEN m.sp ELSE Void]
        /\ fate = m.fate

\* The memory side of exit_process(); init must not exit.
Ended(t, m) == IF t = init THEN Panic(m) ELSE Gone(FreeUserMemory(m))

Exit(t) ==
    /\ fate = "ok" /\ Live(t)
    /\ Become(t, Ended(t, Job(free, space[t])))

\* The end of fork_process() when the copy m failed: the memory of the running
\* task is freed, not the child's, and -1 is returned to it.
FreeCaller(m, caller) == Wild(FreeUserMemory([m EXCEPT !.sp = caller]))

\* The child c, copied by m from t.
Forked(t, c, m) ==
    IF m.ok THEN Become(c, m) ELSE Become(t, FreeCaller(m, space[t]))

\* fork_process(): -1 if new_task() fails.
Fork(t) ==
    /\ fate = "ok" /\ Live(t)
    /\ \E c \in Task : ~Live(c)
    /\ LET c       == Min({u \in Task : ~Live(u)})
           Copy(m) == IF ~m.ok \/ m.fate # "ok" THEN Become(c, Gone(m))
                      ELSE Forked(t, c, CopyAllMemory(m, space[t]))
       IN  Copy(NewTask(Job(free, Void)))

\* exec_process(): whatever fails after the old image is gone ends the task.
Exec(t, program) ==
    /\ fate = "ok" /\ Live(t)
    /\ Become(t, OrElse(Load(ClearUserMemorySpace(Job(free, space[t])), program),
                        LAMBDA m : Ended(t, m)))

\* Mutant of EnlargeStackByAPage: stack.size is forgotten.
EnlargeStart(m) ==
    Then(MapPageForUser(m, m.sp.stack.start - 1),
         LAMBDA n : [n EXCEPT !.sp.stack.start = @ - 1])

EnlargeStackByAPage(m) ==
    Then(MapPageForUser(m, m.sp.stack.start - 1),
         LAMBDA n : [n EXCEPT !.sp.stack.start = @ - 1, !.sp.stack.size = @ + 1])

\* A page fault at va below the stack but within its range (try_enlarge_stack).
PageFault(t, va) ==
    /\ fate = "ok" /\ Live(t)
    /\ va \in MinStack .. space[t].stack.start - 1
    /\ Become(t, OrElse(FoldLeft(LAMBDA x, i : Then(x, EnlargeStackByAPage), Job(free, space[t]),
                                 [i \in 1 .. space[t].stack.start - va |-> i]),
                        LAMBDA m : Ended(t, m)))

\* Nothing happens any more.
Halt == fate # "ok" /\ UNCHANGED vars

Next ==
    \/ \E t \in Task :
           \/ Exit(t)
           \/ Fork(t)
           \/ \E program \in Programs : Exec(t, program)
           \/ \E va \in MinStack .. SHARED_MEMORY - 1 : PageFault(t, va)
    \/ Halt

Spec == Init /\ [][Next]_vars

-----------------------------------------------------------------------------
(* Properties. *)

Special == {TRAPFRAME, TRAMPOLINE, SHARED_MEMORY}
Mapped(t) == {va \in VA \ Special : space[t].map[va] # NULL}
Registered(t) ==
    UNION {Range(Range1(s)) : s \in Range(space[t].sections) \cup {space[t].stack}}

\* The pages of t's page table, and the pages that hold its data.
TablePages(t) ==
    UNION {Block(p, 1) : p \in ({space[t].root} \cup Range(space[t].table)) \ {NULL}}
DataPages(t) ==
    ({space[t].frame, space[t].shared} \cup {space[t].map[va] : va \in Mapped(t)}) \ {NULL}
Uses(t) == TablePages(t) \cup DataPages(t)

\* Every variable has its type.
TypeOK ==
    /\ free \subseteq Page
    /\ fate \in {"ok", "panic", "wild"}
    /\ \A t \in Task :
           /\ {space[t].root, space[t].frame, space[t].shared} \subseteq Page \cup {NULL}
           /\ space[t].table \in [Tables -> Page \cup {NULL}]
           /\ space[t].map \in [VA -> Page \cup {NULL, STATIC}]

\* Address spaces are isolated: no page that a task uses is free, none is used by
\* two tasks, and none for two purposes or at two addresses of one task
\* (docs/process.md: every process has its own memory and page table).
Isolated ==
    \A t \in Task :
        /\ Uses(t) \cap free = {}
        /\ \A u \in Task \ {t} : Uses(t) \cap Uses(u) = {}
        /\ TablePages(t) \cap DataPages(t) = {}
        /\ Live(t) => Cardinality(DataPages(t)) = 2 + Cardinality(Mapped(t))

\* Address spaces are isolated whatever was forked, executed, enlarged and freed
\* before, and also when an exec, a page fault or new_task() ran out of memory, up
\* to the first fork that runs out while it copies: that one frees memory in use
\* (copy_memory_with_pagetable, fork_process), and Isolated alone does not hold.
NoSharing == TypeOK /\ (fate = "ok" => Isolated)

\* Every page a task maps is in a registered section or the stack, so that exit
\* and exec free it, and no two of these overlap, nor do they reach the shared page
\* (register_memory_section, set_stack, enlarge_stack_by_a_page, available_from).
MappedIsRegistered ==
    fate = "ok" =>
        \A t \in Task :
            LET pages(s) == Range(Range1(s))
                sections == space[t].sections
            IN  /\ Mapped(t) \subseteq Registered(t)
                /\ Registered(t) \cap Special = {}
                /\ \A i \in DOMAIN sections :
                       /\ pages(sections[i]) \cap pages(space[t].stack) = {}
                       /\ \A j \in DOMAIN sections \ {i} :
                              pages(sections[i]) \cap pages(sections[j]) = {}

\* A task that exits gives back every page that held its data (trap frame, shared
\* page, sections, stack), and no page of another task becomes free when a task
\* ends for whatever reason (free_user_memory, clear_user_memory_space).  Page
\* tables are not given back completely: see FreePagetable.  A failed exec may
\* turn a page of data into a table before it ends the task.
ExitReturnsMemory ==
    [][\A t \in Task :
          (Live(t) /\ ~Live(t)' /\ fate' = "ok") =>
              /\ free' \ free \subseteq Uses(t)
              /\ Exit(t) => DataPages(t) \subseteq free'
      ]_vars

\* Whether memory cannot run out while t forks: a pair of pages for the root and
\* for each table, and a page for the trap frame, the shared page and each mapped one.
EnoughToFork(t) ==
    Cardinality(Blocks(free, 1)) >=
        1 + Cardinality({e \in Tables : space[t].table[e] # NULL})
          + (Cardinality(Mapped(t)) + 3) \div 2

\* fork() makes the new process a copy of the current one (docs/system_call.md):
\* with enough memory, the new task maps exactly the pages its parent maps, and
\* knows them as the same sections and stack; the parent keeps its own.  (When
\* memory runs out this does not hold: see CopyMemory and CopyAllMemory.)
ForkCopies ==
    [][\A t \in Task :
          (Fork(t) /\ EnoughToFork(t) /\ Mapped(t) = Registered(t)) =>
              /\ fate' = "ok"
              /\ space'[t] = space[t]
              /\ \E c \in Task :
                     /\ ~Live(c) /\ Live(c)'
                     /\ Mapped(c)' = Mapped(t)
                     /\ space'[c].sections = space[t].sections
                     /\ space'[c].stack = space[t].stack
      ]_vars
=============================================================================
