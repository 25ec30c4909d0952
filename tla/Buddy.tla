-------------------------------- MODULE Buddy --------------------------------
(***************************************************************************)
(* The buddy allocator of kernel/mem_manage.c: init_mem_manage(),          *)
(* allocate() and deallocate().  Addresses are page numbers counted from   *)
(* KERNEL_START.  The free lists, linked through the free pages, are       *)
(* sequences.  Each turn of a loop and each recursive call is a step.      *)
(***************************************************************************)
EXTENDS Integers, FiniteSets, SequencesExt

CONSTANT MaxOrder           \* BUDDY_MAX_ORDER
ASSUME BuddyAssumption == MaxOrder \in Nat \ {0}

\* Arithmetic, for any MaxOrder: the provers do not know how ^ is defined.
ASSUME PowersAssumption == \A o \in 0 .. MaxOrder - 1 : 2 ^ (o + 1) = 2 * 2 ^ o

Order == 0 .. MaxOrder
Page  == 0 .. 2 ^ MaxOrder - 1
NULL  == -1
NoAnswer == <<NULL, NULL>>

VARIABLES
    pc,        \* "high", "low": the loops of init_mem_manage(); "idle";
               \* "split": allocate(); "merge": deallocate()
    kernel,    \* pages of the kernel image (get_kernel_end() is page aligned)
    index,     \* index of init_mem_manage()
    tmp,       \* tmp of init_mem_manage()
    pool,      \* buddy_pool.space
    addr,      \* the block under way in allocate() or deallocate()
    level,     \* its order
    power,     \* the order asked for; NULL if deallocate() was called
    owned,     \* blocks handed out to callers, as <<addr, order>>
    answer     \* order and result of the last allocate()

boot == <<kernel, index, tmp>>
job  == <<addr, level, power>>
vars == <<pc, boot, pool, job, owned, answer>>

Pages(a, order) == a .. a + 2 ^ order - 1
Aligned(a, order) == a % 2 ^ order = 0

Init ==
    /\ kernel \in 1 .. 2 ^ MaxOrder
    /\ pc = "high"
    /\ index = MaxOrder - 1
    /\ tmp = NULL
    /\ pool = [o \in Order |-> <<>>]
    /\ addr = NULL /\ level = NULL /\ power = NULL
    /\ owned = {}
    /\ answer = NoAnswer

-----------------------------------------------------------------------------
(* init_mem_manage(). *)

\* Mutant of InitHigh: index is not decremented.
InitHighStuck ==
    /\ pc = "high"
    /\ IF index >= 0 /\ 2 ^ index >= kernel
       THEN /\ pool' = [pool EXCEPT ![index] = <<2 ^ index>>]
            /\ UNCHANGED <<pc, tmp, index>>
       ELSE /\ pc' = "low"
            /\ tmp' = IF index >= 0 THEN 2 ^ index ELSE 0
            /\ UNCHANGED <<pool, index>>
    /\ UNCHANGED <<kernel, job, owned, answer>>

\* buddy_size is 2^index pages throughout the first loop.
InitHigh ==
    /\ pc = "high"
    /\ IF index >= 0 /\ 2 ^ index >= kernel
       THEN /\ pool' = [pool EXCEPT ![index] = <<2 ^ index>>]
            /\ index' = index - 1
            /\ UNCHANGED <<pc, tmp>>
       ELSE /\ pc' = "low"
            /\ tmp' = IF index >= 0 THEN 2 ^ index ELSE 0
            /\ UNCHANGED <<pool, index>>
    /\ UNCHANGED <<kernel, job, owned, answer>>

\* Mutant of HalfBlock: index is decremented after the shift, not before.
WholeBlock(i) == 2 ^ i

\* Half a block further on, or back, for the next order down.
HalfBlock(i) == IF i > 0 THEN 2 ^ (i - 1) ELSE 0

InitLow ==
    /\ pc = "low"
    /\ IF index < 0
       THEN /\ pc' = "idle"
            /\ tmp' = NULL
            /\ UNCHANGED <<pool, index>>
       ELSE /\ IF tmp >= kernel
               THEN /\ pool' = [pool EXCEPT ![index] = <<tmp>>]
                    /\ tmp' = tmp - HalfBlock(index)
               ELSE /\ pool' = [pool EXCEPT ![index] = <<>>]
                    /\ tmp' = tmp + HalfBlock(index)
            /\ index' = index - 1
            /\ UNCHANGED pc
    /\ UNCHANGED <<kernel, job, owned, answer>>

-----------------------------------------------------------------------------
(* deallocate(). *)

\* remove_tag(): the address of the even one of two buddies.
RemoveTag(a, order) == IF (a \div 2 ^ order) % 2 = 1 THEN a - 2 ^ order ELSE a

Odd(a, order) == RemoveTag(a, order) # a

\* How many entries at the front of the list are below a: where the loops stop.
Below(list, a) ==
    LET rest == {i \in 1 .. Len(list) : list[i] >= a}
    IN  IF rest = {} THEN Len(list) ELSE Min(rest) - 1

\* Mutants of BuddyAt: any neighbour will do; an even block does not look.
NeighbourAt(list, a, order) ==
    LET k == Below(list, a)
        i == IF Odd(a, order) THEN k ELSE k + 1
    IN  IF i \in 1 .. Len(list) /\ order < MaxOrder THEN i ELSE 0

OddBuddyAt(list, a, order) ==
    LET k == Below(list, a)
    IN  IF k > 0 /\ Odd(a, order) /\ RemoveTag(a, order) = list[k] THEN k ELSE 0

\* The position of the buddy of a in the list, 0 if it is not there: an odd block
\* looks at its predecessor, an even one at its successor.
BuddyAt(list, a, order) ==
    LET k == Below(list, a)
        i == IF Odd(a, order) THEN k ELSE k + 1
    IN  IF /\ i \in 1 .. Len(list)
           /\ IF Odd(a, order) THEN RemoveTag(a, order) = list[i]
                               ELSE a = RemoveTag(list[i], order)
        THEN i ELSE 0

\* One call of deallocate(addr, level): link the block in, or take its buddy out
\* and go on with the block of twice the size.  finish is where it returns to.
Release(a, order, finish) ==
    LET list == pool[order]
        i    == BuddyAt(list, a, order)
    IN  IF i = 0
        THEN /\ pool' = [pool EXCEPT ![order] = InsertAt(list, Below(list, a) + 1, a)]
             /\ finish
        ELSE /\ pool' = [pool EXCEPT ![order] = RemoveAt(list, i)]
             /\ pc' = "merge"
             /\ addr' = RemoveTag(a, order)
             /\ level' = order + 1
             /\ UNCHANGED power

Return == pc' = "idle" /\ addr' = NULL /\ level' = NULL /\ power' = NULL

\* A caller gives back a block it holds.
Deallocate(b) ==
    /\ pc = "idle"
    /\ b \in owned
    /\ owned' = owned \ {b}
    /\ answer' = NoAnswer
    /\ Release(b[1], b[2], UNCHANGED <<pc, job>>)
    /\ UNCHANGED boot

Merge ==
    /\ pc = "merge"
    /\ Release(addr, level, Return)
    /\ UNCHANGED <<boot, owned, answer>>

-----------------------------------------------------------------------------
(* allocate(). *)

\* Mutant of Available: larger blocks are never split.
AvailableExactly(order) == {l \in {order} : pool[l] # <<>>}

\* The orders with a free block that is large enough.
Available(order) == {l \in order .. MaxOrder : pool[l] # <<>>}

\* The head of the first list that has a block leaves its list.
Allocate(order) ==
    /\ pc = "idle"
    /\ IF Available(order) = {}
       THEN /\ answer' = <<order, NULL>>
            /\ UNCHANGED <<pc, pool, job>>
       ELSE LET l == Min(Available(order))
            IN  /\ addr' = Head(pool[l])
                /\ level' = l
                /\ power' = order
                /\ pool' = [pool EXCEPT ![l] = Tail(pool[l])]
                /\ pc' = "split"
                /\ UNCHANGED answer
    /\ UNCHANGED <<boot, owned>>

\* The upper half goes back with deallocate(), one order down each time; its
\* list is empty, so it is only linked in.
Split ==
    /\ pc = "split"
    /\ level > power
    /\ LET rest == addr + 2 ^ (level - 1)
       IN  Release(rest, level - 1, level' = level - 1 /\ UNCHANGED <<pc, addr, power>>)
    /\ UNCHANGED <<boot, owned, answer>>

HandOut ==
    /\ pc = "split"
    /\ level = power
    /\ owned' = owned \cup {<<addr, power>>}
    /\ answer' = <<power, addr>>
    /\ Return
    /\ UNCHANGED <<boot, pool>>

Next ==
    \/ InitHigh \/ InitLow
    \/ \E order \in Order : Allocate(order)
    \/ Split \/ HandOut
    \/ \E b \in owned : Deallocate(b)
    \/ Merge

Spec == Init /\ [][Next]_vars
FairSpec == Spec /\ WF_vars(InitHigh \/ InitLow \/ Split \/ HandOut \/ Merge)

-----------------------------------------------------------------------------
(* Properties. *)

FreeBlocks == UNION {{<<pool[o][i], o>> : i \in 1 .. Len(pool[o])} : o \in Order}
InFlight   == IF pc \in {"split", "merge"} THEN {<<addr, level>>} ELSE {}
FreePages  == UNION {Pages(b[1], b[2]) : b \in FreeBlocks \cup InFlight}

\* Every variable has its type; merging never leaves the array of lists.
TypeOK ==
    /\ pc \in {"high", "low", "idle", "split", "merge"}
    /\ kernel \in 1 .. 2 ^ MaxOrder
    /\ index \in -1 .. MaxOrder - 1
    /\ tmp \in Page \cup {NULL}
    /\ pool \in [Order -> Seq(Page)]
    /\ addr \in Page \cup {NULL}
    /\ level \in Order \cup {NULL}
    /\ power \in Order \cup {NULL}
    /\ owned \subseteq Page \X Order
    /\ answer \in (Order \cup {NULL}) \X (Page \cup {NULL})

\* No page is lost, handed out twice or taken from the kernel: once the lists
\* are set up, the free blocks, the block under way and the blocks handed out
\* are aligned, disjoint and together all the pages behind the kernel
\* (init_mem_manage, allocate, deallocate).
Partition ==
    LET blocks == FreeBlocks \cup InFlight \cup owned
    IN  pc \in {"idle", "split", "merge"} =>
            /\ \A b \in blocks : Aligned(b[1], b[2])
            /\ \A b, c \in blocks : b # c => Pages(b[1], b[2]) \cap Pages(c[1], c[2]) = {}
            /\ UNION {Pages(b[1], b[2]) : b \in blocks} = kernel .. 2 ^ MaxOrder - 1

\* Each list is sorted by address without duplicates: the searches of
\* deallocate() depend on it.
Sorted ==
    \A o \in Order : \A i, j \in 1 .. Len(pool[o]) : i < j => pool[o][i] < pool[o][j]

\* No two buddies are free at the same time: memory never stays fragmented by
\* the order in which blocks were freed (the merging of deallocate), and the
\* lists in which deallocate() looks for a buddy are sorted at every step.
Coalesced ==
    /\ Sorted
    /\ pc = "idle" =>
           \A o \in 0 .. MaxOrder - 1 : \A a, b \in Range(pool[o]) :
               a # b => RemoveTag(a, o) # RemoveTag(b, o)

\* init_mem_manage(), allocate() and deallocate() come to an end.
Terminates == pc # "idle" ~> pc = "idle"

\* The buddy allocator implements PageAllocator: in particular it returns NULL
\* only if no aligned run of pages of the size asked for is free.
Promise == INSTANCE PageAllocator WITH
    free <- IF pc \in {"high", "low"} THEN kernel .. 2 ^ MaxOrder - 1 ELSE FreePages

ImplementsPageAllocator == Promise!Spec
=============================================================================
