---------------------------- MODULE PageAllocator ----------------------------
(***************************************************************************)
(* What allocate() and deallocate() of kernel/mem_manage.h promise: blocks *)
(* of 2^power pages that nobody else holds, NULL only if there is none.    *)
(***************************************************************************)
EXTENDS Integers, FiniteSets

CONSTANT MaxOrder           \* a natural number, BUDDY_MAX_ORDER: memory has 2^MaxOrder pages

Order == 0 .. MaxOrder
Page  == 0 .. 2 ^ MaxOrder - 1     \* page 0 is at KERNEL_START
NULL  == -1
NoAnswer == <<NULL, NULL>>

\* The pages of the block of 2^order pages at addr.
Pages(addr, order) == addr .. addr + 2 ^ order - 1
Aligned(addr, order) == addr % 2 ^ order = 0

VARIABLES
    free,      \* the pages nobody holds
    owned,     \* the blocks handed out, as <<addr, order>>
    answer     \* order and result of the last allocate()

Runs(order) == {a \in Page : Aligned(a, order) /\ Pages(a, order) \subseteq free}

Init ==
    /\ \E kernel \in Page : free = {p \in Page : p > kernel}
    /\ owned = {}
    /\ answer = NoAnswer

Allocate(order) ==
    /\ \E a \in Runs(order) :
           /\ free' = free \ Pages(a, order)
           /\ owned' = owned \cup {<<a, order>>}
           /\ answer' = <<order, a>>

\* NULL is returned only if no aligned run of pages is free.
Refuse(order) ==
    /\ Runs(order) = {}
    /\ answer' = <<order, NULL>>
    /\ UNCHANGED <<free, owned>>

Deallocate(b) ==
    /\ b \in owned
    /\ free' = free \cup Pages(b[1], b[2])
    /\ owned' = owned \ {b}
    /\ answer' = NoAnswer

Next ==
    \/ \E order \in Order : Allocate(order) \/ Refuse(order)
    \/ \E b \in owned : Deallocate(b)

Spec == Init /\ [][Next]_<<free, owned, answer>>
=============================================================================
