------------------------------ MODULE KernelHeap ------------------------------
(***************************************************************************)
(* kmalloc() and kfree() of kernel/mem_manage.c: objects are cut one after *)
(* the other from the block at the tail of a list of blocks of pages.      *)
(*                                                                         *)
(* The unit of size and address is 8 bytes, to which align() rounds, so    *)
(* sizes here are aligned sizes.  size_t arithmetic is modulo 2^WordBits.  *)
(* allocate() and deallocate() are those of the buddy allocator: a block   *)
(* is any aligned, unused range of pages.  No kernel code runs between the *)
(* two set_interrupt_status() calls, so each operation is one step.        *)
(***************************************************************************)
EXTENDS Integers, FiniteSets, SequencesExt

CONSTANTS
    PageSize,      \* PAGE_SIZE
    WordBits,      \* width of size_t
    Base, Limit,   \* physical memory behind the kernel: Base .. Limit - 1.  No
                   \* object is cut beyond Limit: that access would fault.
    Sizes,         \* object sizes the kernel asks for
    MaxObjects     \* bound on the number of live objects

HeaderSize == 2    \* sizeof(struct header)
MetaSize   == 5    \* sizeof(struct block_meta)

ASSUME SizesAssumption == Sizes \subseteq Nat \ {0}
ASSUME WidthAssumption ==
    /\ PageSize \in Nat \ {0} /\ WordBits \in Nat /\ Base \in Nat /\ Limit \in Nat
    /\ Base % PageSize = 0 /\ Limit < 2 ^ WordBits

VARIABLES
    blocks,        \* the list from block_list_head to block_list_tail, as
                   \* [at, power, count, free]
    objects        \* live objects, as [at, size, block]: what kmalloc() returned

vars == <<blocks, objects>>

Word(n) == n % 2 ^ WordBits
BlockSize(power) == PageSize * 2 ^ power

Init == blocks = <<>> /\ objects = {}

\* remained_size(): block->free is an address, not an offset.
RemainedSize(b) == Word(BlockSize(b.power) - b.free)

GrossSize(size) == size + HeaderSize

TailNotEnough(size) ==
    IF blocks = <<>> THEN TRUE ELSE RemainedSize(Last(blocks)) < GrossSize(size)

\* p is the smallest power whose block holds the meta data and the object.
SmallestPower(p, size) ==
    /\ BlockSize(p) >= MetaSize + GrossSize(size)
    /\ \A q \in 0 .. p - 1 : BlockSize(q) < MetaSize + GrossSize(size)

PowerFor(size) == CHOOSE p \in 0 .. WordBits : SmallestPower(p, size)

\* Objects are small: a block that holds one is not larger than the address memory
\* begins at (0x80000000), and no address plus an object reaches 2^WordBits.
ASSUME ObjectsAssumption ==
    \A size \in Sizes :
        /\ \E p \in 0 .. WordBits : SmallestPower(p, size)
        /\ BlockSize(PowerFor(size)) <= Base
        /\ Limit + GrossSize(size) <= 2 ^ WordBits

\* Where the page allocator may place a block.
Places(power) ==
    {a \in {PageSize * n : n \in 0 .. Limit \div PageSize} :
        /\ a >= Base /\ a + BlockSize(power) <= Limit
        /\ \A i \in 1 .. Len(blocks) :
               \/ a + BlockSize(power) <= blocks[i].at
               \/ blocks[i].at + BlockSize(blocks[i].power) <= a}

\* Mutant of InitBlock: the meta data is not skipped.
InitBlockBare(a, power) == [at |-> a, power |-> power, count |-> 0, free |-> a]

InitBlock(a, power) == [at |-> a, power |-> power, count |-> 0, free |-> a + MetaSize]

\* Mutant of Cut: the object is not counted.
CutUncounted(bs, size) ==
    LET b  == Last(bs)
        at == b.free + HeaderSize
    IN  /\ at + size <= Limit
        /\ blocks' = Append(Front(bs), [b EXCEPT !.free = @ + GrossSize(size)])
        /\ objects' = objects \cup {[at |-> at, size |-> size, block |-> b.at]}

\* The object is cut from the tail block of bs.
Cut(bs, size) ==
    LET b  == Last(bs)
        at == b.free + HeaderSize
    IN  /\ at + size <= Limit
        /\ blocks' = Append(Front(bs), [b EXCEPT !.count = @ + 1,
                                                 !.free = @ + GrossSize(size)])
        /\ objects' = objects \cup {[at |-> at, size |-> size, block |-> b.at]}

\* kmalloc(): the recursive call after adding a block finds room in it.
Kmalloc(size) ==
    /\ Cardinality(objects) < MaxObjects
    /\ IF TailNotEnough(size)
       THEN \E a \in Places(PowerFor(size)) :
                Cut(Append(blocks, InitBlock(a, PowerFor(size))), size)
       ELSE Cut(blocks, size)

\* allocate() has no block (others hold the pages): kmalloc() returns NULL.
KmallocFails(size) ==
    /\ TailNotEnough(size)
    /\ UNCHANGED vars

BlockIndex(a) == CHOOSE i \in 1 .. Len(blocks) : blocks[i].at = a

\* Mutant of Kfree: the room is given back whichever object is freed.
KfreeRewinds(o) ==
    LET i == BlockIndex(o.block)
        b == blocks[i]
    IN  /\ objects' = objects \ {o}
        /\ blocks' =
             IF b.count = 1 THEN RemoveAt(blocks, i)
             ELSE [blocks EXCEPT ![i] =
                     [b EXCEPT !.count = @ - 1, !.free = o.at - HeaderSize]]

\* kfree(): the block goes with its last object; the last object cut gives its
\* room back.
Kfree(o) ==
    LET i == BlockIndex(o.block)
        b == blocks[i]
    IN  /\ objects' = objects \ {o}
        /\ blocks' =
             IF b.count = 1 THEN RemoveAt(blocks, i)
             ELSE [blocks EXCEPT ![i] =
                     [b EXCEPT !.count = @ - 1,
                               !.free = IF b.free = o.at + o.size
                                        THEN o.at - HeaderSize ELSE @]]

Next ==
    \/ \E size \in Sizes : Kmalloc(size) \/ KmallocFails(size)
    \/ \E o \in objects : Kfree(o)

Spec == Init /\ [][Next]_vars

-----------------------------------------------------------------------------
(* Properties. *)

\* Every variable has its type; the room left lies behind a block's meta data.
TypeOK ==
    /\ blocks \in Seq([at : Nat, power : Nat, count : Nat, free : Nat])
    /\ \A i \in 1 .. Len(blocks) : blocks[i].free \in blocks[i].at + MetaSize .. Limit
    /\ \A o \in objects : o.at \in Nat /\ o.size \in Sizes /\ o.block \in Nat

\* An object with its header.
Extent(o) == (o.at - HeaderSize) .. (o.at + o.size - 1)

\* No two live objects overlap, and none overlaps the meta data of a block,
\* whatever was freed and rewound before (kmalloc, kfree).
Disjoint ==
    /\ \A o, p \in objects : o # p => Extent(o) \cap Extent(p) = {}
    /\ \A o \in objects : \A i \in 1 .. Len(blocks) :
           Extent(o) \cap (blocks[i].at .. blocks[i].at + MetaSize - 1) = {}

\* block->count is the number of live objects of the block, so a block goes back
\* to the page allocator exactly with its last object.
CountExact ==
    /\ \A i \in 1 .. Len(blocks) :
           blocks[i].count = Cardinality({o \in objects : o.block = blocks[i].at})
    /\ \A i \in 1 .. Len(blocks) : blocks[i].count > 0
    /\ \A o \in objects : \E i \in 1 .. Len(blocks) : blocks[i].at = o.block

\* mem_manage.h: "Allocate a block of memory with any size": the memory kmalloc()
\* returns lies in a block that allocate() returned.
InsideBlock ==
    \A o \in objects : \A i \in 1 .. Len(blocks) :
        o.block = blocks[i].at => o.at + o.size <= blocks[i].at + BlockSize(blocks[i].power)
=============================================================================
