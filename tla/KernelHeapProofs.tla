---------------------------- MODULE KernelHeapProofs ----------------------------
(***************************************************************************)
(* The safety of kmalloc() and kfree() for any page size, word width,      *)
(* memory and set of object sizes.  The inductive invariant says that the  *)
(* heap has no block or one, and that the live objects lie apart between   *)
(* its meta data and block->free, which is all that kfree() may rewind.    *)
(***************************************************************************)
EXTENDS KernelHeap, FiniteSetTheorems, TLAPS

BlockMetas == [at : Nat, power : Nat, count : Nat, free : Nat]
Objects    == [at : Nat, size : Sizes, block : Nat]

\* Of two objects one ends before the header of the other.
Apart(o, p) == o.at + o.size <= p.at - HeaderSize \/ p.at + p.size <= o.at - HeaderSize

\* The object lies between the meta data of its block and the room left.
Within(o, b) ==
    /\ o.block = b.at
    /\ b.at + MetaSize + HeaderSize <= o.at
    /\ o.at + o.size <= b.free

\* What the block and the objects cut from it keep to.
Sound(b, os) ==
    /\ Base <= b.at /\ b.at + MetaSize <= b.free /\ b.free <= Limit
    /\ BlockSize(b.power) \in 0 .. Base
    /\ b.count = Cardinality(os) /\ b.count > 0
    /\ \A o \in os : Within(o, b)
    /\ \A o, p \in os : o # p => Apart(o, p)

IInv ==
    /\ IsFiniteSet(objects) /\ objects \subseteq Objects
    /\ \/ blocks = <<>> /\ objects = {}
       \/ \E b \in BlockMetas : blocks = <<b>> /\ Sound(b, objects)

-----------------------------------------------------------------------------
(* Operators. *)

\* A list of one block.
LEMMA OneElement ==
    ASSUME NEW b \in BlockMetas
    PROVE  /\ <<b>> \in Seq(BlockMetas) /\ Len(<<b>>) = 1 /\ <<b>> # <<>> /\ <<b>>[1] = b
           /\ Last(<<b>>) = b
           /\ \A c : Append(Front(<<b>>), c) = <<c>>
           /\ Append(<<>>, b) = <<b>>
           /\ RemoveAt(<<b>>, 1) = <<>>
           /\ \A c : [<<b>> EXCEPT ![1] = c] = <<c>>
<1>1. <<b>> \in Seq(BlockMetas) /\ Len(<<b>>) = 1 /\ <<b>> # <<>> /\ <<b>>[1] = b
  OBVIOUS
<1>2. Last(<<b>>) = b
  BY DEF Last
<1>3. Front(<<b>>) = <<>>
  BY DEF Front
<1>4. \A c : Append(<<>>, c) = <<c>>
  OBVIOUS
<1>5. RemoveAt(<<b>>, 1) = <<>>
  BY DEF RemoveAt
<1>6. \A c : [<<b>> EXCEPT ![1] = c] = <<c>>
  OBVIOUS
<1> QED BY <1>1, <1>2, <1>3, <1>4, <1>5, <1>6

\* The meta data with another count and another room left.
Meta(b, n, f) == [b EXCEPT !.count = n, !.free = f]

\* Only the count and the room left change.
LEMMA MetaUpdated ==
    ASSUME NEW b \in BlockMetas, NEW n, NEW f
    PROVE  /\ Meta(b, n, f).at = b.at /\ Meta(b, n, f).power = b.power
           /\ Meta(b, n, f).count = n /\ Meta(b, n, f).free = f
           /\ n \in Nat /\ f \in Nat => Meta(b, n, f) \in BlockMetas
  BY DEF BlockMetas, Meta

\* A block for an object: its power is a natural number and its size is positive.
LEMMA PowerForObject ==
    ASSUME NEW size \in Sizes
    PROVE  PowerFor(size) \in Nat /\ BlockSize(PowerFor(size)) \in 0 .. Base
<1> DEFINE p == PowerFor(size)
<1>1. p \in 0 .. WordBits /\ SmallestPower(p, size)
  BY ObjectsAssumption DEF PowerFor
<1>2. size \in Nat /\ WordBits \in Nat /\ Base \in Nat /\ PageSize \in Nat
  BY SizesAssumption, WidthAssumption
<1>3. BlockSize(p) <= Base
  BY ObjectsAssumption
<1> HIDE DEF p
<1>4. p \in Nat
  BY <1>1, <1>2
<1>5. 2 ^ p \in Int
  BY <1>4
<1>6. BlockSize(p) \in Int
  BY <1>2, <1>5 DEF BlockSize
<1>7. BlockSize(p) >= MetaSize + GrossSize(size)
  BY <1>1 DEF SmallestPower
<1>8. BlockSize(p) >= 0
  BY <1>2, <1>6, <1>7 DEF MetaSize, GrossSize, HeaderSize
<1> QED BY <1>2, <1>3, <1>4, <1>6, <1>8 DEF p

\* remained_size() takes an address for an offset, so what it computes wraps around to
\* a number larger than any object.
LEMMA AlwaysEnough ==
    ASSUME NEW b \in BlockMetas, NEW os, Sound(b, os), NEW size \in Sizes
    PROVE  ~(RemainedSize(b) < GrossSize(size))
<1> DEFINE w == 2 ^ WordBits
           z == BlockSize(b.power)
           f == b.free
<1>1. WordBits \in Nat /\ Base \in Nat /\ Limit \in Nat /\ size \in Nat /\ f \in Nat /\ b.at \in Nat
  BY SizesAssumption, WidthAssumption DEF BlockMetas
<1>2. w \in Int
  BY <1>1
<1>3. Limit < w /\ Limit + GrossSize(size) <= w
  BY WidthAssumption, ObjectsAssumption
<1>4. z \in 0 .. Base /\ Base + MetaSize <= f /\ f <= Limit
  BY <1>1 DEF Sound, MetaSize
<1>5. RemainedSize(b) = (z - f) % w
  BY DEF RemainedSize, Word
<1> HIDE DEF w, z, f
<1>6. z - f \in Int /\ z - f < 0 /\ -w <= z - f /\ w > 0 /\ w \in Nat
  BY <1>1, <1>2, <1>3, <1>4 DEF MetaSize
<1>7. (z - f) % w = z - f + w
  BY <1>6
<1> QED BY <1>1, <1>2, <1>3, <1>4, <1>5, <1>7 DEF GrossSize, HeaderSize

-----------------------------------------------------------------------------
(* kmalloc(). *)

\* Block b, new or not, is sound with the objects os in it.
Cuttable(b, os) ==
    /\ Base <= b.at /\ b.at + MetaSize <= b.free /\ b.free <= Limit
    /\ BlockSize(b.power) \in 0 .. Base
    /\ b.count = Cardinality(os)
    /\ \A o \in os : Within(o, b)
    /\ \A o, p \in os : o # p => Apart(o, p)

\* Cutting an object from a sound block with room for it keeps the heap sound.
LEMMA CutKeeps ==
    ASSUME NEW b \in BlockMetas, Cuttable(b, objects), NEW size \in Sizes, Cut(<<b>>, size),
           IsFiniteSet(objects), objects \subseteq Objects
    PROVE  IInv'
<1> DEFINE o == [at |-> b.free + HeaderSize, size |-> size, block |-> b.at]
           c == Meta(b, b.count + 1, b.free + GrossSize(size))
<1>1. /\ b.at \in Nat /\ b.free \in Nat /\ b.count \in Nat /\ b.power \in Nat /\ size \in Nat \ {0}
      /\ Limit \in Nat /\ Base \in Nat
  BY SizesAssumption, WidthAssumption DEF BlockMetas
<1>2. /\ b.free + HeaderSize + size <= Limit
      /\ blocks' = <<c>>
      /\ objects' = objects \cup {o}
  <2>1. Last(<<b>>) = b /\ \A d : Append(Front(<<b>>), d) = <<d>>
    BY OneElement
  <2>2. /\ Last(<<b>>).free + HeaderSize + size <= Limit
        /\ blocks' = Append(Front(<<b>>), [Last(<<b>>) EXCEPT !.count = @ + 1,
                                                             !.free = @ + GrossSize(size)])
        /\ objects' = objects \cup {[at |-> Last(<<b>>).free + HeaderSize, size |-> size,
                                     block |-> Last(<<b>>).at]}
    BY DEF Cut
  <2> QED BY <2>1, <2>2 DEF Meta
<1>3. /\ o.at = b.free + HeaderSize /\ o.size = size /\ o.block = b.at /\ o \in Objects
  BY <1>1 DEF Objects, HeaderSize
<1>4. /\ c \in BlockMetas /\ c.at = b.at /\ c.power = b.power /\ c.count = b.count + 1
      /\ c.free = b.free + GrossSize(size)
  <2>1. GrossSize(size) \in Nat
    BY <1>1 DEF GrossSize, HeaderSize
  <2> QED BY <1>1, <2>1, MetaUpdated
<1> HIDE DEF o, c
<1>5. \A p \in objects : p.at \in Nat /\ p.size \in Nat \ {0} /\ Within(p, b)
  BY SizesAssumption DEF Objects, Cuttable
<1>6. \A p \in objects : p.at + p.size <= o.at - HeaderSize /\ p # o
  BY <1>1, <1>3, <1>5 DEF Within, HeaderSize
<1>7. \A p \in objects' : Within(p, c)
  BY <1>1, <1>2, <1>3, <1>4, <1>5 DEF Within, GrossSize, HeaderSize, MetaSize, Cuttable
<1>8. \A p, q \in objects' : p # q => Apart(p, q)
  BY <1>2, <1>6 DEF Apart, Cuttable
<1>9. IsFiniteSet(objects') /\ Cardinality(objects') = Cardinality(objects) + 1
  BY <1>2, <1>6, FS_AddElement
<1>10. c.count = Cardinality(objects') /\ c.count > 0
  BY <1>1, <1>4, <1>9 DEF Cuttable
<1>11. Base <= c.at /\ c.at + MetaSize <= c.free /\ c.free <= Limit /\ BlockSize(c.power) \in 0 .. Base
  BY <1>1, <1>2, <1>4 DEF Cuttable, GrossSize, HeaderSize, MetaSize
<1>12. Sound(c, objects')
  BY <1>7, <1>8, <1>10, <1>11 DEF Sound
<1>13. objects' \subseteq Objects
  BY <1>2, <1>3
<1> QED BY <1>2, <1>4, <1>9, <1>12, <1>13 DEF IInv

\* kmalloc() cuts from a new block or from the one there is.
LEMMA KmallocKeeps ==
    ASSUME IInv, NEW size \in Sizes, Kmalloc(size)
    PROVE  IInv'
<1>1. CASE blocks = <<>> /\ objects = {}
  <2>1. TailNotEnough(size)
    BY <1>1 DEF TailNotEnough
  <2>2. PICK a \in Places(PowerFor(size)) : Cut(Append(blocks, InitBlock(a, PowerFor(size))), size)
    BY <2>1 DEF Kmalloc
  <2> DEFINE p == PowerFor(size)
             b == InitBlock(a, p)
  <2>3. p \in Nat /\ BlockSize(p) \in 0 .. Base
    BY PowerForObject
  <2>4. a \in Int /\ a >= Base /\ a + BlockSize(p) <= Limit
    BY <2>2, WidthAssumption DEF Places
  <2>5. Base \in Nat /\ Limit \in Nat
    BY WidthAssumption
  <2> HIDE DEF p
  <2>6. a \in Nat
    BY <2>4, <2>5
  <2>7. b \in BlockMetas /\ b.at = a /\ b.power = p /\ b.count = 0 /\ b.free = a + MetaSize
    BY <2>3, <2>6 DEF BlockMetas, InitBlock, MetaSize
  <2>8. Cut(<<b>>, size)
    BY <1>1, <2>2, <2>7, OneElement DEF p
  <2> HIDE DEF b
  <2>9. b.free <= Limit
    <3>1. Last(<<b>>) = b
      BY <2>7, OneElement
    <3>2. b.free + HeaderSize + size <= Limit
      BY <2>8, <3>1 DEF Cut
    <3>3. size \in Nat
      BY SizesAssumption
    <3> QED BY <2>5, <2>6, <2>7, <3>2, <3>3 DEF HeaderSize, MetaSize
  <2>10. Cuttable(b, objects)
    BY <1>1, <2>3, <2>4, <2>5, <2>7, <2>9, FS_EmptySet DEF Cuttable, MetaSize
  <2> QED BY <2>7, <2>8, <2>10, CutKeeps DEF IInv
<1>2. ASSUME NEW b \in BlockMetas, blocks = <<b>>, Sound(b, objects) PROVE IInv'
  <2>1. ~TailNotEnough(size)
    BY <1>2, OneElement, AlwaysEnough DEF TailNotEnough
  <2>2. Cut(<<b>>, size)
    BY <1>2, <2>1 DEF Kmalloc
  <2>3. Cuttable(b, objects)
    BY <1>2 DEF Sound, Cuttable
  <2> QED BY <2>2, <2>3, CutKeeps DEF IInv
<1> QED BY <1>1, <1>2 DEF IInv

-----------------------------------------------------------------------------
(* kfree(). *)

\* kfree() gives the block back with its last object, or rewinds only what no other
\* object reaches.
LEMMA KfreeKeeps ==
    ASSUME IInv, NEW o \in objects, Kfree(o)
    PROVE  IInv'
<1>1. PICK b \in BlockMetas : blocks = <<b>> /\ Sound(b, objects)
  BY DEF IInv
<1>2. /\ b.at \in Nat /\ b.free \in Nat /\ b.count \in Nat /\ b.power \in Nat
      /\ Limit \in Nat /\ Base \in Nat
  BY WidthAssumption DEF BlockMetas
<1>3. \A p \in objects : p.at \in Nat /\ p.size \in Nat \ {0} /\ Within(p, b)
  BY <1>1, SizesAssumption DEF IInv, Objects, Sound
<1>4. BlockIndex(o.block) = 1 /\ blocks[1] = b
  <2>1. o.block = b.at /\ blocks[1] = b /\ 1 .. Len(blocks) = {1}
    BY <1>1, <1>3, OneElement DEF Within
  <2> QED BY <2>1 DEF BlockIndex
<1> DEFINE f == IF b.free = o.at + o.size THEN o.at - HeaderSize ELSE b.free
           c == Meta(b, b.count - 1, f)
<1>5. /\ objects' = objects \ {o}
      /\ blocks' = IF b.count = 1 THEN RemoveAt(blocks, 1) ELSE [blocks EXCEPT ![1] = c]
  BY <1>4 DEF Kfree, Meta
<1>6. IsFiniteSet(objects') /\ Cardinality(objects') = b.count - 1 /\ objects' \subseteq Objects
  BY <1>1, <1>5, FS_RemoveElement DEF IInv, Sound
<1>7. CASE b.count = 1
  <2>1. blocks' = <<>> /\ objects' = {}
    BY <1>1, <1>5, <1>6, <1>7, OneElement, FS_EmptySet
  <2> QED BY <1>6, <2>1 DEF IInv
<1>8. CASE b.count # 1
  <2>1. blocks' = <<c>>
    BY <1>1, <1>5, <1>8, OneElement
  <2>2. o.at \in Nat /\ o.size \in Nat \ {0} /\ b.at + MetaSize + HeaderSize <= o.at
        /\ o.at + o.size <= b.free
    BY <1>3 DEF Within
  <2>3. b.count > 0 /\ b.count - 1 \in Nat \ {0}
    BY <1>1, <1>2, <1>8 DEF Sound
  <2>4. /\ c.at = b.at /\ c.power = b.power /\ c.count = b.count - 1
        /\ c.free = IF b.free = o.at + o.size THEN o.at - HeaderSize ELSE b.free
    BY MetaUpdated
  <2> HIDE DEF c
  <2>5. c.at + MetaSize <= c.free /\ c.free <= b.free /\ c.free \in Nat
    BY <1>2, <2>2, <2>4 DEF MetaSize, HeaderSize
  <2>6. c \in BlockMetas
    BY <2>3, <2>4, <2>5, MetaUpdated DEF c
  <2>7. \A p \in objects' : p.at + p.size <= c.free
    <3> SUFFICES ASSUME NEW p \in objects, p # o PROVE p.at + p.size <= c.free
      BY <1>5
    <3>1. p.at \in Nat /\ p.size \in Nat \ {0} /\ p.at + p.size <= b.free
      BY <1>3 DEF Within
    <3>2. Apart(o, p)
      BY <1>1 DEF Sound
    <3> QED BY <1>2, <2>2, <2>4, <3>1, <3>2 DEF Apart, HeaderSize
  <2>8. \A p \in objects' : Within(p, c)
    BY <1>3, <1>5, <2>4, <2>7 DEF Within
  <2>9. \A p, q \in objects' : p # q => Apart(p, q)
    BY <1>1, <1>5 DEF Sound
  <2>10. c.free <= Limit
    BY <1>1, <1>2, <2>5 DEF Sound
  <2>11. Sound(c, objects')
    <3>1. c.count = Cardinality(objects') /\ c.count > 0
      BY <1>2, <1>6, <2>3, <2>4
    <3>2. Base <= c.at /\ BlockSize(c.power) \in 0 .. Base
      BY <1>1, <2>4 DEF Sound
    <3> QED BY <2>5, <2>8, <2>9, <2>10, <3>1, <3>2 DEF Sound
  <2> QED BY <1>6, <2>1, <2>6, <2>11 DEF IInv
<1> QED BY <1>7, <1>8

-----------------------------------------------------------------------------
(* The invariant and the theorems. *)

\* The inductive invariant holds throughout.
THEOREM Invariance == Spec => []IInv
<1>1. Init => IInv
  BY FS_EmptySet DEF Init, IInv
<1>2. IInv /\ [Next]_vars => IInv'
  <2> SUFFICES ASSUME IInv, [Next]_vars PROVE IInv'
    OBVIOUS
  <2>1. ASSUME UNCHANGED vars PROVE IInv'
    BY <2>1 DEF vars, IInv
  <2>2. ASSUME NEW size \in Sizes, KmallocFails(size) PROVE IInv'
    BY <2>1, <2>2 DEF KmallocFails
  <2> QED BY <2>1, <2>2, KmallocKeeps, KfreeKeeps DEF Next
<1> QED BY <1>1, <1>2, PTL DEF Spec

\* What the invariant says of the block at index i and of the objects.
LEMMA Reading ==
    ASSUME IInv
    PROVE  /\ Len(blocks) <= 1
           /\ blocks \in Seq(BlockMetas)
           /\ blocks = <<>> => objects = {} /\ 1 .. Len(blocks) = {}
           /\ \A i \in 1 .. Len(blocks) : i = 1 /\ blocks = <<blocks[i]>> /\ blocks[i] \in BlockMetas
                                                /\ Sound(blocks[i], objects)
           /\ blocks # <<>> => 1 \in 1 .. Len(blocks)
           /\ \A o \in objects : o.at \in Nat /\ o.size \in Sizes /\ o.size \in Nat \ {0} /\ o.block \in Nat
<1>1. CASE blocks = <<>> /\ objects = {}
  BY <1>1
<1>2. ASSUME NEW b \in BlockMetas, blocks = <<b>>, Sound(b, objects)
      PROVE  /\ Len(blocks) <= 1 /\ blocks \in Seq(BlockMetas) /\ blocks # <<>> /\ 1 .. Len(blocks) = {1}
             /\ blocks[1] = b
  BY <1>2, OneElement
<1>3. \A o \in objects : o.at \in Nat /\ o.size \in Sizes /\ o.size \in Nat \ {0} /\ o.block \in Nat
  BY SizesAssumption DEF IInv, Objects
<1> QED BY <1>1, <1>2, <1>3 DEF IInv

\* Every variable has its type, and block->free stays between the meta data of the block
\* and the end of memory.
THEOREM Typed == Spec => []TypeOK
<1>1. IInv => TypeOK
  <2> SUFFICES ASSUME IInv PROVE TypeOK
    OBVIOUS
  <2>1. \A i \in 1 .. Len(blocks) : blocks[i].free \in blocks[i].at + MetaSize .. Limit
    BY Reading, WidthAssumption DEF Sound, BlockMetas, MetaSize
  <2> QED BY <2>1, Reading DEF TypeOK, BlockMetas
<1> QED BY <1>1, Invariance, PTL

\* No two objects that kmalloc() returned and kfree() did not take back overlap, headers
\* included, and none overlaps the meta data of a block.
THEOREM ObjectsDisjoint == Spec => []Disjoint
<1>1. IInv => Disjoint
  <2> SUFFICES ASSUME IInv PROVE Disjoint
    OBVIOUS
  <2>1. ASSUME NEW o \in objects, NEW p \in objects, o # p PROVE Extent(o) \cap Extent(p) = {}
    <3>1. o.at \in Nat /\ o.size \in Nat /\ p.at \in Nat /\ p.size \in Nat
      BY Reading
    <3>2. Apart(o, p)
      BY <2>1, Reading DEF Sound
    <3> QED BY <3>1, <3>2 DEF Extent, Apart, HeaderSize
  <2>2. ASSUME NEW o \in objects, NEW i \in 1 .. Len(blocks)
        PROVE  Extent(o) \cap (blocks[i].at .. blocks[i].at + MetaSize - 1) = {}
    <3>1. o.at \in Nat /\ o.size \in Nat /\ blocks[i].at \in Nat /\ Within(o, blocks[i])
      BY Reading DEF Sound, BlockMetas
    <3> QED BY <3>1 DEF Extent, Within, HeaderSize, MetaSize
  <2> QED BY <2>1, <2>2 DEF Disjoint
<1> QED BY <1>1, Invariance, PTL

\* block->count is the number of live objects of the block, which is therefore given back
\* with its last object and not before.
THEOREM CountsExact == Spec => []CountExact
<1>1. IInv => CountExact
  <2> SUFFICES ASSUME IInv PROVE CountExact
    OBVIOUS
  <2>1. ASSUME NEW i \in 1 .. Len(blocks)
        PROVE  blocks[i].count = Cardinality({o \in objects : o.block = blocks[i].at})
               /\ blocks[i].count > 0
    <3>1. Sound(blocks[i], objects)
      BY Reading
    <3>2. {o \in objects : o.block = blocks[i].at} = objects
      BY <3>1 DEF Sound, Within
    <3> QED BY <3>1, <3>2 DEF Sound
  <2>2. ASSUME NEW o \in objects PROVE \E i \in 1 .. Len(blocks) : blocks[i].at = o.block
    <3>1. 1 \in 1 .. Len(blocks) /\ Sound(blocks[1], objects)
      BY <2>2, Reading
    <3> QED BY <3>1 DEF Sound, Within
  <2> QED BY <2>1, <2>2 DEF CountExact
<1> QED BY <1>1, Invariance, PTL
=============================================================================
