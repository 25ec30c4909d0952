------------------------------ MODULE BuddyProofs ------------------------------
(***************************************************************************)
(* The buddy allocator, for any number of orders and any kernel size: no   *)
(* page is lost or handed out twice, free buddies are always merged, and   *)
(* the allocator implements PageAllocator.                                 *)
(*                                                                         *)
(* The inductive invariant adds to the properties that a block is free, in *)
(* flight or handed out but never two of these, what the two loops of      *)
(* init_mem_manage() have covered so far, and that allocate() splits only  *)
(* while the smaller lists are empty.                                      *)
(***************************************************************************)
EXTENDS Buddy, SequenceTheorems, WellFoundedInduction, TLAPS

\* Of two blocks one ends before the other begins.
Apart(b, c) == b[1] + 2 ^ b[2] <= c[1] \/ c[1] + 2 ^ c[2] <= b[1]

\* The blocks B are aligned, apart, and together all the pages from lo on.
Tiling(B, lo) ==
    /\ \A b \in B : b \in Page \X Order /\ Aligned(b[1], b[2])
    /\ \A b, c \in B : b # c => Apart(b, c)
    /\ \A p \in Int : (\E b \in B : p \in Pages(b[1], b[2])) <=> p \in lo .. 2 ^ MaxOrder - 1

\* Lists in ascending order, their elements, and the blocks of all lists.
Ascending(s) == \A i, j \in 1 .. Len(s) : i < j => s[i] < s[j]
Elements(s)  == {s[i] : i \in 1 .. Len(s)}
FreeIn(pl)   == {b \in Page \X Order : b[1] \in Elements(pl[b[2]])}

\* No two elements of a list of order o are buddies.
Lonely(s, o) == \A a, b \in Elements(s) : a # b => RemoveTag(a, o) # RemoveTag(b, o)

Orderly(pl) ==
    /\ pl \in [Order -> Seq(Page)]
    /\ \A o \in Order : Ascending(pl[o])
    /\ \A o \in Order : Lonely(pl[o], o)

\* What the loops of init_mem_manage() have covered.
Untouched ==
    /\ \A o \in Order : Len(pool[o]) <= 1 /\ (o <= index => pool[o] = <<>>)
    /\ owned = {} /\ answer = NoAnswer /\ addr = NULL /\ level = NULL /\ power = NULL

Booted(lo) == Untouched /\ Tiling(FreeIn(pool), lo)

High == kernel <= 2 ^ (index + 1) /\ tmp = NULL /\ Booted(2 ^ (index + 1))

Low ==
    /\ tmp \in Page
    /\ Booted(IF index < 0 THEN kernel ELSE tmp + 2 ^ index)
    /\ index >= 0 => /\ Aligned(tmp, index)
                     /\ tmp - 2 ^ index < kernel /\ kernel <= tmp + 2 ^ index

\* The block that allocate() or deallocate() works on, if any.
Working == pc \in {"split", "merge"}

Serving ==
    /\ FreeIn(pool) \cap owned = {}
    /\ Tiling(FreeIn(pool) \cup InFlight \cup owned, kernel)
    /\ Working => /\ addr \in Page /\ level \in Order
                  /\ <<addr, level>> \notin FreeIn(pool) \cup owned
    /\ pc = "split" => power \in Order /\ power <= level /\ \A l \in power .. level - 1 : pool[l] = <<>>

Typing ==
    /\ pc \in {"high", "low", "idle", "split", "merge"}
    /\ kernel \in 1 .. 2 ^ MaxOrder
    /\ index \in -1 .. MaxOrder - 1
    /\ tmp \in Page \cup {NULL}
    /\ addr \in Page \cup {NULL}
    /\ level \in Order \cup {NULL}
    /\ power \in Order \cup {NULL}
    /\ owned \subseteq Page \X Order
    /\ answer \in (Order \cup {NULL}) \X (Page \cup {NULL})

IInv ==
    /\ Typing /\ Orderly(pool)
    /\ pc = "high" => High
    /\ pc = "low" => Low
    /\ pc \in {"idle", "split", "merge"} => Serving

-----------------------------------------------------------------------------
(* Arithmetic: least elements, powers of two and multiples. *)

\* A nonempty set of natural numbers has a least element, which Min() chooses.
LEMMA LeastNat ==
    ASSUME NEW S, S \subseteq Nat, S # {}
    PROVE  Min(S) \in S /\ \A k \in S : Min(S) <= k
<1> DEFINE R == OpToRel(<, Nat)
<1>1. IsWellFoundedOn(R, Nat)
  BY NatLessThanWellFounded
<1> HIDE DEF R
<1>2. PICK x \in S : \A y \in S : ~(<<y, x>> \in R)
  BY <1>1, WFMin
<1>3. \A y \in S : x <= y
  <2> TAKE y \in S
  <2>1. x \in Nat /\ y \in Nat
    OBVIOUS
  <2>2. y < x => <<y, x>> \in R
    <3>1. R = {ss \in Nat \X Nat : ss[1] < ss[2]}
      BY DEF R, OpToRel
    <3> QED BY <2>1, <3>1
  <2> QED BY <1>2, <2>1, <2>2
<1> QED BY <1>3 DEF Min

\* Powers of two are positive, and double from order to order.
LEMMA Powers ==
    /\ MaxOrder \in Nat /\ MaxOrder >= 1
    /\ \A z : z = 0 => 2 ^ z = 1
    /\ \A o \in Order : 2 ^ o \in Nat /\ 2 ^ o >= 1
    /\ \A o \in 0 .. MaxOrder - 1 : 2 ^ (o + 1) = 2 * 2 ^ o
<1>1. MaxOrder \in Nat /\ MaxOrder >= 1
  BY BuddyAssumption
<1>2. \A z : z = 0 => 2 ^ z = 1
  OBVIOUS
<1>3. \A o \in 0 .. MaxOrder - 1 : 2 ^ (o + 1) = 2 * 2 ^ o
  BY PowersAssumption
<1>4. \A o \in Order : 2 ^ o \in Nat /\ 2 ^ o >= 1
  <2> DEFINE S == {o \in Order : ~(2 ^ o \in Nat /\ 2 ^ o >= 1)}
  <2> SUFFICES ASSUME S # {} PROVE FALSE
    OBVIOUS
  <2>1. S \subseteq Nat
    BY <1>1 DEF Order
  <2> HIDE DEF S
  <2>2. PICK x \in S : \A k \in S : x <= k
    BY <2>1, LeastNat
  <2>3. x \in Order /\ x \in Nat /\ x # 0
    <3>1. x \in Order /\ x \in Nat /\ ~(2 ^ x \in Nat /\ 2 ^ x >= 1)
      BY <2>1, <2>2 DEF S
    <3>2. x = 0 => 2 ^ x = 1
      BY <1>2
    <3> QED BY <3>1, <3>2
  <2>4. x - 1 \in 0 .. MaxOrder - 1 /\ x - 1 \in Order /\ x - 1 \notin S
    BY <1>1, <2>2, <2>3 DEF Order
  <2>5. 2 ^ (x - 1) \in Nat /\ 2 ^ (x - 1) >= 1
    BY <2>4 DEF S
  <2>6. 2 ^ (x - 1 + 1) = 2 * 2 ^ (x - 1)
    BY <1>3, <2>4
  <2>7. x - 1 + 1 = x
    BY <2>3
  <2>8. 2 ^ x = 2 * 2 ^ (x - 1)
    BY <2>6, <2>7
  <2>9. 2 ^ x \in Nat /\ 2 ^ x >= 1
    BY <2>5, <2>8
  <2> QED BY <2>2, <2>9 DEF S
<1> QED BY <1>1, <1>2, <1>3, <1>4

\* A larger power of two is a multiple of a smaller one.
LEMMA PowerDivides ==
    ASSUME NEW j \in Order, NEW k \in Order, j <= k
    PROVE  \E m \in Nat \ {0} : 2 ^ k = m * 2 ^ j
<1> DEFINE S == {l \in Order : j <= l /\ ~(\E m \in Nat \ {0} : 2 ^ l = m * 2 ^ j)}
<1> SUFFICES ASSUME S # {} PROVE FALSE
  OBVIOUS
<1>1. S \subseteq Nat /\ j \in Nat /\ 2 ^ j \in Nat
  BY Powers DEF Order
<1>2. PICK x \in S : \A l \in S : x <= l
  <2> HIDE DEF S
  <2> QED BY <1>1, LeastNat
<1>3. x \in Order /\ x \in Nat /\ j <= x /\ ~(\E m \in Nat \ {0} : 2 ^ x = m * 2 ^ j)
  BY <1>1, <1>2
<1>4. x # j
  <2>1. 2 ^ j = 1 * 2 ^ j
    BY <1>1
  <2> QED BY <1>3, <2>1
<1>5. x - 1 \in 0 .. MaxOrder - 1 /\ x - 1 \in Order /\ j <= x - 1 /\ x - 1 \notin S
  BY <1>1, <1>2, <1>3, <1>4, Powers DEF Order
<1>6. PICK m \in Nat \ {0} : 2 ^ (x - 1) = m * 2 ^ j
  BY <1>5
<1>7. 2 ^ (x - 1 + 1) = 2 * 2 ^ (x - 1) /\ x - 1 + 1 = x
  BY <1>3, <1>5, Powers
<1>8. 2 ^ x = 2 * (m * 2 ^ j)
  BY <1>6, <1>7
<1>9. 2 * (m * 2 ^ j) = (2 * m) * 2 ^ j
  BY <1>1
<1>10. 2 ^ x = (2 * m) * 2 ^ j /\ 2 * m \in Nat \ {0}
  BY <1>8, <1>9
<1> QED BY <1>3, <1>10

\* Smaller orders have smaller sizes.
LEMMA PowerGrows ==
    ASSUME NEW j \in Order, NEW k \in Order, j <= k
    PROVE  2 ^ j <= 2 ^ k
<1>1. PICK m \in Nat \ {0} : 2 ^ k = m * 2 ^ j
  BY PowerDivides
<1> DEFINE w == 2 ^ j
<1>2. w \in Nat
  BY Powers
<1> HIDE DEF w
<1>3. w <= m * w
  BY <1>2
<1> QED BY <1>1, <1>3 DEF w

\* Aligned addresses are the multiples of the size of a block.
LEMMA Multiples ==
    ASSUME NEW w \in Nat, w >= 1, NEW a \in Nat
    PROVE  /\ a \div w \in Nat
           /\ a % w = 0 <=> a = (a \div w) * w
  OBVIOUS

\* A product divided by one of its factors.
LEMMA Quotient ==
    ASSUME NEW w \in Nat, w >= 1, NEW k \in Int
    PROVE  (k * w) \div w = k /\ (k * w) % w = 0
  OBVIOUS

\* Multiples of w that are not equal are w apart.
LEMMA MultiplesApart ==
    ASSUME NEW w \in Nat, w >= 1, NEW x \in Int, NEW y \in Int
    PROVE  /\ x < y <=> x * w < y * w
           /\ x < y => x * w + w <= y * w
           /\ x = y <=> x * w = y * w
<1>1. x < y => (y - x - 1) * w >= 0
  OBVIOUS
<1>2. (y - x - 1) * w = y * w - x * w - w
  OBVIOUS
<1>3. y < x => (x - y - 1) * w >= 0
  OBVIOUS
<1>4. (x - y - 1) * w = x * w - y * w - w
  OBVIOUS
<1>5. x * w \in Int /\ y * w \in Int
  OBVIOUS
<1> QED BY <1>1, <1>2, <1>3, <1>4, <1>5

-----------------------------------------------------------------------------
(* Buddies. *)

\* An address aligned for an order, as a multiple of its size; the next order.
LEMMA AlignedIs ==
    ASSUME NEW o \in Order, NEW a \in Nat
    PROVE  /\ a \div 2 ^ o \in Nat
           /\ Aligned(a, o) <=> a = (a \div 2 ^ o) * 2 ^ o
<1>1. 2 ^ o \in Nat /\ 2 ^ o >= 1
  BY Powers
<1> QED BY <1>1, Multiples DEF Aligned

\* A multiple of the size of an order is aligned for it.
LEMMA MultipleAligned ==
    ASSUME NEW o \in Order, NEW k \in Int, NEW a, a = k * 2 ^ o
    PROVE  Aligned(a, o)
<1>1. 2 ^ o \in Nat /\ 2 ^ o >= 1
  BY Powers
<1> QED BY <1>1, Quotient DEF Aligned

\* What is aligned for an order is aligned for the one below.
LEMMA AlignedBelow ==
    ASSUME NEW o \in 0 .. MaxOrder - 1, NEW a \in Nat, Aligned(a, o + 1)
    PROVE  Aligned(a, o) /\ Aligned(a + 2 ^ o, o)
<1> DEFINE w == 2 ^ o
           r == a \div 2 ^ (o + 1)
<1>1. o \in Order /\ o + 1 \in Order /\ 2 ^ (o + 1) = 2 * w /\ w \in Nat
  BY Powers DEF Order
<1>2. r \in Nat /\ a = r * 2 ^ (o + 1)
  BY <1>1, AlignedIs
<1>3. a = r * (2 * w)
  BY <1>1, <1>2
<1> HIDE DEF r, w
<1>4. a = (2 * r) * w /\ a + w = (2 * r + 1) * w
  BY <1>1, <1>2, <1>3
<1>5. 2 * r \in Int /\ 2 * r + 1 \in Int
  BY <1>2
<1> QED BY <1>1, <1>4, <1>5, MultipleAligned DEF w

\* remove_tag() keeps an even block and goes one block down from an odd one; the
\* result is aligned for the next order.
LEMMA TagFacts ==
    ASSUME NEW o \in 0 .. MaxOrder - 1, NEW a \in Nat, Aligned(a, o)
    PROVE  /\ RemoveTag(a, o) \in Nat
           /\ RemoveTag(a, o) = a \/ RemoveTag(a, o) = a - 2 ^ o
           /\ Aligned(RemoveTag(a, o), o + 1)
<1> DEFINE w == 2 ^ o
           q == a \div w
<1>1. o \in Order /\ o + 1 \in Order /\ 2 ^ (o + 1) = 2 * w /\ w \in Nat /\ w >= 1
  BY Powers DEF Order
<1>2. q \in Nat /\ a = q * w
  BY <1>1, AlignedIs
<1>3. RemoveTag(a, o) = IF q % 2 = 1 THEN a - w ELSE a
  BY DEF RemoveTag
<1> HIDE DEF w, q
<1>4. CASE q % 2 = 1
  <2> DEFINE r == q \div 2
  <2>1. r \in Nat /\ q = 2 * r + 1
    BY <1>2, <1>4
  <2> HIDE DEF r
  <2>2. a - w = r * (2 * w) /\ r * (2 * w) \in Nat
    <3>1. a = (2 * r + 1) * w
      BY <1>2, <2>1
    <3>2. (2 * r + 1) * w = r * (2 * w) + w
      BY <1>1, <2>1
    <3>3. r * (2 * w) \in Nat
      BY <1>1, <2>1
    <3> QED BY <1>1, <3>1, <3>2, <3>3
  <2>3. Aligned(a - w, o + 1)
    <3>1. a - w = r * 2 ^ (o + 1) /\ r \in Int /\ o + 1 \in Order
      BY <1>1, <2>1, <2>2
    <3> QED BY <3>1, MultipleAligned
  <2> QED BY <1>3, <1>4, <2>2, <2>3 DEF w
<1>5. CASE q % 2 # 1
  <2> DEFINE r == q \div 2
  <2>1. r \in Nat /\ q = 2 * r
    BY <1>2, <1>5
  <2> HIDE DEF r
  <2>2. a = r * (2 * w)
    BY <1>1, <1>2, <2>1
  <2>3. Aligned(a, o + 1)
    <3>1. a = r * 2 ^ (o + 1) /\ r \in Int /\ o + 1 \in Order
      BY <1>1, <2>1, <2>2
    <3> QED BY <3>1, MultipleAligned
  <2> QED BY <1>3, <1>5, <2>3
<1> QED BY <1>4, <1>5

\* Two addresses with the same tag removed are the halves of the block there.
LEMMA SameTag ==
    ASSUME NEW o \in 0 .. MaxOrder - 1, NEW a \in Nat, NEW b \in Nat, Aligned(a, o), Aligned(b, o),
           a # b, RemoveTag(a, o) = RemoveTag(b, o)
    PROVE  \/ a = RemoveTag(a, o) /\ b = a + 2 ^ o
           \/ b = RemoveTag(a, o) /\ a = b + 2 ^ o
<1>1. 2 ^ o \in Nat
  BY Powers DEF Order
<1> QED BY <1>1, TagFacts

\* Aligned addresses that differ are a block apart.
LEMMA AlignedApart ==
    ASSUME NEW o \in Order, NEW a \in Nat, NEW b \in Nat, Aligned(a, o), Aligned(b, o), a < b
    PROVE  a + 2 ^ o <= b
<1> DEFINE w == 2 ^ o
           x == a \div w
           y == b \div w
<1>1. w \in Nat /\ w >= 1 /\ x \in Nat /\ y \in Nat /\ a = x * w /\ b = y * w
  BY Powers, AlignedIs
<1> HIDE DEF w, x, y
<1>2. x < y
  BY <1>1, MultiplesApart
<1>3. x * w + w <= y * w
  BY <1>1, <1>2, MultiplesApart
<1> QED BY <1>1, <1>3 DEF w

-----------------------------------------------------------------------------
(* Tilings. *)

\* The pages of a block.
LEMMA BlockPages ==
    ASSUME NEW b \in Page \X Order
    PROVE  /\ b[1] \in Nat /\ b[2] \in Order /\ 2 ^ b[2] \in Nat /\ 2 ^ b[2] >= 1
           /\ \A p \in Int : p \in Pages(b[1], b[2]) <=> b[1] <= p /\ p < b[1] + 2 ^ b[2]
<1>1. MaxOrder \in Order
  BY Powers DEF Order
<1>2. b[1] \in Nat /\ b[2] \in Order /\ 2 ^ b[2] \in Nat /\ 2 ^ b[2] >= 1
  <2>1. b[1] \in Page /\ b[2] \in Order
    OBVIOUS
  <2>2. Page \subseteq Nat
    BY <1>1, Powers DEF Page
  <2> QED BY <2>1, <2>2, Powers
<1>3. \A p \in Int : p \in Pages(b[1], b[2]) <=> b[1] <= p /\ p < b[1] + 2 ^ b[2]
  BY <1>2 DEF Pages
<1> QED BY <1>2, <1>3

\* The whole memory is no block of a tiling that spares page 0.
LEMMA BelowMaxOrder ==
    ASSUME NEW B, NEW lo \in Nat, lo >= 1, Tiling(B, lo), NEW b \in B
    PROVE  /\ b \in Page \X Order /\ b[2] \in 0 .. MaxOrder - 1 /\ b[1] \in Nat /\ b[1] >= lo
           /\ 2 ^ b[2] \in Nat /\ 2 ^ b[2] >= 1 /\ b[1] + 2 ^ b[2] <= 2 ^ MaxOrder
           /\ Aligned(b[1], b[2])
<1> DEFINE W == 2 ^ MaxOrder
           w == 2 ^ b[2]
<1>1. MaxOrder \in Order /\ W \in Nat /\ W >= 1 /\ MaxOrder \in Nat
  BY Powers DEF Order
<1>2. /\ b \in Page \X Order /\ b[1] \in Nat /\ b[2] \in Order /\ w \in Nat /\ w >= 1
      /\ Aligned(b[1], b[2])
  BY BlockPages DEF Tiling
<1>3. b[1] \in Pages(b[1], b[2]) /\ b[1] + w - 1 \in Pages(b[1], b[2])
  BY <1>2, BlockPages
<1>4. b[1] \in Int /\ b[1] + w - 1 \in Int
  BY <1>2
<1>5. b[1] \in lo .. W - 1 /\ b[1] + w - 1 \in lo .. W - 1
  BY <1>3, <1>4 DEF Tiling
<1>6. b[2] # MaxOrder
  <2> SUFFICES ASSUME b[2] = MaxOrder PROVE FALSE
    OBVIOUS
  <2> QED BY <1>1, <1>2, <1>5
<1> HIDE DEF W, w
<1>7. b[2] \in 0 .. MaxOrder - 1
  BY <1>1, <1>2, <1>6 DEF Order
<1> QED BY <1>1, <1>2, <1>5, <1>7 DEF W, w

\* Two buddies of a tiling are as good as the block they make up.
LEMMA TilingMerge ==
    ASSUME NEW B, NEW lo \in Nat, lo >= 1, Tiling(B, lo),
           NEW o \in 0 .. MaxOrder - 1, NEW t \in Nat, Aligned(t, o + 1),
           <<t, o>> \in B, <<t + 2 ^ o, o>> \in B
    PROVE  /\ Tiling((B \ {<<t, o>>, <<t + 2 ^ o, o>>}) \cup {<<t, o + 1>>}, lo)
           /\ <<t, o + 1>> \notin B
           /\ t \in Page /\ o + 1 \in Order
<1> DEFINE w == 2 ^ o
           b == <<t, o>>
           c == <<t + w, o>>
           d == <<t, o + 1>>
           D == (B \ {b, c}) \cup {d}
<1>1. o \in Order /\ o + 1 \in Order /\ 2 ^ (o + 1) = 2 * w /\ w \in Nat /\ w >= 1
  BY Powers DEF Order
<1>2. t \in Page
  BY DEF Tiling
<1>3. /\ \A e \in B : e \in Page \X Order /\ Aligned(e[1], e[2]) /\ e[1] \in Nat
                       /\ 2 ^ e[2] \in Nat /\ 2 ^ e[2] >= 1
  BY BelowMaxOrder
<1>4. \A e \in B \ {b, c} : Apart(b, e) /\ Apart(c, e)
  BY DEF Tiling
<1>5. \A e \in B \ {b, c} : Apart(d, e) /\ Apart(e, d)
  <2> TAKE e \in B \ {b, c}
  <2>1. e[1] \in Nat /\ 2 ^ e[2] \in Nat /\ 2 ^ e[2] >= 1
    BY <1>3
  <2>2. t + w <= e[1] \/ e[1] + 2 ^ e[2] <= t
    BY <1>4 DEF Apart
  <2>3. t + w + w <= e[1] \/ e[1] + 2 ^ e[2] <= t + w
    BY <1>4 DEF Apart
  <2>4. t + 2 * w <= e[1] \/ e[1] + 2 ^ e[2] <= t
    BY <1>1, <2>1, <2>2, <2>3
  <2> QED BY <1>1, <2>4 DEF Apart
<1>6. d \notin B
  <2> SUFFICES ASSUME d \in B PROVE FALSE
    OBVIOUS
  <2>1. d # b /\ d # c
    BY <1>1
  <2>2. Apart(b, d)
    BY <2>1 DEF Tiling
  <2>3. t + w <= t \/ t + 2 * w <= t
    BY <1>1, <2>2 DEF Apart
  <2> QED BY <1>1, <2>3
<1>7. \A e \in D : e \in Page \X Order /\ Aligned(e[1], e[2])
  BY <1>1, <1>2, <1>3
<1>8. \A e, f \in D : e # f => Apart(e, f)
  <2> TAKE e, f \in D
  <2> QED BY <1>5 DEF Tiling
<1>9. \A p \in Int : (\E e \in D : p \in Pages(e[1], e[2])) <=> (\E e \in B : p \in Pages(e[1], e[2]))
  <2> TAKE p \in Int
  <2>1. p \in Pages(d[1], d[2]) <=> p \in Pages(b[1], b[2]) \/ p \in Pages(c[1], c[2])
    <3>1. b \in Page \X Order /\ c \in Page \X Order /\ d \in Page \X Order
      BY <1>1, <1>2, <1>3
    <3>2. /\ p \in Pages(b[1], b[2]) <=> t <= p /\ p < t + w
          /\ p \in Pages(c[1], c[2]) <=> t + w <= p /\ p < t + w + w
          /\ p \in Pages(d[1], d[2]) <=> t <= p /\ p < t + 2 * w
      BY <1>1, <3>1, BlockPages
    <3> QED BY <1>1, <3>2
  <2> HIDE DEF b, c, d
  <2>2. b \in B /\ c \in B
    BY DEF b, c
  <2> QED BY <2>1, <2>2
<1> HIDE DEF D
<1>10. Tiling(D, lo)
  BY <1>7, <1>8, <1>9 DEF Tiling
<1> QED BY <1>1, <1>2, <1>6, <1>10 DEF D

\* A block of a tiling is as good as its halves.
LEMMA TilingSplit ==
    ASSUME NEW B, NEW lo \in Nat, lo >= 1, Tiling(B, lo),
           NEW o \in 0 .. MaxOrder - 1, NEW t \in Nat, <<t, o + 1>> \in B
    PROVE  /\ Tiling((B \ {<<t, o + 1>>}) \cup {<<t, o>>, <<t + 2 ^ o, o>>}, lo)
           /\ <<t, o>> \notin B /\ <<t + 2 ^ o, o>> \notin B
           /\ t + 2 ^ o \in Page
<1> DEFINE w == 2 ^ o
           b == <<t, o>>
           c == <<t + w, o>>
           d == <<t, o + 1>>
           D == (B \ {d}) \cup {b, c}
<1>1. o \in Order /\ o + 1 \in Order /\ 2 ^ (o + 1) = 2 * w /\ w \in Nat /\ w >= 1
  BY Powers DEF Order
<1>2. t \in Page /\ Aligned(t, o + 1) /\ t + 2 * w <= 2 ^ MaxOrder /\ 2 ^ MaxOrder \in Nat
  <2>1. d[1] = t /\ d[2] = o + 1
    OBVIOUS
  <2>2. d \in Page \X Order /\ d[1] + 2 ^ d[2] <= 2 ^ MaxOrder /\ Aligned(d[1], d[2])
    BY BelowMaxOrder
  <2>3. 2 ^ MaxOrder \in Nat
    BY Powers DEF Order
  <2> QED BY <1>1, <2>1, <2>2, <2>3
<1>3. t + w \in Page /\ Aligned(t, o) /\ Aligned(t + w, o)
  BY <1>1, <1>2, AlignedBelow DEF Page
<1>4. /\ \A e \in B : e \in Page \X Order /\ Aligned(e[1], e[2]) /\ e[1] \in Nat
                       /\ 2 ^ e[2] \in Nat /\ 2 ^ e[2] >= 1
  BY BelowMaxOrder
<1>5. \A e \in B \ {d} : Apart(b, e) /\ Apart(e, b) /\ Apart(c, e) /\ Apart(e, c)
  <2> TAKE e \in B \ {d}
  <2>1. e[1] \in Nat /\ 2 ^ e[2] \in Nat /\ 2 ^ e[2] >= 1
    BY <1>4
  <2>2. Apart(d, e)
    BY DEF Tiling
  <2>3. t + 2 * w <= e[1] \/ e[1] + 2 ^ e[2] <= t
    BY <1>1, <2>2 DEF Apart
  <2>4. /\ t + w <= e[1] \/ e[1] + 2 ^ e[2] <= t
        /\ t + w + w <= e[1] \/ e[1] + 2 ^ e[2] <= t + w
    BY <1>1, <2>1, <2>3
  <2> QED BY <2>4 DEF Apart
<1>6. Apart(b, c) /\ Apart(c, b)
  BY <1>1 DEF Apart
<1>7. b \notin B /\ c \notin B
  <2>1. b # d /\ c # d
    BY <1>1
  <2>2. ~Apart(b, b) /\ ~Apart(c, c)
    BY <1>1 DEF Apart
  <2> QED BY <1>5, <2>1, <2>2
<1>8. \A e \in D : e \in Page \X Order /\ Aligned(e[1], e[2])
  BY <1>1, <1>2, <1>3, <1>4
<1>9. \A e, f \in D : e # f => Apart(e, f)
  <2> TAKE e, f \in D
  <2> QED BY <1>5, <1>6 DEF Tiling
<1>10. \A p \in Int : (\E e \in D : p \in Pages(e[1], e[2])) <=> (\E e \in B : p \in Pages(e[1], e[2]))
  <2> TAKE p \in Int
  <2>1. p \in Pages(d[1], d[2]) <=> p \in Pages(b[1], b[2]) \/ p \in Pages(c[1], c[2])
    <3>1. b \in Page \X Order /\ c \in Page \X Order /\ d \in Page \X Order
      BY <1>1, <1>2, <1>3
    <3>2. /\ p \in Pages(b[1], b[2]) <=> t <= p /\ p < t + w
          /\ p \in Pages(c[1], c[2]) <=> t + w <= p /\ p < t + w + w
          /\ p \in Pages(d[1], d[2]) <=> t <= p /\ p < t + 2 * w
      BY <1>1, <3>1, BlockPages
    <3> QED BY <1>1, <3>2
  <2>2. d \in B
    OBVIOUS
  <2> HIDE DEF b, c, d
  <2> QED BY <2>1, <2>2
<1> HIDE DEF D
<1>11. Tiling(D, lo)
  BY <1>8, <1>9, <1>10 DEF Tiling
<1> QED BY <1>3, <1>7, <1>11 DEF D

\* A block that ends where a tiling begins extends it.
LEMMA TilingExtend ==
    ASSUME NEW B, NEW hi \in Nat, Tiling(B, hi), NEW o \in Order, NEW a \in Nat, Aligned(a, o),
           a + 2 ^ o = hi, hi <= 2 ^ MaxOrder
    PROVE  Tiling(B \cup {<<a, o>>}, a) /\ a \in Page
<1> DEFINE w == 2 ^ o
           b == <<a, o>>
           D == B \cup {b}
<1>1. w \in Nat /\ w >= 1 /\ 2 ^ MaxOrder \in Nat
  BY Powers DEF Order
<1>2. a \in Page /\ b \in Page \X Order
  BY <1>1 DEF Page
<1>3. \A e \in B : hi <= e[1]
  <2> TAKE e \in B
  <2>1. e \in Page \X Order
    BY DEF Tiling
  <2>2. e[1] \in Int /\ e[1] \in Pages(e[1], e[2])
    BY <2>1, BlockPages
  <2>3. e[1] \in hi .. 2 ^ MaxOrder - 1
    BY <2>2 DEF Tiling
  <2> QED BY <1>1, <2>3
<1>4. \A e \in B : Apart(b, e) /\ Apart(e, b)
  BY <1>3 DEF Apart
<1>5. \A p \in Int : (\E e \in D : p \in Pages(e[1], e[2])) <=> p \in a .. 2 ^ MaxOrder - 1
  <2> TAKE p \in Int
  <2>1. (\E e \in B : p \in Pages(e[1], e[2])) <=> p \in hi .. 2 ^ MaxOrder - 1
    BY DEF Tiling
  <2>2. p \in Pages(b[1], b[2]) <=> a <= p /\ p < hi
    BY <1>2, BlockPages
  <2>3. (\E e \in D : p \in Pages(e[1], e[2])) <=>
            p \in Pages(b[1], b[2]) \/ (\E e \in B : p \in Pages(e[1], e[2]))
    <3> HIDE DEF b
    <3> QED OBVIOUS
  <2> QED BY <1>1, <2>1, <2>2, <2>3
<1>6. \A e \in D : e \in Page \X Order /\ Aligned(e[1], e[2])
  BY <1>2 DEF Tiling
<1>7. \A e, f \in D : e # f => Apart(e, f)
  <2> TAKE e, f \in D
  <2> QED BY <1>4 DEF Tiling
<1> HIDE DEF D
<1>8. Tiling(D, a)
  BY <1>5, <1>6, <1>7 DEF Tiling
<1> QED BY <1>2, <1>8 DEF D

-----------------------------------------------------------------------------
(* Free lists. *)

\* The elements of a sequence after InsertAt().
LEMMA InsertAtIs ==
    ASSUME NEW S, NEW s \in Seq(S), NEW i \in 1 .. Len(s) + 1, NEW e \in S
    PROVE  /\ InsertAt(s, i, e) \in Seq(S)
           /\ Len(InsertAt(s, i, e)) = Len(s) + 1
           /\ \A j \in 1 .. Len(s) + 1 : InsertAt(s, i, e)[j] =
                  IF j < i THEN s[j] ELSE IF j = i THEN e ELSE s[j - 1]
<1> DEFINE u == SubSeq(s, 1, i - 1)
           v == SubSeq(s, i, Len(s))
           n == Len(s)
<1>1. n \in Nat /\ i \in Int /\ 1 <= i /\ i <= n + 1
  OBVIOUS
<1>2. u \in Seq(S) /\ Len(u) = i - 1 /\ \A j \in 1 .. i - 1 : u[j] = s[j]
  <2>1. \A j \in 1 .. i - 1 : s[j] \in S
    BY <1>1
  <2>2. \A j \in 1 .. i - 1 - 1 + 1 : u[j] = s[1 + j - 1]
    BY <1>1, <2>1, SubSeqProperties
  <2> QED BY <1>1, <2>1, <2>2, SubSeqProperties
<1>3. v \in Seq(S) /\ Len(v) = n - i + 1 /\ \A j \in 1 .. n - i + 1 : v[j] = s[i + j - 1]
  <2>1. \A j \in i .. n : s[j] \in S
    BY <1>1
  <2> QED BY <1>1, <2>1, SubSeqProperties
<1>4. InsertAt(s, i, e) = (u \o <<e>>) \o v
  BY DEF InsertAt
<1> HIDE DEF u, v, n
<1>5. /\ u \o <<e>> \in Seq(S) /\ Len(u \o <<e>>) = i
      /\ \A j \in 1 .. i : (u \o <<e>>)[j] = IF j < i THEN s[j] ELSE e
  <2>1. <<e>> \in Seq(S) /\ Len(<<e>>) = 1 /\ <<e>>[1] = e
    OBVIOUS
  <2>2. /\ u \o <<e>> \in Seq(S) /\ Len(u \o <<e>>) = Len(u) + 1
        /\ \A j \in 1 .. Len(u) + 1 : (u \o <<e>>)[j] = IF j <= Len(u) THEN u[j] ELSE <<e>>[j - Len(u)]
    BY <1>2, <2>1, ConcatProperties
  <2>3. \A j \in 1 .. i : (u \o <<e>>)[j] = IF j < i THEN s[j] ELSE e
    <3> TAKE j \in 1 .. i
    <3>1. CASE j < i
      BY <1>1, <1>2, <2>2, <3>1
    <3>2. CASE j = i
      <4>1. j - Len(u) = 1 /\ ~(j <= Len(u)) /\ j \in 1 .. Len(u) + 1
        BY <1>1, <1>2, <3>2
      <4> QED BY <1>1, <2>1, <2>2, <3>2, <4>1
    <3>3. j < i \/ j = i
      BY <1>1
    <3> QED BY <3>1, <3>2, <3>3
  <2> QED BY <1>1, <1>2, <2>2, <2>3
<1> DEFINE x == u \o <<e>>
<1> HIDE DEF x
<1>6. /\ x \o v \in Seq(S) /\ Len(x \o v) = n + 1
      /\ \A j \in 1 .. n + 1 : (x \o v)[j] = IF j <= i THEN x[j] ELSE v[j - i]
  <2>1. x \in Seq(S) /\ Len(x) = i
    BY <1>5 DEF x
  <2>2. Len(x) + Len(v) = n + 1
    BY <1>1, <1>3, <2>1
  <2>3. /\ x \o v \in Seq(S) /\ Len(x \o v) = Len(x) + Len(v)
        /\ \A j \in 1 .. Len(x) + Len(v) : (x \o v)[j] = IF j <= Len(x) THEN x[j] ELSE v[j - Len(x)]
    BY <1>3, <2>1, ConcatProperties
  <2> QED BY <2>1, <2>2, <2>3
<1> DEFINE y == x \o v
<1>y. /\ y \in Seq(S) /\ Len(y) = n + 1
      /\ \A j \in 1 .. n + 1 : y[j] = IF j <= i THEN x[j] ELSE v[j - i]
  BY <1>6
<1> HIDE DEF y
<1>x. \A j \in 1 .. i : x[j] = IF j < i THEN s[j] ELSE e
  BY <1>5 DEF x
<1>7. \A j \in 1 .. n + 1 : y[j] = IF j < i THEN s[j] ELSE IF j = i THEN e ELSE s[j - 1]
  <2> TAKE j \in 1 .. n + 1
  <2>1. CASE j <= i
    BY <1>1, <1>x, <1>y, <2>1
  <2>2. CASE j > i
    <3>1. j - i \in 1 .. n - i + 1 /\ i + (j - i) - 1 = j - 1
      BY <1>1, <2>2
    <3>2. v[j - i] = s[j - 1]
      BY <1>3, <3>1
    <3> QED BY <1>1, <1>y, <2>2, <3>2
  <2> QED BY <1>1, <2>1, <2>2
<1> QED BY <1>4, <1>y, <1>7 DEF x, y, n

\* The elements of a sequence after RemoveAt().
LEMMA RemoveAtIs ==
    ASSUME NEW S, NEW s \in Seq(S), NEW i \in 1 .. Len(s)
    PROVE  /\ RemoveAt(s, i) \in Seq(S)
           /\ Len(RemoveAt(s, i)) = Len(s) - 1
           /\ \A j \in 1 .. Len(s) - 1 : RemoveAt(s, i)[j] = IF j < i THEN s[j] ELSE s[j + 1]
<1> DEFINE u == SubSeq(s, 1, i - 1)
           v == SubSeq(s, i + 1, Len(s))
           n == Len(s)
<1>1. n \in Nat /\ i \in Int /\ 1 <= i /\ i <= n
  OBVIOUS
<1>2. u \in Seq(S) /\ Len(u) = i - 1 /\ \A j \in 1 .. i - 1 : u[j] = s[j]
  <2>1. \A j \in 1 .. i - 1 : s[j] \in S
    BY <1>1
  <2>2. \A j \in 1 .. i - 1 - 1 + 1 : u[j] = s[1 + j - 1]
    BY <1>1, <2>1, SubSeqProperties
  <2> QED BY <1>1, <2>1, <2>2, SubSeqProperties
<1>3. v \in Seq(S) /\ Len(v) = n - i /\ \A j \in 1 .. n - i : v[j] = s[i + j]
  <2>1. \A j \in i + 1 .. n : s[j] \in S
    BY <1>1
  <2>2. /\ v \in Seq(S) /\ Len(v) = IF i + 1 <= n THEN n - (i + 1) + 1 ELSE 0
        /\ \A j \in 1 .. n - (i + 1) + 1 : v[j] = s[i + 1 + j - 1]
    BY <1>1, <2>1, SubSeqProperties
  <2> QED BY <1>1, <2>2
<1>4. RemoveAt(s, i) = u \o v
  BY DEF RemoveAt
<1> HIDE DEF u, v, n
<1>5. /\ u \o v \in Seq(S) /\ Len(u \o v) = n - 1
      /\ \A j \in 1 .. n - 1 : (u \o v)[j] = IF j <= i - 1 THEN u[j] ELSE v[j - (i - 1)]
  <2>1. Len(u) + Len(v) = n - 1
    BY <1>1, <1>2, <1>3
  <2> QED BY <1>2, <1>3, <2>1, ConcatProperties
<1> DEFINE y == u \o v
<1>y. /\ y \in Seq(S) /\ Len(y) = n - 1
      /\ \A j \in 1 .. n - 1 : y[j] = IF j <= i - 1 THEN u[j] ELSE v[j - (i - 1)]
  BY <1>5
<1> HIDE DEF y
<1>6. \A j \in 1 .. n - 1 : y[j] = IF j < i THEN s[j] ELSE s[j + 1]
  <2> TAKE j \in 1 .. n - 1
  <2>1. CASE j < i
    BY <1>1, <1>2, <1>y, <2>1
  <2>2. CASE j >= i
    <3>1. j - (i - 1) \in 1 .. n - i /\ i + (j - (i - 1)) = j + 1
      BY <1>1, <2>2
    <3>2. v[j - (i - 1)] = s[j + 1]
      BY <1>3, <3>1
    <3> QED BY <1>1, <1>y, <2>2, <3>2
  <2> QED BY <1>1, <2>1, <2>2
<1> QED BY <1>4, <1>y, <1>6 DEF y, n

\* Page numbers are natural numbers.
LEMMA PageNat == Page \subseteq Nat
<1>1. 2 ^ MaxOrder \in Nat
  BY Powers DEF Order
<1> QED BY <1>1 DEF Page

\* The loops of deallocate() stop behind the entries that are below a.
LEMMA BelowStops ==
    ASSUME NEW s \in Seq(Page), Ascending(s), NEW a \in Page
    PROVE  /\ Below(s, a) \in 0 .. Len(s)
           /\ \A i \in 1 .. Below(s, a) : s[i] < a
           /\ \A i \in Below(s, a) + 1 .. Len(s) : s[i] >= a
<1> DEFINE rest == {i \in 1 .. Len(s) : s[i] >= a}
           n == Len(s)
<1>1. n \in Nat /\ a \in Nat /\ \A i \in 1 .. n : s[i] \in Nat
  <2>1. n \in Nat /\ \A i \in 1 .. n : s[i] \in Page
    OBVIOUS
  <2> HIDE DEF n
  <2> QED BY <2>1, PageNat
<1>2. Below(s, a) = IF rest = {} THEN n ELSE Min(rest) - 1
  BY DEF Below
<1>3. CASE rest = {}
  <2>1. \A i \in 1 .. n : s[i] < a
    BY <1>1, <1>3
  <2> HIDE DEF rest, n
  <2>2. Below(s, a) = n
    BY <1>2, <1>3
  <2> QED BY <1>1, <2>1, <2>2 DEF n
<1>4. CASE rest # {}
  <2> DEFINE m == Min(rest)
  <2>1. m \in rest /\ \A i \in rest : m <= i
    <3>1. rest \subseteq Nat
      BY <1>1
    <3> HIDE DEF rest
    <3> QED BY <1>4, <3>1, LeastNat
  <2> HIDE DEF m
  <2>2. m \in 1 .. n /\ s[m] >= a
    BY <2>1
  <2>3. \A i \in 1 .. m - 1 : s[i] < a
    BY <1>1, <2>1, <2>2
  <2>4. \A i \in m .. n : s[i] >= a
    <3> TAKE i \in m .. n
    <3>1. CASE i = m
      BY <2>2, <3>1
    <3>2. CASE m < i
      <4>1. s[m] < s[i]
        BY <1>1, <2>2, <3>2 DEF Ascending
      <4>2. s[m] \in Nat /\ s[i] \in Nat
        BY <1>1, <2>2, <3>2
      <4> QED BY <1>1, <2>2, <4>1, <4>2
    <3> QED BY <1>1, <2>2, <3>1, <3>2
  <2>5. Below(s, a) = m - 1
    BY <1>2, <1>4 DEF m
  <2> HIDE DEF n
  <2>6. m - 1 \in 0 .. n /\ m - 1 + 1 = m
    BY <1>1, <2>2
  <2> QED BY <2>3, <2>4, <2>5, <2>6 DEF n
<1> QED BY <1>3, <1>4

\* Linking a block in where the loop stopped keeps the list in order.
LEMMA LinkedIn ==
    ASSUME NEW s \in Seq(Page), Ascending(s), NEW a \in Page, a \notin Elements(s),
           NEW t, t = InsertAt(s, Below(s, a) + 1, a)
    PROVE  t \in Seq(Page) /\ Ascending(t) /\ Elements(t) = Elements(s) \cup {a}
<1> DEFINE k == Below(s, a)
           n == Len(s)
<1>1. n \in Nat /\ a \in Nat /\ \A i \in 1 .. n : s[i] \in Nat /\ s[i] # a
  <2>1. n \in Nat /\ \A i \in 1 .. n : s[i] \in Page
    OBVIOUS
  <2>2. \A i \in 1 .. n : s[i] # a
    BY DEF Elements
  <2> HIDE DEF n
  <2> QED BY <2>1, <2>2, PageNat
<1>2. k \in 0 .. n /\ (\A i \in 1 .. k : s[i] < a) /\ (\A i \in k + 1 .. n : s[i] >= a)
  BY BelowStops
<1> HIDE DEF k
<1>3. k + 1 \in 1 .. n + 1
  BY <1>1, <1>2
<1>4. /\ t \in Seq(Page) /\ Len(t) = n + 1
      /\ \A j \in 1 .. n + 1 : t[j] = IF j < k + 1 THEN s[j] ELSE IF j = k + 1 THEN a ELSE s[j - 1]
  <2>1. t = InsertAt(s, k + 1, a)
    BY DEF k
  <2> QED BY <1>3, <2>1, InsertAtIs
<1>5. \A i, j \in 1 .. n : i < j => s[i] < s[j]
  BY DEF Ascending
<1>6. Elements(s) = {s[i] : i \in 1 .. n}
  BY DEF Elements
<1> HIDE DEF n
<1>7. \A i, j \in 1 .. n + 1 : i < j => t[i] < t[j]
  <2> SUFFICES ASSUME NEW i \in 1 .. n + 1, NEW j \in 1 .. n + 1, i < j PROVE t[i] < t[j]
    OBVIOUS
  <2>1. CASE j < k + 1
    BY <1>1, <1>2, <1>4, <1>5, <2>1
  <2>2. CASE j = k + 1
    <3>1. t[j] = a /\ t[i] = s[i] /\ i \in 1 .. k
      BY <1>1, <1>2, <1>4, <2>2
    <3> QED BY <1>2, <3>1
  <2>3. CASE j > k + 1
    <3>1. t[j] = s[j - 1] /\ j - 1 \in k + 1 .. n /\ j - 1 \in 1 .. n
      BY <1>1, <1>2, <1>4, <2>3
    <3>2. s[j - 1] > a
      BY <1>1, <1>2, <3>1
    <3>3. CASE i < k + 1
      <4>1. t[i] = s[i] /\ i \in 1 .. k /\ i \in 1 .. n
        BY <1>1, <1>2, <1>4, <3>3
      <4>2. s[i] < a
        BY <1>2, <4>1
      <4> QED BY <1>1, <3>1, <3>2, <4>1, <4>2
    <3>4. CASE i = k + 1
      BY <1>4, <3>1, <3>2, <3>4, <1>1
    <3>5. CASE i > k + 1
      <4>1. t[i] = s[i - 1] /\ i - 1 \in 1 .. n /\ i - 1 < j - 1
        BY <1>1, <1>2, <1>4, <3>5
      <4> QED BY <1>5, <3>1, <4>1
    <3> QED BY <1>1, <1>2, <3>3, <3>4, <3>5
  <2> QED BY <1>1, <1>2, <2>1, <2>2, <2>3
<1>8. \A x : x \in Elements(t) <=> x \in Elements(s) \cup {a}
  <2> TAKE x
  <2>1. x \in Elements(t) <=> \E j \in 1 .. n + 1 : x = t[j]
    BY <1>4 DEF Elements
  <2>2. ASSUME NEW j \in 1 .. n + 1, x = t[j] PROVE x \in Elements(s) \cup {a}
    <3>1. CASE j < k + 1
      <4>1. x = s[j] /\ j \in 1 .. n
        BY <1>1, <1>2, <1>4, <2>2, <3>1
      <4> QED BY <1>6, <4>1
    <3>2. CASE j = k + 1
      BY <1>4, <2>2, <3>2, <1>1
    <3>3. CASE j > k + 1
      <4>1. x = s[j - 1] /\ j - 1 \in 1 .. n
        BY <1>1, <1>2, <1>4, <2>2, <3>3
      <4> QED BY <1>6, <4>1
    <3> QED BY <1>1, <1>2, <3>1, <3>2, <3>3
  <2>3. x = a => x = t[k + 1]
    BY <1>3, <1>4
  <2>4. ASSUME NEW j \in 1 .. n, x = s[j] PROVE \E i \in 1 .. n + 1 : x = t[i]
    <3>1. CASE j < k + 1
      <4>1. x = t[j] /\ j \in 1 .. n + 1
        BY <1>1, <1>2, <1>4, <2>4, <3>1
      <4> QED BY <4>1
    <3>2. CASE j >= k + 1
      <4>1. j + 1 \in 1 .. n + 1 /\ j + 1 > k + 1 /\ j + 1 - 1 = j
        BY <1>1, <1>2, <3>2
      <4>2. x = t[j + 1]
        BY <1>2, <1>4, <2>4, <4>1
      <4> QED BY <4>1, <4>2
    <3> QED BY <1>1, <1>2, <3>1, <3>2
  <2> QED BY <1>3, <1>6, <2>1, <2>2, <2>3, <2>4
<1>9. Ascending(t)
  BY <1>4, <1>7 DEF Ascending
<1> QED BY <1>4, <1>8, <1>9

\* Taking a block out keeps the list in order.
LEMMA TakenOut ==
    ASSUME NEW s \in Seq(Page), Ascending(s), NEW i \in 1 .. Len(s), NEW t \in Seq(Page),
           Len(t) = Len(s) - 1, \A j \in 1 .. Len(s) - 1 : t[j] = IF j < i THEN s[j] ELSE s[j + 1]
    PROVE  Ascending(t) /\ Elements(t) = Elements(s) \ {s[i]}
<1> DEFINE n == Len(s)
<1>1. n \in Nat /\ i \in 1 .. n /\ \A j \in 1 .. n : s[j] \in Nat
  <2>1. n \in Nat /\ i \in 1 .. n /\ \A j \in 1 .. n : s[j] \in Page
    OBVIOUS
  <2> HIDE DEF n
  <2> QED BY <2>1, PageNat
<1>2. Len(t) = n - 1 /\ \A j \in 1 .. n - 1 : t[j] = IF j < i THEN s[j] ELSE s[j + 1]
  OBVIOUS
<1>3. \A j, k \in 1 .. n : j < k => s[j] < s[k]
  BY DEF Ascending
<1>4. Elements(s) = {s[j] : j \in 1 .. n}
  BY DEF Elements
<1> HIDE DEF n
<1>5. \A j, k \in 1 .. n - 1 : j < k => t[j] < t[k]
  <2> SUFFICES ASSUME NEW j \in 1 .. n - 1, NEW k \in 1 .. n - 1, j < k PROVE t[j] < t[k]
    OBVIOUS
  <2>1. j \in 1 .. n /\ k \in 1 .. n /\ j + 1 \in 1 .. n /\ k + 1 \in 1 .. n
    BY <1>1
  <2>2. CASE k < i
    BY <1>1, <1>2, <1>3, <2>1, <2>2
  <2>3. CASE k >= i /\ j < i
    <3>1. t[j] = s[j] /\ t[k] = s[k + 1] /\ j < k + 1
      BY <1>1, <1>2, <2>3
    <3> QED BY <1>3, <2>1, <3>1
  <2>4. CASE j >= i
    <3>1. t[j] = s[j + 1] /\ t[k] = s[k + 1] /\ j + 1 < k + 1
      BY <1>1, <1>2, <2>4
    <3> QED BY <1>3, <2>1, <3>1
  <2> QED BY <1>1, <2>2, <2>3, <2>4
<1>6. \A x : x \in Elements(t) <=> x \in Elements(s) \ {s[i]}
  <2> TAKE x
  <2>1. x \in Elements(t) <=> \E j \in 1 .. n - 1 : x = t[j]
    BY <1>2 DEF Elements
  <2>2. ASSUME NEW j \in 1 .. n - 1, x = t[j] PROVE x \in Elements(s) \ {s[i]}
    <3>1. PICK k \in 1 .. n : x = s[k] /\ k # i
      <4>1. CASE j < i
        <5>1. x = s[j] /\ j \in 1 .. n /\ j # i
          BY <1>1, <1>2, <2>2, <4>1
        <5> QED BY <5>1
      <4>2. CASE j >= i
        <5>1. x = s[j + 1] /\ j + 1 \in 1 .. n /\ j + 1 # i
          BY <1>1, <1>2, <2>2, <4>2
        <5> QED BY <5>1
      <4> QED BY <1>1, <4>1, <4>2
    <3>2. s[k] # s[i]
      <4>1. k < i \/ i < k
        BY <1>1, <3>1
      <4>2. s[k] < s[i] \/ s[i] < s[k]
        BY <1>1, <1>3, <3>1, <4>1
      <4> QED BY <1>1, <3>1, <4>2
    <3> QED BY <1>4, <3>1, <3>2
  <2>3. ASSUME NEW j \in 1 .. n, x = s[j], x # s[i] PROVE \E k \in 1 .. n - 1 : x = t[k]
    <3>1. CASE j < i
      <4>1. x = t[j] /\ j \in 1 .. n - 1
        BY <1>1, <1>2, <2>3, <3>1
      <4> QED BY <4>1
    <3>2. CASE j > i
      <4>1. j - 1 \in 1 .. n - 1 /\ ~(j - 1 < i) /\ j - 1 + 1 = j
        BY <1>1, <3>2
      <4>2. x = t[j - 1]
        BY <1>2, <2>3, <4>1
      <4> QED BY <4>1, <4>2
    <3>3. j # i
      BY <2>3
    <3> QED BY <1>1, <3>1, <3>2, <3>3
  <2> QED BY <1>4, <2>1, <2>2, <2>3
<1>7. Ascending(t)
  BY <1>2, <1>5 DEF Ascending
<1> QED BY <1>6, <1>7

\* The even one of two buddies, and the odd one, with the tag removed.
LEMMA TagOfHalves ==
    ASSUME NEW o \in 0 .. MaxOrder - 1, NEW t \in Nat, Aligned(t, o + 1)
    PROVE  RemoveTag(t, o) = t /\ RemoveTag(t + 2 ^ o, o) = t
<1> DEFINE w == 2 ^ o
           r == t \div 2 ^ (o + 1)
<1>1. o \in Order /\ o + 1 \in Order /\ 2 ^ (o + 1) = 2 * w /\ w \in Nat /\ w >= 1
  BY Powers DEF Order
<1>2. r \in Nat /\ t = r * 2 ^ (o + 1)
  BY <1>1, AlignedIs
<1>3. t = r * (2 * w)
  BY <1>1, <1>2
<1>4. /\ RemoveTag(t, o) = IF (t \div w) % 2 = 1 THEN t - w ELSE t
      /\ RemoveTag(t + w, o) = IF ((t + w) \div w) % 2 = 1 THEN t + w - w ELSE t + w
  BY DEF RemoveTag
<1> HIDE DEF r, w
<1>5. t = (2 * r) * w /\ t + w = (2 * r + 1) * w
  BY <1>1, <1>2, <1>3
<1>6. t \div w = 2 * r /\ (t + w) \div w = 2 * r + 1
  <2>1. 2 * r \in Int /\ 2 * r + 1 \in Int
    BY <1>2
  <2> QED BY <1>1, <1>5, <2>1, Quotient
<1>7. (2 * r) % 2 = 0 /\ (2 * r + 1) % 2 = 1
  BY <1>2
<1>8. RemoveTag(t, o) = t /\ RemoveTag(t + w, o) = t
  BY <1>1, <1>4, <1>6, <1>7
<1> QED BY <1>8 DEF w

\* deallocate() finds the buddy exactly if it is in the list.
LEMMA BuddyFound ==
    ASSUME NEW o \in 0 .. MaxOrder - 1, NEW s \in Seq(Page), Ascending(s),
           \A x \in Elements(s) : Aligned(x, o),
           NEW a \in Page, Aligned(a, o), a \notin Elements(s)
    PROVE  /\ BuddyAt(s, a, o) = 0 => \A x \in Elements(s) : RemoveTag(x, o) # RemoveTag(a, o)
           /\ BuddyAt(s, a, o) # 0 =>
                  /\ BuddyAt(s, a, o) \in 1 .. Len(s)
                  /\ s[BuddyAt(s, a, o)] # a
                  /\ RemoveTag(s[BuddyAt(s, a, o)], o) = RemoveTag(a, o)
<1> DEFINE k == Below(s, a)
           n == Len(s)
           w == 2 ^ o
           i == IF Odd(a, o) THEN k ELSE k + 1
           tag == RemoveTag(a, o)
<1>1. n \in Nat /\ a \in Nat /\ \A j \in 1 .. n : s[j] \in Nat /\ s[j] # a /\ Aligned(s[j], o)
  <2>1. n \in Nat /\ \A j \in 1 .. n : s[j] \in Page /\ s[j] \in Elements(s)
    BY DEF Elements
  <2> HIDE DEF n
  <2> QED BY <2>1, PageNat
<1>2. k \in 0 .. n /\ (\A j \in 1 .. k : s[j] < a) /\ (\A j \in k + 1 .. n : s[j] >= a)
  BY BelowStops
<1>3. BuddyAt(s, a, o) = IF /\ i \in 1 .. n
                            /\ IF Odd(a, o) THEN tag = s[i] ELSE a = RemoveTag(s[i], o)
                         THEN i ELSE 0
  BY DEF BuddyAt
<1>4. Odd(a, o) <=> tag # a
  BY DEF Odd
<1>5. w \in Nat /\ w >= 1 /\ o \in Order
  BY Powers DEF Order
<1>6. tag \in Nat /\ (tag = a \/ tag = a - w) /\ Aligned(tag, o + 1)
  BY <1>1, TagFacts
<1>7. \A j, l \in 1 .. n : j < l => s[j] < s[l]
  BY DEF Ascending
<1>8. \A x \in Elements(s) : \E j \in 1 .. n : x = s[j]
  BY DEF Elements
<1> DEFINE found == BuddyAt(s, a, o)
<1> HIDE DEF k, n, w, tag, found
<1>9. ASSUME found = 0, NEW x \in Elements(s), RemoveTag(x, o) = tag PROVE FALSE
  <2>1. PICK j \in 1 .. n : x = s[j]
    BY <1>8
  <2>2. x \in Nat /\ x # a /\ Aligned(x, o)
    BY <1>1, <2>1
  <2>3. \/ a = tag /\ x = a + w
        \/ x = tag /\ a = x + w
    <3>1. RemoveTag(a, o) = RemoveTag(x, o)
      BY <1>9 DEF tag
    <3> QED BY <1>1, <2>2, <3>1, SameTag DEF tag, w
  <2>4. CASE a = tag /\ x = a + w
    <3>1. i = k + 1 /\ ~Odd(a, o)
      BY <1>4, <2>4
    <3>2. j > k
      <4>1. ~(s[j] < a)
        BY <1>1, <1>5, <2>1, <2>4
      <4>2. ~(j \in 1 .. k)
        BY <1>2, <4>1
      <4> QED BY <1>1, <1>2, <4>2
    <3>3. k + 1 \in 1 .. n /\ k + 1 \in k + 1 .. n
      BY <1>1, <1>2, <3>2
    <3>4. s[k + 1] \in Nat /\ s[k + 1] # a /\ s[k + 1] >= a /\ Aligned(s[k + 1], o)
      BY <1>1, <1>2, <3>3
    <3>5. a + w <= s[k + 1]
      <4>1. a < s[k + 1]
        BY <1>1, <3>4
      <4> QED BY <1>1, <1>5, <3>4, <4>1, AlignedApart DEF w
    <3>6. s[k + 1] = x
      <4>1. CASE j = k + 1
        BY <2>1, <4>1
      <4>2. CASE k + 1 < j
        <5>1. s[k + 1] < s[j]
          BY <1>7, <3>3, <4>2
        <5> QED BY <1>5, <2>1, <2>2, <2>4, <3>4, <3>5, <5>1
      <4> QED BY <1>1, <1>2, <3>2, <4>1, <4>2
    <3>7. a = RemoveTag(s[i], o) /\ i \in 1 .. n
      BY <1>9, <2>4, <3>1, <3>3, <3>6
    <3>8. found = i
      BY <1>3, <3>1, <3>7 DEF found
    <3>9. i # 0
      BY <1>2, <3>1
    <3> QED BY <1>9, <3>8, <3>9
  <2>5. CASE x = tag /\ a = x + w
    <3>1. tag # a
      BY <1>5, <2>2, <2>5
    <3>2. i = k /\ Odd(a, o)
      BY <1>4, <3>1
    <3>3. j <= k
      <4>1. ~(s[j] >= a)
        BY <1>1, <1>5, <2>1, <2>2, <2>5
      <4>2. ~(j \in k + 1 .. n)
        BY <1>2, <4>1
      <4> QED BY <1>1, <1>2, <4>2
    <3>4. k \in 1 .. n /\ k \in 1 .. k
      BY <1>1, <1>2, <3>3
    <3>5. s[k] \in Nat /\ s[k] < a /\ Aligned(s[k], o)
      BY <1>1, <1>2, <3>4
    <3>6. s[k] + w <= a
      BY <1>1, <1>5, <3>5, AlignedApart DEF w
    <3>7. s[k] = x
      <4>1. CASE j = k
        BY <2>1, <4>1
      <4>2. CASE j < k
        <5>1. s[j] < s[k]
          BY <1>7, <3>4, <4>2
        <5> QED BY <1>5, <2>1, <2>2, <2>5, <3>5, <3>6, <5>1
      <4> QED BY <1>1, <1>2, <3>3, <4>1, <4>2
    <3>8. tag = s[i] /\ i \in 1 .. n
      BY <2>5, <3>2, <3>4, <3>7
    <3>9. found = i
      BY <1>3, <3>2, <3>8 DEF found
    <3>10. i # 0
      BY <3>2, <3>4
    <3> QED BY <1>9, <3>9, <3>10
  <2> QED BY <2>3, <2>4, <2>5
<1>10. ASSUME found # 0 PROVE found \in 1 .. n /\ s[found] # a /\ RemoveTag(s[found], o) = tag
  <2>1. /\ i \in 1 .. n /\ found = i
        /\ IF Odd(a, o) THEN tag = s[i] ELSE a = RemoveTag(s[i], o)
    BY <1>3, <1>10 DEF found
  <2> HIDE DEF i
  <2>2. s[i] # a
    BY <1>1, <2>1
  <2>3. CASE Odd(a, o)
    <3>1. RemoveTag(tag, o) = tag
      BY <1>6, TagOfHalves
    <3> QED BY <2>1, <2>2, <2>3, <3>1
  <2>4. CASE ~Odd(a, o)
    BY <1>4, <2>1, <2>2, <2>4
  <2> QED BY <2>3, <2>4
<1> QED BY <1>9, <1>10 DEF found, n, tag

\* The set T is S with b, or without b, which is an element of S.
Gains(T, S, b) == \A e : e \in T <=> e \in S \/ e = b
Loses(T, S, b) == \A e : e \in T <=> e \in S /\ e # b

\* The pool after a block was linked into the list of its order.
LEMMA PoolWith ==
    ASSUME NEW pl \in [Order -> Seq(Page)], NEW o \in Order, NEW t \in Seq(Page), NEW a \in Page,
           Gains(Elements(t), Elements(pl[o]), a)
    PROVE  /\ [pl EXCEPT ![o] = t] \in [Order -> Seq(Page)]
           /\ Gains(FreeIn([pl EXCEPT ![o] = t]), FreeIn(pl), <<a, o>>)
<1> DEFINE np == [pl EXCEPT ![o] = t]
<1>1. np \in [Order -> Seq(Page)] /\ \A j \in Order : np[j] = IF j = o THEN t ELSE pl[j]
  OBVIOUS
<1> HIDE DEF np
<1>2. ASSUME NEW b \in Page \X Order PROVE b \in FreeIn(np) <=> b \in FreeIn(pl) \cup {<<a, o>>}
  <2>1. b = <<b[1], b[2]>> /\ b[1] \in Page /\ b[2] \in Order
    BY <1>2
  <2>2. b \in FreeIn(np) <=> b[1] \in Elements(np[b[2]])
    BY <1>2 DEF FreeIn
  <2>3. b \in FreeIn(pl) <=> b[1] \in Elements(pl[b[2]])
    BY <1>2 DEF FreeIn
  <2>4. b = <<a, o>> <=> b[1] = a /\ b[2] = o
    BY <2>1
  <2> QED BY <1>1, <2>1, <2>2, <2>3, <2>4 DEF Gains
<1>3. FreeIn(np) \subseteq Page \X Order /\ FreeIn(pl) \cup {<<a, o>>} \subseteq Page \X Order
  BY DEF FreeIn
<1>4. Gains(FreeIn(np), FreeIn(pl), <<a, o>>)
  BY <1>2, <1>3 DEF Gains
<1> QED BY <1>1, <1>4 DEF np

\* The pool after a block was taken from the list of its order.
LEMMA PoolWithout ==
    ASSUME NEW pl \in [Order -> Seq(Page)], NEW o \in Order, NEW t \in Seq(Page), NEW a \in Page,
           Loses(Elements(t), Elements(pl[o]), a)
    PROVE  /\ [pl EXCEPT ![o] = t] \in [Order -> Seq(Page)]
           /\ Loses(FreeIn([pl EXCEPT ![o] = t]), FreeIn(pl), <<a, o>>)
<1> DEFINE np == [pl EXCEPT ![o] = t]
<1>1. np \in [Order -> Seq(Page)] /\ \A j \in Order : np[j] = IF j = o THEN t ELSE pl[j]
  OBVIOUS
<1> HIDE DEF np
<1>2. ASSUME NEW b \in Page \X Order PROVE b \in FreeIn(np) <=> b \in FreeIn(pl) \ {<<a, o>>}
  <2>1. b = <<b[1], b[2]>> /\ b[1] \in Page /\ b[2] \in Order
    BY <1>2
  <2>2. b \in FreeIn(np) <=> b[1] \in Elements(np[b[2]])
    BY <1>2 DEF FreeIn
  <2>3. b \in FreeIn(pl) <=> b[1] \in Elements(pl[b[2]])
    BY <1>2 DEF FreeIn
  <2>4. b = <<a, o>> <=> b[1] = a /\ b[2] = o
    BY <2>1
  <2> QED BY <1>1, <2>1, <2>2, <2>3, <2>4 DEF Loses
<1>3. FreeIn(np) \subseteq Page \X Order /\ FreeIn(pl) \ {<<a, o>>} \subseteq Page \X Order
  BY DEF FreeIn
<1>4. Loses(FreeIn(np), FreeIn(pl), <<a, o>>)
  BY <1>2, <1>3 DEF Loses
<1> QED BY <1>1, <1>4 DEF np

\* Changing one list for another one in order leaves all lists in order.
LEMMA OrderlyUpdate ==
    ASSUME NEW pl, Orderly(pl), NEW o \in Order, NEW t \in Seq(Page), Ascending(t), Lonely(t, o)
    PROVE  Orderly([pl EXCEPT ![o] = t])
<1> DEFINE np == [pl EXCEPT ![o] = t]
<1>1. pl \in [Order -> Seq(Page)]
  BY DEF Orderly
<1>2. np \in [Order -> Seq(Page)] /\ \A j \in Order : np[j] = IF j = o THEN t ELSE pl[j]
  BY <1>1
<1> HIDE DEF np
<1>3. \A j \in Order : Ascending(np[j])
  BY <1>2 DEF Orderly
<1>4. \A j \in Order : Lonely(np[j], j)
  BY <1>2 DEF Orderly
<1>5. Orderly(np)
  BY <1>2, <1>3, <1>4 DEF Orderly
<1> QED BY <1>5 DEF np

\* The pool after one call of deallocate(): Release().
PoolAfter(pl, a, o) ==
    LET i == BuddyAt(pl[o], a, o)
    IN  IF i = 0 THEN [pl EXCEPT ![o] = InsertAt(pl[o], Below(pl[o], a) + 1, a)]
                 ELSE [pl EXCEPT ![o] = RemoveAt(pl[o], i)]

\* The free blocks, the block b and the blocks B, all different, are a tiling.
Accounted(pl, b, B, lo) ==
    /\ Tiling(FreeIn(pl) \cup {b} \cup B, lo)
    /\ b \notin FreeIn(pl) /\ b \notin B /\ FreeIn(pl) \cap B = {}

\* One call of deallocate(): the block is linked in, or it and its buddy become
\* the block of twice the size.  B are the blocks that are not concerned.
LEMMA Released ==
    ASSUME NEW pl, Orderly(pl), NEW lo \in Nat, lo >= 1, NEW a, NEW o, NEW B,
           Accounted(pl, <<a, o>>, B, lo)
    PROVE  /\ a \in Page /\ o \in 0 .. MaxOrder - 1
           /\ Orderly(PoolAfter(pl, a, o))
           /\ BuddyAt(pl[o], a, o) = 0 => Gains(FreeIn(PoolAfter(pl, a, o)), FreeIn(pl), <<a, o>>)
           /\ BuddyAt(pl[o], a, o) # 0 =>
                  /\ RemoveTag(a, o) \in Page /\ o + 1 \in Order
                  /\ Accounted(PoolAfter(pl, a, o), <<RemoveTag(a, o), o + 1>>, B, lo)
<1> DEFINE i == BuddyAt(pl[o], a, o)
<1>a. /\ Tiling(FreeIn(pl) \cup {<<a, o>>} \cup B, lo)
      /\ <<a, o>> \notin FreeIn(pl) /\ <<a, o>> \notin B /\ FreeIn(pl) \cap B = {}
  BY DEF Accounted
<1>b. PoolAfter(pl, a, o) = IF i = 0 THEN [pl EXCEPT ![o] = InsertAt(pl[o], Below(pl[o], a) + 1, a)]
                                     ELSE [pl EXCEPT ![o] = RemoveAt(pl[o], i)]
  BY DEF PoolAfter
<1> DEFINE s == pl[o]
           U == FreeIn(pl) \cup {<<a, o>>} \cup B
           w == 2 ^ o
           tag == RemoveTag(a, o)
<1>1. a \in Page /\ o \in 0 .. MaxOrder - 1 /\ o \in Order /\ Aligned(a, o) /\ a \in Nat
  <2>1. <<a, o>>[1] = a /\ <<a, o>>[2] = o /\ <<a, o>> \in U
    OBVIOUS
  <2> HIDE DEF U
  <2>2. <<a, o>> \in Page \X Order /\ o \in 0 .. MaxOrder - 1 /\ a \in Nat /\ Aligned(a, o)
    BY <1>a, <2>1, BelowMaxOrder DEF U
  <2> QED BY <2>2
<1>2. pl \in [Order -> Seq(Page)] /\ s \in Seq(Page) /\ Ascending(s) /\ Lonely(s, o)
  BY <1>1 DEF Orderly
<1>3. \A x \in Elements(s) : x \in Page /\ <<x, o>> \in FreeIn(pl)
  <2> TAKE x \in Elements(s)
  <2>1. x \in Page
    BY <1>2 DEF Elements
  <2> QED BY <1>1, <2>1 DEF FreeIn
<1>4. \A x \in Elements(s) : Aligned(x, o)
  <2> TAKE x \in Elements(s)
  <2>1. <<x, o>> \in U /\ <<x, o>>[1] = x /\ <<x, o>>[2] = o
    BY <1>3
  <2> HIDE DEF U
  <2> QED BY <1>a, <2>1 DEF Tiling, U
<1>5. a \notin Elements(s)
  BY <1>a, <1>3
<1>6. /\ i = 0 => \A x \in Elements(s) : RemoveTag(x, o) # tag
      /\ i # 0 => i \in 1 .. Len(s) /\ s[i] # a /\ RemoveTag(s[i], o) = tag
  <2> HIDE DEF s
  <2>1. i = BuddyAt(s, a, o)
    BY DEF s
  <2> HIDE DEF i
  <2> QED BY <1>1, <1>2, <1>4, <1>5, <2>1, BuddyFound
<1>c. PoolAfter(pl, a, o) = IF i = 0 THEN [pl EXCEPT ![o] = InsertAt(s, Below(s, a) + 1, a)]
                                     ELSE [pl EXCEPT ![o] = RemoveAt(s, i)]
  BY <1>b
<1> HIDE DEF s, tag, i
<1>7. CASE i = 0
  <2> DEFINE v == InsertAt(s, Below(s, a) + 1, a)
             np == [pl EXCEPT ![o] = v]
  <2>1. v \in Seq(Page) /\ Ascending(v) /\ Elements(v) = Elements(s) \cup {a}
    BY <1>1, <1>2, <1>5, LinkedIn
  <2> HIDE DEF v
  <2>2. Lonely(v, o)
    BY <1>2, <1>6, <1>7, <2>1 DEF Lonely, tag
  <2>3. Orderly(np)
    BY <1>1, <2>1, <2>2, OrderlyUpdate
  <2>4. Gains(FreeIn(np), FreeIn(pl), <<a, o>>)
    <3>1. Gains(Elements(v), Elements(pl[o]), a)
      BY <2>1 DEF Gains, s
    <3> QED BY <1>1, <1>2, <2>1, <3>1, PoolWith
  <2>5. PoolAfter(pl, a, o) = np
    BY <1>7, <1>c DEF v
  <2> HIDE DEF np
  <2> QED BY <1>1, <1>7, <2>3, <2>4, <2>5 DEF i
<1>8. CASE i # 0
  <2> DEFINE v == RemoveAt(s, i)
             np == [pl EXCEPT ![o] = v]
             x == s[i]
  <2>1. i \in 1 .. Len(s) /\ x # a /\ RemoveTag(x, o) = tag /\ x \in Elements(s)
    BY <1>6, <1>8 DEF Elements
  <2>2. v \in Seq(Page) /\ Ascending(v) /\ Elements(v) = Elements(s) \ {x}
    <3>1. /\ v \in Seq(Page) /\ Len(v) = Len(s) - 1
          /\ \A j \in 1 .. Len(s) - 1 : v[j] = IF j < i THEN s[j] ELSE s[j + 1]
      BY <1>2, <2>1, RemoveAtIs
    <3> HIDE DEF v
    <3> QED BY <1>2, <2>1, <3>1, TakenOut
  <2> HIDE DEF v, x
  <2>3. Lonely(v, o)
    BY <1>2, <2>2 DEF Lonely
  <2>4. Orderly(np)
    BY <1>1, <2>2, <2>3, OrderlyUpdate
  <2>5. x \in Page /\ x \in Nat /\ Aligned(x, o) /\ <<x, o>> \in FreeIn(pl)
    BY <1>3, <1>4, <2>1, PageNat
  <2>6. Loses(FreeIn(np), FreeIn(pl), <<x, o>>)
    <3>1. Loses(Elements(v), Elements(pl[o]), x)
      BY <2>2 DEF Loses, s
    <3>2. v \in Seq(Page) /\ x \in Page /\ o \in Order /\ pl \in [Order -> Seq(Page)]
      BY <1>1, <1>2, <2>2, <2>5
    <3> QED BY <3>1, <3>2, PoolWithout
  <2>7. \/ a = tag /\ x = tag + w
        \/ x = tag /\ a = tag + w
    BY <1>1, <2>1, <2>5, SameTag DEF tag
  <2>8. tag \in Nat /\ Aligned(tag, o + 1)
    BY <1>1, TagFacts DEF tag
  <2>9. <<tag, o>> \in U /\ <<tag + w, o>> \in U /\ {<<tag, o>>, <<tag + w, o>>} = {<<a, o>>, <<x, o>>}
    BY <2>5, <2>7
  <2>10. /\ Tiling((U \ {<<tag, o>>, <<tag + w, o>>}) \cup {<<tag, o + 1>>}, lo)
         /\ <<tag, o + 1>> \notin U /\ tag \in Page /\ o + 1 \in Order
    <3> HIDE DEF U
    <3>1. Tiling(U, lo)
      BY <1>a DEF U
    <3> QED BY <1>1, <2>8, <2>9, <3>1, TilingMerge
  <2>11. <<x, o>> \notin B
    BY <1>a, <2>5
  <2>12. (U \ {<<tag, o>>, <<tag + w, o>>}) \cup {<<tag, o + 1>>} = FreeIn(np) \cup {<<tag, o + 1>>} \cup B
    <3> HIDE DEF np
    <3> DEFINE c == <<a, o>>  d == <<x, o>>  f == <<tag, o + 1>>  g == <<tag, o>>  h == <<tag + w, o>>
    <3>2. (g = c /\ h = d) \/ (g = d /\ h = c)
      BY <2>7
    <3>3. c \notin FreeIn(pl) /\ c \notin B /\ d \notin B
      BY <1>a, <2>11
    <3>4. Loses(FreeIn(np), FreeIn(pl), d) /\ U = FreeIn(pl) \cup {c} \cup B
      BY <2>6
    <3> HIDE DEF c, d, f, g, h, U
    <3>5. (U \ {g, h}) \cup {f} = FreeIn(np) \cup {f} \cup B
      BY <3>2, <3>3, <3>4 DEF Loses
    <3> QED BY <3>5 DEF f, g, h
  <2>13. Tiling(FreeIn(np) \cup {<<tag, o + 1>>} \cup B, lo)
    BY <2>10, <2>12
  <2>14. <<tag, o + 1>> \notin FreeIn(np) \cup B /\ FreeIn(np) \cap B = {}
    <3> HIDE DEF np
    <3> QED BY <1>a, <2>6, <2>10 DEF Loses
  <2>15. PoolAfter(pl, a, o) = np
    BY <1>8, <1>c DEF v
  <2> HIDE DEF np
  <2>16. Accounted(np, <<tag, o + 1>>, B, lo)
    BY <2>13, <2>14 DEF Accounted
  <2> QED BY <1>1, <1>8, <2>4, <2>10, <2>15, <2>16 DEF i, tag
<1> QED BY <1>7, <1>8

-----------------------------------------------------------------------------
(* allocate() and deallocate() keep the invariant. *)

\* The head of a list leaves it.
LEMMA Popped ==
    ASSUME NEW pl, Orderly(pl), NEW o \in Order, pl[o] # <<>>
    PROVE  LET np == [pl EXCEPT ![o] = Tail(pl[o])]
               b  == <<Head(pl[o]), o>>
           IN  /\ Orderly(np) /\ Head(pl[o]) \in Page /\ b \in FreeIn(pl)
               /\ Loses(FreeIn(np), FreeIn(pl), b)
<1> DEFINE s == pl[o]
           v == Tail(s)
           x == Head(s)
           np == [pl EXCEPT ![o] = v]
<1>1. pl \in [Order -> Seq(Page)] /\ s \in Seq(Page) /\ Ascending(s) /\ Lonely(s, o)
  BY DEF Orderly
<1>2. Len(s) \in Nat /\ Len(s) >= 1 /\ x = s[1] /\ x \in Page
  BY <1>1
<1>3. v \in Seq(Page) /\ Len(v) = Len(s) - 1 /\ \A j \in 1 .. Len(s) - 1 : v[j] = s[j + 1]
  BY <1>1, HeadTailProperties
<1> HIDE DEF v, x
<1>4. Ascending(v) /\ Elements(v) = Elements(s) \ {x}
  <2>1. 1 \in 1 .. Len(s) /\ \A j \in 1 .. Len(s) - 1 : v[j] = IF j < 1 THEN s[j] ELSE s[j + 1]
    BY <1>2, <1>3
  <2> HIDE DEF s
  <2> QED BY <1>1, <1>2, <1>3, <2>1, TakenOut
<1>5. Lonely(v, o)
  BY <1>1, <1>4 DEF Lonely
<1>6. Orderly(np)
  BY <1>3, <1>4, <1>5, OrderlyUpdate
<1>7. Loses(FreeIn(np), FreeIn(pl), <<x, o>>)
  <2>1. Loses(Elements(v), Elements(pl[o]), x)
    BY <1>4 DEF Loses
  <2> QED BY <1>1, <1>2, <1>3, <2>1, PoolWithout
<1>8. <<x, o>> \in FreeIn(pl)
  <2>1. x \in Elements(s)
    BY <1>2 DEF Elements
  <2> QED BY <1>2, <2>1 DEF FreeIn
<1> QED BY <1>2, <1>6, <1>7, <1>8 DEF v, x

\* deallocate() of a block that a caller held.
LEMMA DeallocateKeeps ==
    ASSUME IInv, NEW b \in owned, Deallocate(b)
    PROVE  IInv'
<1> DEFINE a == b[1]
           o == b[2]
           B == owned \ {b}
           i == BuddyAt(pool[o], a, o)
<1>1. Typing /\ Orderly(pool) /\ Serving /\ pc = "idle"
  BY DEF IInv, Deallocate
<1>2. b = <<a, o>> /\ b \in Page \X Order
  BY <1>1 DEF Typing
<1>3. /\ owned' = B /\ answer' = NoAnswer
      /\ kernel' = kernel /\ index' = index /\ tmp' = tmp
      /\ pool' = PoolAfter(pool, a, o)
      /\ i = 0 => pc' = pc /\ addr' = addr /\ level' = level /\ power' = power
      /\ i # 0 => pc' = "merge" /\ addr' = RemoveTag(a, o) /\ level' = o + 1 /\ power' = power
  BY DEF Deallocate, Release, PoolAfter, boot, job
<1> DEFINE U == FreeIn(pool) \cup InFlight \cup owned
<1>4. FreeIn(pool) \cap owned = {} /\ Tiling(U, kernel) /\ InFlight = {}
  BY <1>1 DEF Serving, InFlight
<1>5. kernel \in Nat /\ kernel >= 1
  <2>1. 2 ^ MaxOrder \in Nat
    BY Powers DEF Order
  <2> QED BY <1>1, <2>1 DEF Typing
<1> HIDE DEF a, o, i
<1>6. /\ U = FreeIn(pool) \cup {<<a, o>>} \cup B
      /\ <<a, o>> \notin FreeIn(pool) /\ <<a, o>> \notin B /\ FreeIn(pool) \cap B = {}
  BY <1>2, <1>4
<1> HIDE DEF B, U
<1>7. Accounted(pool, <<a, o>>, B, kernel)
  BY <1>4, <1>6 DEF Accounted
<1>8. i = BuddyAt(pool[o], a, o)
  BY DEF i
<1>t. /\ kernel' \in 1 .. 2 ^ MaxOrder /\ index' \in -1 .. MaxOrder - 1 /\ tmp' \in Page \cup {NULL}
      /\ owned' \subseteq Page \X Order /\ answer' \in (Order \cup {NULL}) \X (Page \cup {NULL})
      /\ power' \in Order \cup {NULL}
  BY <1>1, <1>3 DEF Typing, NoAnswer, B
<1>9. CASE i = 0
  <2>1. Orderly(pool') /\ Gains(FreeIn(pool'), FreeIn(pool), <<a, o>>)
    BY <1>1, <1>3, <1>5, <1>7, <1>8, <1>9, Released
  <2>2. InFlight' = {} /\ pc' = "idle" /\ ~Working'
    BY <1>1, <1>3, <1>9 DEF InFlight, Working
  <2>3. FreeIn(pool') \cup InFlight' \cup owned' = U
    BY <1>3, <1>6, <2>1, <2>2 DEF Gains
  <2>4. FreeIn(pool') \cap owned' = {}
    BY <1>3, <1>6, <2>1 DEF Gains
  <2>5. Serving'
    BY <1>3, <1>4, <2>2, <2>3, <2>4 DEF Serving
  <2>6. Typing'
    BY <1>1, <1>3, <1>t, <1>9, <2>2 DEF Typing
  <2> QED BY <2>1, <2>2, <2>5, <2>6 DEF IInv
<1>10. CASE i # 0
  <2>1. /\ Orderly(pool') /\ addr' \in Page /\ level' \in Order
        /\ Accounted(pool', <<addr', level'>>, B, kernel)
    BY <1>1, <1>3, <1>5, <1>7, <1>8, <1>10, Released
  <2>2. InFlight' = {<<addr', level'>>} /\ pc' = "merge"
    BY <1>3, <1>10 DEF InFlight
  <2>3. Serving'
    BY <1>3, <2>1, <2>2 DEF Serving, Accounted
  <2>4. Typing'
    BY <1>t, <2>1, <2>2 DEF Typing
  <2> QED BY <2>1, <2>2, <2>3, <2>4 DEF IInv
<1> QED BY <1>9, <1>10

\* One more turn of the recursion of deallocate().
LEMMA MergeKeeps ==
    ASSUME IInv, Merge
    PROVE  IInv'
<1> DEFINE i == BuddyAt(pool[level], addr, level)
           U == FreeIn(pool) \cup InFlight \cup owned
<1>1. Typing /\ Orderly(pool) /\ Serving /\ pc = "merge"
  BY DEF IInv, Merge
<1>2. /\ owned' = owned /\ answer' = answer
      /\ kernel' = kernel /\ index' = index /\ tmp' = tmp
      /\ pool' = PoolAfter(pool, addr, level)
      /\ i = 0 => pc' = "idle" /\ addr' = NULL /\ level' = NULL /\ power' = NULL
      /\ i # 0 => pc' = "merge" /\ addr' = RemoveTag(addr, level) /\ level' = level + 1 /\ power' = power
  BY DEF Merge, Release, PoolAfter, Return, boot
<1>3. /\ FreeIn(pool) \cap owned = {} /\ Tiling(U, kernel) /\ InFlight = {<<addr, level>>}
      /\ <<addr, level>> \notin FreeIn(pool) \cup owned
  BY <1>1 DEF Serving, InFlight, Working
<1>4. kernel \in Nat /\ kernel >= 1
  <2>1. 2 ^ MaxOrder \in Nat
    BY Powers DEF Order
  <2> QED BY <1>1, <2>1 DEF Typing
<1>5. Accounted(pool, <<addr, level>>, owned, kernel)
  BY <1>3 DEF Accounted
<1> HIDE DEF i, U
<1>6. i = BuddyAt(pool[level], addr, level)
  BY DEF i
<1>t. /\ kernel' \in 1 .. 2 ^ MaxOrder /\ index' \in -1 .. MaxOrder - 1 /\ tmp' \in Page \cup {NULL}
      /\ owned' \subseteq Page \X Order /\ answer' \in (Order \cup {NULL}) \X (Page \cup {NULL})
      /\ power' \in Order \cup {NULL}
  BY <1>1, <1>2 DEF Typing
<1>7. CASE i = 0
  <2>1. Orderly(pool') /\ Gains(FreeIn(pool'), FreeIn(pool), <<addr, level>>)
    BY <1>1, <1>2, <1>4, <1>5, <1>6, <1>7, Released
  <2>2. InFlight' = {} /\ pc' = "idle" /\ ~Working'
    BY <1>2, <1>7 DEF InFlight, Working
  <2>3. FreeIn(pool') \cup InFlight' \cup owned' = U
    BY <1>2, <1>3, <2>1, <2>2 DEF Gains, U
  <2>4. FreeIn(pool') \cap owned' = {}
    BY <1>2, <1>3, <2>1 DEF Gains
  <2>5. Serving'
    BY <1>2, <1>3, <2>2, <2>3, <2>4 DEF Serving
  <2>6. Typing'
    BY <1>2, <1>t, <1>7 DEF Typing
  <2> QED BY <2>1, <2>2, <2>5, <2>6 DEF IInv
<1>8. CASE i # 0
  <2>1. /\ Orderly(pool') /\ addr' \in Page /\ level' \in Order
        /\ Accounted(pool', <<addr', level'>>, owned, kernel)
    BY <1>1, <1>2, <1>4, <1>5, <1>6, <1>8, Released
  <2>2. InFlight' = {<<addr', level'>>} /\ pc' = "merge"
    BY <1>2, <1>8 DEF InFlight
  <2>3. Serving'
    BY <1>2, <2>1, <2>2 DEF Serving, Accounted
  <2>4. Typing'
    BY <1>t, <2>1, <2>2 DEF Typing
  <2> QED BY <2>1, <2>2, <2>3, <2>4 DEF IInv
<1> QED BY <1>7, <1>8

\* allocate(): the first list with a block gives its head, or there is none.
LEMMA AllocateKeeps ==
    ASSUME IInv, NEW order \in Order, Allocate(order)
    PROVE  IInv'
<1>1. Typing /\ Orderly(pool) /\ Serving /\ pc = "idle" /\ InFlight = {}
  BY DEF IInv, Allocate, InFlight
<1>2. kernel' = kernel /\ index' = index /\ tmp' = tmp /\ owned' = owned
  BY DEF Allocate, boot
<1>t. /\ kernel' \in 1 .. 2 ^ MaxOrder /\ index' \in -1 .. MaxOrder - 1 /\ tmp' \in Page \cup {NULL}
      /\ owned' \subseteq Page \X Order
  BY <1>1, <1>2 DEF Typing
<1>3. CASE Available(order) = {}
  <2>1. /\ pc' = pc /\ pool' = pool /\ addr' = addr /\ level' = level /\ power' = power
        /\ answer' = <<order, NULL>>
    BY <1>3 DEF Allocate, job
  <2>2. Typing'
    BY <1>1, <1>t, <2>1 DEF Typing
  <2>3. Orderly(pool') /\ pc' = "idle" /\ InFlight' = {} /\ ~Working'
    BY <1>1, <2>1 DEF InFlight, Working
  <2>4. Serving'
    BY <1>1, <1>2, <2>1, <2>3 DEF Serving
  <2> QED BY <2>2, <2>3, <2>4 DEF IInv
<1>4. CASE Available(order) # {}
  <2> DEFINE l == Min(Available(order))
             x == Head(pool[l])
             b == <<x, l>>
  <2>1. /\ addr' = x /\ level' = l /\ power' = order /\ pool' = [pool EXCEPT ![l] = Tail(pool[l])]
        /\ pc' = "split" /\ answer' = answer
    BY <1>4 DEF Allocate
  <2>2. order \in Nat /\ MaxOrder \in Nat
    BY Powers DEF Order
  <2>3. Available(order) \subseteq Nat
    BY <2>2 DEF Available
  <2>4. l \in Available(order) /\ \A j \in Available(order) : l <= j
    BY <1>4, <2>3, LeastNat
  <2> HIDE DEF l
  <2>5. l \in order .. MaxOrder /\ l \in Order /\ pool[l] # <<>>
    BY <2>2, <2>4 DEF Available, Order
  <2>6. \A j \in order .. l - 1 : pool[j] = <<>>
    <3> TAKE j \in order .. l - 1
    <3>1. j \in order .. MaxOrder /\ ~(l <= j)
      BY <2>2, <2>5
    <3> QED BY <2>4, <3>1 DEF Available
  <2>7. Orderly(pool') /\ x \in Page /\ b \in FreeIn(pool) /\ Loses(FreeIn(pool'), FreeIn(pool), b)
    BY <1>1, <2>1, <2>5, Popped
  <2> HIDE DEF x
  <2>8. \A j \in order .. l - 1 : pool'[j] = <<>>
    <3>1. pool \in [Order -> Seq(Page)]
      BY <1>1 DEF Orderly
    <3> TAKE j \in order .. l - 1
    <3>2. j \in Order /\ j # l
      BY <2>2, <2>5 DEF Order
    <3> QED BY <2>1, <2>6, <3>1, <3>2
  <2>9. InFlight' = {b} /\ addr' = x /\ level' = l
    BY <2>1 DEF InFlight
  <2> HIDE DEF b
  <2>10. FreeIn(pool') \cup InFlight' \cup owned' = FreeIn(pool) \cup InFlight \cup owned
    BY <1>1, <1>2, <2>7, <2>9 DEF Loses
  <2>11. b \notin FreeIn(pool') \cup owned' /\ FreeIn(pool') \cap owned' = {}
    BY <1>1, <1>2, <2>7 DEF Loses, Serving
  <2>12. Tiling(FreeIn(pool') \cup InFlight' \cup owned', kernel')
    <3>1. Tiling(FreeIn(pool) \cup InFlight \cup owned, kernel)
      BY <1>1 DEF Serving
    <3> QED BY <1>2, <2>10, <3>1
  <2>13. addr' \in Page /\ level' \in Order /\ power' \in Order /\ power' <= level'
    BY <2>1, <2>2, <2>5, <2>7 DEF x
  <2>14. <<addr', level'>> \notin FreeIn(pool') \cup owned'
    BY <2>9, <2>11 DEF b
  <2>15. \A j \in power' .. level' - 1 : pool'[j] = <<>>
    BY <2>1, <2>8
  <2>16. Serving'
    BY <2>11, <2>12, <2>13, <2>14, <2>15 DEF Serving
  <2>17. Typing'
    BY <1>1, <1>t, <2>1, <2>13 DEF Typing
  <2> QED BY <2>1, <2>7, <2>16, <2>17 DEF IInv
<1> QED BY <1>3, <1>4

\* Split: the upper half of the block goes to the list of the order below, which
\* is empty.
LEMMA SplitKeeps ==
    ASSUME IInv, Split
    PROVE  IInv'
<1> DEFINE o == level - 1
           rest == addr + 2 ^ o
           U == FreeIn(pool) \cup {<<addr, level>>} \cup owned
           B == owned \cup {<<addr, o>>}
<1>1. Typing /\ Orderly(pool) /\ Serving /\ pc = "split" /\ level > power
  BY DEF IInv, Split
<1>2. /\ addr \in Page /\ level \in Order /\ <<addr, level>> \notin FreeIn(pool) \cup owned
      /\ power \in Order /\ power <= level /\ \A l \in power .. level - 1 : pool[l] = <<>>
      /\ FreeIn(pool) \cap owned = {} /\ Tiling(U, kernel)
  BY <1>1 DEF Serving, Working, InFlight
<1>3. kernel \in Nat /\ kernel >= 1
  <2>1. 2 ^ MaxOrder \in Nat
    BY Powers DEF Order
  <2> QED BY <1>1, <2>1 DEF Typing
<1>4. o \in 0 .. MaxOrder - 1 /\ o + 1 = level /\ o \in power .. level - 1 /\ o \in Order /\ addr \in Nat
  <2>1. MaxOrder \in Nat
    BY Powers
  <2> QED BY <1>1, <1>2, <2>1, PageNat DEF Order
<1>5. 2 ^ o \in Nat /\ 2 ^ o >= 1
  BY <1>4, Powers
<1>6. pool[o] = <<>>
  BY <1>2, <1>4
<1>7. BuddyAt(pool[o], rest, o) = 0
  <2>1. Len(pool[o]) = 0
    BY <1>6
  <2> HIDE DEF o, rest
  <2> QED BY <2>1 DEF BuddyAt
<1>8. /\ kernel' = kernel /\ index' = index /\ tmp' = tmp /\ owned' = owned /\ answer' = answer
      /\ pool' = PoolAfter(pool, rest, o) /\ level' = o /\ pc' = pc /\ addr' = addr /\ power' = power
  BY <1>7 DEF Split, Release, PoolAfter, boot
<1>p. pool' = [pool EXCEPT ![o] = InsertAt(pool[o], Below(pool[o], rest) + 1, rest)]
  BY <1>7 DEF Split, Release
<1> HIDE DEF o, rest, U, B
<1>9. /\ Tiling((U \ {<<addr, level>>}) \cup {<<addr, o>>, <<rest, o>>}, kernel)
      /\ <<addr, o>> \notin U /\ <<rest, o>> \notin U /\ rest \in Page
  <2>1. <<addr, o + 1>> \in U
    BY <1>4 DEF U
  <2> QED BY <1>2, <1>3, <1>4, <2>1, TilingSplit DEF rest
<1>10. <<addr, o>> # <<rest, o>>
  BY <1>4, <1>5 DEF rest
<1>11. Accounted(pool, <<rest, o>>, B, kernel)
  <2> DEFINE d == <<addr, level>>  c == <<addr, o>>  f == <<rest, o>>
  <2>1. /\ U = FreeIn(pool) \cup {d} \cup owned /\ B = owned \cup {c}
        /\ d \notin FreeIn(pool) \cup owned /\ FreeIn(pool) \cap owned = {}
        /\ Tiling((U \ {d}) \cup {c, f}, kernel) /\ c \notin U /\ f \notin U /\ c # f
    BY <1>2, <1>9, <1>10 DEF U, B
  <2> HIDE DEF d, c, f
  <2>2. (U \ {d}) \cup {c, f} = FreeIn(pool) \cup {f} \cup B
    BY <2>1
  <2>3. Accounted(pool, f, B, kernel)
    BY <2>1, <2>2 DEF Accounted
  <2> QED BY <2>3 DEF f
<1>12. Orderly(pool') /\ Gains(FreeIn(pool'), FreeIn(pool), <<rest, o>>)
  BY <1>1, <1>3, <1>7, <1>8, <1>11, Released
<1>13. InFlight' = {<<addr, o>>} /\ pc' = "split"
  BY <1>1, <1>8 DEF InFlight
<1>14. FreeIn(pool') \cup InFlight' \cup owned' = FreeIn(pool) \cup {<<rest, o>>} \cup B
  BY <1>8, <1>12, <1>13 DEF Gains, B
<1>15. Tiling(FreeIn(pool') \cup InFlight' \cup owned', kernel')
  BY <1>8, <1>11, <1>14 DEF Accounted
<1>16. FreeIn(pool') \cap owned' = {} /\ <<addr, o>> \notin FreeIn(pool') \cup owned'
  BY <1>2, <1>8, <1>9, <1>10, <1>12 DEF Gains, U
<1>17. \A l \in power' .. level' - 1 : pool'[l] = <<>>
  <2>1. pool \in [Order -> Seq(Page)]
    BY <1>1 DEF Orderly
  <2> TAKE l \in power' .. level' - 1
  <2>2. l \in power .. o - 1
    BY <1>8
  <2>3. power \in Nat /\ level \in Nat /\ MaxOrder \in Nat /\ level <= MaxOrder
    BY <1>2, Powers DEF Order
  <2>4. l \in power .. level - 1 /\ l # o /\ l \in Order
    BY <1>4, <2>2, <2>3 DEF Order
  <2>5. pool'[l] = pool[l]
    BY <1>p, <2>1, <2>4
  <2> QED BY <1>2, <2>4, <2>5
<1>18. addr' \in Page /\ level' \in Order /\ power' \in Order /\ power' <= level'
  BY <1>2, <1>4, <1>8
<1>19. Serving'
  BY <1>8, <1>15, <1>16, <1>17, <1>18 DEF Serving
<1>20. Typing'
  BY <1>1, <1>8, <1>18 DEF Typing
<1> QED BY <1>12, <1>13, <1>19, <1>20 DEF IInv

\* HandOut: the block under way is the caller's.
LEMMA HandOutKeeps ==
    ASSUME IInv, HandOut
    PROVE  IInv'
<1>1. Typing /\ Orderly(pool) /\ Serving /\ pc = "split"
  BY DEF IInv, HandOut
<1>2. /\ owned' = owned \cup {<<addr, level>>} /\ answer' = <<level, addr>>
      /\ pc' = "idle" /\ addr' = NULL /\ level' = NULL /\ power' = NULL
      /\ kernel' = kernel /\ index' = index /\ tmp' = tmp /\ pool' = pool
  BY DEF HandOut, Return, boot
<1>3. addr \in Page /\ level \in Order /\ <<addr, level>> \notin FreeIn(pool) \cup owned
  BY <1>1 DEF Serving, Working
<1>4. InFlight = {<<addr, level>>} /\ InFlight' = {} /\ ~Working'
  BY <1>1, <1>2 DEF InFlight, Working
<1>5. FreeIn(pool') \cup InFlight' \cup owned' = FreeIn(pool) \cup InFlight \cup owned
  BY <1>2, <1>4
<1>6. Tiling(FreeIn(pool') \cup InFlight' \cup owned', kernel')
  <2>1. Tiling(FreeIn(pool) \cup InFlight \cup owned, kernel)
    BY <1>1 DEF Serving
  <2> QED BY <1>2, <1>5, <2>1
<1>7. FreeIn(pool') \cap owned' = {}
  BY <1>1, <1>2, <1>3 DEF Serving
<1>8. Serving'
  BY <1>2, <1>4, <1>6, <1>7 DEF Serving
<1>9. Typing'
  <2>1. owned' \subseteq Page \X Order
    BY <1>1, <1>2, <1>3 DEF Typing
  <2>2. answer' \in (Order \cup {NULL}) \X (Page \cup {NULL})
    BY <1>2, <1>3
  <2> QED BY <1>1, <1>2, <2>1, <2>2 DEF Typing
<1>10. Orderly(pool') /\ pc' = "idle"
  BY <1>1, <1>2
<1> QED BY <1>8, <1>9, <1>10 DEF IInv

-----------------------------------------------------------------------------
(* init_mem_manage() keeps the invariant. *)

\* A list with one block.
LEMMA OneBlockList ==
    ASSUME NEW pl, Orderly(pl), NEW o \in Order, NEW a \in Page, pl[o] = <<>>
    PROVE  /\ Orderly([pl EXCEPT ![o] = <<a>>])
           /\ Gains(FreeIn([pl EXCEPT ![o] = <<a>>]), FreeIn(pl), <<a, o>>)
<1> DEFINE t == <<a>>
<1>1. t \in Seq(Page) /\ Len(t) = 1 /\ t[1] = a
  OBVIOUS
<1>2. pl \in [Order -> Seq(Page)]
  BY DEF Orderly
<1>3. Elements(pl[o]) = {}
  BY DEF Elements
<1> HIDE DEF t
<1>4. Elements(t) = {a} /\ Ascending(t)
  BY <1>1 DEF Elements, Ascending
<1>5. Lonely(t, o)
  BY <1>4 DEF Lonely
<1>6. Gains(Elements(t), Elements(pl[o]), a)
  BY <1>3, <1>4 DEF Gains
<1>7. Orderly([pl EXCEPT ![o] = t])
  BY <1>1, <1>4, <1>5, OrderlyUpdate
<1>8. Gains(FreeIn([pl EXCEPT ![o] = t]), FreeIn(pl), <<a, o>>)
  BY <1>1, <1>2, <1>6, PoolWith
<1> QED BY <1>7, <1>8 DEF t

\* One turn of the loops with a block of order index at a to link in.
LEMMA BlockAdded ==
    ASSUME Orderly(pool), index \in Order, NEW a \in Nat, Aligned(a, index), a + 2 ^ index <= 2 ^ MaxOrder,
           Booted(a + 2 ^ index), pool' = [pool EXCEPT ![index] = <<a>>], index' = index - 1,
           owned' = owned, answer' = answer, addr' = addr, level' = level, power' = power
    PROVE  /\ a \in Page /\ Orderly(pool') /\ Tiling(FreeIn(pool'), a)
           /\ Untouched'
<1> DEFINE hi == a + 2 ^ index
           b == <<a, index>>
<1>1. 2 ^ index \in Nat /\ hi \in Nat
  BY Powers
<1>2. index \in Nat /\ index <= index
  BY Powers DEF Order
<1>3. /\ \A o \in Order : Len(pool[o]) <= 1 /\ (o <= index => pool[o] = <<>>)
      /\ owned = {} /\ answer = NoAnswer /\ addr = NULL /\ level = NULL /\ power = NULL
  BY DEF Booted, Untouched
<1>4. Tiling(FreeIn(pool), hi)
  BY DEF Booted
<1>5. pool[index] = <<>>
  BY <1>2, <1>3
<1>6. Tiling(FreeIn(pool) \cup {b}, a) /\ a \in Page
  BY <1>1, <1>4, TilingExtend
<1>7. Orderly(pool') /\ Gains(FreeIn(pool'), FreeIn(pool), b)
  BY <1>5, <1>6, OneBlockList
<1> HIDE DEF b
<1>8. FreeIn(pool') = FreeIn(pool) \cup {b}
  BY <1>7 DEF Gains
<1>9. \A o \in Order : Len(pool'[o]) <= 1 /\ (o <= index' => pool'[o] = <<>>)
  <2> TAKE o \in Order
  <2>1. pool'[o] = IF o = index THEN <<a>> ELSE pool[o]
    BY DEF Orderly
  <2>2. CASE o = index
    <3>1. pool'[o] = <<a>> /\ Len(<<a>>) = 1
      BY <2>1, <2>2
    <3>2. ~(o <= index')
      BY <1>2, <2>2
    <3>3. Len(pool'[o]) <= 1
      <4>1. Len(pool'[o]) = 1
        BY <3>1, Zenon
      <4>2. \A n : n = 1 => n <= 1
        OBVIOUS
      <4> QED BY <4>1, <4>2, Zenon
    <3> QED BY <3>2, <3>3
  <2>3. CASE o # index
    <3>1. o <= index' => o <= index
      BY <1>2 DEF Order
    <3> QED BY <1>3, <2>1, <2>3, <3>1
  <2> QED BY <2>2, <2>3
<1>10. Tiling(FreeIn(pool'), a)
  BY <1>6, <1>8
<1>11. Untouched'
  BY <1>3, <1>9 DEF Untouched
<1> QED BY <1>6, <1>7, <1>10, <1>11

\* Where a block of order index starts, below the top of memory, it ends there too.
LEMMA BlockFits ==
    ASSUME NEW o \in Order, NEW a \in Page, Aligned(a, o)
    PROVE  a + 2 ^ o <= 2 ^ MaxOrder
<1>1. MaxOrder \in Order /\ 2 ^ MaxOrder \in Nat /\ o <= MaxOrder
  BY Powers DEF Order
<1>2. PICK m \in Nat \ {0} : 2 ^ MaxOrder = m * 2 ^ o
  BY <1>1, PowerDivides
<1>3. Aligned(2 ^ MaxOrder, o)
  BY <1>2, MultipleAligned
<1>4. a \in Nat /\ a < 2 ^ MaxOrder
  BY <1>1 DEF Page
<1> QED BY <1>1, <1>3, <1>4, AlignedApart

\* The first loop of init_mem_manage().
LEMMA InitHighKeeps ==
    ASSUME IInv, InitHigh
    PROVE  IInv'
<1>1. Typing /\ Orderly(pool) /\ High /\ pc = "high"
  BY DEF IInv, InitHigh
<1>2. /\ kernel' = kernel /\ addr' = addr /\ level' = level /\ power' = power
      /\ owned' = owned /\ answer' = answer
  BY DEF InitHigh, job
<1>3. MaxOrder \in Nat /\ MaxOrder >= 1 /\ index \in -1 .. MaxOrder - 1
  BY <1>1, Powers DEF Typing
<1>4. kernel <= 2 ^ (index + 1) /\ tmp = NULL /\ Booted(2 ^ (index + 1))
  BY <1>1 DEF High
<1>5. kernel \in Nat /\ kernel >= 1
  <2>1. 2 ^ MaxOrder \in Nat
    BY Powers DEF Order
  <2> QED BY <1>1, <2>1 DEF Typing
<1>6. ASSUME index >= 0
      PROVE  /\ index \in Order /\ 2 ^ index \in Nat /\ 2 ^ index >= 1 /\ 2 ^ (index + 1) = 2 ^ index + 2 ^ index
             /\ Aligned(2 ^ index, index) /\ 2 ^ index + 2 ^ index <= 2 ^ MaxOrder /\ 2 ^ index \in Page
  <2>1. index \in 0 .. MaxOrder - 1 /\ index \in Order /\ index + 1 \in Order /\ MaxOrder \in Order
        /\ index + 1 <= MaxOrder
    BY <1>3, <1>6 DEF Order
  <2>2. 2 ^ index \in Nat /\ 2 ^ index >= 1 /\ 2 ^ MaxOrder \in Nat /\ 2 ^ (index + 1) = 2 * 2 ^ index
    BY <2>1, Powers
  <2>3. 2 ^ (index + 1) <= 2 ^ MaxOrder
    BY <2>1, PowerGrows
  <2>4. \A x \in Nat : x >= 1 => x % x = 0
    OBVIOUS
  <2>5. Aligned(2 ^ index, index)
    BY <2>2, <2>4 DEF Aligned
  <2> QED BY <2>1, <2>2, <2>3, <2>5 DEF Page
<1>7. CASE index >= 0 /\ 2 ^ index >= kernel
  <2>1. pool' = [pool EXCEPT ![index] = <<2 ^ index>>] /\ index' = index - 1 /\ pc' = "high" /\ tmp' = tmp
    BY <1>1, <1>7 DEF InitHigh
  <2>2. Booted(2 ^ index + 2 ^ index)
    BY <1>4, <1>6, <1>7
  <2>3. Orderly(pool') /\ Tiling(FreeIn(pool'), 2 ^ index) /\ Untouched'
    <3> DEFINE a == 2 ^ index
    <3>1. /\ a \in Nat /\ Aligned(a, index) /\ a + 2 ^ index <= 2 ^ MaxOrder /\ Booted(a + 2 ^ index)
          /\ pool' = [pool EXCEPT ![index] = <<a>>] /\ index \in Order
      BY <1>6, <1>7, <2>1, <2>2
    <3> HIDE DEF a
    <3>2. Orderly(pool') /\ Tiling(FreeIn(pool'), a) /\ Untouched'
      BY <1>1, <1>2, <2>1, <3>1, BlockAdded
    <3> QED BY <3>2 DEF a
  <2>4. index' + 1 = index
    BY <1>3, <2>1
  <2>5. kernel' <= 2 ^ (index' + 1) /\ tmp' = NULL /\ Tiling(FreeIn(pool'), 2 ^ (index' + 1))
    BY <1>2, <1>4, <1>5, <1>6, <1>7, <2>1, <2>3, <2>4
  <2>6. High'
    BY <2>3, <2>5 DEF High, Booted
  <2>7. Typing'
    <3>1. index' \in -1 .. MaxOrder - 1
      BY <1>3, <1>7, <2>1
    <3> QED BY <1>1, <1>2, <2>1, <3>1 DEF Typing
  <2> QED BY <2>1, <2>3, <2>6, <2>7 DEF IInv
<1>8. CASE ~(index >= 0 /\ 2 ^ index >= kernel)
  <2>1. pool' = pool /\ index' = index /\ pc' = "low" /\ tmp' = IF index >= 0 THEN 2 ^ index ELSE 0
    BY <1>8 DEF InitHigh
  <2>2. Untouched' /\ Tiling(FreeIn(pool'), 2 ^ (index + 1)) /\ Orderly(pool')
    BY <1>1, <1>2, <1>4, <2>1 DEF Booted, Untouched
  <2>3. ASSUME index >= 0 PROVE Low'
    <3>1. tmp' = 2 ^ index
      BY <2>1, <2>3
    <3>2. /\ tmp' \in Page /\ Aligned(tmp', index') /\ tmp' + 2 ^ index' = 2 ^ (index + 1)
          /\ tmp' - 2 ^ index' < kernel' /\ kernel' <= tmp' + 2 ^ index' /\ ~(index' < 0)
      BY <1>2, <1>3, <1>4, <1>5, <1>6, <2>1, <2>3, <3>1
    <3>3. Tiling(FreeIn(pool'), tmp' + 2 ^ index')
      BY <2>2, <3>2
    <3> QED BY <2>2, <3>2, <3>3 DEF Low, Booted
  <2>4. ASSUME index < 0 PROVE Low'
    <3>1. index + 1 = 0 /\ tmp' = 0 /\ index' < 0 /\ ~(index' >= 0)
      BY <1>3, <2>1, <2>4
    <3>2. 2 ^ (index + 1) = 1
      BY <3>1, Powers
    <3>3. kernel' = 2 ^ (index + 1)
      BY <1>2, <1>4, <1>5, <3>2
    <3>4. tmp' \in Page
      <4>1. 2 ^ MaxOrder \in Nat /\ 2 ^ MaxOrder >= 1
        BY Powers DEF Order
      <4> QED BY <3>1, <4>1 DEF Page
    <3>5. Tiling(FreeIn(pool'), kernel')
      BY <2>2, <3>3
    <3> QED BY <2>2, <3>1, <3>4, <3>5 DEF Low, Booted
  <2>5. Low'
    BY <1>3, <2>3, <2>4
  <2>6. Typing'
    <3>1. tmp' \in Page
      BY <2>5 DEF Low
    <3> QED BY <1>1, <1>2, <2>1, <3>1 DEF Typing
  <2> QED BY <2>1, <2>2, <2>5, <2>6 DEF IInv
<1> QED BY <1>7, <1>8

\* The second loop of init_mem_manage().
LEMMA InitLowKeeps ==
    ASSUME IInv, InitLow
    PROVE  IInv'
<1> DEFINE w == 2 ^ index
<1>1. Typing /\ Orderly(pool) /\ Low /\ pc = "low"
  BY DEF IInv, InitLow
<1>2. /\ kernel' = kernel /\ addr' = addr /\ level' = level /\ power' = power
      /\ owned' = owned /\ answer' = answer
  BY DEF InitLow, job
<1>3. MaxOrder \in Nat /\ MaxOrder >= 1 /\ index \in -1 .. MaxOrder - 1 /\ tmp \in Page /\ tmp \in Nat
  BY <1>1, Powers, PageNat DEF Typing, Low
<1>4. kernel \in Nat /\ kernel >= 1
  <2>1. 2 ^ MaxOrder \in Nat
    BY Powers DEF Order
  <2> QED BY <1>1, <2>1 DEF Typing
<1>5. CASE index < 0
  <2>1. pool' = pool /\ index' = index /\ pc' = "idle" /\ tmp' = NULL
    BY <1>5 DEF InitLow
  <2>2. Tiling(FreeIn(pool), kernel) /\ owned = {}
    BY <1>1, <1>5 DEF Low, Booted, Untouched
  <2>3. InFlight' = {} /\ ~Working'
    BY <2>1 DEF InFlight, Working
  <2>4. FreeIn(pool') \cup InFlight' \cup owned' = FreeIn(pool) /\ FreeIn(pool') \cap owned' = {}
    BY <1>2, <2>1, <2>2, <2>3
  <2>5. Serving'
    BY <1>2, <2>1, <2>2, <2>3, <2>4 DEF Serving
  <2>6. Typing' /\ Orderly(pool')
    BY <1>1, <1>2, <2>1 DEF Typing
  <2> QED BY <2>1, <2>5, <2>6 DEF IInv
<1>6. CASE index >= 0
  <2>1. /\ index \in Order /\ index \in Nat /\ w \in Nat /\ w >= 1 /\ 2 ^ MaxOrder \in Nat
        /\ index - 1 \in -1 .. MaxOrder - 1 /\ ~(index < 0) /\ index <= MaxOrder - 1
    <3>1. index \in Order /\ MaxOrder \in Order
      BY <1>3, <1>6 DEF Order
    <3> QED BY <1>3, <1>6, <3>1, Powers
  <2>2. Booted(tmp + w) /\ Aligned(tmp, index) /\ tmp - w < kernel /\ kernel <= tmp + w
    BY <1>1, <1>6, <2>1 DEF Low
  <2>3. tmp + w <= 2 ^ MaxOrder
    BY <1>3, <2>1, <2>2, BlockFits
  <2>4. index' = index - 1 /\ pc' = "low"
    BY <1>1, <2>1 DEF InitLow
  <2>5. ASSUME index > 0
        PROVE  /\ 2 ^ (index - 1) \in Nat /\ 2 ^ (index - 1) >= 1 /\ w = 2 ^ (index - 1) + 2 ^ (index - 1)
               /\ Aligned(tmp + 2 ^ (index - 1), index - 1)
               /\ tmp > 0 => tmp >= w /\ Aligned(tmp - 2 ^ (index - 1), index - 1)
    <3> DEFINE j == index - 1
               h == 2 ^ j
               r == tmp \div w
    <3>1. j \in 0 .. MaxOrder - 1 /\ j + 1 = index /\ j \in Order
      BY <1>3, <2>1, <2>5 DEF Order
    <3>2. h \in Nat /\ h >= 1 /\ 2 ^ (j + 1) = 2 * h
      BY <3>1, Powers
    <3>3. w = 2 * h
      BY <3>1, <3>2
    <3>4. Aligned(tmp + h, j)
      BY <1>3, <2>2, <3>1, AlignedBelow
    <3>5. r \in Nat /\ tmp = r * w
      BY <1>3, <2>1, <2>2, AlignedIs
    <3> HIDE DEF j, h, r, w
    <3>6. ASSUME tmp > 0 PROVE tmp >= w /\ Aligned(tmp - h, j)
      <4>1. r >= 1
        <5>1. r = 0 => tmp = 0
          BY <2>1, <3>5
        <5> QED BY <1>3, <3>5, <3>6, <5>1
      <4>2. r * w >= w
        BY <2>1, <3>5, <4>1
      <4>3. tmp - h = (2 * r - 1) * h
        <5>1. r * (2 * h) - h = (2 * r - 1) * h
          BY <3>2, <3>5
        <5> QED BY <3>3, <3>5, <5>1
      <4>4. 2 * r - 1 \in Int
        BY <3>5
      <4>5. Aligned(tmp - h, j)
        BY <3>1, <4>3, <4>4, MultipleAligned DEF h
      <4> QED BY <3>5, <4>2, <4>5
    <3> QED BY <3>2, <3>3, <3>4, <3>6 DEF h, j
  <2> HIDE DEF w
  <2>6. CASE tmp >= kernel
    <3>1. pool' = [pool EXCEPT ![index] = <<tmp>>] /\ tmp' = tmp - HalfBlock(index)
      BY <2>1, <2>6 DEF InitLow
    <3>2. Orderly(pool') /\ Tiling(FreeIn(pool'), tmp) /\ Untouched'
      BY <1>1, <1>2, <1>3, <2>1, <2>2, <2>3, <2>4, <3>1, BlockAdded DEF w
    <3>3. ASSUME index > 0 PROVE Low'
      <4> DEFINE h == 2 ^ (index - 1)
      <4>1. /\ h \in Nat /\ h >= 1 /\ w = h + h /\ tmp >= w /\ Aligned(tmp - h, index - 1)
        BY <1>3, <1>4, <2>5, <2>6, <3>3
      <4>2. tmp' = tmp - h /\ 2 ^ index' = h /\ index' >= 0 /\ ~(index' < 0)
        BY <2>1, <2>4, <3>1, <3>3 DEF HalfBlock
      <4> HIDE DEF h
      <4>3. tmp' \in Page
        BY <1>3, <2>1, <4>1, <4>2 DEF Page
      <4>4. /\ tmp' + 2 ^ index' = tmp /\ tmp' - 2 ^ index' < kernel' /\ kernel' <= tmp' + 2 ^ index'
        BY <1>2, <1>3, <1>4, <2>1, <2>2, <2>6, <4>1, <4>2
      <4>5. Aligned(tmp', index') /\ Tiling(FreeIn(pool'), tmp' + 2 ^ index')
        BY <2>4, <3>2, <4>1, <4>2, <4>4
      <4> QED BY <3>2, <4>2, <4>3, <4>4, <4>5 DEF Low, Booted
    <3>4. ASSUME index = 0 PROVE Low'
      <4>1. w = 1
        BY <3>4, Powers DEF w
      <4>2. tmp' = tmp /\ index' < 0 /\ ~(index' >= 0)
        BY <1>3, <2>4, <3>1, <3>4 DEF HalfBlock
      <4>3. kernel' = tmp
        BY <1>2, <1>3, <1>4, <2>2, <2>6, <4>1
      <4>4. Tiling(FreeIn(pool'), kernel')
        BY <3>2, <4>3
      <4> QED BY <1>3, <3>2, <4>2, <4>4 DEF Low, Booted
    <3>5. Low'
      BY <2>1, <3>3, <3>4
    <3>6. Typing'
      <4>1. tmp' \in Page
        BY <3>5 DEF Low
      <4> QED BY <1>1, <1>2, <2>1, <2>4, <4>1 DEF Typing
    <3> QED BY <2>4, <3>2, <3>5, <3>6 DEF IInv
  <2>7. CASE ~(tmp >= kernel)
    <3>1. pool' = [pool EXCEPT ![index] = <<>>] /\ tmp' = tmp + HalfBlock(index)
      BY <2>1, <2>7 DEF InitLow
    <3>2. pool' = pool
      <4>1. pool[index] = <<>> /\ pool \in [Order -> Seq(Page)]
        BY <1>1, <2>1, <2>2 DEF Booted, Untouched, Orderly
      <4> QED BY <2>1, <3>1, <4>1
    <3>3. Orderly(pool') /\ Tiling(FreeIn(pool'), tmp + w)
      BY <1>1, <2>2, <3>2 DEF Booted
    <3>4. Untouched'
      <4>1. \A o \in Order : o <= index - 1 => o <= index
        BY <2>1 DEF Order
      <4>2. Untouched
        BY <2>2 DEF Booted
      <4> QED BY <1>2, <2>4, <3>2, <4>1, <4>2 DEF Untouched
    <3>5. ASSUME index > 0 PROVE Low'
      <4> DEFINE h == 2 ^ (index - 1)
      <4>1. /\ h \in Nat /\ h >= 1 /\ w = h + h /\ Aligned(tmp + h, index - 1)
        BY <2>5, <3>5
      <4>2. tmp' = tmp + h /\ 2 ^ index' = h /\ index' >= 0 /\ ~(index' < 0)
        BY <2>1, <2>4, <3>1, <3>5 DEF HalfBlock
      <4> HIDE DEF h
      <4>3. tmp' \in Page
        BY <1>3, <2>1, <2>3, <4>1, <4>2 DEF Page
      <4>4. /\ tmp' + 2 ^ index' = tmp + w /\ tmp' - 2 ^ index' < kernel' /\ kernel' <= tmp' + 2 ^ index'
        BY <1>2, <1>3, <1>4, <2>1, <2>2, <2>7, <4>1, <4>2
      <4>5. Aligned(tmp', index') /\ Tiling(FreeIn(pool'), tmp' + 2 ^ index')
        BY <2>4, <3>3, <4>1, <4>2, <4>4
      <4> QED BY <3>4, <4>2, <4>3, <4>4, <4>5 DEF Low, Booted
    <3>6. ASSUME index = 0 PROVE Low'
      <4>1. w = 1
        BY <3>6, Powers DEF w
      <4>2. tmp' = tmp /\ index' < 0 /\ ~(index' >= 0)
        BY <1>3, <2>4, <3>1, <3>6 DEF HalfBlock
      <4>3. kernel' = tmp + w
        BY <1>2, <1>3, <1>4, <2>2, <2>7, <4>1
      <4>4. Tiling(FreeIn(pool'), kernel')
        BY <3>3, <4>3
      <4> QED BY <1>3, <3>4, <4>2, <4>4 DEF Low, Booted
    <3>7. Low'
      BY <2>1, <3>5, <3>6
    <3>8. Typing'
      <4>1. tmp' \in Page
        BY <3>7 DEF Low
      <4> QED BY <1>1, <1>2, <2>1, <2>4, <4>1 DEF Typing
    <3> QED BY <2>4, <3>3, <3>7, <3>8 DEF IInv
  <2> QED BY <2>6, <2>7
<1> QED BY <1>3, <1>5, <1>6

-----------------------------------------------------------------------------
(* The invariant. *)

\* Before init_mem_manage() nothing is free.
LEMMA InitIInv == Init => IInv
<1> SUFFICES ASSUME Init PROVE IInv
  OBVIOUS
<1>1. /\ kernel \in 1 .. 2 ^ MaxOrder /\ pc = "high" /\ index = MaxOrder - 1 /\ tmp = NULL
      /\ pool = [o \in Order |-> <<>>] /\ addr = NULL /\ level = NULL /\ power = NULL
      /\ owned = {} /\ answer = NoAnswer
  BY DEF Init
<1>2. MaxOrder \in Nat /\ MaxOrder >= 1 /\ 2 ^ MaxOrder \in Nat /\ index + 1 = MaxOrder
  BY <1>1, Powers DEF Order
<1>3. pool \in [Order -> Seq(Page)] /\ \A o \in Order : pool[o] = <<>>
  BY <1>1
<1>4. \A o \in Order : Len(pool[o]) = 0 /\ Elements(pool[o]) = {}
  BY <1>3 DEF Elements
<1>5. Orderly(pool)
  BY <1>3, <1>4 DEF Orderly, Ascending, Lonely
<1>6. FreeIn(pool) = {}
  BY <1>4 DEF FreeIn
<1>7. Tiling(FreeIn(pool), 2 ^ (index + 1))
  <2> DEFINE W == 2 ^ MaxOrder
  <2>1. \A p \in Int : ~(p \in W .. W - 1)
    BY <1>2
  <2> QED BY <1>2, <1>6, <2>1 DEF Tiling
<1>8. Untouched
  BY <1>1, <1>3, <1>4 DEF Untouched
<1>9. High
  BY <1>1, <1>2, <1>7, <1>8 DEF High, Booted
<1>10. Typing
  BY <1>1, <1>2 DEF Typing, NoAnswer
<1> QED BY <1>1, <1>5, <1>9, <1>10 DEF IInv

\* IInv holds in every reachable state of the buddy allocator.
THEOREM Invariance == Spec => []IInv
<1>1. IInv /\ [Next]_vars => IInv'
  <2> SUFFICES ASSUME IInv, [Next]_vars PROVE IInv'
    OBVIOUS
  <2>1. CASE InitHigh
    BY <2>1, InitHighKeeps
  <2>2. CASE InitLow
    BY <2>2, InitLowKeeps
  <2>3. ASSUME NEW order \in Order, Allocate(order) PROVE IInv'
    BY <2>3, AllocateKeeps
  <2>4. CASE Split
    BY <2>4, SplitKeeps
  <2>5. CASE HandOut
    BY <2>5, HandOutKeeps
  <2>6. ASSUME NEW b \in owned, Deallocate(b) PROVE IInv'
    BY <2>6, DeallocateKeeps
  <2>7. CASE Merge
    BY <2>7, MergeKeeps
  <2>8. CASE UNCHANGED vars
    <3>1. /\ pc' = pc /\ kernel' = kernel /\ index' = index /\ tmp' = tmp /\ pool' = pool
          /\ addr' = addr /\ level' = level /\ power' = power /\ owned' = owned /\ answer' = answer
      BY <2>8 DEF vars, boot, job
    <3>2. Typing' <=> Typing
      BY <3>1 DEF Typing
    <3>3. High' <=> High
      BY <3>1 DEF High, Booted, Untouched
    <3>4. Low' <=> Low
      BY <3>1 DEF Low, Booted, Untouched
    <3>5. Serving' <=> Serving
      BY <3>1 DEF Serving, Working, InFlight
    <3> QED BY <3>1, <3>2, <3>3, <3>4, <3>5 DEF IInv
  <2> QED BY <2>1, <2>2, <2>3, <2>4, <2>5, <2>6, <2>7, <2>8 DEF Next
<1> QED BY <1>1, InitIInv, PTL DEF Spec

\* TypeOK: every variable has its type; in particular merging never goes beyond
\* the array of lists (deallocate() calls itself with order + 1).
THEOREM Typed == Spec => []TypeOK
<1>1. IInv => TypeOK
  BY DEF IInv, Typing, Orderly, TypeOK
<1> QED BY <1>1, Invariance, PTL

\* The blocks in the lists, as the properties count them.
LEMMA FreeBlocksAre ==
    ASSUME pool \in [Order -> Seq(Page)]
    PROVE  FreeBlocks = FreeIn(pool)
<1>1. ASSUME NEW b \in FreeBlocks PROVE b \in FreeIn(pool)
  <2>1. PICK o \in Order : b \in {<<pool[o][i], o>> : i \in 1 .. Len(pool[o])}
    BY <1>1 DEF FreeBlocks
  <2>2. PICK i \in 1 .. Len(pool[o]) : b = <<pool[o][i], o>>
    BY <2>1
  <2>3. pool[o][i] \in Page /\ pool[o][i] \in Elements(pool[o])
    BY <2>2 DEF Elements
  <2> QED BY <2>2, <2>3 DEF FreeIn
<1>2. ASSUME NEW b \in FreeIn(pool) PROVE b \in FreeBlocks
  <2>1. b = <<b[1], b[2]>> /\ b[2] \in Order /\ b[1] \in Elements(pool[b[2]])
    BY <1>2 DEF FreeIn
  <2>2. PICK i \in 1 .. Len(pool[b[2]]) : b[1] = pool[b[2]][i]
    BY <2>1 DEF Elements
  <2>3. b \in {<<pool[b[2]][j], b[2]>> : j \in 1 .. Len(pool[b[2]])}
    BY <2>1, <2>2
  <2> QED BY <2>1, <2>3 DEF FreeBlocks
<1> QED BY <1>1, <1>2

\* Partition: once the lists are set up, no page behind the kernel is lost and none
\* is in two blocks, free, under way or handed out; all blocks are aligned.
THEOREM NoPageLost == Spec => []Partition
<1>1. IInv => Partition
  <2> SUFFICES ASSUME IInv, pc \in {"idle", "split", "merge"} PROVE Partition
    BY DEF Partition
  <2> DEFINE B == FreeBlocks \cup InFlight \cup owned
  <2>1. Serving /\ FreeBlocks = FreeIn(pool)
    BY FreeBlocksAre DEF IInv, Orderly
  <2>2. Tiling(B, kernel)
    BY <2>1 DEF Serving
  <2> HIDE DEF B
  <2>3. \A b \in B : b \in Page \X Order /\ Aligned(b[1], b[2])
    BY <2>2 DEF Tiling
  <2>4. \A b, c \in B : b # c => Pages(b[1], b[2]) \cap Pages(c[1], c[2]) = {}
    <3> SUFFICES ASSUME NEW b \in B, NEW c \in B, b # c, NEW p,
                        p \in Pages(b[1], b[2]), p \in Pages(c[1], c[2])
                 PROVE  FALSE
      OBVIOUS
    <3>1. Apart(b, c) /\ b \in Page \X Order /\ c \in Page \X Order
      BY <2>2, <2>3 DEF Tiling
    <3>2. /\ b[1] \in Nat /\ 2 ^ b[2] \in Nat /\ c[1] \in Nat /\ 2 ^ c[2] \in Nat
      BY <3>1, BlockPages
    <3>3. p \in Int
      BY <3>2 DEF Pages
    <3>4. b[1] <= p /\ p < b[1] + 2 ^ b[2] /\ c[1] <= p /\ p < c[1] + 2 ^ c[2]
      BY <3>1, <3>3, BlockPages
    <3> QED BY <3>1, <3>2, <3>3, <3>4 DEF Apart
  <2>5. UNION {Pages(b[1], b[2]) : b \in B} = kernel .. 2 ^ MaxOrder - 1
    <3>1. \A p : p \in UNION {Pages(b[1], b[2]) : b \in B} <=> \E b \in B : p \in Pages(b[1], b[2])
      OBVIOUS
    <3>2. \A b \in B : Pages(b[1], b[2]) \subseteq Int
      BY <2>3, BlockPages DEF Pages
    <3>3. kernel \in Int /\ 2 ^ MaxOrder \in Int
      BY Powers DEF IInv, Typing, Order
    <3>4. kernel .. 2 ^ MaxOrder - 1 \subseteq Int
      BY <3>3
    <3>5. \A p \in Int : (\E b \in B : p \in Pages(b[1], b[2])) <=> p \in kernel .. 2 ^ MaxOrder - 1
      BY <2>2 DEF Tiling
    <3>6. \A p : p \in UNION {Pages(b[1], b[2]) : b \in B} <=> p \in kernel .. 2 ^ MaxOrder - 1
      BY <3>1, <3>2, <3>4, <3>5
    <3> QED BY <3>6
  <2> QED BY <2>3, <2>4, <2>5 DEF Partition, B
<1> QED BY <1>1, Invariance, PTL

\* Coalesced: the lists are sorted at every step, and whenever no call is under way
\* no two buddies are free.
THEOREM BuddiesMerged == Spec => []Coalesced
<1>1. IInv => Coalesced
  <2> SUFFICES ASSUME IInv PROVE Coalesced
    OBVIOUS
  <2>1. Orderly(pool)
    BY DEF IInv
  <2>2. Sorted
    BY <2>1 DEF Orderly, Ascending, Sorted
  <2>3. \A o \in 0 .. MaxOrder - 1 : \A a, b \in Range(pool[o]) :
            a # b => RemoveTag(a, o) # RemoveTag(b, o)
    <3> TAKE o \in 0 .. MaxOrder - 1
    <3>1. o \in Order
      BY Powers DEF Order
    <3>2. pool[o] \in Seq(Page) /\ Lonely(pool[o], o)
      BY <2>1, <3>1 DEF Orderly
    <3>3. Range(pool[o]) = Elements(pool[o])
      BY <3>2 DEF Range, Elements
    <3> QED BY <3>2, <3>3 DEF Lonely
  <2> QED BY <2>2, <2>3 DEF Coalesced
<1> QED BY <1>1, Invariance, PTL

-----------------------------------------------------------------------------
(* The allocator implements PageAllocator. *)

\* What is aligned for an order is aligned for every smaller one, at both ends.
LEMMA AlignedDown ==
    ASSUME NEW j \in Order, NEW k \in Order, j <= k, NEW a \in Nat, Aligned(a, k)
    PROVE  Aligned(a, j) /\ Aligned(a + 2 ^ k, j)
<1>1. PICK m \in Nat \ {0} : 2 ^ k = m * 2 ^ j
  BY PowerDivides
<1> DEFINE w == 2 ^ j
           q == a \div 2 ^ k
<1>2. w \in Nat /\ q \in Nat /\ a = q * 2 ^ k
  BY Powers, AlignedIs
<1>3. a = q * (m * w) /\ a + 2 ^ k = q * (m * w) + m * w
  BY <1>1, <1>2
<1> HIDE DEF w, q
<1>4. q * (m * w) = (q * m) * w /\ q * (m * w) + m * w = (q * m + m) * w
  BY <1>2
<1>5. q * m \in Int /\ q * m + m \in Int
  BY <1>2
<1>6. a = (q * m) * w /\ a + 2 ^ k = (q * m + m) * w
  BY <1>3, <1>4
<1> QED BY <1>5, <1>6, MultipleAligned DEF w

\* Of two aligned blocks with a page in common the larger contains the smaller.
LEMMA Nesting ==
    ASSUME NEW j \in Order, NEW k \in Order, j <= k, NEW x \in Nat, Aligned(x, j),
           NEW a \in Nat, Aligned(a, k), NEW p \in Nat,
           x <= p, p < x + 2 ^ j, a <= p, p < a + 2 ^ k
    PROVE  a <= x /\ x + 2 ^ j <= a + 2 ^ k
<1>1. 2 ^ j \in Nat /\ 2 ^ k \in Nat
  BY Powers
<1>2. Aligned(a, j) /\ Aligned(a + 2 ^ k, j)
  BY AlignedDown
<1>3. a <= x
  <2>1. x < a => x + 2 ^ j <= a
    BY <1>2, AlignedApart
  <2> QED BY <1>1, <2>1
<1>4. x + 2 ^ j <= a + 2 ^ k
  <2>1. a + 2 ^ k \in Nat /\ x < a + 2 ^ k
    BY <1>1
  <2> QED BY <1>2, <2>1, AlignedApart
<1> QED BY <1>3, <1>4

\* The blocks pl offers cover every page of the block of the given order at a.
Covered(pl, a, order) ==
    \A p \in Nat : a <= p /\ p < a + 2 ^ order =>
        \E c \in FreeIn(pl) : c[1] <= p /\ p < c[1] + 2 ^ c[2]

\* If free buddies are merged, a free run of pages of some order that is aligned
\* implies a free block of at least that order: the smallest free block of the run
\* would have its buddy in the run, free as well.
LEMMA RunImpliesBlock ==
    ASSUME NEW pl, Orderly(pl), NEW B, FreeIn(pl) \subseteq B, NEW lo \in Nat, lo >= 1, Tiling(B, lo),
           NEW order \in Order, NEW a \in Page, Aligned(a, order), Covered(pl, a, order)
    PROVE  \E l \in order .. MaxOrder : pl[l] # <<>>
<1> SUFFICES ASSUME \A l \in order .. MaxOrder : pl[l] = <<>> PROVE FALSE
  OBVIOUS
<1> DEFINE F == FreeIn(pl)
           W == 2 ^ order
<1>1. a \in Nat /\ order \in Nat /\ MaxOrder \in Nat /\ W \in Nat /\ W >= 1
  BY Powers, PageNat DEF Order
<1>2. \A c \in F : /\ c[1] \in Nat /\ c[2] \in Order /\ c[2] \in 0 .. MaxOrder - 1 /\ c[2] \in Nat /\ Aligned(c[1], c[2])
                   /\ 2 ^ c[2] \in Nat /\ 2 ^ c[2] >= 1
  <2> TAKE c \in F
  <2>1. c \in B
    OBVIOUS
  <2>2. c \in Page \X Order /\ c[1] \in Nat /\ c[2] \in 0 .. MaxOrder - 1 /\ 2 ^ c[2] \in Nat /\ 2 ^ c[2] >= 1
        /\ Aligned(c[1], c[2])
    BY <2>1, BelowMaxOrder
  <2> QED BY <1>1, <2>2 DEF Order
<1>3. \A c \in F : c[2] < order
  <2> SUFFICES ASSUME NEW c \in F, ~(c[2] < order) PROVE FALSE
    OBVIOUS
  <2>1. c[2] \in order .. MaxOrder
    BY <1>1, <1>2
  <2>2. c[1] \in Elements(pl[c[2]])
    BY DEF FreeIn
  <2>3. Elements(pl[c[2]]) = {}
    BY <2>1 DEF Elements
  <2> QED BY <2>2, <2>3
<1>4. \A c \in F : \A d \in F : c # d => Apart(c, d)
  BY DEF Tiling
<1>5. \A p \in Nat : a <= p /\ p < a + W => \E c \in F : c[1] <= p /\ p < c[1] + 2 ^ c[2]
  BY DEF Covered
<1> HIDE DEF F, W
<1>6. ASSUME NEW p \in Nat, a <= p, p < a + W, NEW c \in F, c[1] <= p, p < c[1] + 2 ^ c[2]
      PROVE  a <= c[1] /\ c[1] + 2 ^ c[2] <= a + W
  <2>1. c[2] <= order
    BY <1>1, <1>2, <1>3
  <2> QED BY <1>1, <1>2, <1>6, <2>1, Nesting DEF W
<1> DEFINE K == {k \in Nat : \E c \in F : c[2] = k /\ a <= c[1] /\ c[1] < a + W}
<1>7. K # {}
  <2>1. PICK c \in F : c[1] <= a /\ a < c[1] + 2 ^ c[2]
    BY <1>1, <1>5
  <2>2. a <= a /\ a < a + W
    BY <1>1
  <2>3. a <= c[1] /\ c[1] + 2 ^ c[2] <= a + W
    BY <1>1, <1>6, <2>1, <2>2
  <2>4. c[1] < a + W /\ c[2] \in Nat
    BY <1>1, <1>2, <2>3
  <2> QED BY <2>3, <2>4
<1> DEFINE k == Min(K)
<1>8. k \in K /\ \A l \in K : k <= l
  <2>1. K \subseteq Nat
    OBVIOUS
  <2> HIDE DEF K
  <2> QED BY <1>7, <2>1, LeastNat
<1> HIDE DEF k
<1>9. PICK b \in F : b[2] = k /\ a <= b[1] /\ b[1] < a + W
  BY <1>8
<1> DEFINE x == b[1]
           w == 2 ^ k
           t == RemoveTag(x, k)
           y == IF x = t THEN t + w ELSE t
<1>10. /\ x \in Nat /\ k \in 0 .. MaxOrder - 1 /\ k \in Nat /\ k \in Order /\ k + 1 \in Order
       /\ Aligned(x, k) /\ w \in Nat /\ w >= 1 /\ k < order /\ k + 1 <= order
  <2>1. x \in Nat /\ k \in 0 .. MaxOrder - 1 /\ k \in Nat /\ k \in Order /\ Aligned(x, k) /\ w \in Nat /\ w >= 1
    BY <1>2, <1>9
  <2>2. k < order
    BY <1>3, <1>9
  <2> QED BY <1>1, <2>1, <2>2 DEF Order
<1>11. 2 ^ (k + 1) = 2 * w
  BY <1>10, Powers
<1>12. t \in Nat /\ (t = x \/ t = x - w) /\ Aligned(t, k + 1)
  BY <1>10, TagFacts
<1>13. RemoveTag(t, k) = t /\ RemoveTag(t + w, k) = t /\ Aligned(t, k) /\ Aligned(t + w, k)
  BY <1>10, <1>12, TagOfHalves, AlignedBelow
<1> HIDE DEF x, w, t, y, K
<1>14. y = IF x = t THEN t + w ELSE t
  BY DEF y
<1>15. y \in Nat /\ y # x /\ RemoveTag(y, k) = t /\ Aligned(y, k) /\ t <= y /\ y < t + 2 * w /\ t <= x /\ x < t + 2 * w
       /\ y + w <= t + 2 * w
  BY <1>10, <1>12, <1>13, <1>14
<1>16. a <= t /\ t + 2 * w <= a + W
  <2>1. a <= x /\ x < a + W
    BY <1>9 DEF x
  <2> QED BY <1>1, <1>10, <1>11, <1>12, <1>15, <2>1, Nesting DEF W
<1>17. a <= y /\ y < a + W
  BY <1>1, <1>10, <1>12, <1>15, <1>16
<1>18. PICK c \in F : c[1] <= y /\ y < c[1] + 2 ^ c[2]
  BY <1>5, <1>15, <1>17
<1> DEFINE z == c[1]
           j == c[2]
<1>19. /\ z \in Nat /\ j \in Order /\ j \in Nat /\ Aligned(z, j) /\ 2 ^ j \in Nat /\ 2 ^ j >= 1
       /\ z <= y /\ y < z + 2 ^ j
  BY <1>2, <1>18
<1>20. a <= z /\ z + 2 ^ j <= a + W
  BY <1>6, <1>15, <1>17, <1>18
<1>21. k <= j
  <2>1. z < a + W
    BY <1>1, <1>19, <1>20
  <2>2. j \in K
    BY <1>19, <1>20, <2>1 DEF K
  <2> QED BY <1>8, <2>2
<1>22. b = <<x, k>> /\ c = <<z, j>> /\ b \in Page \X Order /\ c \in Page \X Order
  BY <1>9 DEF x, F, FreeIn
<1> HIDE DEF z, j
<1>23. CASE j = k
  <2>1. 2 ^ j = w
    BY <1>23 DEF w
  <2>2. z = y
    <3>1. y <= y /\ y < y + w
      BY <1>10, <1>15
    <3>2. y <= z
      BY <1>10, <1>15, <1>19, <1>23, <2>1, <3>1, Nesting DEF w
    <3> QED BY <1>15, <1>19, <3>2
  <2>3. x \in Elements(pl[k]) /\ y \in Elements(pl[k])
    BY <1>22, <1>23, <2>2 DEF F, FreeIn
  <2>4. RemoveTag(x, k) = RemoveTag(y, k)
    BY <1>15 DEF t
  <2> QED BY <1>10, <1>15, <2>3, <2>4 DEF Orderly, Lonely
<1>24. CASE j # k
  <2>1. k + 1 <= j
    BY <1>10, <1>19, <1>21, <1>24
  <2>2. z <= t /\ t + 2 * w <= z + 2 ^ j
    BY <1>10, <1>11, <1>12, <1>15, <1>19, <2>1, Nesting
  <2>3. b # c
    BY <1>22, <1>24
  <2>4. x + w <= z \/ z + 2 ^ j <= x
    <3>1. Apart(b, c)
      BY <1>4, <2>3
    <3> QED BY <1>22, <3>1 DEF Apart, w
  <2> QED BY <1>10, <1>12, <1>15, <1>19, <2>2, <2>4
<1> QED BY <1>23, <1>24

\* The pages of the abstract state: those behind the kernel that nobody holds.
Unheld == {p \in kernel .. 2 ^ MaxOrder - 1 : \A b \in owned : p \notin Pages(b[1], b[2])}

\* The refinement mapping of Promise.
FreeNow == IF pc \in {"high", "low"} THEN kernel .. 2 ^ MaxOrder - 1 ELSE FreePages

\* Page numbers and the size of memory are numbers.
LEMMA Bounds ==
    ASSUME IInv
    PROVE  /\ kernel \in Nat /\ kernel >= 1 /\ 2 ^ MaxOrder \in Nat /\ kernel <= 2 ^ MaxOrder
           /\ kernel .. 2 ^ MaxOrder - 1 \subseteq Page
<1>1. 2 ^ MaxOrder \in Nat
  BY Powers DEF Order
<1>2. kernel \in 1 .. 2 ^ MaxOrder
  BY DEF IInv, Typing
<1> QED BY <1>1, <1>2 DEF Page

\* The pages of blocks that are apart.
LEMMA ApartPages ==
    ASSUME NEW b \in Page \X Order, NEW c \in Page \X Order, Apart(b, c), NEW p \in Int,
           p \in Pages(b[1], b[2])
    PROVE  p \notin Pages(c[1], c[2])
<1>1. b[1] \in Nat /\ 2 ^ b[2] \in Nat /\ c[1] \in Nat /\ 2 ^ c[2] \in Nat
  BY BlockPages
<1>2. b[1] <= p /\ p < b[1] + 2 ^ b[2]
  BY BlockPages
<1>3. p \in Pages(c[1], c[2]) <=> c[1] <= p /\ p < c[1] + 2 ^ c[2]
  BY BlockPages
<1> QED BY <1>1, <1>2, <1>3 DEF Apart

\* The pages that are free or in flight are the ones nobody holds.
LEMMA FreeIsUnheld == IInv => FreeNow = Unheld
<1> SUFFICES ASSUME IInv PROVE FreeNow = Unheld
  OBVIOUS
<1>1. CASE pc \in {"high", "low"}
  <2>1. owned = {}
    BY <1>1 DEF IInv, High, Low, Booted, Untouched
  <2> QED BY <1>1, <2>1 DEF FreeNow, Unheld
<1>2. CASE pc \notin {"high", "low"}
  <2> DEFINE M == kernel .. 2 ^ MaxOrder - 1
             G == FreeIn(pool) \cup InFlight
  <2>1. Serving /\ FreeNow = FreePages
    BY <1>2 DEF IInv, Typing, FreeNow
  <2>2. FreePages = UNION {Pages(b[1], b[2]) : b \in G}
    BY FreeBlocksAre DEF FreePages, IInv, Orderly
  <2>3. Tiling(G \cup owned, kernel)
    BY <2>1 DEF Serving
  <2>4. G \cap owned = {}
    BY <2>1 DEF Serving, InFlight, Working
  <2>5. M \subseteq Int
    BY Bounds
  <2> HIDE DEF G, M
  <2>6. \A b \in G \cup owned : b \in Page \X Order
    BY <2>3 DEF Tiling
  <2>7. \A b \in G : \A c \in owned : Apart(b, c)
    BY <2>3, <2>4 DEF Tiling
  <2>8. \A p \in Int : (\E b \in G \cup owned : p \in Pages(b[1], b[2])) <=> p \in M
    BY <2>3 DEF Tiling, M
  <2>9. \A b \in G \cup owned : Pages(b[1], b[2]) \subseteq Int
    BY <2>6, BlockPages DEF Pages
  <2>10. ASSUME NEW p \in FreePages PROVE p \in Unheld
    <3>1. PICK b \in G : p \in Pages(b[1], b[2])
      BY <2>2, <2>10
    <3>2. p \in Int
      BY <2>9, <3>1
    <3>3. p \in M
      BY <2>8, <3>1, <3>2
    <3>4. \A c \in owned : p \notin Pages(c[1], c[2])
      <4> TAKE c \in owned
      <4>1. b \in Page \X Order /\ c \in Page \X Order /\ Apart(b, c)
        BY <2>6, <2>7
      <4> QED BY <3>1, <3>2, <4>1, ApartPages
    <3> QED BY <3>3, <3>4 DEF Unheld, M
  <2>11. ASSUME NEW p \in Unheld PROVE p \in FreePages
    <3>1. p \in M /\ \A c \in owned : p \notin Pages(c[1], c[2])
      BY <2>11 DEF Unheld, M
    <3>2. PICK b \in G \cup owned : p \in Pages(b[1], b[2])
      BY <2>5, <2>8, <3>1
    <3>3. b \in G
      BY <3>1, <3>2
    <3> QED BY <2>2, <3>2, <3>3
  <2> QED BY <2>1, <2>10, <2>11
<1> QED BY <1>1, <1>2

\* The same of the next state.
LEMMA FreeStaysUnheld == (IInv => FreeNow = Unheld)'
  BY FreeIsUnheld, PTL

\* As long as the owners do not change, neither do the free pages.
LEMMA SameFree ==
    ASSUME IInv, IInv', kernel' = kernel, owned' = owned
    PROVE  FreeNow' = FreeNow
<1>1. FreeNow = Unheld
  BY FreeIsUnheld
<1>2. FreeNow' = Unheld'
  BY FreeStaysUnheld
<1>3. Unheld' = Unheld
  BY DEF Unheld
<1> QED BY <1>1, <1>2, <1>3

\* allocate() returns NULL only if no aligned run of free pages is large enough.
LEMMA RefusalJustified ==
    ASSUME IInv, pc = "idle", NEW order \in Order, Available(order) = {},
           NEW a \in Page, Aligned(a, order)
    PROVE  ~(Pages(a, order) \subseteq FreeNow)
<1> SUFFICES ASSUME Pages(a, order) \subseteq FreeNow PROVE FALSE
  OBVIOUS
<1>1. Serving /\ Orderly(pool) /\ InFlight = {} /\ FreeNow = FreePages
  BY DEF IInv, InFlight, FreeNow
<1>2. FreePages = UNION {Pages(b[1], b[2]) : b \in FreeIn(pool)}
  BY <1>1, FreeBlocksAre DEF FreePages, Orderly
<1>3. \A b \in FreeIn(pool) : b \in Page \X Order
  BY DEF FreeIn
<1>4. Covered(pool, a, order)
  <2>1. a \in Nat /\ 2 ^ order \in Nat
    BY Powers, PageNat
  <2>2. ASSUME NEW p \in Nat, a <= p, p < a + 2 ^ order
        PROVE  \E c \in FreeIn(pool) : c[1] <= p /\ p < c[1] + 2 ^ c[2]
    <3>1. p \in Pages(a, order)
      BY <2>1, <2>2 DEF Pages
    <3>2. p \in FreePages /\ p \in Int
      BY <1>1, <3>1
    <3>3. PICK c \in FreeIn(pool) : p \in Pages(c[1], c[2])
      BY <1>2, <3>2
    <3>4. c[1] <= p /\ p < c[1] + 2 ^ c[2]
      BY <1>3, <3>2, <3>3, BlockPages
    <3> QED BY <3>4
  <2> QED BY <2>2 DEF Covered
<1> DEFINE B == FreeIn(pool) \cup InFlight \cup owned
<1>5. FreeIn(pool) \subseteq B /\ Tiling(B, kernel)
  BY <1>1 DEF Serving
<1> HIDE DEF B
<1>6. \E l \in order .. MaxOrder : pool[l] # <<>>
  BY <1>1, <1>4, <1>5, Bounds, RunImpliesBlock
<1> QED BY <1>6 DEF Available

\* The last step of allocate(): the pages of the block leave the free ones.
LEMMA HandOutRefines ==
    ASSUME IInv, IInv', HandOut
    PROVE  /\ addr \in Page /\ power \in Order /\ Aligned(addr, power)
           /\ Pages(addr, power) \subseteq FreeNow
           /\ FreeNow' = FreeNow \ Pages(addr, power)
           /\ owned' = owned \cup {<<addr, power>>} /\ answer' = <<power, addr>>
<1>1. /\ pc = "split" /\ level = power /\ kernel' = kernel
      /\ owned' = owned \cup {<<addr, power>>} /\ answer' = <<power, addr>>
  BY DEF HandOut, boot
<1> DEFINE b == <<addr, power>>
           B == FreeIn(pool) \cup InFlight \cup owned
<1>2. Serving
  BY <1>1 DEF IInv
<1>3. InFlight = {b} /\ addr \in Page /\ power \in Order /\ b \notin owned /\ Tiling(B, kernel)
  BY <1>1, <1>2 DEF InFlight, Serving, Working
<1>4. Aligned(addr, power)
  <2>1. b \in B /\ b[1] = addr /\ b[2] = power
    BY <1>3
  <2> HIDE DEF b, B
  <2> QED BY <1>3, <2>1 DEF Tiling
<1>5. FreeNow = Unheld /\ FreeNow' = Unheld'
  BY FreeIsUnheld, FreeStaysUnheld
<1>6. Pages(addr, power) \subseteq FreeNow
  <2>1. FreeNow = FreePages
    BY <1>1 DEF FreeNow
  <2>2. b \in FreeBlocks \cup InFlight /\ b[1] = addr /\ b[2] = power
    BY <1>3
  <2>3. Pages(b[1], b[2]) \subseteq FreePages
    <3> HIDE DEF b
    <3> QED BY <2>2 DEF FreePages
  <2> QED BY <2>1, <2>2, <2>3
<1>7. Unheld' = Unheld \ Pages(addr, power)
  <2>1. \A c \in owned' : c \in owned \/ c = b
    BY <1>1
  <2>2. b \in owned' /\ owned \subseteq owned' /\ b[1] = addr /\ b[2] = power
    BY <1>1
  <2> HIDE DEF b
  <2> QED BY <1>1, <2>1, <2>2 DEF Unheld
<1> QED BY <1>1, <1>3, <1>4, <1>5, <1>6, <1>7

\* The first step of deallocate(): the pages of the block are free again.
LEMMA DeallocateRefines ==
    ASSUME IInv, IInv', NEW b \in owned, Deallocate(b)
    PROVE  /\ FreeNow' = FreeNow \cup Pages(b[1], b[2])
           /\ owned' = owned \ {b} /\ answer' = NoAnswer
<1>1. pc = "idle" /\ owned' = owned \ {b} /\ answer' = NoAnswer /\ kernel' = kernel
  BY DEF Deallocate, boot
<1>2. Serving
  BY <1>1 DEF IInv
<1> DEFINE B == FreeIn(pool) \cup InFlight \cup owned
<1>3. Tiling(B, kernel) /\ owned \subseteq B
  BY <1>2 DEF Serving
<1> HIDE DEF B
<1>4. FreeNow = Unheld /\ FreeNow' = Unheld'
  BY FreeIsUnheld, FreeStaysUnheld
<1>5. b \in Page \X Order /\ Pages(b[1], b[2]) \subseteq Int
  <2>1. b \in Page \X Order
    BY <1>3 DEF Tiling
  <2> QED BY <2>1, BlockPages DEF Pages
<1>6. Pages(b[1], b[2]) \subseteq kernel .. 2 ^ MaxOrder - 1
  BY <1>3, <1>5 DEF Tiling
<1>7. \A c \in owned \ {b} : \A p \in Pages(b[1], b[2]) : p \notin Pages(c[1], c[2])
  <2> TAKE c \in owned \ {b}
  <2> TAKE p \in Pages(b[1], b[2])
  <2>1. c \in Page \X Order /\ Apart(b, c) /\ p \in Int
    BY <1>3, <1>5 DEF Tiling
  <2> QED BY <1>5, <2>1, ApartPages
<1>8. Unheld' = Unheld \cup Pages(b[1], b[2])
  BY <1>1, <1>6, <1>7 DEF Unheld
<1> QED BY <1>1, <1>4, <1>8

\* The buddy allocator implements PageAllocator: an allocation takes an aligned run
\* of free pages and marks nothing else, NULL is returned only if there is no such
\* run, however the blocks were split and freed before, and setting up the lists,
\* splitting and merging change no page's owner.
THEOREM Refinement == Spec => ImplementsPageAllocator
<1>1. Init => Promise!Init
  <2> SUFFICES ASSUME Init PROVE Promise!Init
    OBVIOUS
  <2>1. IInv
    BY InitIInv
  <2>2. /\ kernel \in Nat /\ kernel >= 1 /\ 2 ^ MaxOrder \in Nat /\ kernel <= 2 ^ MaxOrder
    BY <2>1, Bounds
  <2>3. FreeNow = kernel .. 2 ^ MaxOrder - 1 /\ owned = {} /\ answer = NoAnswer
    BY DEF Init, FreeNow
  <2>4. kernel - 1 \in Page /\ FreeNow = {p \in Page : p > kernel - 1}
    BY <2>2, <2>3 DEF Page
  <2>5. \E k \in Page : FreeNow = {p \in Page : p > k}
    BY <2>4
  <2> QED BY <2>3, <2>5 DEF Promise!Init, Promise!Page, Promise!NoAnswer, Promise!NULL, NoAnswer, NULL, Page, FreeNow
<1>2. IInv /\ IInv' /\ [Next]_vars => [Promise!Next]_<<FreeNow, owned, answer>>
  <2> SUFFICES ASSUME IInv, IInv', [Next]_vars
               PROVE  Promise!Next \/ (FreeNow' = FreeNow /\ owned' = owned /\ answer' = answer)
    OBVIOUS
  <2>1. CASE InitHigh \/ InitLow \/ Split \/ Merge \/ UNCHANGED vars
    <3>1. kernel' = kernel /\ owned' = owned /\ answer' = answer
      BY <2>1 DEF InitHigh, InitLow, Split, Merge, vars, boot
    <3> QED BY <3>1, SameFree
  <2>2. ASSUME NEW order \in Order, Allocate(order)
        PROVE  Promise!Next \/ (FreeNow' = FreeNow /\ owned' = owned /\ answer' = answer)
    <3>1. kernel' = kernel /\ owned' = owned /\ pc = "idle"
      BY <2>2 DEF Allocate, boot
    <3>2. FreeNow' = FreeNow
      BY <3>1, SameFree
    <3>3. CASE Available(order) # {}
      BY <2>2, <3>1, <3>2, <3>3 DEF Allocate
    <3>4. CASE Available(order) = {}
      <4>1. answer' = <<order, NULL>>
        BY <2>2, <3>4 DEF Allocate
      <4>2. \A a \in Page : Aligned(a, order) => ~(Pages(a, order) \subseteq FreeNow)
        BY <3>1, <3>4, RefusalJustified
      <4>3. Promise!Runs(order) = {}
        BY <4>2 DEF Promise!Runs, Promise!Page, Promise!Aligned, Promise!Pages, Page, Aligned, Pages, FreeNow
      <4>4. Promise!Refuse(order)
        BY <3>1, <3>2, <4>1, <4>3 DEF Promise!Refuse, Promise!NULL, NULL, FreeNow
      <4> QED BY <4>4 DEF Promise!Next, Promise!Order, Order
    <3> QED BY <3>3, <3>4
  <2>3. CASE HandOut
    <3>1. /\ addr \in Page /\ power \in Order /\ Aligned(addr, power)
          /\ Pages(addr, power) \subseteq FreeNow
          /\ FreeNow' = FreeNow \ Pages(addr, power)
          /\ owned' = owned \cup {<<addr, power>>} /\ answer' = <<power, addr>>
      BY <2>3, HandOutRefines
    <3>2. addr \in Promise!Runs(power)
      BY <3>1 DEF Promise!Runs, Promise!Page, Promise!Aligned, Promise!Pages, Page, Aligned, Pages, FreeNow
    <3>3. Promise!Allocate(power)
      BY <3>1, <3>2 DEF Promise!Allocate, Promise!Pages, Pages, FreeNow
    <3> QED BY <3>1, <3>3 DEF Promise!Next, Promise!Order, Order
  <2>4. ASSUME NEW b \in owned, Deallocate(b) PROVE Promise!Next
    <3>1. /\ FreeNow' = FreeNow \cup Pages(b[1], b[2])
          /\ owned' = owned \ {b} /\ answer' = NoAnswer
      BY <2>4, DeallocateRefines
    <3>2. Promise!Deallocate(b)
      BY <3>1 DEF Promise!Deallocate, Promise!Pages, Promise!NoAnswer, Promise!NULL, NoAnswer, NULL, Pages, FreeNow
    <3> QED BY <3>2 DEF Promise!Next
  <2> QED BY <2>1, <2>2, <2>3, <2>4 DEF Next
<1>3. [Promise!Next]_<<FreeNow, owned, answer>> =>
      [Promise!Next]_<<IF pc \in {"high", "low"} THEN kernel .. 2 ^ MaxOrder - 1 ELSE FreePages, owned, answer>>
  BY DEF FreeNow
<1> QED BY <1>1, <1>2, <1>3, Invariance, PTL DEF Spec, ImplementsPageAllocator, Promise!Spec
=============================================================================
