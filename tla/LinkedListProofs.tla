-------------------------- MODULE LinkedListProofs --------------------------
(***************************************************************************)
(* For any number of nodes and any data: the links, the ownership of nodes *)
(* and the loops of kernel/single_linked_list.h are right, and the list    *)
(* implements a sequence of data pointers.                                 *)
(***************************************************************************)
EXTENDS LinkedList, SequenceTheorems, TLAPS

\* An allocated node holds data, not what the last owner of the memory left.
HeapData == \A n \in heap : data[n] \in Data

\* for_each_node() starts with no call of func made.
SeenReset == op # "each" => seen = <<>>

\* The inductive invariant.
IInv == TypeOK /\ ListInv /\ HeapData /\ SeenReset

-----------------------------------------------------------------------------
(* Sequences. *)

\* push_head(): what the longer sequence holds.
LEMMA ConsProperties ==
    ASSUME NEW S, NEW s \in Seq(S), NEW e \in S
    PROVE  /\ <<e>> \o s \in Seq(S)
           /\ Len(<<e>> \o s) = Len(s) + 1
           /\ \A i \in 1 .. Len(s) + 1 : (<<e>> \o s)[i] = IF i = 1 THEN e ELSE s[i - 1]
<1>1. <<e>> \in Seq(S) /\ Len(<<e>>) = 1 /\ <<e>>[1] = e /\ Len(s) \in Nat
  OBVIOUS
<1>2. /\ <<e>> \o s \in Seq(S)
      /\ Len(<<e>> \o s) = 1 + Len(s)
      /\ \A i \in 1 .. 1 + Len(s) :
             (<<e>> \o s)[i] = IF i <= 1 THEN <<e>>[i] ELSE s[i - 1]
  BY <1>1, ConcatProperties
<1> DEFINE r == <<e>> \o s
<1> HIDE DEF r
<1>3. \A i \in 1 .. Len(s) + 1 : r[i] = IF i = 1 THEN e ELSE s[i - 1]
  BY <1>1, <1>2 DEF r
<1> QED BY <1>1, <1>2, <1>3 DEF r

\* removeAt(): s without its entry at p + 1.
Without(s, p) == SubSeq(s, 1, p) \o SubSeq(s, p + 2, Len(s))

\* What is left after removeAt(): the entries in front, and those behind moved up.
LEMMA WithoutProperties ==
    ASSUME NEW S, NEW s \in Seq(S), NEW p \in 0 .. Len(s) - 1
    PROVE  /\ Without(s, p) \in Seq(S)
           /\ Len(Without(s, p)) = Len(s) - 1
           /\ \A i \in 1 .. Len(s) - 1 :
                  Without(s, p)[i] = IF i <= p THEN s[i] ELSE s[i + 1]
<1> DEFINE a == SubSeq(s, 1, p)
           b == SubSeq(s, p + 2, Len(s))
<1>1. Len(s) \in Nat /\ p \in Nat /\ p < Len(s)
  OBVIOUS
<1>2. a \in Seq(S) /\ Len(a) = p /\ \A i \in 1 .. p : a[i] = s[i]
  <2>1. \A i \in 1 .. p : s[i] \in S
    BY <1>1
  <2>2. /\ a \in Seq(S)
        /\ Len(a) = IF 1 <= p THEN p - 1 + 1 ELSE 0
        /\ \A i \in 1 .. p - 1 + 1 : a[i] = s[1 + i - 1]
    BY <1>1, <2>1, SubSeqProperties
  <2> HIDE DEF a
  <2> QED BY <1>1, <2>2
<1>3. /\ b \in Seq(S) /\ Len(b) = Len(s) - p - 1
      /\ \A i \in 1 .. Len(s) - p - 1 : b[i] = s[p + 1 + i]
  <2>1. \A i \in p + 2 .. Len(s) : s[i] \in S
    BY <1>1
  <2>2. p + 2 \in Int /\ Len(s) \in Int
    BY <1>1
  <2>3. /\ b \in Seq(S)
        /\ Len(b) = IF p + 2 <= Len(s) THEN Len(s) - (p + 2) + 1 ELSE 0
        /\ \A i \in 1 .. Len(s) - (p + 2) + 1 : b[i] = s[p + 2 + i - 1]
    BY <2>1, <2>2, SubSeqProperties
  <2> HIDE DEF b
  <2> QED BY <1>1, <2>3
<1> HIDE DEF a, b
<1>4. /\ a \o b \in Seq(S)
      /\ Len(a \o b) = Len(a) + Len(b)
      /\ \A i \in 1 .. Len(a) + Len(b) :
             (a \o b)[i] = IF i <= Len(a) THEN a[i] ELSE b[i - Len(a)]
  BY <1>2, <1>3, ConcatProperties
<1> DEFINE r == a \o b
<1> HIDE DEF r
<1>5. /\ r \in Seq(S) /\ Len(r) = Len(s) - 1
      /\ \A i \in 1 .. Len(s) - 1 : r[i] = IF i <= p THEN a[i] ELSE b[i - p]
  BY <1>1, <1>2, <1>3, <1>4 DEF r
<1>6. \A i \in 1 .. Len(s) - 1 : r[i] = IF i <= p THEN s[i] ELSE s[i + 1]
  <2> TAKE i \in 1 .. Len(s) - 1
  <2>1. CASE i <= p
    BY <1>1, <1>2, <1>5, <2>1
  <2>2. CASE ~(i <= p)
    <3>1. i - p \in 1 .. Len(s) - p - 1 /\ p + 1 + (i - p) = i + 1
      BY <1>1, <2>2
    <3> QED BY <1>3, <1>5, <2>2, <3>1
  <2> QED BY <2>1, <2>2
<1>7. Without(s, p) = r
  BY DEF Without, r, a, b
<1> QED BY <1>5, <1>6, <1>7

-----------------------------------------------------------------------------
(* What the invariant says, in a form the provers like. *)

\* The list and its nodes.
LEMMA Facts ==
    ASSUME IInv
    PROVE  /\ order \in Seq(Node) /\ Len(order) \in Nat
           /\ \A i \in 1 .. Len(order) : order[i] \in Node
           /\ \A i, j \in 1 .. Len(order) : order[i] = order[j] => i = j
           /\ \A i \in Freed + 1 .. Len(order) :
                  /\ next[order[i]] = IF i = Len(order) THEN NULL ELSE order[i + 1]
           /\ Freed \in Nat /\ pos \in Nat
<1>1. order \in Seq(Node) /\ pos \in Nat
  BY DEF IInv, TypeOK
<1>2. Freed \in Nat
  BY <1>1 DEF Freed
<1> QED BY <1>1, <1>2 DEF IInv, ListInv, Linked

\* Outside clear_single_linked_list(), what is on the list is allocated, holds
\* data, and is in nobody's hands.
LEMMA Listed ==
    ASSUME IInv, op # "clear", NEW i \in 1 .. Len(order)
    PROVE  /\ order[i] \in Node /\ order[i] \in heap /\ order[i] \notin held
           /\ data[order[i]] \in Data
<1>1. Freed = 0
  BY DEF Freed
<1>2. order[i] \in Node /\ Len(order) \in Nat
  BY Facts
<1>3. i \in Freed + 1 .. Len(order)
  BY <1>1, <1>2
<1>4. order[i] \in heap /\ order[i] \notin held
  BY <1>2, <1>3 DEF IInv, ListInv, NodesAccounted
<1> QED BY <1>2, <1>4 DEF IInv, HeapData

\* NULL stands for no node: the list is empty if and only if its head, or its
\* tail, is NULL.
LEMMA EmptyIff ==
    ASSUME IInv
    PROVE  /\ head = NULL <=> order = <<>>
           /\ tail = NULL <=> order = <<>>
           /\ order = <<>> <=> Len(order) = 0
           /\ order # <<>> => head = order[1] /\ tail = order[Len(order)]
                              /\ head \in Node /\ tail \in Node
<1>1. order \in Seq(Node) /\ Len(order) \in Nat
      /\ \A i \in 1 .. Len(order) : order[i] \in Node
  BY Facts
<1>2. order = <<>> <=> Len(order) = 0
  BY <1>1
<1>3. order # <<>> => order[1] \in Node /\ order[Len(order)] \in Node
  BY <1>1, <1>2
<1> QED BY <1>2, <1>3, NodeAssumption DEF IInv, ListInv, Linked

-----------------------------------------------------------------------------
(* Operations without a loop. *)

\* init_single_linked_list() establishes the invariant.
LEMMA InitEstablishes == Init => IInv
<1> SUFFICES ASSUME Init PROVE IInv
  OBVIOUS
<1>1. order = <<>> /\ seen = <<>> /\ Len(order) = 0 /\ op = "none" /\ pos = 0
  BY DEF Init
<1>2. TypeOK
  BY <1>1 DEF Init, TypeOK
<1>3. Linked
  BY <1>1 DEF Init, Linked, Freed
<1>4. NodesAccounted
  BY <1>1 DEF Init, NodesAccounted, Freed
<1>5. LoopPosition
  BY <1>1 DEF Init, LoopPosition
<1>6. HeapData
  BY DEF Init, HeapData
<1>7. SeenReset
  BY <1>1 DEF SeenReset
<1> QED BY <1>2, <1>3, <1>4, <1>5, <1>6, <1>7 DEF IInv, ListInv

\* make_single_linked_list_node() touches no node of the list.
LEMMA MakeNodeKeeps ==
    ASSUME IInv, NEW n \in Node, NEW d \in Data, MakeNode(n, d)
    PROVE  IInv'
<1>1. /\ op = "none" /\ n \notin heap
      /\ heap' = heap \cup {n} /\ held' = held \cup {n}
      /\ data' = [data EXCEPT ![n] = d] /\ next' = [next EXCEPT ![n] = NULL]
      /\ head' = head /\ tail' = tail /\ size' = size
      /\ op' = op /\ addr' = addr /\ prev' = prev /\ node' = node /\ seen' = seen /\ ret' = ret
      /\ order' = order /\ pos' = pos
  BY DEF MakeNode, list, loop
<1>2. \A i \in 1 .. Len(order) : order[i] \in Node /\ order[i] \in heap /\ order[i] # n
  BY <1>1, Listed
<1>3. Freed = 0 /\ Freed' = 0
  BY <1>1 DEF Freed
<1>4. TypeOK'
  BY <1>1 DEF IInv, TypeOK
<1>5. Linked'
  BY <1>1, <1>2, <1>3 DEF IInv, TypeOK, ListInv, Linked
<1>6. NodesAccounted'
  BY <1>1, <1>2, <1>3 DEF IInv, TypeOK, ListInv, NodesAccounted
<1>7. LoopPosition'
  BY <1>1 DEF IInv, ListInv, LoopPosition
<1>8. HeapData'
  BY <1>1 DEF IInv, TypeOK, HeapData
<1>9. SeenReset'
  BY <1>1 DEF IInv, SeenReset
<1> QED BY <1>4, <1>5, <1>6, <1>7, <1>8, <1>9 DEF IInv, ListInv

\* push_head() of a node the caller holds.
LEMMA PushHeadKeeps ==
    ASSUME IInv, NEW n \in Node, PushHead(n)
    PROVE  IInv'
<1>1. /\ op = "none" /\ n \in held
      /\ next' = [next EXCEPT ![n] = head] /\ head' = n
      /\ tail' = (IF tail = NULL THEN n ELSE tail) /\ size' = size + 1
      /\ held' = held \ {n} /\ order' = <<n>> \o order
      /\ data' = data /\ heap' = heap
      /\ op' = op /\ addr' = addr /\ prev' = prev /\ node' = node /\ seen' = seen /\ ret' = ret
      /\ pos' = pos
  BY DEF PushHead, loop
<1>2. order \in Seq(Node) /\ Len(order) \in Nat /\ size = Len(order)
  BY Facts DEF IInv, ListInv, Linked
<1>3. /\ order' \in Seq(Node) /\ Len(order') = Len(order) + 1
      /\ \A i \in 1 .. Len(order) + 1 : order'[i] = IF i = 1 THEN n ELSE order[i - 1]
  BY <1>1, <1>2, ConsProperties
<1>4. order' # <<>>
  BY <1>2, <1>3
<1>5. \A i \in 1 .. Len(order) : order[i] \in Node /\ order[i] # n
  BY <1>1, Listed
<1>6. Freed = 0 /\ Freed' = 0
  BY <1>1 DEF Freed
<1>7. TypeOK'
  BY <1>1, <1>3 DEF IInv, TypeOK
<1>8. Linked'
  <2>1. size' = Len(order') /\ head' = order'[1]
    BY <1>1, <1>2, <1>3
  <2>2. tail' = order'[Len(order')]
    <3>1. CASE order = <<>>
      BY <1>1, <1>2, <1>3, <3>1, EmptyIff
    <3>2. CASE order # <<>>
      <4>1. tail # NULL /\ tail = order[Len(order)] /\ Len(order) # 0
        BY <3>2, EmptyIff, NodeAssumption
      <4>2. order'[Len(order) + 1] = order[Len(order)]
        BY <4>1, <1>2, <1>3
      <4> QED BY <4>1, <4>2, <1>1, <1>3
    <3> QED BY <3>1, <3>2
  <2>3. \A i, j \in 1 .. Len(order') : order'[i] = order'[j] => i = j
    <3> SUFFICES ASSUME NEW i \in 1 .. Len(order'), NEW j \in 1 .. Len(order'),
                        order'[i] = order'[j], i < j
                 PROVE  FALSE
      BY <1>2, <1>3
    <3>1. j # 1 /\ order'[j] = order[j - 1] /\ j - 1 \in 1 .. Len(order)
      BY <1>2, <1>3
    <3>2. i # 1
      BY <3>1, <1>3, <1>5
    <3>3. order'[i] = order[i - 1] /\ i - 1 \in 1 .. Len(order)
      BY <3>2, <1>2, <1>3
    <3>4. i - 1 = j - 1
      BY <3>1, <3>3, Facts
    <3> QED BY <3>4
  <2>4. \A i \in 1 .. Len(order') :
           next'[order'[i]] = IF i = Len(order') THEN NULL ELSE order'[i + 1]
    <3> TAKE i \in 1 .. Len(order')
    <3>1. CASE i = 1
      <4>1. next'[order'[1]] = head
        BY <1>1, <1>3 DEF IInv, TypeOK
      <4>2. CASE order = <<>>
        BY <3>1, <4>1, <4>2, <1>2, <1>3, EmptyIff
      <4>3. CASE order # <<>>
        <5>1. head = order[1] /\ Len(order) # 0
          BY <4>3, EmptyIff
        <5>2. order'[2] = order[1]
          BY <5>1, <1>2, <1>3
        <5> QED BY <3>1, <4>1, <5>1, <5>2, <1>2, <1>3
      <4> QED BY <4>2, <4>3
    <3>2. CASE i # 1
      <4>1. i - 1 \in 1 .. Len(order) /\ order'[i] = order[i - 1]
        BY <3>2, <1>2, <1>3
      <4>2. next'[order'[i]] = next[order[i - 1]]
        BY <4>1, <1>1, <1>5 DEF IInv, TypeOK
      <4>3. next[order[i - 1]] = IF i - 1 = Len(order) THEN NULL ELSE order[(i - 1) + 1]
        BY <4>1, <1>6, Facts
      <4>4. i # Len(order') => order'[i + 1] = order[(i - 1) + 1]
        BY <3>2, <1>2, <1>3
      <4> QED BY <4>1, <4>2, <4>3, <4>4, <1>2, <1>3
    <3> QED BY <3>1, <3>2
  <2> QED BY <2>1, <2>2, <2>3, <2>4, <1>4, <1>6 DEF Linked
<1>9. NodesAccounted'
  <2>1. ASSUME NEW m \in Node
        PROVE  (\E i \in 1 .. Len(order') : order'[i] = m) <=>
               m = n \/ \E i \in 1 .. Len(order) : order[i] = m
    <3>1. 1 \in 1 .. Len(order') /\ order'[1] = n
      BY <1>2, <1>3
    <3>2. ASSUME NEW i \in 1 .. Len(order) PROVE i + 1 \in 1 .. Len(order') /\ order'[i + 1] = order[i]
      BY <1>2, <1>3
    <3>3. ASSUME NEW i \in 1 .. Len(order'), i # 1
          PROVE  i - 1 \in 1 .. Len(order) /\ order'[i] = order[i - 1]
      BY <3>3, <1>2, <1>3
    <3> QED BY <3>1, <3>2, <3>3
  <2>2. held \subseteq heap
    BY DEF IInv, ListInv, NodesAccounted
  <2>3. \A m \in Node : (m \in heap /\ m \notin held) <=> \E i \in 1 .. Len(order) : order[i] = m
    BY <1>6 DEF IInv, ListInv, NodesAccounted
  <2> QED BY <2>1, <2>2, <2>3, <1>1, <1>6 DEF NodesAccounted
<1>10. LoopPosition'
  BY <1>1 DEF IInv, ListInv, LoopPosition
<1>11. HeapData'
  BY <1>1 DEF IInv, HeapData
<1>12. SeenReset'
  BY <1>1 DEF IInv, SeenReset
<1> QED BY <1>7, <1>8, <1>9, <1>10, <1>11, <1>12 DEF IInv, ListInv

\* push_tail(): the new tail ends the chain, also if its node was on the list before.
LEMMA PushTailKeeps ==
    ASSUME IInv, NEW n \in Node, PushTail(n)
    PROVE  IInv'
<1>1. /\ op = "none" /\ n \in held
      /\ next' = LinkTail(n) /\ head' = (IF tail = NULL THEN n ELSE head)
      /\ tail' = n /\ size' = size + 1
      /\ held' = held \ {n} /\ order' = Append(order, n)
      /\ data' = data /\ heap' = heap
      /\ op' = op /\ addr' = addr /\ prev' = prev /\ node' = node /\ seen' = seen /\ ret' = ret
      /\ pos' = pos
  BY DEF PushTail, loop
<1>2. order \in Seq(Node) /\ Len(order) \in Nat /\ size = Len(order)
  BY Facts DEF IInv, ListInv, Linked
<1>3. /\ order' \in Seq(Node) /\ Len(order') = Len(order) + 1
      /\ \A i \in 1 .. Len(order) + 1 : order'[i] = IF i = Len(order) + 1 THEN n ELSE order[i]
  BY <1>1, <1>2, AppendProperties
<1>4. order' # <<>>
  BY <1>2, <1>3
<1>5. \A i \in 1 .. Len(order) : order[i] \in Node /\ order[i] # n
  BY <1>1, Listed
<1>6. Freed = 0 /\ Freed' = 0
  BY <1>1 DEF Freed
<1>7. /\ next' \in [Node -> Node \cup {NULL, Poison}]
      /\ next'[n] = NULL
      /\ \A m \in Node : m # n /\ m # tail => next'[m] = next[m]
      /\ tail # NULL => next'[tail] = n
  <2>1. next \in [Node -> Node \cup {NULL, Poison}] /\ tail \in Node \cup {NULL}
    BY DEF IInv, TypeOK
  <2>2. tail # n
    BY <1>2, <1>5, EmptyIff, NodeAssumption
  <2> QED BY <1>1, <2>1, <2>2 DEF LinkTail
<1>8. TypeOK'
  BY <1>1, <1>3, <1>7 DEF IInv, TypeOK
<1>9. Linked'
  <2>1. size' = Len(order') /\ tail' = order'[Len(order')]
    BY <1>1, <1>2, <1>3
  <2>2. head' = order'[1]
    <3>1. CASE order = <<>>
      BY <1>1, <1>2, <1>3, <3>1, EmptyIff
    <3>2. CASE order # <<>>
      BY <1>1, <1>2, <1>3, <3>2, EmptyIff, NodeAssumption
    <3> QED BY <3>1, <3>2
  <2>3. \A i, j \in 1 .. Len(order') : order'[i] = order'[j] => i = j
    <3> SUFFICES ASSUME NEW i \in 1 .. Len(order'), NEW j \in 1 .. Len(order'),
                        order'[i] = order'[j], i < j
                 PROVE  FALSE
      BY <1>2, <1>3
    <3>1. i \in 1 .. Len(order) /\ order'[i] = order[i]
      BY <1>2, <1>3
    <3>2. j # Len(order) + 1
      BY <3>1, <1>2, <1>3, <1>5
    <3>3. j \in 1 .. Len(order) /\ order'[j] = order[j]
      BY <3>2, <1>2, <1>3
    <3>4. i = j
      BY <3>1, <3>3, Facts
    <3> QED BY <3>4
  <2>4. \A i \in 1 .. Len(order') :
           next'[order'[i]] = IF i = Len(order') THEN NULL ELSE order'[i + 1]
    <3> TAKE i \in 1 .. Len(order')
    <3>1. CASE i = Len(order) + 1
      BY <3>1, <1>3, <1>7
    <3>2. CASE i = Len(order) /\ i # 0
      <4>1. order # <<>> /\ order'[i] = tail /\ tail # NULL
        BY <3>2, <1>2, <1>3, EmptyIff, NodeAssumption
      <4>2. next'[order'[i]] = n /\ order'[i + 1] = n
        BY <4>1, <3>2, <1>2, <1>3, <1>7
      <4> QED BY <4>2, <3>2, <1>2, <1>3
    <3>3. CASE i < Len(order)
      <4>1. /\ i \in 1 .. Len(order) /\ order'[i] = order[i] /\ order'[i + 1] = order[i + 1]
            /\ Len(order) \in 1 .. Len(order)
        BY <3>3, <1>2, <1>3
      <4>2. tail = order[Len(order)]
        BY <3>3, <1>2, EmptyIff
      <4>3. order[i] # tail
        BY <4>1, <4>2, <3>3, Facts
      <4>4. next'[order[i]] = next[order[i]]
        BY <4>1, <4>3, <1>5, <1>7
      <4>5. next[order[i]] = order[i + 1]
        BY <4>1, <3>3, <1>6, Facts
      <4> QED BY <4>1, <4>4, <4>5, <3>3, <1>2, <1>3
    <3> QED BY <3>1, <3>2, <3>3, <1>2, <1>3
  <2> QED BY <2>1, <2>2, <2>3, <2>4, <1>4, <1>6 DEF Linked
<1>10. NodesAccounted'
  <2>1. ASSUME NEW m \in Node
        PROVE  (\E i \in 1 .. Len(order') : order'[i] = m) <=>
               m = n \/ \E i \in 1 .. Len(order) : order[i] = m
    <3>1. Len(order) + 1 \in 1 .. Len(order') /\ order'[Len(order) + 1] = n
      BY <1>2, <1>3
    <3>2. ASSUME NEW i \in 1 .. Len(order) PROVE i \in 1 .. Len(order') /\ order'[i] = order[i]
      BY <1>2, <1>3
    <3>3. ASSUME NEW i \in 1 .. Len(order'), i # Len(order) + 1
          PROVE  i \in 1 .. Len(order) /\ order'[i] = order[i]
      BY <3>3, <1>2, <1>3
    <3> QED BY <3>1, <3>2, <3>3
  <2>2. held \subseteq heap
    BY DEF IInv, ListInv, NodesAccounted
  <2>3. \A m \in Node : (m \in heap /\ m \notin held) <=> \E i \in 1 .. Len(order) : order[i] = m
    BY <1>6 DEF IInv, ListInv, NodesAccounted
  <2> QED BY <2>1, <2>2, <2>3, <1>1, <1>6 DEF NodesAccounted
<1>11. LoopPosition'
  BY <1>1 DEF IInv, ListInv, LoopPosition
<1>12. HeapData'
  BY <1>1 DEF IInv, HeapData
<1>13. SeenReset'
  BY <1>1 DEF IInv, SeenReset
<1> QED BY <1>8, <1>9, <1>10, <1>11, <1>12, <1>13 DEF IInv, ListInv

\* What pop_head() and pop_head_without_free() leave: the rest of the chain.
LEMMA UnlinkFacts ==
    ASSUME IInv, Unlink
    PROVE  /\ head \in Node /\ 1 \in 1 .. Len(order) /\ head = order[1]
           /\ order' \in Seq(Node) /\ Len(order') = Len(order) - 1
           /\ size' = Len(order')
           /\ head' = IF order' = <<>> THEN NULL ELSE order'[1]
           /\ tail' = IF order' = <<>> THEN NULL ELSE order'[Len(order')]
           /\ \A i \in 1 .. Len(order') : order'[i] = order[i + 1] /\ order'[i] # head
           /\ \A i, j \in 1 .. Len(order') : order'[i] = order'[j] => i = j
           /\ \A i \in 1 .. Len(order') :
                  next[order'[i]] = IF i = Len(order') THEN NULL ELSE order'[i + 1]
           /\ \A m \in Node : (\E i \in 1 .. Len(order') : order'[i] = m) <=>
                              m # head /\ \E i \in 1 .. Len(order) : order[i] = m
           /\ Freed = 0 /\ Freed' = 0
           /\ op = "none" /\ op' = op /\ addr' = addr /\ prev' = prev /\ node' = node
           /\ seen' = seen /\ ret' = ret /\ pos' = pos
<1>1. /\ op = "none" /\ head # NULL
      /\ head' = (IF head = tail THEN NULL ELSE next[head])
      /\ tail' = (IF head = tail THEN NULL ELSE tail)
      /\ size' = size - 1 /\ order' = Tail(order)
      /\ op' = op /\ addr' = addr /\ prev' = prev /\ node' = node /\ seen' = seen /\ ret' = ret
      /\ pos' = pos
  BY DEF Unlink, loop
<1>2. order \in Seq(Node) /\ Len(order) \in Nat /\ size = Len(order)
  BY Facts DEF IInv, ListInv, Linked
<1>3. order # <<>> /\ Len(order) # 0 /\ head = order[1] /\ tail = order[Len(order)] /\ head \in Node
  BY <1>1, EmptyIff
<1>4. order' \in Seq(Node) /\ Len(order') = Len(order) - 1
      /\ \A i \in 1 .. Len(order) - 1 : order'[i] = order[i + 1]
  BY <1>1, <1>2, <1>3, HeadTailProperties
<1>5. Freed = 0 /\ Freed' = 0
  BY <1>1 DEF Freed
<1>6. 1 \in 1 .. Len(order) /\ Len(order) \in 1 .. Len(order)
  BY <1>2, <1>3
<1>7. head = tail <=> Len(order) = 1
  BY <1>3, <1>6, Facts
<1>8. order' = <<>> <=> Len(order) = 1
  BY <1>2, <1>4
<1>9. head' = IF order' = <<>> THEN NULL ELSE order'[1]
  <2>1. CASE Len(order) = 1
    BY <1>1, <1>7, <1>8, <2>1
  <2>2. CASE Len(order) # 1
    <3>1. next[order[1]] = order[1 + 1]
      <4>1. 1 \in Freed + 1 .. Len(order)
        BY <1>5, <1>6
      <4> QED BY <2>2, <4>1, Facts
    <3>2. order'[1] = order[1 + 1]
      BY <2>2, <1>2, <1>3, <1>4
    <3> QED BY <2>2, <3>1, <3>2, <1>1, <1>3, <1>7, <1>8
  <2> QED BY <2>1, <2>2
<1>10. tail' = IF order' = <<>> THEN NULL ELSE order'[Len(order')]
  <2>1. CASE Len(order) = 1
    BY <1>1, <1>7, <1>8, <2>1
  <2>2. CASE Len(order) # 1
    <3>1. order'[Len(order')] = order[Len(order)]
      BY <2>2, <1>2, <1>3, <1>4
    <3> QED BY <2>2, <3>1, <1>1, <1>3, <1>7, <1>8
  <2> QED BY <2>1, <2>2
<1>11. ASSUME NEW i \in 1 .. Len(order')
       PROVE  /\ i + 1 \in 1 .. Len(order) /\ order'[i] = order[i + 1] /\ order'[i] # head
              /\ next[order'[i]] = IF i = Len(order') THEN NULL ELSE order'[i + 1]
  <2>1. i + 1 \in 1 .. Len(order) /\ order'[i] = order[i + 1] /\ i + 1 # 1
    BY <1>2, <1>4
  <2>2. order'[i] # head
    BY <2>1, <1>3, <1>6, Facts
  <2>3. next[order[i + 1]] = IF i + 1 = Len(order) THEN NULL ELSE order[(i + 1) + 1]
    BY <2>1, <1>5, Facts
  <2>4. i # Len(order') => order'[i + 1] = order[(i + 1) + 1]
    BY <1>2, <1>4
  <2>5. i = Len(order') <=> i + 1 = Len(order)
    BY <1>2, <1>4
  <2> QED BY <2>1, <2>2, <2>3, <2>4, <2>5
<1>12. ASSUME NEW i \in 1 .. Len(order'), NEW j \in 1 .. Len(order'), order'[i] = order'[j]
       PROVE  i = j
  <2>1. i + 1 = j + 1
    BY <1>11, <1>12, Facts
  <2> QED BY <2>1, <1>2, <1>4
<1>13. ASSUME NEW m \in Node
       PROVE  (\E i \in 1 .. Len(order') : order'[i] = m) <=>
              m # head /\ \E i \in 1 .. Len(order) : order[i] = m
  <2>1. ASSUME NEW i \in 1 .. Len(order), order[i] # head
        PROVE  i - 1 \in 1 .. Len(order') /\ order'[i - 1] = order[i]
    <3>1. i # 1
      BY <2>1, <1>3
    <3> QED BY <3>1, <1>2, <1>4
  <2>2. ASSUME NEW i \in 1 .. Len(order'), order'[i] = m
        PROVE  m # head /\ \E k \in 1 .. Len(order) : order[k] = m
    BY <2>2, <1>11
  <2>3. ASSUME NEW i \in 1 .. Len(order), order[i] = m, m # head
        PROVE  \E k \in 1 .. Len(order') : order'[k] = m
    BY <2>1, <2>3
  <2> QED BY <2>2, <2>3
<1>14. size' = Len(order')
  BY <1>1, <1>2, <1>4
<1>15. \A i, j \in 1 .. Len(order') : order'[i] = order'[j] => i = j
  BY <1>12
<1>16. \A i \in 1 .. Len(order') :
          /\ order'[i] = order[i + 1] /\ order'[i] # head
          /\ next[order'[i]] = IF i = Len(order') THEN NULL ELSE order'[i + 1]
  BY <1>11
<1>17. \A m \in Node : (\E i \in 1 .. Len(order') : order'[i] = m) <=>
                       m # head /\ \E i \in 1 .. Len(order) : order[i] = m
  BY <1>13
<1> QED BY <1>1, <1>3, <1>4, <1>5, <1>6, <1>9, <1>10, <1>14, <1>15, <1>16, <1>17

\* pop_head_without_free(): the node is the caller's, intact.
LEMMA PopHeadWithoutFreeKeeps ==
    ASSUME IInv, PopHeadWithoutFree
    PROVE  IInv'
<1>1. /\ Unlink /\ held' = held \cup {head} /\ next' = next /\ data' = data /\ heap' = heap
  BY DEF PopHeadWithoutFree
<1>2. head \in heap
  BY <1>1, UnlinkFacts, Listed
<1>3. TypeOK'
  <2>1. head' \in Node \cup {NULL} /\ tail' \in Node \cup {NULL} /\ size' \in Nat
    BY <1>1, UnlinkFacts
  <2> QED BY <1>1, <2>1, UnlinkFacts DEF IInv, TypeOK
<1>4. Linked'
  BY <1>1, UnlinkFacts DEF Linked
<1>5. NodesAccounted'
  <2>1. held' \subseteq heap'
    BY <1>1, <1>2 DEF IInv, ListInv, NodesAccounted
  <2>2. \A m \in Node : (m \in heap /\ m \notin held) <=> \E i \in 1 .. Len(order) : order[i] = m
    <3>1. Freed = 0
      BY <1>1, UnlinkFacts
    <3> QED BY <3>1 DEF IInv, ListInv, NodesAccounted
  <2>3. \A m \in Node : (m \in heap' /\ m \notin held') <=> \E i \in 1 .. Len(order') : order'[i] = m
    BY <1>1, <2>2, UnlinkFacts
  <2> QED BY <1>1, <2>1, <2>3, UnlinkFacts DEF NodesAccounted
<1>6. LoopPosition'
  BY <1>1, UnlinkFacts DEF IInv, ListInv, LoopPosition
<1>7. HeapData'
  BY <1>1 DEF IInv, HeapData
<1>8. SeenReset'
  BY <1>1, UnlinkFacts DEF IInv, SeenReset
<1> QED BY <1>3, <1>4, <1>5, <1>6, <1>7, <1>8 DEF IInv, ListInv

\* pop_head(): the node is nobody's.
LEMMA PopHeadKeeps ==
    ASSUME IInv, PopHead
    PROVE  IInv'
<1>1. /\ Unlink /\ held' = held /\ heap' = heap \ {head}
      /\ next' = [next EXCEPT ![head] = Poison] /\ data' = [data EXCEPT ![head] = Poison]
  BY DEF PopHead, Kfree
<1>2. head \in heap /\ head \notin held
  BY <1>1, UnlinkFacts, Listed
<1>3. TypeOK'
  <2>1. head' \in Node \cup {NULL} /\ tail' \in Node \cup {NULL} /\ size' \in Nat
    BY <1>1, UnlinkFacts
  <2> QED BY <1>1, <2>1, UnlinkFacts DEF IInv, TypeOK
<1>4. \A i \in 1 .. Len(order') : next'[order'[i]] = next[order'[i]]
  <2>1. \A i \in 1 .. Len(order') : order'[i] \in Node /\ order'[i] # head
    BY <1>1, UnlinkFacts
  <2> QED BY <1>1, <2>1 DEF IInv, TypeOK
<1>5. Linked'
  BY <1>1, <1>4, UnlinkFacts DEF Linked
<1>6. NodesAccounted'
  <2>1. held' \subseteq heap'
    BY <1>1, <1>2 DEF IInv, ListInv, NodesAccounted
  <2>2. \A m \in Node : (m \in heap /\ m \notin held) <=> \E i \in 1 .. Len(order) : order[i] = m
    <3>1. Freed = 0
      BY <1>1, UnlinkFacts
    <3> QED BY <3>1 DEF IInv, ListInv, NodesAccounted
  <2>3. \A m \in Node : (m \in heap' /\ m \notin held') <=> \E i \in 1 .. Len(order') : order'[i] = m
    BY <1>1, <2>2, UnlinkFacts
  <2> QED BY <1>1, <2>1, <2>3, UnlinkFacts DEF NodesAccounted
<1>7. LoopPosition'
  BY <1>1, UnlinkFacts DEF IInv, ListInv, LoopPosition
<1>8. HeapData'
  BY <1>1 DEF IInv, TypeOK, HeapData
<1>9. SeenReset'
  BY <1>1, UnlinkFacts DEF IInv, SeenReset
<1> QED BY <1>3, <1>5, <1>6, <1>7, <1>8, <1>9 DEF IInv, ListInv

-----------------------------------------------------------------------------
(* Loops. *)

\* Outside clear_single_linked_list(), a step that leaves the list, the nodes and
\* their owners alone keeps all but the place of the loop.
LEMMA SameList ==
    ASSUME IInv, op # "clear", op' # "clear" \/ pos' = 0,
           head' = head, tail' = tail, size' = size, next' = next, data' = data,
           heap' = heap, held' = held, order' = order
    PROVE  Linked' /\ NodesAccounted' /\ HeapData'
<1>1. Freed = 0 /\ Freed' = 0
  BY DEF Freed
<1> QED BY <1>1 DEF IInv, ListInv, Linked, NodesAccounted, HeapData

\* A loop that ends leaves no trace in its variables.
LEMMA EndFacts ==
    ASSUME NEW r, End(r)
    PROVE  LoopPosition' /\ SeenReset'
BY DEF End, LoopPosition, SeenReset

\* The call of removeAt(): the head is behind it already.
LEMMA RemoveAtKeeps ==
    ASSUME IInv, NEW d \in Data, RemoveAt(d)
    PROVE  IInv'
<1>1. /\ op = "none" /\ op' = "remove" /\ addr' = d
      /\ head' = head /\ tail' = tail /\ size' = size /\ next' = next /\ data' = data
      /\ heap' = heap /\ held' = held /\ seen' = seen /\ ret' = ret /\ order' = order
      /\ prev' = head
      /\ node' = (IF head = NULL THEN NULL ELSE next[head])
      /\ pos' = IF head = NULL THEN 0 ELSE 1
  BY DEF RemoveAt, Begin, list
<1>2. order \in Seq(Node) /\ Len(order) \in Nat
  BY Facts
<1>3. /\ pos' \in Nat /\ pos' <= Len(order)
      /\ node' = (IF pos' = Len(order) THEN NULL ELSE order[pos' + 1])
      /\ order # <<>> => pos' = 1 /\ head = order[1]
  <2>1. CASE order = <<>>
    BY <1>1, <1>2, <2>1, EmptyIff
  <2>2. CASE order # <<>>
    <3>1. head # NULL /\ head = order[1] /\ Len(order) # 0
      BY <2>2, EmptyIff
    <3>2. 1 \in Freed + 1 .. Len(order)
      BY <1>1, <1>2, <3>1 DEF Freed
    <3>3. next[order[1]] = IF 1 = Len(order) THEN NULL ELSE order[1 + 1]
      BY <3>2, Facts
    <3> QED BY <1>1, <1>2, <3>1, <3>3
  <2> QED BY <2>1, <2>2
<1>4. node' \in Node \cup {NULL}
  <2>1. pos' # Len(order) => order[pos' + 1] \in Node
    <3>1. ASSUME NEW p \in Nat, p <= Len(order), p # Len(order) PROVE p + 1 \in 1 .. Len(order)
      BY <1>2, <3>1
    <3> QED BY <1>3, <3>1, Facts
  <2> QED BY <1>3, <2>1
<1>5. TypeOK'
  BY <1>1, <1>3, <1>4 DEF IInv, TypeOK
<1>6. LoopPosition'
  BY <1>1, <1>2, <1>3 DEF LoopPosition
<1>7. SeenReset'
  BY <1>1 DEF IInv, SeenReset
<1>8. Linked' /\ NodesAccounted' /\ HeapData'
  BY <1>1, SameList
<1> QED BY <1>5, <1>6, <1>7, <1>8 DEF IInv, ListInv

\* The calls of for_each_node() and clear_single_linked_list() start at the head.
LEMMA ForEachClearKeep ==
    ASSUME IInv, ForEach \/ Clear
    PROVE  IInv'
<1>1. /\ op = "none" /\ op' \in {"each", "clear"} /\ addr' = NULL
      /\ head' = head /\ tail' = tail /\ size' = size /\ next' = next /\ data' = data
      /\ heap' = heap /\ held' = held /\ seen' = seen /\ ret' = ret /\ order' = order
      /\ node' = head /\ prev' = prev /\ pos' = pos
  BY DEF ForEach, Clear, Begin, list
<1>2. pos = 0 /\ seen = <<>>
  BY <1>1 DEF IInv, ListInv, LoopPosition, SeenReset
<1>3. order \in Seq(Node) /\ Len(order) \in Nat
  BY Facts
<1>4. TypeOK'
  BY <1>1 DEF IInv, TypeOK
<1>5. node' = IF pos' = Len(order) THEN NULL ELSE order[pos' + 1]
  BY <1>1, <1>2, <1>3, EmptyIff
<1>6. seen' = [i \in 1 .. pos' |-> data[order[i]]]
  <2>1. 1 .. pos' = {}
    BY <1>1, <1>2
  <2> QED BY <1>1, <1>2, <2>1
<1>7. LoopPosition'
  BY <1>1, <1>2, <1>3, <1>5, <1>6 DEF LoopPosition
<1>8. SeenReset'
  BY <1>1, <1>2 DEF SeenReset
<1>9. Linked' /\ NodesAccounted' /\ HeapData'
  BY <1>1, <1>2, SameList
<1> QED BY <1>4, <1>7, <1>8, <1>9 DEF IInv, ListInv

\* Where a loop stands when it has not come to the end.
LEMMA OnNode ==
    ASSUME IInv, op # "none", node # NULL
    PROVE  /\ pos + 1 \in 1 .. Len(order) /\ node = order[pos + 1] /\ node \in Node
           /\ order # <<>> /\ pos + 1 \in Freed + 1 .. Len(order)
           /\ next[node] = IF pos + 1 = Len(order) THEN NULL ELSE order[(pos + 1) + 1]
           /\ next[node] \in Node \cup {NULL}
           /\ data[node] \in Data /\ node \in heap /\ node \notin held
<1>1. order \in Seq(Node) /\ Len(order) \in Nat /\ pos \in Nat
  BY Facts
<1>2. pos <= Len(order) /\ pos # Len(order) /\ node = order[pos + 1]
  BY DEF IInv, ListInv, LoopPosition
<1>3. pos + 1 \in 1 .. Len(order)
  BY <1>1, <1>2
<1>4. node \in Node /\ order # <<>>
  BY <1>2, <1>3, EmptyIff, Facts
<1>5. pos + 1 \in Freed + 1 .. Len(order)
  BY <1>1, <1>3 DEF Freed
<1>6. next[node] = IF pos + 1 = Len(order) THEN NULL ELSE order[(pos + 1) + 1]
  BY <1>2, <1>5, Facts
<1>7. next[node] \in Node \cup {NULL}
  <2>1. pos + 1 # Len(order) => (pos + 1) + 1 \in 1 .. Len(order)
    BY <1>1, <1>3
  <2> QED BY <1>6, <2>1, Facts
<1>8. node \in heap /\ node \notin held
  BY <1>2, <1>4, <1>5 DEF IInv, ListInv, NodesAccounted
<1> QED BY <1>2, <1>3, <1>4, <1>5, <1>6, <1>7, <1>8 DEF IInv, HeapData

\* node = node->next moves a loop on by one.
LEMMA AdvanceFacts ==
    ASSUME IInv, op # "none", node # NULL, Advance
    PROVE  /\ node' \in Node \cup {NULL} /\ pos' = pos + 1 /\ pos' \in Nat /\ pos' <= Len(order)
           /\ node' = IF pos' = Len(order) THEN NULL ELSE order[pos' + 1]
<1>1. pos \in Nat /\ Len(order) \in Nat
  BY Facts
<1>2. node' = next[node] /\ pos' = pos + 1
  BY DEF Advance
<1>3. /\ pos + 1 \in 1 .. Len(order) /\ next[node] \in Node \cup {NULL}
      /\ next[node] = IF pos + 1 = Len(order) THEN NULL ELSE order[(pos + 1) + 1]
  BY OnNode
<1> QED BY <1>1, <1>2, <1>3

\* No node is on the list twice.
NoRepeat(s) == \A i, j \in 1 .. Len(s) : s[i] = s[j] => i = j

\* Taking an entry out of a sequence without repetitions: exactly that entry goes.
LEMMA WithoutInjective ==
    ASSUME NEW S, NEW s \in Seq(S), NEW p \in 0 .. Len(s) - 1, NoRepeat(s)
    PROVE  /\ NoRepeat(Without(s, p))
           /\ \A m \in S : (\E i \in 1 .. Len(s) - 1 : Without(s, p)[i] = m) <=>
                           m # s[p + 1] /\ \E i \in 1 .. Len(s) : s[i] = m
<1> DEFINE r == Without(s, p)
           at(i) == IF i <= p THEN i ELSE i + 1
<1>1. Len(s) \in Nat /\ p \in Nat /\ p + 1 \in 1 .. Len(s)
  OBVIOUS
<1>0. \A i, j \in 1 .. Len(s) : s[i] = s[j] => i = j
  BY DEF NoRepeat
<1>2. ASSUME NEW i \in 1 .. Len(s) - 1
      PROVE  at(i) \in 1 .. Len(s) /\ r[i] = s[at(i)] /\ at(i) # p + 1
  <2>1. r[i] = s[at(i)]
    BY WithoutProperties
  <2> QED BY <1>1, <2>1
<1>3. ASSUME NEW i \in 1 .. Len(s) - 1, NEW j \in 1 .. Len(s) - 1, at(i) = at(j)
      PROVE  i = j
  BY <1>1, <1>3
<1>4. ASSUME NEW k \in 1 .. Len(s), k # p + 1
      PROVE  \E i \in 1 .. Len(s) - 1 : at(i) = k
  <2>1. CASE k <= p
    <3>1. k \in 1 .. Len(s) - 1 /\ at(k) = k
      BY <1>1, <2>1
    <3> QED BY <3>1
  <2>2. CASE k > p
    <3>1. k - 1 \in 1 .. Len(s) - 1 /\ at(k - 1) = k
      BY <1>1, <1>4, <2>2
    <3> QED BY <3>1
  <2> QED BY <1>1, <2>1, <2>2
<1> HIDE DEF r, at
<1>5. \A i, j \in 1 .. Len(s) - 1 : r[i] = r[j] => i = j
  <2> TAKE i, j \in 1 .. Len(s) - 1
  <2> HAVE r[i] = r[j]
  <2>1. at(i) = at(j)
    BY <1>0, <1>2
  <2> QED BY <2>1, <1>3
<1>6. ASSUME NEW m \in S, NEW i \in 1 .. Len(s) - 1, r[i] = m
      PROVE  m # s[p + 1] /\ \E k \in 1 .. Len(s) : s[k] = m
  <2>1. at(i) \in 1 .. Len(s) /\ s[at(i)] = m /\ at(i) # p + 1
    BY <1>2, <1>6
  <2> QED BY <1>0, <1>1, <2>1
<1>7. ASSUME NEW m \in S, NEW k \in 1 .. Len(s), s[k] = m, m # s[p + 1]
      PROVE  \E i \in 1 .. Len(s) - 1 : r[i] = m
  <2>1. PICK i \in 1 .. Len(s) - 1 : at(i) = k
    BY <1>4, <1>7
  <2> QED BY <2>1, <1>2, <1>7
<1>8. \A m \in S : (\E i \in 1 .. Len(s) - 1 : r[i] = m) <=>
                   m # s[p + 1] /\ \E i \in 1 .. Len(s) : s[i] = m
  BY <1>6, <1>7
<1>9. NoRepeat(r)
  <2>1. Len(r) = Len(s) - 1
    BY WithoutProperties DEF r
  <2> QED BY <1>5, <2>1 DEF NoRepeat
<1> QED BY <1>8, <1>9 DEF r

\* The turn of removeAt()'s loop that finds its node.
RemoveFound ==
    /\ op = "remove" /\ node # NULL /\ data[node] = addr
    /\ tail' = IF node = tail THEN prev ELSE tail
    /\ Kfree([next EXCEPT ![prev] = next[node]], node)
    /\ size' = size - 1
    /\ order' = Without(order, pos)
    /\ End(0)
    /\ UNCHANGED <<head, held>>

\* removeAt() finds its node: the links lead around it, and it is freed.
LEMMA RemoveFoundKeeps ==
    ASSUME IInv, RemoveFound
    PROVE  IInv'
<1> DEFINE L == Len(order)
<1>0. /\ op = "remove" /\ node # NULL /\ End(0) /\ head' = head /\ held' = held
      /\ tail' = (IF node = tail THEN prev ELSE tail) /\ size' = size - 1
  BY DEF RemoveFound
<1>1. /\ order \in Seq(Node) /\ L \in Nat /\ pos \in Nat /\ size = L
      /\ next \in [Node -> Node \cup {NULL, Poison}]
  BY Facts DEF IInv, TypeOK, ListInv, Linked
<1>2. /\ pos + 1 \in 1 .. L /\ node = order[pos + 1] /\ node \in Node /\ order # <<>>
      /\ next[node] = (IF pos + 1 = L THEN NULL ELSE order[(pos + 1) + 1])
      /\ next[node] \in Node \cup {NULL} /\ node \in heap /\ node \notin held
  BY <1>0, OnNode
<1>3. pos >= 1 /\ prev = order[pos]
  BY <1>0, <1>2 DEF IInv, ListInv, LoopPosition
<1>4. pos \in 1 .. L - 1 /\ pos \in 1 .. L /\ prev \in Node
  <2>1. pos \in 1 .. L - 1 /\ pos \in 1 .. L
    BY <1>1, <1>2, <1>3
  <2> QED BY <1>3, <2>1, Facts
<1>5. \A i, j \in 1 .. L : order[i] = order[j] => i = j
  BY Facts
<1>6. Freed = 0 /\ Freed' = 0
  BY <1>0 DEF Freed, End
<1>7. order' = Without(order, pos) /\ pos \in 0 .. L - 1
  BY <1>1, <1>4 DEF RemoveFound
<1>8. /\ order' \in Seq(Node) /\ Len(order') = L - 1
      /\ \A i \in 1 .. L - 1 : order'[i] = IF i <= pos THEN order[i] ELSE order[i + 1]
  BY <1>1, <1>7, WithoutProperties
<1>9. /\ \A i, j \in 1 .. L - 1 : order'[i] = order'[j] => i = j
      /\ \A m \in Node : (\E i \in 1 .. L - 1 : order'[i] = m) <=>
                         m # node /\ \E i \in 1 .. L : order[i] = m
  <2>1. NoRepeat(order)
    BY <1>5 DEF NoRepeat
  <2>2. /\ NoRepeat(order')
        /\ \A m \in Node : (\E i \in 1 .. L - 1 : order'[i] = m) <=>
                           m # order[pos + 1] /\ \E i \in 1 .. L : order[i] = m
    BY <1>1, <1>7, <2>1, WithoutInjective
  <2> QED BY <2>2, <1>2, <1>8 DEF NoRepeat
<1>10. /\ heap' = heap \ {node} /\ data' = [data EXCEPT ![node] = Poison]
       /\ next' = [[next EXCEPT ![prev] = next[node]] EXCEPT ![node] = Poison]
  BY DEF RemoveFound, Kfree
<1>11. prev # node
  <2>1. pos # pos + 1
    BY <1>1
  <2> QED BY <2>1, <1>2, <1>3, <1>4, <1>5
<1>12. /\ next' \in [Node -> Node \cup {NULL, Poison}]
       /\ next'[prev] = next[node]
       /\ \A m \in Node : m # prev /\ m # node => next'[m] = next[m]
  BY <1>1, <1>2, <1>4, <1>10, <1>11
<1>13. order' # <<>>
  BY <1>4, <1>8
<1>14. TypeOK'
  <2>1. head' \in Node \cup {NULL} /\ tail' \in Node \cup {NULL}
    BY <1>0, <1>4 DEF IInv, TypeOK
  <2>2. size' \in Nat
    BY <1>0, <1>1, <1>4
  <2>3. data' \in [Node -> Data \cup {Poison}] /\ heap' \subseteq Node
    BY <1>10 DEF IInv, TypeOK
  <2>4. held' \subseteq Node
    BY <1>0 DEF IInv, TypeOK
  <2>5. /\ op' = "none" /\ addr' = NULL /\ prev' = NULL /\ node' = NULL /\ seen' = <<>>
        /\ ret' = 0 /\ pos' = 0
    BY <1>0 DEF End
  <2> QED BY <2>1, <2>2, <2>3, <2>4, <2>5, <1>8, <1>12 DEF TypeOK
<1>15. Linked'
  <2>1. size' = Len(order')
    BY <1>0, <1>1, <1>8
  <2>2. head' = order'[1]
    BY <1>0, <1>1, <1>2, <1>4, <1>8, EmptyIff
  <2>3. tail' = order'[Len(order')]
    <3>1. tail = order[L] /\ L \in 1 .. L /\ L - 1 \in 1 .. L - 1
      BY <1>1, <1>2, <1>4, EmptyIff
    <3>2. CASE pos + 1 = L
      <4>1. node = tail
        BY <1>2, <3>1, <3>2
      <4>2. order'[L - 1] = order[pos]
        BY <1>1, <1>4, <1>8, <3>1, <3>2
      <4> QED BY <4>1, <4>2, <1>0, <1>3, <1>8
    <3>3. CASE pos + 1 # L
      <4>1. node # tail
        BY <1>2, <1>5, <3>1, <3>3
      <4>2. order'[L - 1] = order[L]
        BY <1>1, <1>4, <1>8, <3>1, <3>3
      <4> QED BY <4>1, <4>2, <1>0, <1>8, <3>1
    <3> QED BY <3>2, <3>3
  <2>4. \A i \in 1 .. L - 1 :
            next'[order'[i]] = IF i = L - 1 THEN NULL ELSE order'[i + 1]
    <3> TAKE i \in 1 .. L - 1
    <3>1. CASE i < pos
      <4>1. /\ i \in 1 .. L /\ order'[i] = order[i] /\ i # pos /\ i # pos + 1 /\ i # L /\ i # L - 1
            /\ order'[i + 1] = order[i + 1] /\ i \in Freed + 1 .. L
        BY <1>1, <1>4, <1>6, <1>8, <3>1
      <4>2. order[i] \in Node /\ order[i] # prev /\ order[i] # node
        BY <4>1, <1>2, <1>3, <1>4, <1>5, Facts
      <4>3. next[order[i]] = order[i + 1]
        BY <4>1, Facts
      <4> QED BY <4>1, <4>2, <4>3, <1>12
    <3>2. CASE i = pos
      <4>1. order'[i] = prev
        BY <1>3, <1>8, <3>2
      <4>2. i = L - 1 <=> pos + 1 = L
        BY <1>1, <3>2
      <4>3. i # L - 1 => order'[i + 1] = order[(pos + 1) + 1]
        BY <1>1, <1>4, <1>8, <3>2
      <4> QED BY <4>1, <4>2, <4>3, <1>2, <1>12
    <3>3. CASE i > pos
      <4>1. /\ i + 1 \in 1 .. L /\ order'[i] = order[i + 1] /\ i + 1 # pos /\ i + 1 # pos + 1
            /\ i + 1 \in Freed + 1 .. L
        BY <1>1, <1>4, <1>6, <1>8, <3>3
      <4>2. order[i + 1] \in Node /\ order[i + 1] # prev /\ order[i + 1] # node
        BY <4>1, <1>2, <1>3, <1>4, <1>5, Facts
      <4>3. next[order[i + 1]] = IF i + 1 = L THEN NULL ELSE order[(i + 1) + 1]
        BY <4>1, Facts
      <4>4. i = L - 1 <=> i + 1 = L
        BY <1>1
      <4>5. i # L - 1 => order'[i + 1] = order[(i + 1) + 1]
        BY <1>1, <1>4, <1>8, <3>3
      <4> QED BY <4>1, <4>2, <4>3, <4>4, <4>5, <1>12
    <3> QED BY <1>1, <1>4, <3>1, <3>2, <3>3
  <2>5. \A i \in 1 .. Len(order') :
            next'[order'[i]] = IF i = Len(order') THEN NULL ELSE order'[i + 1]
    BY <2>4, <1>8
  <2>6. \A i, j \in 1 .. Len(order') : order'[i] = order'[j] => i = j
    BY <1>8, <1>9
  <2> QED BY <2>1, <2>2, <2>3, <2>5, <2>6, <1>6, <1>13 DEF Linked
<1>16. NodesAccounted'
  <2>1. held' \subseteq heap'
    BY <1>0, <1>2, <1>10 DEF IInv, ListInv, NodesAccounted
  <2>2. \A m \in Node : (m \in heap /\ m \notin held) <=> \E i \in 1 .. L : order[i] = m
    BY <1>6 DEF IInv, ListInv, NodesAccounted
  <2>3. \A m \in Node : (m \in heap' /\ m \notin held') <=> \E i \in 1 .. Len(order') : order'[i] = m
    BY <2>2, <1>0, <1>8, <1>9, <1>10
  <2> QED BY <2>1, <2>3, <1>6 DEF NodesAccounted
<1>17. HeapData'
  BY <1>10 DEF IInv, TypeOK, HeapData
<1>18. LoopPosition' /\ SeenReset'
  BY <1>0, EndFacts
<1> QED BY <1>14, <1>15, <1>16, <1>17, <1>18 DEF IInv, ListInv

\* A turn of removeAt()'s loop.
LEMMA RemoveStepKeeps ==
    ASSUME IInv, RemoveStep
    PROVE  IInv'
<1>1. op = "remove" /\ held' = held
  BY DEF RemoveStep
<1>2. CASE /\ NotFound /\ End(-1) /\ UNCHANGED <<list, next, data, heap, order>>
  <2>1. Linked' /\ NodesAccounted' /\ HeapData'
    <3>1. op' = "none"
      BY <1>2 DEF End
    <3>2. /\ head' = head /\ tail' = tail /\ size' = size /\ next' = next /\ data' = data
          /\ heap' = heap /\ order' = order
      BY <1>2 DEF list
    <3> QED BY <1>1, <3>1, <3>2, SameList
  <2>2. LoopPosition' /\ SeenReset'
    BY <1>2, EndFacts
  <2>3. TypeOK'
    BY <1>1, <1>2 DEF IInv, TypeOK, End, list
  <2> QED BY <2>1, <2>2, <2>3 DEF IInv, ListInv
<1>3. CASE /\ ~NotFound /\ data[node] = addr
           /\ tail' = (IF node = tail THEN prev ELSE tail)
           /\ Kfree([next EXCEPT ![prev] = next[node]], node)
           /\ size' = size - 1
           /\ order' = SubSeq(order, 1, pos) \o SubSeq(order, pos + 2, Len(order))
           /\ End(0) /\ UNCHANGED head
  <2>1. RemoveFound
    BY <1>1, <1>3 DEF RemoveFound, NotFound, Without
  <2> QED BY <2>1, RemoveFoundKeeps
<1>4. CASE /\ ~NotFound /\ data[node] # addr /\ Pass
           /\ UNCHANGED <<list, next, data, heap, op, addr, seen, ret, order>>
  <2>1. /\ node # NULL /\ data[node] # addr /\ prev' = node /\ Advance
        /\ head' = head /\ tail' = tail /\ size' = size /\ next' = next /\ data' = data
        /\ heap' = heap /\ order' = order /\ op' = op /\ addr' = addr /\ seen' = seen /\ ret' = ret
    BY <1>4 DEF NotFound, Pass, list
  <2>2. /\ node = order[pos + 1] /\ node \in Node /\ order # <<>>
    BY <1>1, <2>1, OnNode
  <2>3. /\ node' \in Node \cup {NULL} /\ pos' = pos + 1 /\ pos' \in Nat /\ pos' <= Len(order)
        /\ node' = IF pos' = Len(order) THEN NULL ELSE order[pos' + 1]
    BY <1>1, <2>1, AdvanceFacts
  <2>4. Linked' /\ NodesAccounted' /\ HeapData'
    BY <1>1, <2>1, SameList
  <2>5. TypeOK'
    BY <1>1, <2>1, <2>2, <2>3 DEF IInv, TypeOK
  <2>6. \A i \in 2 .. pos' : data'[order'[i]] # addr'
    <3>1. \A i \in 2 .. pos : data[order[i]] # addr
      BY <1>1 DEF IInv, ListInv, LoopPosition
    <3>2. pos \in Nat
      BY Facts
    <3>3. \A i \in 2 .. pos + 1 : i \in 2 .. pos \/ i = pos + 1
      BY <3>2
    <3> QED BY <3>1, <3>3, <2>1, <2>2, <2>3
  <2>7. pos' >= 1 /\ prev' = order'[pos']
    <3>1. pos \in Nat
      BY Facts
    <3> QED BY <3>1, <2>1, <2>2, <2>3
  <2>8. LoopPosition'
    BY <1>1, <2>1, <2>3, <2>6, <2>7 DEF LoopPosition
  <2>9. SeenReset'
    BY <2>1 DEF IInv, SeenReset
  <2> QED BY <2>4, <2>5, <2>8, <2>9 DEF IInv, ListInv
<1> QED BY <1>2, <1>3, <1>4 DEF RemoveStep

\* What for_each_node() has called func with, after one call more.
LEMMA SeenGrows ==
    ASSUME IInv, op = "each", node # NULL
    PROVE  /\ seen \in Seq(Data) /\ Len(seen) = pos
           /\ Append(seen, data[node]) = [i \in 1 .. pos + 1 |-> data[order[i]]]
           /\ Append(seen, data[node]) \in Seq(Data)
<1>1. pos \in Nat /\ seen \in Seq(Data) /\ seen = [i \in 1 .. pos |-> data[order[i]]]
  BY Facts DEF IInv, TypeOK, ListInv, LoopPosition
<1>2. node = order[pos + 1] /\ data[node] \in Data
  BY OnNode
<1>3. Len(seen) = pos
  BY <1>1
<1> DEFINE a == Append(seen, data[node])
<1>4. /\ a \in Seq(Data) /\ Len(a) = pos + 1
      /\ \A i \in 1 .. pos : a[i] = seen[i]
      /\ a[pos + 1] = data[node]
  BY <1>1, <1>2, <1>3, AppendProperties
<1> HIDE DEF a
<1>5. \A i \in 1 .. pos + 1 : a[i] = data[order[i]]
  <2>1. \A i \in 1 .. pos + 1 : i \in 1 .. pos \/ i = pos + 1
    BY <1>1
  <2>2. \A i \in 1 .. pos : seen[i] = data[order[i]]
    BY <1>1
  <2> QED BY <2>1, <2>2, <1>2, <1>4
<1>6. a = [i \in 1 .. pos + 1 |-> data[order[i]]]
  <2>1. a = [i \in 1 .. pos + 1 |-> a[i]]
    BY <1>1, <1>4
  <2> QED BY <2>1, <1>5
<1> QED BY <1>1, <1>3, <1>4, <1>6 DEF a

\* A turn of for_each_node()'s loop.
LEMMA ForEachStepKeeps ==
    ASSUME IInv, ForEachStep
    PROVE  IInv'
<1>1. /\ op = "each" /\ held' = held /\ head' = head /\ tail' = tail /\ size' = size
      /\ next' = next /\ data' = data /\ heap' = heap /\ order' = order
  BY DEF ForEachStep, list
<1>2. CASE node = NULL /\ End(ret)
  <2>1. op' = "none"
    BY <1>2 DEF End
  <2>2. Linked' /\ NodesAccounted' /\ HeapData'
    BY <1>1, <2>1, SameList
  <2>3. LoopPosition' /\ SeenReset'
    BY <1>2, EndFacts
  <2>4. TypeOK'
    BY <1>1, <1>2 DEF IInv, TypeOK, End
  <2> QED BY <2>2, <2>3, <2>4 DEF IInv, ListInv
<1>3. CASE /\ node # NULL /\ seen' = Append(seen, data[node]) /\ Advance
           /\ UNCHANGED <<op, addr, prev, ret>>
  <2>1. /\ node' \in Node \cup {NULL} /\ pos' = pos + 1 /\ pos' \in Nat /\ pos' <= Len(order)
        /\ node' = IF pos' = Len(order) THEN NULL ELSE order[pos' + 1]
    BY <1>1, <1>3, AdvanceFacts
  <2>2. seen' \in Seq(Data) /\ seen' = [i \in 1 .. pos' |-> data'[order'[i]]]
    BY <1>1, <1>3, <2>1, SeenGrows
  <2>3. op' = op /\ addr' = addr /\ prev' = prev /\ ret' = ret
    BY <1>3
  <2>4. Linked' /\ NodesAccounted' /\ HeapData'
    BY <1>1, <2>3, SameList
  <2>5. TypeOK'
    BY <1>1, <2>1, <2>2, <2>3 DEF IInv, TypeOK
  <2>6. LoopPosition'
    BY <1>1, <2>1, <2>2, <2>3 DEF LoopPosition
  <2>7. SeenReset'
    BY <1>1, <2>3 DEF SeenReset
  <2> QED BY <2>4, <2>5, <2>6, <2>7 DEF IInv, ListInv
<1> QED BY <1>2, <1>3 DEF ForEachStep

\* A turn of clear_single_linked_list()'s loop: one node freed, once.
LEMMA ClearStepKeeps ==
    ASSUME IInv, ClearStep
    PROVE  IInv'
<1>1. op = "clear" /\ held' = held /\ Freed = pos
  BY DEF ClearStep, Freed
<1>2. /\ order \in Seq(Node) /\ Len(order) \in Nat /\ pos \in Nat
  BY Facts
<1>3. CASE /\ node = NULL /\ head' = NULL /\ tail' = NULL /\ size' = 0 /\ order' = <<>>
           /\ End(ret) /\ UNCHANGED <<next, data, heap>>
  <2>1. pos = Len(order)
    <3>1. pos # Len(order) => order[pos + 1] \in Node
      <4>1. pos <= Len(order)
        BY <1>1 DEF IInv, ListInv, LoopPosition
      <4>2. pos # Len(order) => pos + 1 \in 1 .. Len(order)
        BY <4>1, <1>2
      <4> QED BY <4>2, Facts
    <3>2. node = IF pos = Len(order) THEN NULL ELSE order[pos + 1]
      BY <1>1 DEF IInv, ListInv, LoopPosition
    <3> QED BY <3>1, <3>2, <1>3, NodeAssumption
  <2>2. Freed' = 0 /\ Len(order') = 0
    BY <1>3 DEF End, Freed
  <2>3. Linked'
    BY <1>3, <2>2 DEF Linked
  <2>4. \A n \in Node : ~ (n \in heap /\ n \notin held)
    <3>1. Freed + 1 .. Len(order) = {}
      BY <1>1, <1>2, <2>1
    <3> QED BY <3>1 DEF IInv, ListInv, NodesAccounted
  <2>5. NodesAccounted'
    <3>1. held' \subseteq heap'
      BY <1>1, <1>3 DEF IInv, ListInv, NodesAccounted
    <3>2. Freed' + 1 .. Len(order') = {}
      BY <2>2
    <3> QED BY <3>1, <3>2, <2>4, <1>1, <1>3 DEF NodesAccounted
  <2>6. TypeOK'
    BY <1>1, <1>3 DEF IInv, TypeOK, End
  <2>7. LoopPosition' /\ SeenReset'
    BY <1>3, EndFacts
  <2>8. HeapData'
    BY <1>3 DEF IInv, HeapData
  <2> QED BY <2>3, <2>5, <2>6, <2>7, <2>8 DEF IInv, ListInv
<1>4. CASE node # NULL /\ ClearNode /\ UNCHANGED <<list, op, addr, prev, seen, ret, order>>
  <2>1. /\ heap' = heap \ {node} /\ data' = [data EXCEPT ![node] = Poison]
        /\ next' = [next EXCEPT ![node] = Poison] /\ Advance
        /\ head' = head /\ tail' = tail /\ size' = size /\ op' = op /\ addr' = addr
        /\ prev' = prev /\ seen' = seen /\ ret' = ret /\ order' = order
    BY <1>4 DEF ClearNode, Kfree, list
  <2>2. /\ pos + 1 \in 1 .. Len(order) /\ node = order[pos + 1] /\ node \in Node
        /\ node \in heap /\ node \notin held
    BY <1>1, <1>4, OnNode
  <2>3. /\ node' \in Node \cup {NULL} /\ pos' = pos + 1 /\ pos' \in Nat /\ pos' <= Len(order)
        /\ node' = IF pos' = Len(order) THEN NULL ELSE order[pos' + 1]
    BY <1>1, <1>4, <2>1, AdvanceFacts
  <2>4. Freed' = pos + 1
    BY <1>1, <2>1, <2>3 DEF Freed
  <2>5. TypeOK'
    BY <1>1, <2>1, <2>3 DEF IInv, TypeOK
  <2>6. ASSUME NEW i \in (pos + 1) + 1 .. Len(order)
        PROVE  i \in 1 .. Len(order) /\ i \in Freed + 1 .. Len(order)
               /\ order[i] \in Node /\ order[i] # node
    <3>1. i \in 1 .. Len(order) /\ i \in Freed + 1 .. Len(order) /\ i # pos + 1
      BY <1>1, <1>2
    <3> QED BY <3>1, <2>2, Facts
  <2>7. Linked'
    <3>1. \A i \in (pos + 1) + 1 .. Len(order) :
              next'[order[i]] = IF i = Len(order) THEN NULL ELSE order[i + 1]
      <4> TAKE i \in (pos + 1) + 1 .. Len(order)
      <4>1. next'[order[i]] = next[order[i]]
        BY <2>1, <2>6 DEF IInv, TypeOK
      <4> QED BY <4>1, <2>6, Facts
    <3> QED BY <3>1, <2>1, <2>4 DEF IInv, ListInv, Linked
  <2>8. NodesAccounted'
    <3>1. held' \subseteq heap'
      BY <1>1, <2>1, <2>2 DEF IInv, ListInv, NodesAccounted
    <3>2. \A n \in Node : (n \in heap /\ n \notin held) <=> \E i \in pos + 1 .. Len(order) : order[i] = n
      BY <1>1 DEF IInv, ListInv, NodesAccounted
    <3>3. ASSUME NEW n \in Node
          PROVE  (\E i \in (pos + 1) + 1 .. Len(order) : order[i] = n) <=>
                 n # node /\ \E i \in pos + 1 .. Len(order) : order[i] = n
      <4>1. \A i \in pos + 1 .. Len(order) : i = pos + 1 \/ i \in (pos + 1) + 1 .. Len(order)
        BY <1>2
      <4>2. \A i \in (pos + 1) + 1 .. Len(order) : i \in pos + 1 .. Len(order)
        BY <1>2
      <4> QED BY <4>1, <4>2, <2>2, <2>6
    <3>4. \A n \in Node : (n \in heap' /\ n \notin held') <=>
                          \E i \in (pos + 1) + 1 .. Len(order) : order[i] = n
      BY <3>2, <3>3, <1>1, <2>1
    <3> QED BY <3>1, <3>4, <2>1, <2>4 DEF NodesAccounted
  <2>9. LoopPosition'
    BY <1>1, <2>1, <2>3 DEF LoopPosition
  <2>10. HeapData'
    BY <2>1 DEF IInv, TypeOK, HeapData
  <2>11. SeenReset'
    BY <2>1 DEF IInv, SeenReset
  <2> QED BY <2>5, <2>7, <2>8, <2>9, <2>10, <2>11 DEF IInv, ListInv
<1> QED BY <1>3, <1>4 DEF ClearStep

-----------------------------------------------------------------------------
(* The invariants, for every sequence of calls. *)

\* Every operation and every turn of a loop keeps the invariant.
LEMMA StepKeeps == IInv /\ [Next]_vars => IInv'
<1> SUFFICES ASSUME IInv, [Next]_vars PROVE IInv'
  OBVIOUS
<1>1. ASSUME NEW n \in Node, NEW d \in Data, MakeNode(n, d) PROVE IInv'
  BY <1>1, MakeNodeKeeps
<1>2. ASSUME NEW n \in Node, PushHead(n) PROVE IInv'
  BY <1>2, PushHeadKeeps
<1>3. ASSUME NEW n \in Node, PushTail(n) PROVE IInv'
  BY <1>3, PushTailKeeps
<1>4. CASE PopHeadWithoutFree
  BY <1>4, PopHeadWithoutFreeKeeps
<1>5. CASE PopHead
  BY <1>5, PopHeadKeeps
<1>6. ASSUME NEW d \in Data, RemoveAt(d) PROVE IInv'
  BY <1>6, RemoveAtKeeps
<1>7. CASE ForEach \/ Clear
  BY <1>7, ForEachClearKeep
<1>8. CASE RemoveStep
  BY <1>8, RemoveStepKeeps
<1>9. CASE ForEachStep
  BY <1>9, ForEachStepKeeps
<1>10. CASE ClearStep
  BY <1>10, ClearStepKeeps
<1>11. CASE UNCHANGED vars
  <2>1. /\ head' = head /\ tail' = tail /\ size' = size /\ next' = next /\ data' = data
        /\ heap' = heap /\ held' = held /\ op' = op /\ addr' = addr /\ prev' = prev
        /\ node' = node /\ seen' = seen /\ ret' = ret /\ order' = order /\ pos' = pos
    BY <1>11 DEF vars, list, loop
  <2> QED BY <2>1 DEF IInv, TypeOK, ListInv, Linked, NodesAccounted, LoopPosition,
                     HeapData, SeenReset, Freed
<1> QED BY <1>1, <1>2, <1>3, <1>4, <1>5, <1>6, <1>7, <1>8, <1>9, <1>10, <1>11
        DEF Next, Step

\* The inductive invariant holds in every state.
LEMMA Invariance == Spec => []IInv
<1>1. Init => IInv
  BY InitEstablishes
<1>2. IInv /\ [Next]_vars => IInv'
  BY StepKeeps
<1> QED BY <1>1, <1>2, PTL DEF Spec

\* The variables have their types, whatever the callers do with their nodes.
THEOREM Typed == Spec => []TypeOK
<1>1. IInv => TypeOK
  BY DEF IInv
<1> QED BY <1>1, Invariance, PTL

\* Links, ownership and loop positions are right together: the chain never
\* loops or breaks, no node leaks, none is used or freed after it was freed
\* (single_linked_list.h), for any number of nodes.
THEOREM ListSafe == Spec => []ListInv
<1>1. IInv => ListInv
  BY DEF IInv
<1> QED BY <1>1, Invariance, PTL

-----------------------------------------------------------------------------
(* Refinement: the list is a sequence of data pointers. *)

\* The data pointers of the nodes of a chain, first to last.
Values(ord, dat) == [i \in 1 .. Len(ord) |-> dat[ord[i]]]

\* That sequence has the length of the chain, and its entries are the data.
LEMMA ValuesFacts ==
    ASSUME NEW ord \in Seq(Node), NEW dat, \A i \in 1 .. Len(ord) : dat[ord[i]] \in Data
    PROVE  /\ Values(ord, dat) \in Seq(Data) /\ Len(Values(ord, dat)) = Len(ord)
           /\ \A i \in 1 .. Len(ord) : Values(ord, dat)[i] = dat[ord[i]]
<1>1. Len(ord) \in Nat
  OBVIOUS
<1> QED BY <1>1 DEF Values

\* Two chains of one length whose nodes hold the same data hold the same sequence.
LEMMA ValuesAre ==
    ASSUME NEW ord \in Seq(Node), NEW dat, NEW s \in Seq(Data), Len(s) = Len(ord),
           \A i \in 1 .. Len(ord) : dat[ord[i]] = s[i]
    PROVE  Values(ord, dat) = s
<1>1. s = [i \in 1 .. Len(s) |-> s[i]]
  OBVIOUS
<1> QED BY <1>1 DEF Values

\* Outside clear_single_linked_list() the abstract sequence is what the nodes hold.
LEMMA ContentsFacts ==
    ASSUME IInv, op # "clear"
    PROVE  /\ Contents = Values(order, data)
           /\ Contents \in Seq(Data) /\ Len(Contents) = Len(order) /\ Len(order) \in Nat
           /\ \A i \in 1 .. Len(order) : Contents[i] = data[order[i]]
<1>1. order \in Seq(Node) /\ Len(order) \in Nat
  BY Facts
<1>2. \A i \in 1 .. Len(order) : data[order[i]] \in Data
  BY Listed
<1>3. Contents = Values(order, data)
  BY DEF Contents, Values
<1> QED BY <1>1, <1>2, <1>3, ValuesFacts

\* What the abstract specification sees.
AbsVars == <<Contents, op, addr, seen, ret>>

\* Making a node shows nothing.
LEMMA MakeNodeStutters ==
    ASSUME IInv, NEW n \in Node, NEW d \in Data, MakeNode(n, d)
    PROVE  UNCHANGED AbsVars
<1>1. /\ op = "none" /\ n \notin heap /\ order' = order /\ data' = [data EXCEPT ![n] = d]
      /\ op' = op /\ addr' = addr /\ seen' = seen /\ ret' = ret
  BY DEF MakeNode, loop
<1>2. \A i \in 1 .. Len(order) : order[i] \in Node /\ order[i] # n
  BY <1>1, Listed
<1>3. \A i \in 1 .. Len(order') : data'[order'[i]] = Contents[i]
  BY <1>1, <1>2, ContentsFacts DEF IInv, TypeOK
<1>4. Values(order', data') = Contents
  <2>1. Contents \in Seq(Data) /\ order' \in Seq(Node) /\ Len(Contents) = Len(order')
    BY <1>1, ContentsFacts, Facts
  <2> QED BY <1>3, <2>1, ValuesAre
<1>5. Contents' = Contents
  BY <1>1, <1>4 DEF Contents, Values
<1> QED BY <1>1, <1>5 DEF AbsVars

\* push_head() and push_tail() add the data pointer of their node at an end.
LEMMA PushRefines ==
    ASSUME IInv, NEW n \in Node, PushHead(n) \/ PushTail(n)
    PROVE  Abstract!Next
<1>1. /\ op = "none" /\ n \in held /\ data' = data
      /\ op' = op /\ addr' = addr /\ seen' = seen /\ ret' = ret
  BY DEF PushHead, PushTail, loop
<1>2. data[n] \in Data
  BY <1>1 DEF IInv, ListInv, NodesAccounted, HeapData
<1>3. order \in Seq(Node) /\ Len(order) \in Nat
  BY Facts
<1>4. /\ Contents \in Seq(Data) /\ Len(Contents) = Len(order)
      /\ \A i \in 1 .. Len(order) : Contents[i] = data[order[i]]
  BY <1>1, ContentsFacts
<1>5. Contents' = Values(order', data')
  BY <1>1 DEF Contents, Values
<1>6. CASE PushHead(n)
  <2>1. order' = <<n>> \o order
    BY <1>6 DEF PushHead
  <2>2. /\ order' \in Seq(Node) /\ Len(order') = Len(order) + 1
        /\ \A i \in 1 .. Len(order) + 1 : order'[i] = IF i = 1 THEN n ELSE order[i - 1]
    BY <1>3, <2>1, ConsProperties
  <2> DEFINE s == <<data[n]>> \o Contents
  <2>3. /\ s \in Seq(Data) /\ Len(s) = Len(order) + 1
        /\ \A i \in 1 .. Len(order) + 1 : s[i] = IF i = 1 THEN data[n] ELSE Contents[i - 1]
    BY <1>2, <1>4, ConsProperties
  <2> HIDE DEF s
  <2>4. ASSUME NEW i \in 1 .. Len(order') PROVE data'[order'[i]] = s[i]
    <3>1. CASE i = 1
      BY <3>1, <1>1, <2>2, <2>3
    <3>2. CASE i # 1
      <4>1. i - 1 \in 1 .. Len(order)
        BY <3>2, <1>3, <2>2
      <4> QED BY <3>2, <4>1, <1>1, <1>4, <2>2, <2>3
    <3> QED BY <3>1, <3>2
  <2>5. Values(order', data') = s
    BY <2>2, <2>3, <2>4, ValuesAre
  <2>6. Abstract!PushHead(data[n])
    BY <1>1, <1>5, <2>5 DEF Abstract!PushHead, s
  <2> QED BY <1>2, <2>6 DEF Abstract!Next
<1>7. CASE PushTail(n)
  <2>1. order' = Append(order, n)
    BY <1>7 DEF PushTail
  <2>2. /\ order' \in Seq(Node) /\ Len(order') = Len(order) + 1
        /\ \A i \in 1 .. Len(order) : order'[i] = order[i]
        /\ order'[Len(order) + 1] = n
    BY <1>3, <2>1, AppendProperties
  <2> DEFINE s == Append(Contents, data[n])
  <2>3. /\ s \in Seq(Data) /\ Len(s) = Len(order) + 1
        /\ \A i \in 1 .. Len(order) : s[i] = Contents[i]
        /\ s[Len(order) + 1] = data[n]
    BY <1>2, <1>3, <1>4, AppendProperties
  <2> HIDE DEF s
  <2>4. ASSUME NEW i \in 1 .. Len(order') PROVE data'[order'[i]] = s[i]
    <3>1. i \in 1 .. Len(order) \/ i = Len(order) + 1
      BY <1>3, <2>2
    <3> QED BY <3>1, <1>1, <1>4, <2>2, <2>3
  <2>5. Values(order', data') = s
    BY <2>2, <2>3, <2>4, ValuesAre
  <2>6. Abstract!PushTail(data[n])
    BY <1>1, <1>5, <2>5 DEF Abstract!PushTail, s
  <2> QED BY <1>2, <2>6 DEF Abstract!Next
<1> QED BY <1>6, <1>7

\* Both pops take the first data pointer off.
LEMMA PopRefines ==
    ASSUME IInv, PopHead \/ PopHeadWithoutFree
    PROVE  Abstract!Next
<1>1. Unlink /\ order' = Tail(order)
  BY DEF PopHead, PopHeadWithoutFree, Unlink
<1>2. /\ head \in Node /\ 1 \in 1 .. Len(order) /\ order' \in Seq(Node)
      /\ Len(order') = Len(order) - 1
      /\ \A i \in 1 .. Len(order') : order'[i] = order[i + 1] /\ order'[i] # head
      /\ op = "none" /\ op' = op /\ addr' = addr /\ seen' = seen /\ ret' = ret
  BY <1>1, UnlinkFacts
<1>3. /\ Contents \in Seq(Data) /\ Len(Contents) = Len(order) /\ Len(order) \in Nat
      /\ \A i \in 1 .. Len(order) : Contents[i] = data[order[i]]
  BY <1>2, ContentsFacts
<1>4. Contents # <<>> /\ Tail(Contents) \in Seq(Data) /\ Len(Tail(Contents)) = Len(order) - 1
      /\ \A i \in 1 .. Len(order) - 1 : Tail(Contents)[i] = Contents[i + 1]
  <2>1. Contents # <<>>
    BY <1>2, <1>3
  <2> QED BY <1>3, <2>1, HeadTailProperties
<1>5. \A m \in Node : m # head => data'[m] = data[m]
  BY <1>2 DEF PopHead, PopHeadWithoutFree, Kfree, IInv, TypeOK
<1>6. ASSUME NEW i \in 1 .. Len(order') PROVE data'[order'[i]] = Tail(Contents)[i]
  <2>1. i + 1 \in 1 .. Len(order)
    BY <1>2, <1>3
  <2>2. order'[i] \in Node /\ order'[i] = order[i + 1] /\ order'[i] # head
    BY <1>2
  <2> QED BY <2>1, <2>2, <1>2, <1>3, <1>4, <1>5
<1>7. Values(order', data') = Tail(Contents)
  <2> DEFINE s == Tail(Contents)
  <2>1. s \in Seq(Data) /\ Len(s) = Len(order') /\ \A i \in 1 .. Len(order') : data'[order'[i]] = s[i]
    BY <1>2, <1>4, <1>6
  <2> HIDE DEF s
  <2>2. Values(order', data') = s
    BY <1>2, <2>1, ValuesAre
  <2> QED BY <2>2 DEF s
<1>8. Contents' = Values(order', data')
  BY <1>2 DEF Contents, Values
<1>9. Abstract!PopHead
  BY <1>2, <1>4, <1>7, <1>8 DEF Abstract!PopHead
<1> QED BY <1>9 DEF Abstract!Next

\* The calls that start a loop.
LEMMA BeginRefines ==
    ASSUME IInv, (\E d \in Data : RemoveAt(d)) \/ ForEach \/ Clear
    PROVE  Abstract!Next
<1>1. CASE \E d \in Data : RemoveAt(d)
  <2>1. PICK d \in Data : RemoveAt(d)
    BY <1>1
  <2>2. /\ op = "none" /\ op' = "remove" /\ addr' = d /\ order' = order /\ data' = data
        /\ seen' = seen /\ ret' = ret
    BY <2>1 DEF RemoveAt, Begin
  <2>3. Abstract!Begin("remove", d)
    BY <2>2 DEF Abstract!Begin, Contents
  <2> QED BY <2>3 DEF Abstract!Next
<1>2. CASE ForEach
  <2>1. /\ op = "none" /\ op' = "each" /\ addr' = NULL /\ order' = order /\ data' = data
        /\ seen' = seen /\ ret' = ret
    BY <1>2 DEF ForEach, Begin
  <2>2. Abstract!Begin("each", NULL)
    BY <2>1 DEF Abstract!Begin, Contents
  <2> QED BY <2>2 DEF Abstract!Next
<1>3. CASE Clear
  <2>1. /\ op = "none" /\ op' = "clear" /\ addr' = NULL /\ seen' = seen /\ ret' = ret
    BY <1>3 DEF Clear, Begin
  <2>2. Abstract!Clear
    BY <2>1 DEF Abstract!Clear, Contents
  <2> QED BY <2>2 DEF Abstract!Next
<1> QED BY <1>1, <1>2, <1>3

\* removeAt(): passing a node shows nothing; the end of the loop removes the first
\* match behind the head, or reports that there is none.
LEMMA RemoveStepRefines ==
    ASSUME IInv, RemoveStep
    PROVE  Abstract!Next \/ UNCHANGED AbsVars
<1> DEFINE found == {i \in 2 .. Len(Contents) : Contents[i] = addr}
<1>1. op = "remove"
  BY DEF RemoveStep
<1>2. /\ Contents \in Seq(Data) /\ Len(Contents) = Len(order) /\ Len(order) \in Nat
      /\ \A i \in 1 .. Len(order) : Contents[i] = data[order[i]]
  BY <1>1, ContentsFacts
<1>3. /\ order \in Seq(Node) /\ pos \in Nat /\ pos <= Len(order)
      /\ \A i \in 2 .. pos : data[order[i]] # addr
  BY <1>1, Facts DEF IInv, ListInv, LoopPosition
<1>4. \A i \in 2 .. pos : i \in 1 .. Len(order)
  BY <1>2, <1>3
<1>5. CASE /\ NotFound /\ End(-1) /\ UNCHANGED <<list, next, data, heap, order>>
  <2>1. pos = Len(order)
    <3>1. node = IF pos = Len(order) THEN NULL ELSE order[pos + 1]
      BY <1>1 DEF IInv, ListInv, LoopPosition
    <3>2. pos # Len(order) => pos + 1 \in 1 .. Len(order)
      BY <1>2, <1>3
    <3>3. pos # Len(order) => order[pos + 1] \in Node
      BY <3>2, Facts
    <3> QED BY <3>1, <3>3, <1>5, NodeAssumption DEF NotFound
  <2>2. found = {}
    BY <1>2, <1>3, <1>4, <2>1
  <2>3. /\ op' = "none" /\ addr' = NULL /\ seen' = <<>> /\ ret' = -1
        /\ order' = order /\ data' = data
    BY <1>5 DEF End
  <2>4. Contents' = Contents
    BY <1>1, <2>3 DEF Contents
  <2>5. Abstract!RemoveEnd
    BY <1>1, <2>2, <2>3, <2>4 DEF Abstract!RemoveEnd, Abstract!End
  <2> QED BY <2>5 DEF Abstract!Next
<1>6. CASE RemoveFound
  <2>1. /\ node # NULL /\ data[node] = addr /\ order' = Without(order, pos)
        /\ data' = [data EXCEPT ![node] = Poison]
        /\ op' = "none" /\ addr' = NULL /\ seen' = <<>> /\ ret' = 0
    BY <1>6 DEF RemoveFound, Kfree, End
  <2>2. pos + 1 \in 1 .. Len(order) /\ node = order[pos + 1] /\ node \in Node /\ order # <<>>
    BY <1>1, <2>1, OnNode
  <2>3. pos >= 1
    BY <1>1, <2>2 DEF IInv, ListInv, LoopPosition
  <2>4. pos \in 0 .. Len(order) - 1 /\ pos + 1 \in 2 .. Len(order)
    BY <1>2, <1>3, <2>2, <2>3
  <2>5. pos + 1 \in found
    BY <1>2, <2>1, <2>2, <2>4
  <2>6. \A j \in found : pos + 1 <= j
    BY <1>2, <1>3, <1>4
  <2>7. /\ order' \in Seq(Node) /\ Len(order') = Len(order) - 1
        /\ \A i \in 1 .. Len(order) - 1 : order'[i] = IF i <= pos THEN order[i] ELSE order[i + 1]
    BY <1>3, <2>1, <2>4, WithoutProperties
  <2> DEFINE s == Without(Contents, pos)
  <2>8. /\ s \in Seq(Data) /\ Len(s) = Len(order) - 1
        /\ \A i \in 1 .. Len(order) - 1 : s[i] = IF i <= pos THEN Contents[i] ELSE Contents[i + 1]
    BY <1>2, <2>4, WithoutProperties
  <2> HIDE DEF s
  <2>9. \A m \in Node : m # node => data'[m] = data[m]
    BY <2>1 DEF IInv, TypeOK
  <2>10. ASSUME NEW i \in 1 .. Len(order') PROVE data'[order'[i]] = s[i]
    <3> DEFINE k == IF i <= pos THEN i ELSE i + 1
    <3>1. k \in 1 .. Len(order) /\ k # pos + 1
      BY <1>2, <1>3, <2>4, <2>7
    <3>2. order'[i] = order[k] /\ s[i] = Contents[k]
      BY <2>7, <2>8
    <3> HIDE DEF k
    <3>3. order[k] \in Node /\ order[k] # node
      BY <3>1, <2>2, Facts
    <3> QED BY <3>1, <3>2, <3>3, <2>9, <1>2
  <2>11. Values(order', data') = s
    BY <2>7, <2>8, <2>10, ValuesAre
  <2>12. Contents' = Values(order', data')
    BY <2>1 DEF Contents, Values
  <2>13. s = SubSeq(Contents, 1, (pos + 1) - 1) \o SubSeq(Contents, (pos + 1) + 1, Len(Contents))
    <3>1. (pos + 1) - 1 = pos /\ (pos + 1) + 1 = pos + 2
      BY <1>3
    <3> QED BY <3>1 DEF s, Without
  <2>14. Abstract!End(0)
    BY <2>1 DEF Abstract!End
  <2>15. Contents' = SubSeq(Contents, 1, (pos + 1) - 1) \o SubSeq(Contents, (pos + 1) + 1, Len(Contents))
    BY <2>11, <2>12, <2>13
  <2> HIDE DEF found
  <2>16. \E i \in found :
            /\ \A j \in found : i <= j
            /\ Contents' = SubSeq(Contents, 1, i - 1) \o SubSeq(Contents, i + 1, Len(Contents))
            /\ Abstract!End(0)
    BY <2>5, <2>6, <2>14, <2>15
  <2>17. Abstract!RemoveEnd
    BY <1>1, <2>16 DEF Abstract!RemoveEnd, found
  <2> QED BY <2>17 DEF Abstract!Next
<1>7. CASE UNCHANGED <<data, op, addr, seen, ret, order>>
  BY <1>7 DEF AbsVars, Contents
<1> QED BY <1>5, <1>6, <1>7 DEF RemoveStep, RemoveFound, NotFound, Without

\* for_each_node() calls func with the next data pointer, and ends after the last.
LEMMA ForEachStepRefines ==
    ASSUME IInv, ForEachStep
    PROVE  Abstract!Next
<1>1. op = "each" /\ data' = data /\ order' = order
  BY DEF ForEachStep
<1>2. /\ Contents = Values(order, data)
      /\ Contents \in Seq(Data) /\ Len(Contents) = Len(order) /\ Len(order) \in Nat
      /\ \A i \in 1 .. Len(order) : Contents[i] = data[order[i]]
  BY <1>1, ContentsFacts
<1>3. /\ pos \in Nat /\ pos <= Len(order) /\ seen = [i \in 1 .. pos |-> data[order[i]]]
      /\ node = IF pos = Len(order) THEN NULL ELSE order[pos + 1]
  BY <1>1, Facts DEF IInv, ListInv, LoopPosition
<1>4. CASE node = NULL /\ End(ret)
  <2>1. pos = Len(order)
    <3>1. pos # Len(order) => pos + 1 \in 1 .. Len(order)
      BY <1>2, <1>3
    <3>2. pos # Len(order) => order[pos + 1] \in Node
      BY <3>1, Facts
    <3> QED BY <3>2, <1>3, <1>4, NodeAssumption
  <2>2. seen = Contents
    BY <2>1, <1>2, <1>3 DEF Values
  <2>3. op' = "none" /\ addr' = NULL /\ seen' = <<>> /\ ret' = ret
    BY <1>4 DEF End
  <2>4. Contents' = Contents
    BY <1>1, <2>3 DEF Contents
  <2>5. Abstract!ForEachEnd
    BY <1>1, <2>2, <2>3, <2>4 DEF Abstract!ForEachEnd, Abstract!End
  <2> QED BY <2>5 DEF Abstract!Next
<1>5. CASE /\ node # NULL /\ seen' = Append(seen, data[node]) /\ Advance
           /\ UNCHANGED <<op, addr, prev, ret>>
  <2>1. Len(seen) = pos
    BY <1>1, <1>5, SeenGrows
  <2>2. pos + 1 \in 1 .. Len(order) /\ node = order[pos + 1]
    BY <1>1, <1>5, OnNode
  <2>3. Len(seen) < Len(Contents) /\ data[node] = Contents[Len(seen) + 1]
    BY <1>2, <1>3, <2>1, <2>2
  <2>4. op' = op /\ addr' = addr /\ ret' = ret
    BY <1>5
  <2>5. Contents' = Contents
    BY <1>1, <2>4 DEF Contents
  <2>6. Abstract!Visit
    BY <1>1, <1>5, <2>3, <2>4, <2>5 DEF Abstract!Visit
  <2> QED BY <2>6 DEF Abstract!Next
<1> QED BY <1>4, <1>5 DEF ForEachStep

\* clear_single_linked_list(): the list is empty already; the last turn says so.
LEMMA ClearStepRefines ==
    ASSUME IInv, ClearStep
    PROVE  Abstract!Next \/ UNCHANGED AbsVars
<1>1. op = "clear"
  BY DEF ClearStep
<1>2. CASE order' = <<>> /\ End(ret)
  <2>1. op' = "none" /\ addr' = NULL /\ seen' = <<>> /\ ret' = ret
    BY <1>2 DEF End
  <2>2. Contents = <<>> /\ Contents' = <<>>
    <3>1. 1 .. Len(order') = {}
      BY <1>2
    <3> QED BY <1>1, <2>1, <3>1 DEF Contents
  <2>3. Abstract!ClearEnd
    BY <1>1, <2>1, <2>2 DEF Abstract!ClearEnd, Abstract!End
  <2> QED BY <2>3 DEF Abstract!Next
<1>3. CASE UNCHANGED <<op, addr, seen, ret>>
  BY <1>1, <1>3 DEF AbsVars, Contents
<1> QED BY <1>2, <1>3 DEF ClearStep

\* The pointers, lengths and loops of single_linked_list.h implement a sequence
\* of data pointers, for every number of nodes: what runnable_tasks, all_tasks and
\* mem_sections are used as.
THEOREM Refinement == Spec => ImplementsDataList
<1>1. Init => Abstract!Init
  <2> SUFFICES ASSUME Init PROVE Abstract!Init
    OBVIOUS
  <2>1. 1 .. Len(order) = {} /\ op = "none"
    BY DEF Init
  <2>2. Contents = <<>>
    BY <2>1 DEF Contents
  <2> QED BY <2>2 DEF Init, Abstract!Init
<1>2. IInv /\ [Next]_vars => [Abstract!Next]_AbsVars
  <2> SUFFICES ASSUME IInv, [Next]_vars PROVE Abstract!Next \/ UNCHANGED AbsVars
    OBVIOUS
  <2>1. ASSUME NEW n \in Node, NEW d \in Data, MakeNode(n, d) PROVE UNCHANGED AbsVars
    BY <2>1, MakeNodeStutters
  <2>2. ASSUME NEW n \in Node, PushHead(n) \/ PushTail(n) PROVE Abstract!Next
    BY <2>2, PushRefines
  <2>3. CASE PopHead \/ PopHeadWithoutFree
    BY <2>3, PopRefines
  <2>4. CASE (\E d \in Data : RemoveAt(d)) \/ ForEach \/ Clear
    BY <2>4, BeginRefines
  <2>5. CASE RemoveStep
    BY <2>5, RemoveStepRefines
  <2>6. CASE ForEachStep
    BY <2>6, ForEachStepRefines
  <2>7. CASE ClearStep
    BY <2>7, ClearStepRefines
  <2>8. CASE UNCHANGED vars
    BY <2>8 DEF vars, loop, AbsVars, Contents
  <2> QED BY <2>1, <2>2, <2>3, <2>4, <2>5, <2>6, <2>7, <2>8 DEF Next, Step
<1>3. Spec => []IInv
  BY Invariance
<1> QED BY <1>1, <1>2, <1>3, PTL DEF Spec, ImplementsDataList, Abstract!Spec, AbsVars
=============================================================================
