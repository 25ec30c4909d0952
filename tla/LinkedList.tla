----------------------------- MODULE LinkedList -----------------------------
(***************************************************************************)
(* kernel/single_linked_list.h: the list behind runnable_tasks, all_tasks  *)
(* and mem_sections, at the level of nodes and pointers.                   *)
(*                                                                         *)
(* A node is made by make_single_linked_list_node(), pushed, popped with   *)
(* or without being freed, and may be pushed again (yield() does so with   *)
(* running_task).  Each turn of a loop is a step.  order and pos are       *)
(* history: the nodes the list should hold, and how many of them the loop  *)
(* under way has passed.  No action reads them but to update them.         *)
(***************************************************************************)
EXTENDS Integers, Sequences

CONSTANTS
    Node,     \* the places kmalloc() may put a node
    Data,     \* the data pointers
    NULL,
    Poison    \* what a freed node holds

ASSUME NodeAssumption ==
    NULL \notin Node /\ Poison \notin Node /\ Poison # NULL /\ NULL \notin Data

VARIABLES
    head, tail, size,  \* struct single_linked_list
    next, data,        \* struct single_linked_list_node, of every place
    heap,              \* the nodes allocated
    held,              \* the nodes callers have and the list has not
    op, addr,          \* the loop under way and its argument
    prev, node, seen,  \* its local variables; seen: the calls of func
    ret,               \* what the last removeAt() returned
    order, pos         \* history

list  == <<head, tail, size>>
loop  == <<op, addr, prev, node, seen, ret>>
vars  == <<list, next, data, heap, held, loop, order, pos>>

\* init_single_linked_list().
Init ==
    /\ head = NULL /\ tail = NULL /\ size = 0
    /\ next = [n \in Node |-> Poison]
    /\ data = [n \in Node |-> Poison]
    /\ heap = {} /\ held = {}
    /\ op = "none" /\ addr = NULL /\ prev = NULL /\ node = NULL
    /\ seen = <<>> /\ ret = 0
    /\ order = <<>> /\ pos = 0

-----------------------------------------------------------------------------
(* Nodes. *)

MakeNode(n, d) ==
    /\ op = "none"
    /\ n \notin heap
    /\ heap' = heap \cup {n}
    /\ held' = held \cup {n}
    /\ data' = [data EXCEPT ![n] = d]
    /\ next' = [next EXCEPT ![n] = NULL]
    /\ UNCHANGED <<list, loop, order, pos>>

\* kfree(node): the memory is somebody else's from now on.
Kfree(nx, n) ==
    /\ heap' = heap \ {n}
    /\ data' = [data EXCEPT ![n] = Poison]
    /\ next' = [nx EXCEPT ![n] = Poison]

-----------------------------------------------------------------------------
(* Operations without a loop. *)

PushHead(n) ==
    /\ op = "none"
    /\ n \in held
    /\ next' = [next EXCEPT ![n] = head]
    /\ head' = n
    /\ tail' = IF tail = NULL THEN n ELSE tail
    /\ size' = size + 1
    /\ held' = held \ {n}
    /\ order' = <<n>> \o order
    /\ UNCHANGED <<data, heap, loop, pos>>

\* Mutant of LinkTail: the link of a node that was on the list before stays.
LinkTailStale(n) == IF tail = NULL THEN next ELSE [next EXCEPT ![tail] = n]

\* The links after push_tail(): the old tail to n, n to nothing.
LinkTail(n) ==
    IF tail = NULL THEN [next EXCEPT ![n] = NULL]
    ELSE [next EXCEPT ![tail] = n, ![n] = NULL]

PushTail(n) ==
    /\ op = "none"
    /\ n \in held
    /\ next' = LinkTail(n)
    /\ head' = IF tail = NULL THEN n ELSE head
    /\ tail' = n
    /\ size' = size + 1
    /\ held' = held \ {n}
    /\ order' = Append(order, n)
    /\ UNCHANGED <<data, heap, loop, pos>>

\* The part pop_head() and pop_head_without_free() share; head is not NULL.
Unlink ==
    /\ op = "none"
    /\ head # NULL
    /\ head' = IF head = tail THEN NULL ELSE next[head]
    /\ tail' = IF head = tail THEN NULL ELSE tail
    /\ size' = size - 1
    /\ order' = Tail(order)
    /\ UNCHANGED <<loop, pos>>

PopHeadWithoutFree ==
    /\ Unlink
    /\ held' = held \cup {head}
    /\ UNCHANGED <<next, data, heap>>

PopHead ==
    /\ Unlink
    /\ Kfree(next, head)
    /\ UNCHANGED held

-----------------------------------------------------------------------------
(* Loops. *)

Begin(o, d) ==
    /\ op = "none"
    /\ op' = o
    /\ addr' = d
    /\ UNCHANGED <<list, next, data, heap, held, seen, ret, order>>

End(r) ==
    /\ op' = "none"
    /\ addr' = NULL
    /\ prev' = NULL
    /\ node' = NULL
    /\ seen' = <<>>
    /\ ret' = r
    /\ pos' = 0

\* node = node->next.
Advance == node' = next[node] /\ pos' = pos + 1

\* removeAt(): the search starts behind the head, which is never compared.
RemoveAt(d) ==
    /\ Begin("remove", d)
    /\ prev' = head
    /\ node' = IF head = NULL THEN NULL ELSE next[head]
    /\ pos' = IF head = NULL THEN 0 ELSE 1

\* Mutant of NotFound: the last node is not compared.
NotFoundShort == node = NULL \/ node = tail

NotFound == node = NULL

\* Mutant of Pass: the loop stands still.
PassNot == UNCHANGED <<prev, node, pos>>

Pass == prev' = node /\ Advance

\* One turn of removeAt()'s loop: the end of the list, a match, or the next node.
RemoveStep ==
    /\ op = "remove"
    /\ \/ /\ NotFound
          /\ End(-1)
          /\ UNCHANGED <<list, next, data, heap, order>>
       \/ /\ ~NotFound
          /\ data[node] = addr
          /\ tail' = IF node = tail THEN prev ELSE tail
          /\ Kfree([next EXCEPT ![prev] = next[node]], node)
          /\ size' = size - 1
          /\ order' = SubSeq(order, 1, pos) \o SubSeq(order, pos + 2, Len(order))
          /\ End(0)
          /\ UNCHANGED head
       \/ /\ ~NotFound
          /\ data[node] # addr
          /\ Pass
          /\ UNCHANGED <<list, next, data, heap, op, addr, seen, ret, order>>
    /\ UNCHANGED held

\* for_each_node(list, func).
ForEach == Begin("each", NULL) /\ node' = head /\ UNCHANGED <<prev, pos>>

ForEachStep ==
    /\ op = "each"
    /\ \/ /\ node = NULL
          /\ End(ret)
       \/ /\ node # NULL
          /\ seen' = Append(seen, data[node])
          /\ Advance
          /\ UNCHANGED <<op, addr, prev, ret>>
    /\ UNCHANGED <<list, next, data, heap, held, order>>

Clear == Begin("clear", NULL) /\ node' = head /\ UNCHANGED <<prev, pos>>

\* Mutant of ClearNode: the next node is read from the node just freed.
ClearNodeLate ==
    /\ Kfree(next, node)
    /\ node' = next'[node]
    /\ pos' = pos + 1

ClearNode ==
    /\ Kfree(next, node)
    /\ Advance

\* One turn of clear_single_linked_list(): a node is freed, or the fields are reset.
ClearStep ==
    /\ op = "clear"
    /\ \/ /\ node = NULL
          /\ head' = NULL /\ tail' = NULL /\ size' = 0
          /\ order' = <<>>
          /\ End(ret)
          /\ UNCHANGED <<next, data, heap>>
       \/ /\ node # NULL
          /\ ClearNode
          /\ UNCHANGED <<list, op, addr, prev, seen, ret, order>>
    /\ UNCHANGED held

Step == RemoveStep \/ ForEachStep \/ ClearStep

Next ==
    \/ \E n \in Node : \/ \E d \in Data : MakeNode(n, d)
                       \/ PushHead(n)
                       \/ PushTail(n)
    \/ PopHeadWithoutFree \/ PopHead
    \/ \E d \in Data : RemoveAt(d)
    \/ ForEach \/ Clear
    \/ Step

Spec == Init /\ [][Next]_vars

\* A loop that was entered keeps running.
FairSpec == Spec /\ WF_vars(Step)

-----------------------------------------------------------------------------
(* Invariants. *)

\* Every variable has its type.
TypeOK ==
    /\ head \in Node \cup {NULL}
    /\ tail \in Node \cup {NULL}
    /\ size \in Nat
    /\ next \in [Node -> Node \cup {NULL, Poison}]
    /\ data \in [Node -> Data \cup {Poison}]
    /\ heap \subseteq Node
    /\ held \subseteq Node
    /\ op \in {"none", "remove", "each", "clear"}
    /\ addr \in Data \cup {NULL}
    /\ prev \in Node \cup {NULL}
    /\ node \in Node \cup {NULL}
    /\ seen \in Seq(Data)
    /\ ret \in {0, -1}
    /\ order \in Seq(Node)
    /\ pos \in Nat

\* How many nodes at the front of the list clear_single_linked_list() has freed.
Freed == IF op = "clear" THEN pos ELSE 0

\* Head, tail, size and the links describe one chain without repetition that
\* ends in NULL, and the links of its nodes are intact: after any sequence of
\* pushes (also of nodes that were on the list before), pops and removals.
Linked ==
    /\ size = Len(order)
    /\ head = IF order = <<>> THEN NULL ELSE order[1]
    /\ tail = IF order = <<>> THEN NULL ELSE order[Len(order)]
    /\ \A i, j \in 1 .. Len(order) : order[i] = order[j] => i = j
    /\ \A i \in Freed + 1 .. Len(order) :
           next[order[i]] = IF i = Len(order) THEN NULL ELSE order[i + 1]

\* Every allocated node is on the list or in a caller's hands, and not both, and
\* the list holds no freed node but those clear_single_linked_list() is leaving
\* behind: no leak, no use after free, no node freed twice.
NodesAccounted ==
    /\ held \subseteq heap
    /\ \A n \in Node :
           (n \in heap /\ n \notin held) <=> \E i \in Freed + 1 .. Len(order) : order[i] = n

\* A loop stands on the node after those it has passed; removeAt() has passed no
\* match but the head, for_each_node() has called func on each in order.
LoopPosition ==
    /\ op # "none" =>
           /\ pos <= Len(order)
           /\ node = IF pos = Len(order) THEN NULL ELSE order[pos + 1]
    /\ op = "none" => pos = 0
    /\ op = "remove" =>
           /\ order # <<>> => pos >= 1 /\ prev = order[pos]
           /\ \A i \in 2 .. pos : data[order[i]] # addr
    /\ op = "each" => seen = [i \in 1 .. pos |-> data[order[i]]]

\* The links, the ownership of nodes and the place of a loop are right together,
\* at every turn of every loop; each of the three needs the others to be preserved.
ListInv == Linked /\ NodesAccounted /\ LoopPosition

-----------------------------------------------------------------------------
(* Refinement and termination. *)

\* The data pointers on the list.
Contents ==
    IF op = "clear" THEN <<>> ELSE [i \in 1 .. Len(order) |-> data[order[i]]]

Abstract == INSTANCE DataList WITH seq <- Contents

\* The pointers implement a sequence of data pointers: push, pop and for_each_node()
\* do to it what their names say, and removeAt() deletes the first match
\* behind the head or returns -1 (the sequences that Process and
\* VirtualMemory use for runnable_tasks, all_tasks and mem_sections).
ImplementsDataList == Abstract!Spec

\* Every loop over a list ends: there is no cycle of links and no loop stands
\* still (removeAt, for_each_node, clear_single_linked_list).
LoopsEnd == op # "none" ~> op = "none"
=============================================================================
