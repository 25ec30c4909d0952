------------------------------ MODULE DataList ------------------------------
(***************************************************************************)
(* What the users of kernel/single_linked_list.h rely on: a list is a      *)
(* sequence of data pointers.  removeAt() and for_each_node() take time    *)
(* (op, addr); everything else is immediate.                               *)
(***************************************************************************)
EXTENDS Integers, Sequences

CONSTANTS Data, NULL

VARIABLES
    seq,    \* the data pointers, first to last
    op,     \* the traversal under way
    addr,   \* its argument
    seen,   \* the data for_each_node() has called func with
    ret     \* what the last removeAt() returned

Init == seq = <<>> /\ op = "none" /\ addr = NULL /\ seen = <<>> /\ ret = 0

PushHead(d) == op = "none" /\ seq' = <<d>> \o seq /\ UNCHANGED <<op, addr, seen, ret>>

PushTail(d) == op = "none" /\ seq' = Append(seq, d) /\ UNCHANGED <<op, addr, seen, ret>>

PopHead == op = "none" /\ seq # <<>> /\ seq' = Tail(seq) /\ UNCHANGED <<op, addr, seen, ret>>

Begin(o, d) == op = "none" /\ op' = o /\ addr' = d /\ UNCHANGED <<seq, seen, ret>>

End(r) == op' = "none" /\ addr' = NULL /\ seen' = <<>> /\ ret' = r

\* The first entry that is addr and not the head goes; -1 if there is none.
RemoveEnd ==
    /\ op = "remove"
    /\ LET found == {i \in 2 .. Len(seq) : seq[i] = addr}
       IN  \/ /\ found = {}
              /\ seq' = seq
              /\ End(-1)
           \/ \E i \in found :
                 /\ \A j \in found : i <= j
                 /\ seq' = SubSeq(seq, 1, i - 1) \o SubSeq(seq, i + 1, Len(seq))
                 /\ End(0)

Visit ==
    /\ op = "each"
    /\ Len(seen) < Len(seq)
    /\ seen' = Append(seen, seq[Len(seen) + 1])
    /\ UNCHANGED <<seq, op, addr, ret>>

\* Every entry was visited, in order.
ForEachEnd == op = "each" /\ seen = seq /\ seq' = seq /\ End(ret)

\* The list is empty for everybody from the first node freed on.
Clear == op = "none" /\ op' = "clear" /\ addr' = NULL /\ seq' = <<>>
         /\ UNCHANGED <<seen, ret>>

ClearEnd == op = "clear" /\ seq' = seq /\ End(ret)

Next ==
    \/ \E d \in Data : PushHead(d) \/ PushTail(d) \/ Begin("remove", d)
    \/ Begin("each", NULL) \/ Clear
    \/ PopHead \/ RemoveEnd \/ Visit \/ ForEachEnd \/ ClearEnd

Spec == Init /\ [][Next]_<<seq, op, addr, seen, ret>>
=============================================================================
