------------------------------ MODULE TrapProofs ------------------------------
(***************************************************************************)
(* The safety of traps for any set of tasks, any nesting depth and any     *)
(* FIFO: a program resumes where it was interrupted, so does kernel_trap() *)
(* unless a trap hits it between its write_sepc() and write_sstatus(), and *)
(* the allocator runs with interrupts off.                                 *)
(*                                                                         *)
(* The inductive invariant says what the code relies on and writes nowhere:*)
(* which points a trap can interrupt, that the activations of a stack name *)
(* the point below them, that a stack holds at most one pending            *)
(* switch_context(), and what sie, stvec and sepc are at each point.       *)
(***************************************************************************)
EXTENDS Trap, SequenceTheorems, TLAPS

\* What an activation on a kernel stack is.
Activations ==
    [fn : {"user_trap", "kernel_trap"}, at : Ats, call : Calls \cup {"none", "tick"},
     sepc : Points, sstatus : Statuses, hit : BOOLEAN]

\* The points of the kernel that run with interrupts on at times.
Interruptible == {"yield", "get_char", "ret", "back", "switch", "poll", "sepc"}

\* The points of kernel_trap(), and those that only user_trap() passes.
KernelAts == {"yield", "back", "switch", "sepc", "status"}
UserAts   == Ats \ {"sepc", "status"}

\* kernel_trap() was entered with interrupts on, which the hardware turned off.
KernelStatus == Status(FALSE, TRUE, "S")

\* One activation at the bottom of a stack of t, or above index i - 1.
Bottom(s) ==
    s # <<>> => s[1].fn = "user_trap" /\ s[1].at \in UserAts

Nested(s, t) ==
    \A i \in 2 .. Len(s) :
        /\ s[i].fn = "kernel_trap" /\ s[i].at \in KernelAts
        /\ s[i].sstatus = KernelStatus
        /\ s[i].at \notin {"sepc", "status"} => ~s[i].hit
        /\ s[i].sepc = <<t, i - 1, s[i - 1].at>>

\* What lies under a trap was interruptible, and kernel_trap() knows it was hit.
Covered(s) ==
    \A i \in 1 .. Len(s) - 1 :
        s[i].at \in Interruptible /\ (s[i].at = "sepc" => s[i].hit)

OneSwitch(s) == \A i, j \in 1 .. Len(s) : s[i].at = "switch" /\ s[j].at = "switch" => i = j
NoSwitch(s)  == \A i \in 1 .. Len(s) : s[i].at # "switch"

Layered(s, t) == Bottom(s) /\ Nested(s, t) /\ Covered(s) /\ OneSwitch(s)

\* A task that waits for the CPU stands in switch_context() or is new.
Waiting(s, t) == s # <<>> /\ (s[Len(s)].at = "switch" \/ s = Fresh(t))

\* What sepc is between write_sepc() and sret; e is the innermost of n activations.
SepcReady(e, n, t, pc) == pc = IF e.hit THEN <<t, n, "sepc">> ELSE e.sepc

\* The registers when e is the innermost of the n activations on the stack of t.
Registers(e, n, t, st, pc, vec) ==
    /\ e.at \in {"put_char", "fork", "exec", "exit", "fault", "vector", "user_return", "status"} => ~st.sie
    /\ e.at \in {"vector", "user_return"} => vec = "user_vector"
    /\ e.at \notin {"vector", "user_return"} =>
           vec = "kernel_vector" \/ (vec = "none" /\ ~st.sie /\ e.at = "ret")
    /\ e.at = "user_return" => pc = UserPc(t) /\ st.spp = "U"
    /\ e.at = "status" => st.spp = "S"
    /\ e.at \in {"sepc", "status"} => SepcReady(e, n, t, pc)

\* The CPU, on the stack s of task t: in the program of t, or at the innermost
\* activation.  running_task differs from t exactly while t is leaving.
Cpu(s, t, p, c, st, pc, vec) ==
    /\ p = "U" => c = t /\ s = <<>> /\ vec = "user_vector"
    /\ p = "S" => s # <<>> /\ Registers(s[Len(s)], Len(s), t, st, pc, vec)
    /\ c = t <=> NoSwitch(s)

Machine ==
    /\ epc = [t \in Task |-> UserPc(t)]
    /\ \A t \in Task : Layered(stack[t], t)
    /\ \A t \in alive \ {stk} : Waiting(stack[t], t)
    /\ Cpu(stack[stk], stk, priv, cur, sstatus, sepc, stvec)

\* The types, by groups of variables that change together; the queue has no
\* repetitions and no stack is deeper than MaxDepth.
Hart ==
    /\ priv \in {"U", "S"} /\ sstatus \in Statuses /\ sepc \in Points
    /\ stvec \in {"none", "user_vector", "kernel_vector"}
    /\ epc \in [Task -> Points] /\ fate \in Fates

Uart ==
    /\ ssip \in BOOLEAN /\ seip \in BOOLEAN
    /\ typed \in Nat /\ rx \in Seq(1 .. typed) /\ Len(rx) <= FifoSize

Queue ==
    /\ alive \subseteq Task /\ cur \in alive /\ stk \in Task
    /\ runq \in Seq(alive \ {cur})
    /\ \A i, j \in 1 .. Len(runq) : runq[i] = runq[j] => i = j

Stacks ==
    /\ stack \in [Task -> Seq(Activations)]
    /\ \A t \in Task : Len(stack[t]) <= MaxDepth

IInv ==
    /\ Hart /\ Uart /\ Queue /\ Stacks
    /\ UserResumes /\ exposed = FALSE
    /\ fate = "ok" => Machine

-----------------------------------------------------------------------------
(* Kernel stacks: what the steps of the kernel do to a layered sequence. *)

\* The innermost activation with another point, or with the mark of a trap.
Moved(s, a) == [s EXCEPT ![Len(s)].at = a]
Marked(s)   == [s EXCEPT ![Len(s)].hit = @ \/ s[Len(s)].at = "sepc"]

\* A sequence whose last element changes keeps its length and its other elements.
LEMMA LastChanged ==
    ASSUME NEW s \in Seq(Activations), s # <<>>, NEW e \in Activations,
           NEW r, r = [s EXCEPT ![Len(s)] = e]
    PROVE  /\ r \in Seq(Activations) /\ Len(r) = Len(s) /\ r # <<>>
           /\ Len(s) \in Nat \ {0}
           /\ r[Len(s)] = e
           /\ \A i \in 1 .. Len(s) - 1 : r[i] = s[i]
<1> DEFINE n == Len(s)
<1>1. n \in Nat \ {0} /\ s \in [1 .. n -> Activations]
  OBVIOUS
<1>2. r = [s EXCEPT ![n] = e]
  OBVIOUS
<1> HIDE DEF n
<1>3. r \in [1 .. n -> Activations] /\ r[n] = e /\ \A i \in 1 .. n - 1 : r[i] = s[i]
  BY <1>1, <1>2
<1>4. r \in Seq(Activations) /\ Len(r) = n
  <2>1. r \in Seq(Activations)
    BY <1>1, <1>3
  <2>2. DOMAIN r = 1 .. n /\ Len(r) \in Nat /\ DOMAIN r = 1 .. Len(r)
    BY <1>3, <2>1
  <2> QED BY <1>1, <2>1, <2>2
<1>5. r # <<>>
  BY <1>1, <1>4
<1> QED BY <1>1, <1>3, <1>4, <1>5 DEF n

\* Goto() on a layered stack: a point the activation may be at keeps it layered.
LEMMA MovedLayered ==
    ASSUME NEW t, NEW s \in Seq(Activations), s # <<>>, Layered(s, t), NEW a \in Ats,
           Len(s) = 1 => a \in UserAts,
           Len(s) > 1 => a \in KernelAts /\ (a \notin {"sepc", "status"} => ~s[Len(s)].hit),
           a = "switch" => NoSwitch(s)
    PROVE  /\ Moved(s, a) \in Seq(Activations) /\ Len(Moved(s, a)) = Len(s)
           /\ Moved(s, a) # <<>>
           /\ Moved(s, a)[Len(s)] = [s[Len(s)] EXCEPT !.at = a]
           /\ Layered(Moved(s, a), t)
           /\ a = "switch" => ~NoSwitch(Moved(s, a))
           /\ a # "switch" /\ NoSwitch(s) => NoSwitch(Moved(s, a))
           /\ a # "switch" /\ s[Len(s)].at = "switch" => NoSwitch(Moved(s, a))
           /\ a # "switch" /\ s[Len(s)].at # "switch" => (NoSwitch(Moved(s, a)) <=> NoSwitch(s))
<1> DEFINE n == Len(s)
           e == [s[n] EXCEPT !.at = a]
           r == Moved(s, a)
<1>1. n \in Nat \ {0} /\ s[n] \in Activations
  OBVIOUS
<1>2. e \in Activations /\ e.at = a /\ e.fn = s[n].fn /\ e.hit = s[n].hit /\ e.sepc = s[n].sepc
      /\ e.sstatus = s[n].sstatus
  BY <1>1 DEF Activations
<1>3. r = [s EXCEPT ![n] = e]
  BY DEF Moved
<1> HIDE DEF e, r
<1>4. /\ r \in Seq(Activations) /\ Len(r) = n /\ r # <<>> /\ r[n] = e
      /\ \A i \in 1 .. n - 1 : r[i] = s[i]
  BY <1>2, <1>3, LastChanged
<1> HIDE DEF n
<1>5. \A i \in 1 .. n : i = n \/ i \in 1 .. n - 1
  BY <1>1
<1>6. Bottom(r)
  BY <1>1, <1>2, <1>4 DEF Layered, Bottom, n
<1>7. Nested(r, t)
  <2> SUFFICES ASSUME NEW i \in 2 .. n
               PROVE  /\ r[i].fn = "kernel_trap" /\ r[i].at \in KernelAts
                      /\ r[i].sstatus = KernelStatus
                      /\ r[i].at \notin {"sepc", "status"} => ~r[i].hit
                      /\ r[i].sepc = <<t, i - 1, r[i - 1].at>>
    BY <1>4 DEF Nested
  <2>1. i \in 1 .. n /\ i - 1 \in 1 .. n - 1 /\ r[i - 1] = s[i - 1]
    BY <1>1, <1>4
  <2>2. /\ s[i].fn = "kernel_trap" /\ s[i].at \in KernelAts
        /\ s[i].sstatus = KernelStatus
        /\ s[i].at \notin {"sepc", "status"} => ~s[i].hit
        /\ s[i].sepc = <<t, i - 1, s[i - 1].at>>
    BY DEF Layered, Nested, n
  <2>3. CASE i = n
    BY <1>1, <1>2, <1>4, <2>1, <2>2, <2>3 DEF n
  <2>4. CASE i \in 1 .. n - 1
    BY <1>4, <2>1, <2>2, <2>4
  <2> QED BY <1>5, <2>1, <2>3, <2>4
<1>8. Covered(r)
  BY <1>1, <1>4 DEF Layered, Covered, n
<1>9. OneSwitch(r)
  BY <1>1, <1>2, <1>4, <1>5 DEF Layered, OneSwitch, NoSwitch, n
<1>10. NoSwitch(r) <=> (a # "switch" /\ \A i \in 1 .. n - 1 : s[i].at # "switch")
  BY <1>1, <1>2, <1>4, <1>5 DEF NoSwitch
<1>11. NoSwitch(s) <=> (s[n].at # "switch" /\ \A i \in 1 .. n - 1 : s[i].at # "switch")
  BY <1>1, <1>5 DEF NoSwitch, n
<1>12. s[n].at = "switch" => \A i \in 1 .. n - 1 : s[i].at # "switch"
  BY <1>1 DEF Layered, OneSwitch, n
<1> QED BY <1>4, <1>6, <1>7, <1>8, <1>9, <1>10, <1>11, <1>12 DEF Layered, n, r, e

\* The stack after kernel_trap() was entered.
Pushed(s, t, at) ==
    Append(Marked(s), Activation("kernel_trap", at, "tick", <<t, Len(s), s[Len(s)].at>>, KernelStatus))

\* kernel_trap() is entered above an interruptible point, which it marks and names.
LEMMA PushedLayered ==
    ASSUME NEW t \in Task, NEW s \in Seq(Activations), s # <<>>, Layered(s, t),
           Len(s) < MaxDepth, s[Len(s)].at \in Interruptible, NEW at \in {"back", "yield"}
    PROVE  /\ Pushed(s, t, at) \in Seq(Activations) /\ Len(Pushed(s, t, at)) = Len(s) + 1
           /\ Pushed(s, t, at)[Len(s) + 1].at = at
           /\ Layered(Pushed(s, t, at), t)
           /\ NoSwitch(Pushed(s, t, at)) <=> NoSwitch(s)
<1> DEFINE n == Len(s)
           e == [s[n] EXCEPT !.hit = @ \/ s[n].at = "sepc"]
           m == Marked(s)
           k == Activation("kernel_trap", at, "tick", <<t, n, s[n].at>>, KernelStatus)
           r == Pushed(s, t, at)
<1>1. n \in Nat \ {0} /\ s[n] \in Activations /\ MaxDepth \in Nat /\ n < MaxDepth
  BY BoundsAssumption
<1>2. e \in Activations /\ e.at = s[n].at /\ e.fn = s[n].fn /\ e.sepc = s[n].sepc
      /\ e.sstatus = s[n].sstatus /\ e.hit = (s[n].hit \/ s[n].at = "sepc")
  BY <1>1 DEF Activations
<1>3. m = [s EXCEPT ![n] = e]
  BY DEF Marked
<1>4. k \in Activations /\ k.fn = "kernel_trap" /\ k.at = at /\ k.sstatus = KernelStatus
      /\ ~k.hit /\ k.sepc = <<t, n, s[n].at>>
  BY <1>1 DEF Activation, Activations, KernelStatus, Status, Statuses, Points, Ats, Interruptible, Calls
<1>5. r = Append(m, k)
  BY DEF Pushed
<1> HIDE DEF e, k, r, m
<1>6. /\ m \in Seq(Activations) /\ Len(m) = n /\ m[n] = e /\ \A i \in 1 .. n - 1 : m[i] = s[i]
  BY <1>2, <1>3, LastChanged
<1>7. /\ r \in Seq(Activations) /\ Len(r) = n + 1 /\ r[n + 1] = k
      /\ \A i \in 1 .. n : r[i] = m[i]
  BY <1>1, <1>4, <1>5, <1>6, AppendProperties
<1> HIDE DEF n
<1>8. r[n] = e /\ \A i \in 1 .. n - 1 : r[i] = s[i]
  BY <1>1, <1>6, <1>7
<1>9. \A i \in 1 .. n : r[i].at = s[i].at
  BY <1>1, <1>2, <1>8
<1>10. Bottom(r)
  BY <1>1, <1>2, <1>8, <1>9 DEF Layered, Bottom, n
<1>11. Nested(r, t)
  <2> SUFFICES ASSUME NEW i \in 2 .. n + 1
               PROVE  /\ r[i].fn = "kernel_trap" /\ r[i].at \in KernelAts
                      /\ r[i].sstatus = KernelStatus
                      /\ r[i].at \notin {"sepc", "status"} => ~r[i].hit
                      /\ r[i].sepc = <<t, i - 1, r[i - 1].at>>
    BY <1>7 DEF Nested
  <2>1. i - 1 \in 1 .. n /\ r[i - 1].at = s[i - 1].at
    BY <1>1, <1>9
  <2>2. CASE i = n + 1
    BY <1>1, <1>4, <1>7, <1>9, <2>2 DEF KernelAts
  <2>3. CASE i # n + 1
    <3>1. i \in 2 .. n
      BY <1>1, <2>3
    <3>2. /\ s[i].fn = "kernel_trap" /\ s[i].at \in KernelAts
          /\ s[i].sstatus = KernelStatus
          /\ s[i].at \notin {"sepc", "status"} => ~s[i].hit
          /\ s[i].sepc = <<t, i - 1, s[i - 1].at>>
      BY <3>1 DEF Layered, Nested, n
    <3>3. i = n \/ i \in 1 .. n - 1
      BY <1>1, <3>1
    <3> QED BY <1>2, <1>8, <2>1, <3>2, <3>3
  <2> QED BY <2>2, <2>3
<1>12. Covered(r)
  <2> SUFFICES ASSUME NEW i \in 1 .. n
               PROVE  r[i].at \in Interruptible /\ (r[i].at = "sepc" => r[i].hit)
    BY <1>1, <1>7 DEF Covered
  <2>1. i = n \/ i \in 1 .. n - 1
    BY <1>1
  <2> QED BY <1>2, <1>8, <2>1 DEF Layered, Covered, n
<1>13. \A i \in 1 .. n + 1 : i \in 1 .. n \/ (i = n + 1 /\ r[i].at # "switch")
  BY <1>1, <1>4, <1>7
<1>14. OneSwitch(r)
  BY <1>7, <1>9, <1>13 DEF Layered, OneSwitch, n
<1>15. NoSwitch(r) <=> NoSwitch(s)
  BY <1>1, <1>7, <1>9, <1>13 DEF NoSwitch, n
<1> QED BY <1>4, <1>7, <1>10, <1>11, <1>12, <1>14, <1>15 DEF Layered, n, r

\* The stack after sret at the end of kernel_vector.
Popped(s) == SubSeq(s, 1, Len(s) - 1)

\* When kernel_trap() returns, the point named by its activation is innermost.
LEMMA PoppedLayered ==
    ASSUME NEW t, NEW s \in Seq(Activations), Layered(s, t), Len(s) > 1, s[Len(s)].at # "switch"
    PROVE  /\ Popped(s) \in Seq(Activations) /\ Len(Popped(s)) = Len(s) - 1
           /\ Popped(s)[Len(s) - 1] = s[Len(s) - 1]
           /\ Layered(Popped(s), t)
           /\ NoSwitch(Popped(s)) <=> NoSwitch(s)
<1> DEFINE n == Len(s)
           r == Popped(s)
<1>1. n \in Nat /\ n > 1
  OBVIOUS
<1>2. r \in Seq(Activations) /\ Len(r) = n - 1 /\ \A i \in 1 .. n - 1 : r[i] = s[i]
  BY <1>1, SubSeqProperties DEF Popped
<1> HIDE DEF n, r
<1>3. r # <<>> /\ 1 \in 1 .. n - 1 /\ s # <<>>
  BY <1>1, <1>2 DEF n
<1>4. Bottom(r)
  BY <1>2, <1>3 DEF Layered, Bottom
<1>5. Nested(r, t)
  <2> SUFFICES ASSUME NEW i \in 2 .. n - 1
               PROVE  /\ r[i].fn = "kernel_trap" /\ r[i].at \in KernelAts
                      /\ r[i].sstatus = KernelStatus
                      /\ r[i].at \notin {"sepc", "status"} => ~r[i].hit
                      /\ r[i].sepc = <<t, i - 1, r[i - 1].at>>
    BY <1>2 DEF Nested
  <2>1. i \in 2 .. n /\ r[i] = s[i] /\ r[i - 1] = s[i - 1]
    BY <1>1, <1>2
  <2> QED BY <2>1 DEF Layered, Nested, n
<1>6. Covered(r)
  BY <1>1, <1>2 DEF Layered, Covered, n
<1>7. OneSwitch(r)
  BY <1>1, <1>2 DEF Layered, OneSwitch, n
<1>8. NoSwitch(r) <=> NoSwitch(s)
  <2>1. \A i \in 1 .. n : i \in 1 .. n - 1 \/ (i = n /\ s[i].at # "switch")
    BY <1>1 DEF n
  <2> QED BY <1>1, <1>2, <2>1 DEF NoSwitch, n
<1> QED BY <1>1, <1>2, <1>4, <1>5, <1>6, <1>7, <1>8 DEF Layered, n, r

\* A stack of one activation of user_trap().
LEMMA SingleLayered ==
    ASSUME NEW t, NEW e \in Activations, e.fn = "user_trap", e.at \in UserAts \ {"switch"}
    PROVE  /\ <<e>> \in Seq(Activations) /\ Len(<<e>>) = 1 /\ <<e>> # <<>> /\ <<e>>[1] = e
           /\ Layered(<<e>>, t) /\ NoSwitch(<<e>>)
<1>1. <<e>> \in Seq(Activations) /\ Len(<<e>>) = 1 /\ <<e>> # <<>> /\ <<e>>[1] = e
  OBVIOUS
<1>2. (\A i \in 1 .. 1 : i = 1) /\ 2 .. 1 = {} /\ 1 .. 1 - 1 = {}
  OBVIOUS
<1> QED BY <1>1, <1>2 DEF Layered, Bottom, Nested, Covered, OneSwitch, NoSwitch

\* An empty stack.
LEMMA EmptyLayered ==
    ASSUME NEW t
    PROVE  <<>> \in Seq(Activations) /\ Len(<<>>) = 0 /\ Layered(<<>>, t) /\ NoSwitch(<<>>)
<1>1. <<>> \in Seq(Activations) /\ Len(<<>>) = 0
  OBVIOUS
<1>2. 1 .. 0 = {} /\ 2 .. 0 = {} /\ 1 .. 0 - 1 = {}
  OBVIOUS
<1> QED BY <1>1, <1>2 DEF Layered, Bottom, Nested, Covered, OneSwitch, NoSwitch

-----------------------------------------------------------------------------
(* What the invariant says, and how one stack changes. *)

\* The groups are the type invariant.
LEMMA TypesOf == IInv => TypeOK
<1> SUFFICES ASSUME IInv PROVE TypeOK
  OBVIOUS
<1>1. \A t \in Task : \A i \in DOMAIN stack[t] : stack[t][i] \in Activations
  BY DEF IInv, Stacks
<1>2. \A t \in Task : \A i \in DOMAIN stack[t] :
           /\ stack[t][i].fn \in {"user_trap", "kernel_trap"}
           /\ stack[t][i].at \in Ats
           /\ stack[t][i].sepc \in Points
           /\ stack[t][i].sstatus \in Statuses
  BY <1>1 DEF Activations
<1>3. \A i \in DOMAIN rx : rx[i] \in 1 .. typed
  BY DEF IInv, Uart
<1>4. \A i \in DOMAIN runq : runq[i] \in alive \ {cur}
  BY DEF IInv, Queue
<1> QED BY <1>2, <1>3, <1>4 DEF TypeOK, IInv, Hart, Uart, Queue

\* A program that runs: its stack is empty and traps go to user_vector.
LEMMA InUser ==
    ASSUME IInv, fate = "ok", priv = "U"
    PROVE  /\ stk \in Task /\ cur = stk /\ stvec = "user_vector" /\ stack[stk] = <<>>
           /\ epc = [t \in Task |-> UserPc(t)]
  BY DEF IInv, Machine, Cpu, Queue

\* The kernel: what is known of the innermost activation at each depth.
LEMMA InKernel ==
    ASSUME IInv, fate = "ok", priv = "S"
    PROVE  /\ stk \in Task /\ stack[stk] \in Seq(Activations) /\ stack[stk] # <<>>
           /\ Depth \in Nat /\ Depth >= 1 /\ Depth <= MaxDepth /\ Top \in Activations
           /\ Layered(stack[stk], stk)
           /\ Registers(Top, Depth, stk, sstatus, sepc, stvec)
           /\ cur = stk <=> NoSwitch(stack[stk])
           /\ epc = [t \in Task |-> UserPc(t)]
           /\ Depth = 1 => Top.fn = "user_trap" /\ Top.at \in UserAts
           /\ Depth > 1 => /\ Top.fn = "kernel_trap" /\ Top.at \in KernelAts
                           /\ Top.sstatus = KernelStatus
                           /\ Top.at \notin {"sepc", "status"} => ~Top.hit
                           /\ Top.sepc = <<stk, Depth - 1, stack[stk][Depth - 1].at>>
           /\ Top.at = "switch" => cur # stk
           /\ Depth = 1 /\ Top.at # "switch" => cur = stk
<1>1. /\ stk \in Task /\ stack[stk] \in Seq(Activations) /\ stack[stk] # <<>>
      /\ Layered(stack[stk], stk) /\ Len(stack[stk]) <= MaxDepth
      /\ Registers(Top, Depth, stk, sstatus, sepc, stvec)
      /\ cur = stk <=> NoSwitch(stack[stk])
      /\ epc = [t \in Task |-> UserPc(t)]
  BY DEF IInv, Machine, Cpu, Queue, Stacks, Top, Depth
<1> DEFINE s == stack[stk]
           n == Len(s)
<1>2. n = Depth /\ Top = s[n]
  BY DEF Depth, Top
<1>3. n \in Nat /\ n >= 1 /\ s[n] \in Activations /\ n \in 1 .. n
  BY <1>1
<1>4. n = 1 => s[n].fn = "user_trap" /\ s[n].at \in UserAts
  BY <1>1 DEF Layered, Bottom
<1>5. n > 1 => /\ s[n].fn = "kernel_trap" /\ s[n].at \in KernelAts
               /\ s[n].sstatus = KernelStatus
               /\ s[n].at \notin {"sepc", "status"} => ~s[n].hit
               /\ s[n].sepc = <<stk, n - 1, s[n - 1].at>>
  <2> SUFFICES ASSUME n > 1
               PROVE  /\ s[n].fn = "kernel_trap" /\ s[n].at \in KernelAts
                      /\ s[n].sstatus = KernelStatus
                      /\ s[n].at \notin {"sepc", "status"} => ~s[n].hit
                      /\ s[n].sepc = <<stk, n - 1, s[n - 1].at>>
    OBVIOUS
  <2>1. n \in 2 .. n
    BY <1>3
  <2>2. Nested(s, stk)
    BY <1>1 DEF Layered
  <2> HIDE DEF s
  <2> QED BY <2>1, <2>2 DEF Nested
<1>6. s[n].at = "switch" => ~NoSwitch(s)
  BY <1>3 DEF NoSwitch
<1>7. n = 1 /\ s[n].at # "switch" => NoSwitch(s)
  BY <1>3 DEF NoSwitch
<1> HIDE DEF s, n
<1> QED BY <1>1, <1>2, <1>3, <1>4, <1>5, <1>6, <1>7 DEF s, n

\* A step that changes only the stack the CPU is on.
LEMMA OneStack ==
    ASSUME IInv, fate = "ok",
           NEW r \in Seq(Activations), Len(r) <= MaxDepth, Layered(r, stk),
           stack' = [stack EXCEPT ![stk] = r], epc' = [t \in Task |-> UserPc(t)], stk' = stk,
           alive' \subseteq alive,
           Cpu(r, stk, priv', cur', sstatus', sepc', stvec')
    PROVE  Stacks' /\ Machine'
<1>1. stk \in Task /\ stack \in [Task -> Seq(Activations)] /\ alive \subseteq Task
  BY DEF IInv, Queue, Stacks
<1>2. stack' \in [Task -> Seq(Activations)] /\ stack'[stk] = r
      /\ \A t \in Task \ {stk} : stack'[t] = stack[t]
  BY <1>1
<1>3. Stacks'
  BY <1>2 DEF IInv, Stacks
<1>4. \A t \in Task : Layered(stack'[t], t)
  BY <1>2 DEF IInv, Machine
<1>5. \A t \in alive' \ {stk'} : Waiting(stack'[t], t)
  BY <1>1, <1>2 DEF IInv, Machine
<1>6. Cpu(stack'[stk'], stk', priv', cur', sstatus', sepc', stvec')
  BY <1>2
<1> QED BY <1>3, <1>4, <1>5, <1>6 DEF Machine

\* A step of the kernel to point a.
LEMMA GotoStep ==
    ASSUME IInv, fate = "ok", priv = "S", NEW a \in Ats, Goto(a),
           Depth = 1 => a \in UserAts,
           Depth > 1 => a \in KernelAts /\ (a \notin {"sepc", "status"} => ~Top.hit),
           a = "switch" => NoSwitch(stack[stk]),
           UNCHANGED <<priv, epc, stk>>, alive' \subseteq alive,
           cur' = stk <=> NoSwitch(Moved(stack[stk], a)),
           Registers([Top EXCEPT !.at = a], Depth, stk, sstatus', sepc', stvec')
    PROVE  Stacks' /\ Machine'
<1> DEFINE s == stack[stk]
           r == Moved(s, a)
<1>1. /\ s \in Seq(Activations) /\ s # <<>> /\ Layered(s, stk) /\ Len(s) = Depth /\ s[Len(s)] = Top
      /\ Depth <= MaxDepth /\ stk \in Task /\ epc = [t \in Task |-> UserPc(t)]
  BY InKernel DEF Depth, Top
<1>2. stack' = [stack EXCEPT ![stk] = r]
  BY DEF Goto, Moved, Depth
<1> HIDE DEF s
<1>3. /\ r \in Seq(Activations) /\ Len(r) = Depth /\ r # <<>> /\ r[Depth] = [Top EXCEPT !.at = a]
      /\ Layered(r, stk)
  <2>1. /\ Len(s) = 1 => a \in UserAts
        /\ Len(s) > 1 => a \in KernelAts /\ (a \notin {"sepc", "status"} => ~s[Len(s)].hit)
        /\ a = "switch" => NoSwitch(s)
    BY <1>1 DEF s
  <2>2. /\ r \in Seq(Activations) /\ Len(r) = Len(s) /\ r # <<>>
        /\ r[Len(s)] = [s[Len(s)] EXCEPT !.at = a] /\ Layered(r, stk)
    BY <1>1, <2>1, MovedLayered
  <2> QED BY <1>1, <2>2
<1>4. cur' = stk <=> NoSwitch(r)
  BY DEF s
<1> HIDE DEF r
<1>5. Cpu(r, stk, priv', cur', sstatus', sepc', stvec')
  BY <1>3, <1>4 DEF Cpu
<1>6. Len(r) <= MaxDepth /\ epc' = [t \in Task |-> UserPc(t)] /\ stk' = stk
  BY <1>1, <1>3
<1> QED BY <1>2, <1>3, <1>5, <1>6, OneStack

\* A step that leaves the CPU and the stacks alone.
LEMMA MachineKept ==
    ASSUME IInv, UNCHANGED <<priv, sstatus, sepc, stvec, sched, stack, epc, exposed, fate>>
    PROVE  /\ Hart' /\ Queue' /\ Stacks' /\ UserResumes' /\ exposed' = FALSE
           /\ fate' = "ok" => Machine'
  BY DEF IInv, Hart, Queue, Stacks, UserResumes, Machine, sched

-----------------------------------------------------------------------------
(* Facts the steps share. *)

\* Setting fields of sstatus gives a status.
LEMMA StatusFields ==
    ASSUME NEW st \in Statuses
    PROVE  /\ \A b \in BOOLEAN : [st EXCEPT !.sie = b] \in Statuses /\ [st EXCEPT !.sie = b].sie = b
           /\ \A b \in BOOLEAN : [st EXCEPT !.sie = b].spp = st.spp
           /\ [st EXCEPT !.spp = "U", !.spie = TRUE] \in Statuses
           /\ [st EXCEPT !.spp = "U", !.spie = TRUE].sie = st.sie
           /\ [st EXCEPT !.spp = "U", !.spie = TRUE].spp = "U"
           /\ st.sie \in BOOLEAN /\ st.spie \in BOOLEAN /\ st.spp \in {"U", "S"}
  BY DEF Statuses

\* The statuses that the hardware and the handlers build.
LEMMA BuiltStatus ==
    ASSUME NEW b \in BOOLEAN, NEW c \in BOOLEAN, NEW p \in {"U", "S"}
    PROVE  /\ Status(b, c, p) \in Statuses
           /\ Status(b, c, p).sie = b /\ Status(b, c, p).spie = c /\ Status(b, c, p).spp = p
  BY DEF Status, Statuses

\* The points of programs are points.
LEMMA UserPoints == \A t \in Task : UserPc(t) \in Points
  BY BoundsAssumption DEF UserPc, Points

\* At most points the registers are only asked for kernel_vector.
LEMMA EasyPoint ==
    ASSUME NEW e \in Activations,
           NEW a \in {"yield", "get_char", "ret", "back", "switch", "poll", "exit"},
           NEW n, NEW t, NEW st, NEW pc, a = "exit" => ~st.sie
    PROVE  Registers([e EXCEPT !.at = a], n, t, st, pc, "kernel_vector")
<1>1. [e EXCEPT !.at = a].at = a
  BY DEF Activations
<1> QED BY <1>1 DEF Registers

\* Any step to a point keeps the stacks typed.
LEMMA GotoTyped ==
    ASSUME IInv, fate = "ok", priv = "S", NEW a \in Ats, Goto(a)
    PROVE  Stacks'
<1> DEFINE s == stack[stk]
           r == Moved(s, a)
           e == [s[Len(s)] EXCEPT !.at = a]
<1>1. s \in Seq(Activations) /\ s # <<>> /\ s[Len(s)] \in Activations /\ stk \in Task
      /\ Len(s) <= MaxDepth
  BY InKernel DEF Depth, Top
<1>2. stack' = [stack EXCEPT ![stk] = r] /\ r = [s EXCEPT ![Len(s)] = e]
  BY DEF Goto, Moved, Depth
<1>3. e \in Activations
  BY <1>1 DEF Activations
<1> HIDE DEF s, r, e
<1>4. r \in Seq(Activations) /\ Len(r) = Len(s)
  BY <1>1, <1>2, <1>3, LastChanged
<1> QED BY <1>1, <1>2, <1>4 DEF IInv, Stacks

\* The task that runs next leaves the queue and the one that ran joins it or exits.
LEMMA QueueStep ==
    ASSUME Queue, runq # <<>>, NEW leaving \in BOOLEAN, cur' = Head(runq),
           runq' = Requeue(leaving), alive' = IF leaving THEN alive \ {cur} ELSE alive, stk' = stk
    PROVE  Queue' /\ cur' # cur /\ alive' \subseteq alive
<1> DEFINE h == Head(runq)
           w == Tail(runq)
           A == alive \ {cur, h}
<1>1. runq \in Seq(alive \ {cur}) /\ Len(runq) \in Nat /\ Len(runq) >= 1
      /\ \A i, j \in 1 .. Len(runq) : runq[i] = runq[j] => i = j
  BY DEF Queue
<1>2. h = runq[1] /\ h \in alive \ {cur} /\ w \in Seq(alive \ {cur}) /\ Len(w) = Len(runq) - 1
      /\ \A i \in 1 .. Len(w) : w[i] = runq[i + 1]
  BY <1>1, HeadTailProperties
<1> HIDE DEF w
<1>3. \A i \in 1 .. Len(w) : w[i] \in A
  BY <1>1, <1>2
<1>4. \A i, j \in 1 .. Len(w) : w[i] = w[j] => i = j
  BY <1>1, <1>2
<1>5. w \in Seq(A)
  BY <1>2, <1>3
<1>6. cur \in alive /\ cur # h
  BY <1>2 DEF Queue
<1> HIDE DEF h
<1>7. CASE leaving
  <2>1. runq' = w /\ alive' = alive \ {cur} /\ cur' = h
    BY <1>7 DEF Requeue, w, h
  <2>2. alive' \ {cur'} = A
    BY <2>1
  <2> QED BY <1>2, <1>4, <1>5, <1>6, <2>1, <2>2 DEF Queue
<1>8. CASE ~leaving
  <2>1. runq' = Append(w, cur) /\ alive' = alive /\ cur' = h
    BY <1>8 DEF Requeue, w, h
  <2>2. w \in Seq(alive \ {h}) /\ cur \in alive \ {h}
    BY <1>5, <1>6
  <2>3. /\ runq' \in Seq(alive \ {h}) /\ Len(runq') = Len(w) + 1 /\ runq'[Len(w) + 1] = cur
        /\ \A i \in 1 .. Len(w) : runq'[i] = w[i]
    BY <2>1, <2>2, AppendProperties
  <2>4. Len(w) \in Nat /\ \A i \in 1 .. Len(w) + 1 : i \in 1 .. Len(w) \/ i = Len(w) + 1
    BY <1>5
  <2>5. \A i, j \in 1 .. Len(runq') : runq'[i] = runq'[j] => i = j
    BY <1>3, <1>4, <2>3, <2>4
  <2> QED BY <1>2, <1>6, <2>1, <2>3, <2>5 DEF Queue
<1> QED BY <1>7, <1>8

-----------------------------------------------------------------------------
(* Trap entry. *)

\* user_vector is only reached from a program: user_trap() does not panic.
LEMMA UserTrapEnters ==
    ASSUME IInv, fate = "ok", priv = "U" \/ sstatus.sie,
           NEW at \in Calls \cup Exceptions \cup {"ret"}, NEW ca \in Calls \cup {"none", "tick"},
           UserTrap(at, ca), UNCHANGED sched
    PROVE  Hart' /\ Queue' /\ Stacks' /\ Machine' /\ fate' = "ok"
<1>1. priv = "U"
  <2> SUFFICES ASSUME priv = "S" PROVE FALSE
    BY DEF IInv, Hart
  <2>1. stvec = "user_vector" /\ sstatus.sie
    BY DEF UserTrap
  <2> QED BY <2>1, InKernel DEF Registers
<1> DEFINE e == Activation("user_trap", at, ca, UserPc(stk), sstatus')
<1>2. /\ stk \in Task /\ cur = stk /\ epc = [t \in Task |-> UserPc(t)]
  BY <1>1, InUser
<1>3. /\ sstatus' = Status(FALSE, sstatus.sie, "U") /\ sepc' = UserPc(stk) /\ priv' = "S"
      /\ stvec' = "kernel_vector" /\ fate' = fate
      /\ epc' = [epc EXCEPT ![cur] = UserPc(stk)]
      /\ stack' = [stack EXCEPT ![stk] = <<e>>]
      /\ stk' = stk /\ cur' = cur /\ alive' = alive /\ runq' = runq
  BY <1>1 DEF UserTrap, Enter, Point, sched
<1>4. sstatus' \in Statuses /\ ~sstatus'.sie
  BY <1>3, StatusFields, BuiltStatus DEF IInv, Hart
<1>5. epc' = [t \in Task |-> UserPc(t)] /\ epc' \in [Task -> Points]
  BY <1>2, <1>3, UserPoints
<1>6. Hart' /\ Queue'
  BY <1>2, <1>3, <1>4, <1>5, UserPoints DEF IInv, Hart, Queue, Fates
<1>7. /\ e \in Activations /\ e.fn = "user_trap" /\ e.at = at /\ at \in UserAts \ {"switch"}
  BY <1>2, <1>4, UserPoints DEF Activation, Activations, UserAts, Ats, Calls, Exceptions
<1> HIDE DEF e
<1>8. /\ <<e>> \in Seq(Activations) /\ Len(<<e>>) = 1 /\ <<e>> # <<>> /\ <<e>>[1] = e
      /\ Layered(<<e>>, stk) /\ NoSwitch(<<e>>)
  BY <1>7, SingleLayered
<1>9. Registers(e, 1, stk, sstatus', sepc', stvec')
  BY <1>3, <1>4, <1>7 DEF Registers, Calls, Exceptions
<1>10. Cpu(<<e>>, stk, priv', cur', sstatus', sepc', stvec')
  BY <1>2, <1>3, <1>8, <1>9 DEF Cpu
<1>11. Len(<<e>>) <= MaxDepth
  BY <1>8, BoundsAssumption
<1>12. Stacks' /\ Machine'
  BY <1>3, <1>5, <1>8, <1>10, <1>11, OneStack
<1> QED BY <1>3, <1>6, <1>12

\* kernel_vector is only reached from the kernel, at an interruptible point:
\* kernel_trap() does not panic.
LEMMA KernelTrapEnters ==
    ASSUME IInv, fate = "ok", priv = "U" \/ sstatus.sie,
           NEW at \in {"back", "yield"}, KernelTrap(at), UNCHANGED sched
    PROVE  Hart' /\ Queue' /\ Stacks' /\ Machine' /\ fate' = "ok"
<1>1. priv = "S" /\ sstatus.sie
  <2>1. priv # "U"
    BY InUser DEF KernelTrap
  <2> QED BY <2>1 DEF IInv, Hart
<1> DEFINE s == stack[stk]
           r == Pushed(s, stk, at)
<1>0. s[Len(s)] = Top /\ Len(s) = Depth
  BY DEF Depth, Top
<1>2. /\ stk \in Task /\ s \in Seq(Activations) /\ s # <<>> /\ Layered(s, stk) /\ Len(s) = Depth
      /\ s[Len(s)] = Top /\ Depth \in Nat /\ Depth >= 1 /\ Top \in Activations
      /\ Registers(Top, Depth, stk, sstatus, sepc, stvec)
      /\ cur = stk <=> NoSwitch(s)
      /\ epc = [t \in Task |-> UserPc(t)]
      /\ Top.at \in UserAts \/ Top.at \in KernelAts
  BY <1>1, <1>0, InKernel
<1>3. stvec = "kernel_vector" /\ Depth < MaxDepth
  BY DEF KernelTrap
<1>4. Top.at \in Interruptible
  BY <1>1, <1>2, <1>3 DEF Registers, UserAts, KernelAts, Ats, Calls, Exceptions, Interruptible
<1>5. /\ sstatus' = KernelStatus /\ sepc' = <<stk, Depth, Top.at>> /\ priv' = "S"
      /\ stvec' = stvec /\ fate' = fate /\ epc' = epc
      /\ stk' = stk /\ cur' = cur /\ alive' = alive /\ runq' = runq
  BY <1>1 DEF KernelTrap, Enter, Point, KernelStatus, Status, sched
<1>6. stack' = [stack EXCEPT ![stk] = r]
  <2>1. stack' = [stack EXCEPT ![stk] =
                     Append([@ EXCEPT ![Depth].hit = Top.hit \/ Top.at = "sepc"],
                            Activation("kernel_trap", at, "tick", Point, sstatus'))]
    BY <1>1 DEF KernelTrap
  <2>2. Point = <<stk, Len(s), s[Len(s)].at>>
    BY <1>1, <1>0 DEF Point
  <2>3. r = Append(Marked(s), Activation("kernel_trap", at, "tick", Point, sstatus'))
    BY <1>5, <2>2 DEF Pushed
  <2>4. [s EXCEPT ![Depth].hit = Top.hit \/ Top.at = "sepc"] = Marked(s)
    BY <1>0 DEF Marked
  <2> DEFINE m == [s EXCEPT ![Depth].hit = Top.hit \/ Top.at = "sepc"]
             k == Activation("kernel_trap", at, "tick", Point, sstatus')
  <2>5. stack' = [stack EXCEPT ![stk] = Append(m, k)]
    BY <2>1
  <2>6. m = Marked(s) /\ r = Append(Marked(s), k)
    BY <2>3, <2>4
  <2> HIDE DEF m, k, r
  <2> QED BY <2>5, <2>6
<1>7. sstatus' \in Statuses
  BY <1>5, BuiltStatus DEF KernelStatus
<1>8. sepc' \in Points
  BY <1>2, <1>3, <1>4, <1>5, BoundsAssumption DEF Points, Ats, Calls, Interruptible
<1>9. Hart' /\ Queue'
  BY <1>5, <1>7, <1>8 DEF IInv, Hart, Queue
<1> HIDE DEF s
<1>10. /\ r \in Seq(Activations) /\ Len(r) = Len(s) + 1 /\ r[Len(s) + 1].at = at
       /\ Layered(r, stk)
       /\ NoSwitch(r) <=> NoSwitch(s)
  BY <1>2, <1>3, <1>4, PushedLayered
<1> HIDE DEF r
<1>11. Len(r) = Depth + 1 /\ r # <<>> /\ Len(r) <= MaxDepth /\ r[Len(r)].at = at
  BY <1>2, <1>3, <1>10, BoundsAssumption
<1>12. Registers(r[Len(r)], Len(r), stk, sstatus', sepc', stvec')
  BY <1>3, <1>5, <1>11 DEF Registers
<1>13. Cpu(r, stk, priv', cur', sstatus', sepc', stvec')
  BY <1>2, <1>5, <1>10, <1>11, <1>12 DEF Cpu
<1>14. Stacks' /\ Machine'
  BY <1>2, <1>5, <1>6, <1>10, <1>11, <1>13, OneStack
<1> QED BY <1>5, <1>9, <1>14

-----------------------------------------------------------------------------
(* yield() and switch_context(). *)

\* Outside the return to a program and its first activation, traps go to the kernel.
LEMMA KernelVector ==
    ASSUME IInv, fate = "ok", priv = "S", Top.at \notin {"vector", "user_return", "ret"}
    PROVE  stvec = "kernel_vector"
  BY InKernel DEF Registers

\* A step to a point where nothing is asked of the registers but kernel_vector, from
\* a point that is not switch_context().
LEMMA EasyStep ==
    ASSUME IInv, fate = "ok", priv = "S",
           NEW a \in {"yield", "get_char", "ret", "back", "poll", "exit"},
           Goto(a), a = "exit" => ~sstatus'.sie, stvec' = "kernel_vector", Top.at # "switch",
           Depth > 1 => a \in KernelAts /\ ~Top.hit,
           UNCHANGED <<priv, epc, sched>>
    PROVE  Stacks' /\ Machine'
<1> DEFINE s == stack[stk]
           r == Moved(s, a)
<1>1. /\ s \in Seq(Activations) /\ s # <<>> /\ Layered(s, stk) /\ Top \in Activations
      /\ cur = stk <=> NoSwitch(s)
  BY InKernel
<1>2. s[Len(s)] = Top /\ Len(s) = Depth
  BY DEF Top, Depth
<1>3. a \in Ats /\ a \in UserAts /\ a # "switch"
  BY DEF Ats, UserAts, Calls
<1>4. NoSwitch(r) <=> NoSwitch(s)
  <2> HIDE DEF s
  <2>1. /\ Len(s) = 1 => a \in UserAts
        /\ Len(s) > 1 => a \in KernelAts /\ (a \notin {"sepc", "status"} => ~s[Len(s)].hit)
        /\ a = "switch" => NoSwitch(s)
    BY <1>2, <1>3
  <2> QED BY <1>1, <1>2, <1>3, <2>1, MovedLayered
<1>5. cur' = stk <=> NoSwitch(Moved(stack[stk], a))
  BY <1>1, <1>4 DEF sched
<1>6. Registers([Top EXCEPT !.at = a], Depth, stk, sstatus', sepc', stvec')
  BY <1>1, EasyPoint
<1>7. UNCHANGED <<priv, epc, stk>> /\ alive' \subseteq alive
  BY DEF sched
<1> HIDE DEF s, r
<1> QED BY <1>3, <1>5, <1>6, <1>7, GotoStep

\* yield(), of a task that stays or exits.
LEMMA YieldKeeps ==
    ASSUME IInv, fate = "ok", priv = "S", NEW leaving \in BOOLEAN, Yield(leaving),
           Top.at = IF leaving THEN "exit" ELSE "yield"
    PROVE  IInv'
<1>1. /\ sstatus \in Statuses /\ Hart /\ Uart /\ Queue /\ stvec = "kernel_vector" /\ exposed = FALSE
  BY KernelVector DEF IInv, Hart
<1>2. YieldMask \in Statuses /\ YieldMask.sie = FALSE
      /\ [YieldMask EXCEPT !.sie = TRUE] \in Statuses /\ (leaving => ~sstatus.sie)
  <2>1. Top.at = "exit" => ~sstatus.sie
    BY InKernel DEF Registers
  <2> QED BY <1>1, <2>1, StatusFields DEF YieldMask, InterruptOff
<1>3. /\ exposed' = FALSE /\ priv' = priv /\ sepc' = sepc /\ stvec' = stvec /\ ssip' = ssip
      /\ seip' = seip /\ rx' = rx /\ typed' = typed /\ epc' = epc
  BY <1>1, <1>2 DEF Yield, Allocator, uart
<1>4. Uart'
  BY <1>1, <1>3 DEF Uart
<1>5. Top.at # "switch" /\ Depth \in Nat /\ (Depth > 1 => ~Top.hit) /\ Top \in Activations
  BY InKernel DEF KernelAts
<1>6. CASE runq = <<>>
  <2>1. /\ Goto("back") /\ sstatus' = YieldMask /\ UNCHANGED sched
        /\ fate' \in {"ok", "panic_exit"}
    BY <1>6 DEF Yield
  <2>2. Stacks' /\ Machine'
    BY <1>1, <1>3, <1>5, <2>1, EasyStep DEF KernelAts
  <2>3. Hart'
    BY <1>1, <1>2, <1>3, <2>1 DEF Hart, Fates
  <2>4. Queue'
    BY <1>1, <2>1 DEF Queue, sched
  <2>5. UserResumes'
    BY <2>1 DEF UserResumes
  <2> QED BY <1>3, <1>4, <2>2, <2>3, <2>4, <2>5 DEF IInv
<1>7. CASE runq # <<>>
  <2>1. /\ Goto("switch") /\ sstatus' = [YieldMask EXCEPT !.sie = TRUE] /\ cur' = Head(runq)
        /\ runq' = Requeue(leaving) /\ alive' = IF leaving THEN alive \ {cur} ELSE alive
        /\ stk' = stk /\ fate' = IF cur = stk THEN fate ELSE "switch"
    BY <1>7 DEF Yield
  <2>2. Queue' /\ cur' # cur /\ alive' \subseteq alive
    BY <1>1, <1>7, <2>1, QueueStep
  <2>3. Hart'
    BY <1>1, <1>2, <1>3, <2>1 DEF Hart, Fates
  <2>4. Stacks'
    BY <2>1, GotoTyped DEF Ats
  <2>5. UserResumes'
    BY <2>1 DEF UserResumes
  <2>6. ASSUME fate' = "ok" PROVE Machine'
    <3>1. cur = stk
      BY <2>1, <2>6
    <3>2. /\ stack[stk] \in Seq(Activations) /\ stack[stk] # <<>> /\ Layered(stack[stk], stk)
          /\ NoSwitch(stack[stk])
      BY <3>1, InKernel
    <3>3. "switch" \in Ats /\ "switch" \in UserAts /\ "switch" \in KernelAts
      BY DEF Ats, UserAts, KernelAts
    <3>4. stack[stk][Len(stack[stk])] = Top /\ Len(stack[stk]) = Depth
      BY DEF Top, Depth
    <3>5. ~NoSwitch(Moved(stack[stk], "switch"))
      BY <1>5, <3>2, <3>3, <3>4, MovedLayered
    <3>6. cur' = stk <=> NoSwitch(Moved(stack[stk], "switch"))
      BY <2>2, <3>1, <3>5
    <3>7. Registers([Top EXCEPT !.at = "switch"], Depth, stk, sstatus', sepc', stvec')
      BY <1>1, <1>3, <1>5, EasyPoint
    <3>8. UNCHANGED <<priv, epc, stk>>
      BY <1>3, <2>1
    <3> QED BY <1>5, <2>1, <2>2, <3>2, <3>3, <3>6, <3>7, <3>8, GotoStep
  <2> QED BY <1>3, <1>4, <2>2, <2>3, <2>4, <2>5, <2>6 DEF IInv
<1> QED BY <1>6, <1>7

\* switch_context(): the task that resumes was waiting; its stack has no other
\* pending switch.
LEMMA SwitchKeeps ==
    ASSUME IInv, SwitchContext
    PROVE  IInv'
<1>1. fate = "ok" /\ priv = "S" /\ Top.at = "switch"
  BY DEF SwitchContext, At
<1>2. /\ stk \in Task /\ cur # stk /\ cur \in alive /\ alive \subseteq Task
      /\ stack \in [Task -> Seq(Activations)] /\ Machine /\ stvec = "kernel_vector"
      /\ Len(stack[cur]) <= MaxDepth
  BY <1>1, InKernel, KernelVector DEF IInv, Queue, Stacks
<1> DEFINE s == stack[cur]
           back == s[Len(s)].at = "switch"
           r == IF back THEN Moved(s, "back") ELSE s
<1>3. s \in Seq(Activations) /\ s # <<>> /\ Layered(s, cur) /\ (back \/ s = Fresh(cur)) /\ cur \in Task
  BY <1>2 DEF Machine, Waiting
<1>4. /\ stk' = cur /\ cur' = cur /\ alive' = alive /\ runq' = runq /\ priv' = priv
      /\ sstatus' = sstatus /\ sepc' = sepc /\ stvec' = stvec /\ epc' = epc /\ fate' = fate
      /\ exposed' = exposed /\ ssip' = ssip /\ seip' = seip
      /\ rx' = rx /\ typed' = typed
  BY DEF SwitchContext, uart
<1>5. stack' = [t \in Task |->
          IF t = cur /\ stack[t][Len(stack[t])].at = "switch"
          THEN [stack[t] EXCEPT ![Len(stack[t])].at = "back"]
          ELSE IF t \in alive THEN stack[t] ELSE <<>>]
  BY DEF SwitchContext
<1>6. stack'[cur] = r
  BY <1>2, <1>3, <1>5 DEF Moved
<1>7. \A t \in Task \ {cur} : stack'[t] = IF t \in alive THEN stack[t] ELSE <<>>
  BY <1>5
<1>8. DOMAIN stack' = Task /\ stack' = [t \in Task |-> stack'[t]]
  BY <1>5
<1>9. /\ r \in Seq(Activations) /\ Len(r) = Len(s) /\ r # <<>> /\ Layered(r, cur) /\ NoSwitch(r)
      /\ r[Len(r)].at \in {"back", "ret"}
  <2>1. CASE back
    <3>1. "back" \in Ats /\ "back" \in UserAts /\ "back" \in KernelAts
      BY DEF Ats, UserAts, KernelAts
    <3>2. Len(s) \in Nat /\ s[Len(s)] \in Activations /\ (Len(s) > 1 => Len(s) \in 2 .. Len(s))
      BY <1>3
    <3>3. Len(s) > 1 => ~s[Len(s)].hit
      <4> HIDE DEF s
      <4> QED BY <1>3, <2>1, <3>2 DEF Layered, Nested
    <3>4. r = Moved(s, "back") /\ s[Len(s)].at = "switch"
      BY <2>1
    <3> HIDE DEF s, r
    <3>5. /\ r \in Seq(Activations) /\ Len(r) = Len(s) /\ r # <<>> /\ Layered(r, cur) /\ NoSwitch(r)
          /\ r[Len(s)] = [s[Len(s)] EXCEPT !.at = "back"]
      BY <1>3, <3>1, <3>2, <3>3, <3>4, MovedLayered
    <3>6. [s[Len(s)] EXCEPT !.at = "back"].at = "back"
      BY <3>2 DEF Activations
    <3> QED BY <3>5, <3>6
  <2>2. CASE ~back
    <3>1. s = Fresh(cur) /\ r = s
      BY <1>3, <2>2
    <3> DEFINE e == Activation("user_trap", "ret", "none", UserPc(cur), Status(FALSE, FALSE, "U"))
    <3>2. e \in Activations /\ e.fn = "user_trap" /\ e.at = "ret" /\ "ret" \in UserAts \ {"switch"}
      BY <1>3, UserPoints, BuiltStatus DEF Activation, Activations, UserAts, Ats
    <3>3. r = <<e>>
      BY <3>1 DEF Fresh
    <3> HIDE DEF e, s, r
    <3>4. /\ <<e>> \in Seq(Activations) /\ Len(<<e>>) = 1 /\ <<e>> # <<>> /\ <<e>>[1] = e
          /\ NoSwitch(<<e>>)
      BY <3>2, SingleLayered
    <3> QED BY <1>3, <3>1, <3>2, <3>3, <3>4
  <2> QED BY <2>1, <2>2
<1> HIDE DEF s, r, back
<1>10. \A t \in Task : <<>> \in Seq(Activations) /\ Len(<<>>) = 0 /\ Layered(<<>>, t)
  BY EmptyLayered
<1>11. \A t \in Task : stack'[t] \in Seq(Activations) /\ Len(stack'[t]) <= MaxDepth
  <2> SUFFICES ASSUME NEW t \in Task
               PROVE  stack'[t] \in Seq(Activations) /\ Len(stack'[t]) <= MaxDepth
    OBVIOUS
  <2>1. CASE t = cur
    BY <1>2, <1>6, <1>9, <2>1 DEF s
  <2>2. CASE t # cur /\ t \in alive
    BY <1>2, <1>7, <2>2 DEF IInv, Stacks
  <2>3. CASE t # cur /\ t \notin alive
    <3>1. stack'[t] = <<>> /\ Len(stack'[t]) = 0
      BY <1>7, <2>3
    <3>2. 0 <= MaxDepth
      BY BoundsAssumption
    <3> QED BY <1>10, <3>1, <3>2
  <2> QED BY <2>1, <2>2, <2>3
<1>12. Stacks'
  BY <1>8, <1>11 DEF Stacks
<1>13. \A t \in Task : Layered(stack'[t], t)
  BY <1>2, <1>6, <1>7, <1>9, <1>10 DEF Machine
<1>14. \A t \in alive' \ {stk'} : Waiting(stack'[t], t)
  <2> SUFFICES ASSUME NEW t \in alive, t # cur PROVE Waiting(stack[t], t)
    BY <1>2, <1>4, <1>7
  <2>1. CASE t = stk
    <3>1. stack[stk] # <<>> /\ Top = stack[stk][Len(stack[stk])]
      BY <1>1, InKernel DEF Top, Depth
    <3> QED BY <1>1, <2>1, <3>1 DEF Waiting
  <2>2. CASE t # stk
    BY <1>2, <2>2 DEF Machine
  <2> QED BY <2>1, <2>2
<1>15. Registers(r[Len(r)], Len(r), cur, sstatus, sepc, stvec)
  BY <1>2, <1>9 DEF Registers
<1>16. Cpu(r, cur, priv, cur, sstatus, sepc, stvec)
  BY <1>1, <1>9, <1>15 DEF Cpu
<1>17. Machine'
  <2>1. epc' = [t \in Task |-> UserPc(t)]
    BY <1>2, <1>4 DEF Machine
  <2>2. Cpu(stack'[stk'], stk', priv', cur', sstatus', sepc', stvec')
    BY <1>4, <1>6, <1>16
  <2> QED BY <1>13, <1>14, <2>1, <2>2 DEF Machine
<1>18. Hart' /\ Uart' /\ Queue' /\ UserResumes' /\ exposed' = FALSE
  BY <1>2, <1>4 DEF IInv, Hart, Uart, Queue, UserResumes
<1> QED BY <1>12, <1>17, <1>18 DEF IInv

-----------------------------------------------------------------------------
(* The other steps. *)

\* TimerVector, Type and the wfi of sys_get_char() touch only the devices.
LEMMA DevicesKeep ==
    ASSUME IInv, TimerVector \/ Type
    PROVE  IInv'
<1>1. UNCHANGED <<priv, sstatus, sepc, stvec, sched, stack, epc, exposed, fate>>
  BY DEF TimerVector, Type, sched
<1>2. Uart
  BY DEF IInv
<1>3. Uart'
  <2>1. CASE TimerVector
    BY <1>2, <2>1 DEF TimerVector, Uart, uart
  <2>2. CASE Type
    <3>1. /\ typed' = typed + 1 /\ ssip' = ssip /\ seip' = TRUE
          /\ rx' = IF Len(rx) < FifoSize THEN Append(rx, typed') ELSE rx
      BY <2>2 DEF Type
    <3>2. typed \in Nat /\ typed' \in Nat /\ typed' \in 1 .. typed' /\ 1 .. typed \subseteq 1 .. typed'
      BY <1>2, <3>1 DEF Uart
    <3>3. rx \in Seq(1 .. typed') /\ Len(rx) \in Nat /\ Len(rx) <= FifoSize
      BY <1>2, <3>1, <3>2 DEF Uart
    <3>4. Append(rx, typed') \in Seq(1 .. typed') /\ Len(Append(rx, typed')) = Len(rx) + 1
      BY <3>2, <3>3, AppendProperties
    <3>5. rx' \in Seq(1 .. typed') /\ Len(rx') <= FifoSize
      <4>1. CASE Len(rx) < FifoSize
        <5>1. rx' = Append(rx, typed') /\ Len(rx) + 1 <= FifoSize
          BY <3>1, <3>3, <4>1, BoundsAssumption
        <5> QED BY <3>4, <5>1
      <4>2. CASE ~(Len(rx) < FifoSize)
        BY <3>1, <3>3, <4>2
      <4> QED BY <4>1, <4>2
    <3> QED BY <1>2, <3>1, <3>2, <3>3, <3>5 DEF Uart
  <2> QED BY <2>1, <2>2
<1> QED BY <1>1, <1>3, MachineKept DEF IInv

\* An empty FIFO, and one without its first character.
LEMMA RxShorter ==
    ASSUME Uart
    PROVE  /\ <<>> \in Seq(1 .. typed) /\ Len(<<>>) <= FifoSize
           /\ rx # <<>> => /\ Tail(rx) \in Seq(1 .. typed) /\ Len(Tail(rx)) <= FifoSize
                           /\ Head(rx) \in 1 .. typed
  BY BoundsAssumption DEF Uart

\* An interrupt or a system call enters the kernel.
LEMMA TrapsKeep ==
    ASSUME IInv, ExternalInterrupt \/ TimerInterrupt \/ Ecall \/ Exception
    PROVE  IInv'
<1>1. fate = "ok" /\ (priv = "U" \/ sstatus.sie) /\ UNCHANGED sched /\ exposed' = exposed
  BY DEF ExternalInterrupt, TimerInterrupt, Ecall, Exception, Deliverable
<1>2. Uart'
  BY RxShorter DEF IInv, Uart, ExternalInterrupt, TimerInterrupt, Ecall, Exception, UartIntr,
                   Acknowledge, uart
<1>3. Hart' /\ Queue' /\ Stacks' /\ Machine' /\ fate' = "ok"
  <2>1. ASSUME UserTrap("ret", "none") \/ UserTrap("yield", "tick") \/ \E c \in Calls : UserTrap(c, c)
        PROVE  Hart' /\ Queue' /\ Stacks' /\ Machine' /\ fate' = "ok"
    BY <1>1, <2>1, UserTrapEnters DEF Calls
  <2>2. ASSUME KernelTrap("back") \/ KernelTrap("yield")
        PROVE  Hart' /\ Queue' /\ Stacks' /\ Machine' /\ fate' = "ok"
    BY <1>1, <2>2, KernelTrapEnters
  <2>3. ASSUME \E e \in Exceptions : UserTrap(e, "none")
        PROVE  Hart' /\ Queue' /\ Stacks' /\ Machine' /\ fate' = "ok"
    BY <1>1, <2>3, UserTrapEnters
  <2> QED BY <2>1, <2>2, <2>3 DEF ExternalInterrupt, TimerInterrupt, Ecall, Exception
<1> QED BY <1>1, <1>2, <1>3 DEF IInv, UserResumes

\* A step of a system call that only moves its point and the UART.
LEMMA CallStep ==
    ASSUME IInv, fate = "ok", priv = "S", NEW a \in {"yield", "get_char", "ret", "poll"}, Goto(a),
           Top.at \in {"get_char", "poll", "put_char"}
                \/ (Top.at = "back" /\ Top.fn = "user_trap"),
           UNCHANGED <<priv, sstatus, sepc, stvec, sched, epc, exposed, fate>>, Uart'
    PROVE  IInv'
<1>1. Top.at \notin {"switch", "vector", "user_return", "ret"}
  OBVIOUS
<1>2. ~(Depth > 1)
  BY InKernel DEF KernelAts
<1>3. stvec' = "kernel_vector"
  BY <1>1, KernelVector
<1>4. UNCHANGED <<priv, epc, sched>>
  OBVIOUS
<1>5. Stacks' /\ Machine'
  BY <1>1, <1>2, <1>3, <1>4, EasyStep
<1>6. Hart' /\ Queue' /\ UserResumes' /\ exposed' = FALSE
  BY DEF IInv, Hart, Queue, UserResumes, sched
<1> QED BY <1>5, <1>6 DEF IInv

\* The system calls get_char and put_char and the end of any call that yielded.
LEMMA CharsKeep ==
    ASSUME IInv, Back \/ GetChar \/ Poll \/ PutChar
    PROVE  IInv'
<1>1. fate = "ok" /\ priv = "S"
  BY DEF Back, GetChar, Poll, PutChar, At
<1>2. UNCHANGED <<priv, sstatus, sepc, stvec, sched, epc, exposed, fate>>
  BY DEF Back, GetChar, Poll, PutChar
<1>3. Uart
  BY DEF IInv
<1>4. CASE Back
  <2>1. Uart'
    BY <1>3, <1>4 DEF Back, Uart, uart
  <2>2. Goto("get_char") \/ Goto("ret")
    BY <1>4 DEF Back
  <2>3. Top.at = "back" /\ Top.fn = "user_trap"
    BY <1>4 DEF Back, At
  <2> QED BY <1>1, <1>2, <2>1, <2>2, <2>3, CallStep
<1>5. CASE GetChar
  <2>1. Uart'
    BY <1>3, <1>5, RxShorter DEF GetChar, Uart
  <2>2. Goto("yield") \/ Goto("poll")
    BY <1>5 DEF GetChar
  <2>3. Top.at = "get_char"
    BY <1>5 DEF GetChar, At
  <2> QED BY <1>1, <1>2, <2>1, <2>2, <2>3, CallStep
<1>6. CASE Poll
  <2>1. Uart'
    BY <1>3, <1>6, RxShorter DEF Poll, Uart, Receive
  <2>2. Top.at = "poll"
    BY <1>6 DEF Poll, At
  <2>3. CASE rx = <<>>
    <3>1. UNCHANGED <<priv, sstatus, sepc, stvec, sched, stack, epc, exposed, fate>>
      BY <1>2, <1>6, <2>3 DEF Poll
    <3> QED BY <2>1, <3>1, MachineKept DEF IInv
  <2>4. CASE rx # <<>>
    <3>1. Goto("ret")
      BY <1>6, <2>4 DEF Poll
    <3> QED BY <1>1, <1>2, <2>1, <2>2, <3>1, CallStep
  <2> QED BY <2>3, <2>4
<1>7. CASE PutChar
  <2>1. Uart'
    BY <1>3, <1>7 DEF PutChar, Uart, uart
  <2>2. Goto("ret")
    BY <1>7 DEF PutChar
  <2>3. Top.at = "put_char"
    BY <1>7 DEF PutChar, At
  <2> QED BY <1>1, <1>2, <2>1, <2>2, <2>3, CallStep
<1> QED BY <1>4, <1>5, <1>6, <1>7

\* exec_process() runs with interrupts off until it has loaded the program; a page
\* fault is handled with interrupts off.
LEMMA ExecKeeps ==
    ASSUME IInv, Exec \/ PageFault
    PROVE  IInv'
<1>1. fate = "ok" /\ priv = "S" /\ Top.at \in {"exec", "fault"}
      /\ UNCHANGED <<priv, sepc, stvec, ssip, seip, uart, sched, epc, fate>>
  BY DEF Exec, PageFault, At
<1>2. /\ InterruptOff.sie = FALSE /\ InterruptOn \in Statuses /\ InterruptOff \in Statuses
      /\ sstatus.sie = FALSE /\ exposed = FALSE
  BY <1>1, StatusFields, InKernel DEF IInv, Hart, InterruptOff, InterruptOn, Registers
<1>3. stvec' = "kernel_vector" /\ ~(Depth > 1) /\ Top.at # "switch"
  BY <1>1, KernelVector, InKernel DEF KernelAts
<1>4. PICK a \in {"ret", "exit"} : Goto(a) /\ (a = "exit" => ~sstatus'.sie)
  BY <1>2 DEF Exec, PageFault
<1>5. sstatus' \in Statuses /\ exposed' = FALSE
  BY <1>2 DEF Exec, PageFault, Allocator, IInv, Hart
<1>6. Stacks' /\ Machine'
  BY <1>1, <1>3, <1>4, EasyStep
<1>7. Hart' /\ Uart' /\ Queue' /\ UserResumes'
  BY <1>1, <1>5 DEF IInv, Hart, Uart, Queue, UserResumes, sched, uart
<1> QED BY <1>5, <1>6, <1>7 DEF IInv

\* fork_process(): interrupts are off, and the child's stack is nobody's.
LEMMA ForkKeeps ==
    ASSUME IInv, Fork
    PROVE  IInv'
<1>1. fate = "ok" /\ priv = "S" /\ Top.at = "fork" /\ exposed' = (exposed \/ sstatus.sie)
      /\ UNCHANGED <<priv, sstatus, sepc, stvec, ssip, seip, uart, cur, stk, fate>>
  BY DEF Fork, At, Allocator
<1>2. /\ ~sstatus.sie /\ Depth = 1 /\ cur = stk /\ stk \in Task /\ Top \in Activations
      /\ stack[stk] \in Seq(Activations) /\ stack[stk] # <<>> /\ Layered(stack[stk], stk)
      /\ NoSwitch(stack[stk]) /\ epc = [t \in Task |-> UserPc(t)]
  BY <1>1, InKernel DEF Registers, KernelAts
<1>3. stvec = "kernel_vector"
  BY <1>1, KernelVector
<1>4. Hart /\ Uart /\ Queue /\ Machine /\ exposed = FALSE
  BY <1>1 DEF IInv
<1>5. sstatus.sie \in BOOLEAN
  BY <1>4 DEF Hart, Statuses
<1>6. exposed' = FALSE /\ Uart' /\ UserResumes'
  BY <1>1, <1>2, <1>4, <1>5 DEF IInv, Uart, UserResumes, uart
<1>7. CASE Goto("ret") /\ UNCHANGED <<alive, runq, epc>>
  <2>1. UNCHANGED <<priv, epc, sched>>
    BY <1>1, <1>7 DEF sched
  <2>2. Stacks' /\ Machine'
    BY <1>1, <1>2, <1>3, <1>7, <2>1, EasyStep
  <2>3. Hart' /\ Queue'
    BY <1>1, <1>4, <1>7 DEF Hart, Queue
  <2> QED BY <1>6, <2>2, <2>3 DEF IInv
<1>8. ASSUME NEW t \in Task \ alive, alive' = alive \cup {t}, runq' = Append(runq, t),
             stack' = [stack EXCEPT ![t] = Fresh(t), ![stk][Depth].at = "ret"],
             epc' = [epc EXCEPT ![t] = UserPc(t)]
      PROVE  IInv'
  <2>1. t # stk /\ stk \in alive /\ t \in Task
    BY <1>2, <1>4 DEF Queue
  <2> DEFINE s == stack[stk]
             r == Moved(s, "ret")
             e == Activation("user_trap", "ret", "none", UserPc(t), Status(FALSE, FALSE, "U"))
  <2>2. s[Len(s)] = Top /\ Len(s) = Depth
    BY DEF Top, Depth
  <2>3. stack \in [Task -> Seq(Activations)]
    BY DEF IInv, Stacks
  <2>4. /\ stack'[t] = Fresh(t) /\ stack'[stk] = r /\ DOMAIN stack' = Task
        /\ stack' = [u \in Task |-> stack'[u]]
        /\ \A u \in Task \ {t, stk} : stack'[u] = stack[u]
    BY <1>2, <1>8, <2>1, <2>2, <2>3 DEF Moved
  <2>5. "ret" \in Ats /\ "ret" \in UserAts
    BY DEF Ats, UserAts
  <2>6. /\ r \in Seq(Activations) /\ Len(r) = 1 /\ r # <<>> /\ Layered(r, stk) /\ NoSwitch(r)
        /\ r[1] = [Top EXCEPT !.at = "ret"]
    <3> HIDE DEF s
    <3>1. s \in Seq(Activations) /\ s # <<>> /\ Layered(s, stk) /\ NoSwitch(s) /\ Len(s) = 1
      BY <1>2, <2>2 DEF s
    <3>2. ~(Len(s) > 1)
      BY <3>1
    <3> QED BY <1>2, <2>2, <2>5, <3>1, <3>2, MovedLayered
  <2>7. e \in Activations /\ e.fn = "user_trap" /\ e.at = "ret" /\ "ret" \in UserAts \ {"switch"}
    BY <2>1, UserPoints, BuiltStatus DEF Activation, Activations, UserAts, Ats
  <2>8. Fresh(t) = <<e>>
    BY DEF Fresh
  <2> HIDE DEF e, s, r
  <2>9. /\ <<e>> \in Seq(Activations) /\ Len(<<e>>) = 1 /\ <<e>> # <<>> /\ Layered(<<e>>, t)
    BY <2>7, SingleLayered
  <2>10. Stacks'
    <3>1. \A u \in Task : stack'[u] \in Seq(Activations) /\ Len(stack'[u]) <= MaxDepth
      <4>1. 1 <= MaxDepth
        BY BoundsAssumption
      <4> SUFFICES ASSUME NEW u \in Task
                   PROVE  stack'[u] \in Seq(Activations) /\ Len(stack'[u]) <= MaxDepth
        OBVIOUS
      <4>2. CASE u = t
        <5>1. stack'[u] = <<e>>
          BY <2>4, <2>8, <4>2
        <5> QED BY <2>9, <4>1, <5>1
      <4>3. CASE u = stk
        BY <2>4, <2>6, <4>1, <4>3
      <4>4. CASE u \notin {t, stk}
        <5>1. stack'[u] = stack[u]
          BY <2>4, <4>4
        <5> QED BY <5>1 DEF IInv, Stacks
      <4> QED BY <4>2, <4>3, <4>4
    <3> QED BY <2>4, <3>1 DEF Stacks
  <2>11. \A u \in Task : Layered(stack'[u], u)
    BY <1>4, <2>4, <2>6, <2>8, <2>9 DEF Machine
  <2>12. \A u \in alive' \ {stk'} : Waiting(stack'[u], u)
    <3>1. Waiting(Fresh(t), t)
      BY <2>8, <2>9 DEF Waiting
    <3>2. \A u \in alive \ {stk} : Waiting(stack[u], u) /\ u \in Task
      BY <1>4 DEF Machine, Queue
    <3> QED BY <1>1, <1>8, <2>4, <3>1, <3>2
  <2>13. Registers(r[1], 1, stk, sstatus', sepc', stvec')
    <3>1. Registers([Top EXCEPT !.at = "ret"], 1, stk, sstatus', sepc', "kernel_vector")
      BY <1>2, EasyPoint
    <3> QED BY <1>1, <1>3, <2>6, <3>1
  <2>14. Cpu(r, stk, priv', cur', sstatus', sepc', stvec')
    BY <1>1, <1>2, <2>6, <2>13 DEF Cpu
  <2>15. epc' = [u \in Task |-> UserPc(u)]
    BY <1>2, <1>8, <2>1
  <2>16. Machine'
    BY <1>1, <2>4, <2>11, <2>12, <2>14, <2>15 DEF Machine
  <2>17. Hart'
    BY <1>1, <1>4, <2>15, UserPoints DEF Hart
  <2>18. Queue'
    <3>1. runq \in Seq(alive' \ {cur}) /\ t \in alive' \ {cur} /\ alive' \subseteq Task /\ cur' = cur
      BY <1>1, <1>2, <1>4, <1>8, <2>1 DEF Queue
    <3>2. /\ runq' \in Seq(alive' \ {cur}) /\ Len(runq') = Len(runq) + 1 /\ runq'[Len(runq) + 1] = t
          /\ \A i \in 1 .. Len(runq) : runq'[i] = runq[i]
      BY <1>8, <3>1, AppendProperties
    <3>3. Len(runq) \in Nat /\ \A i \in 1 .. Len(runq) + 1 : i \in 1 .. Len(runq) \/ i = Len(runq) + 1
      BY <3>1
    <3>4. \A i \in 1 .. Len(runq) : runq[i] \in alive
      BY <1>4 DEF Queue
    <3>5. \A i, j \in 1 .. Len(runq) : runq[i] = runq[j] => i = j
      BY <1>4 DEF Queue
    <3>6. \A i, j \in 1 .. Len(runq') : runq'[i] = runq'[j] => i = j
      BY <3>2, <3>3, <3>4, <3>5
    <3> QED BY <1>1, <1>4, <1>8, <3>1, <3>2, <3>6 DEF Queue
  <2> QED BY <1>6, <2>10, <2>16, <2>17, <2>18 DEF IInv
<1> QED BY <1>7, <1>8 DEF Fork

\* user_trap_return() up to the registers of sret.
LEMMA UserReturnsKeep ==
    ASSUME IInv, UserTrapReturn \/ UserTrapRegisters
    PROVE  IInv'
<1>1. fate = "ok" /\ priv = "S"
      /\ UNCHANGED <<priv, ssip, seip, uart, sched, epc, exposed, fate>>
  BY DEF UserTrapReturn, UserTrapRegisters, At
<1>2. Hart /\ Uart /\ Queue /\ exposed = FALSE /\ UserResumes /\ sstatus \in Statuses
  BY DEF IInv, Hart
<1>3. Uart' /\ Queue' /\ UserResumes' /\ exposed' = FALSE
  BY <1>1, <1>2 DEF Uart, Queue, UserResumes, uart, sched
<1>4. Top.at \in {"ret", "vector"} /\ Depth = 1 /\ cur = stk /\ stk \in Task /\ Top \in Activations
      /\ Registers(Top, Depth, stk, sstatus, sepc, stvec)
      /\ stack[stk] \in Seq(Activations) /\ stack[stk] # <<>> /\ Layered(stack[stk], stk)
      /\ NoSwitch(stack[stk])
      /\ epc = [t \in Task |-> UserPc(t)]
  <2>1. Top.at \in {"ret", "vector"}
    BY DEF UserTrapReturn, UserTrapRegisters, At
  <2> QED BY <1>1, <2>1, InKernel DEF KernelAts
<1> DEFINE a == IF Top.at = "ret" THEN "vector" ELSE "user_return"
<1>5. Goto(a)
  BY DEF UserTrapReturn, UserTrapRegisters, At
<1>6. a \in Ats /\ a \in UserAts /\ a # "switch" /\ a \in {"vector", "user_return"}
  BY DEF Ats, UserAts
<1>7. /\ sstatus' \in Statuses /\ ~sstatus'.sie /\ stvec' = "user_vector" /\ sepc' \in Points
      /\ a = "user_return" => sepc' = UserPc(stk) /\ sstatus'.spp = "U"
  <2>1. CASE UserTrapReturn
    BY <1>2, <2>1, StatusFields DEF UserTrapReturn, ReturnMask, InterruptOff, At, Hart
  <2>2. CASE UserTrapRegisters
    <3>1. Top.at = "vector" /\ ~sstatus.sie /\ stvec = "user_vector"
      BY <1>4, <2>2 DEF UserTrapRegisters, At, Registers
    <3>2. sepc' = UserPc(stk) /\ stvec' = stvec
      BY <1>4, <2>2 DEF UserTrapRegisters, UserSepc
    <3>3. sstatus' = [sstatus EXCEPT !.spp = "U", !.spie = TRUE]
      BY <2>2 DEF UserTrapRegisters
    <3> QED BY <1>2, <1>4, <3>1, <3>2, <3>3, StatusFields, UserPoints
  <2> QED BY <2>1, <2>2
<1>8. Hart'
  BY <1>1, <1>2, <1>7 DEF Hart
<1> HIDE DEF a
<1>9. [Top EXCEPT !.at = a].at = a
  BY <1>4 DEF Activations
<1>10. Registers([Top EXCEPT !.at = a], Depth, stk, sstatus', sepc', stvec')
  BY <1>6, <1>7, <1>9 DEF Registers
<1>11. NoSwitch(Moved(stack[stk], a))
  <2>1. Len(stack[stk]) = 1 /\ ~(Len(stack[stk]) > 1)
    BY <1>4 DEF Depth
  <2> QED BY <1>4, <1>6, <2>1, MovedLayered
<1>12. UNCHANGED <<priv, epc, stk>> /\ alive' \subseteq alive /\ cur' = stk /\ ~(Depth > 1)
  BY <1>1, <1>4 DEF sched
<1>13. Stacks' /\ Machine'
  BY <1>1, <1>5, <1>6, <1>10, <1>11, <1>12, GotoStep
<1> QED BY <1>3, <1>8, <1>13 DEF IInv

\* user_return: the program resumes where its trap frame says.
LEMMA UserReturnKeeps ==
    ASSUME IInv, UserReturn
    PROVE  IInv'
<1>1. fate = "ok" /\ priv = "S" /\ Top.at = "user_return"
      /\ UNCHANGED <<sepc, stvec, ssip, seip, uart, sched, epc, exposed>>
  BY DEF UserReturn, At
<1>2. /\ Depth = 1 /\ cur = stk /\ stk \in Task /\ stvec = "user_vector" /\ sepc = UserPc(stk)
      /\ sstatus.spp = "U" /\ epc = [t \in Task |-> UserPc(t)]
  BY <1>1, InKernel DEF Registers, KernelAts
<1>3. priv' = "U" /\ sstatus' = Status(sstatus.spie, TRUE, "U") /\ fate' = "ok"
      /\ stack' = [stack EXCEPT ![stk] = <<>>]
  BY <1>1, <1>2 DEF UserReturn, Sret
<1>4. sstatus' \in Statuses
  BY <1>3, StatusFields, BuiltStatus DEF IInv, Hart
<1>5. Hart' /\ Uart' /\ Queue' /\ UserResumes' /\ exposed' = FALSE
  BY <1>1, <1>3, <1>4 DEF IInv, Hart, Uart, Queue, UserResumes, sched, uart, Fates
<1>6. <<>> \in Seq(Activations) /\ Len(<<>>) <= MaxDepth /\ Layered(<<>>, stk) /\ NoSwitch(<<>>)
  BY EmptyLayered, BoundsAssumption
<1>7. stk' = stk /\ cur' = cur /\ alive' \subseteq alive /\ epc' = epc /\ stvec' = stvec
  BY <1>1 DEF sched
<1>8. Cpu(<<>>, stk, priv', cur', sstatus', sepc', stvec')
  BY <1>2, <1>3, <1>6, <1>7 DEF Cpu
<1>9. Stacks' /\ Machine'
  BY <1>1, <1>2, <1>3, <1>6, <1>7, <1>8, OneStack
<1> QED BY <1>5, <1>9 DEF IInv

\* kernel_trap(): write_sepc() and write_sstatus().
LEMMA KernelWritesKeep ==
    ASSUME IInv, WriteSepc \/ WriteSstatus
    PROVE  IInv'
<1>1. fate = "ok" /\ priv = "S" /\ Top.at \in {"back", "sepc"}
      /\ UNCHANGED <<priv, stvec, ssip, seip, uart, sched, epc, exposed, fate>>
  BY DEF WriteSepc, WriteSstatus, At
<1>2. Hart /\ Uart /\ Queue /\ exposed = FALSE /\ UserResumes /\ sstatus \in Statuses
  BY DEF IInv, Hart
<1>3. Uart' /\ Queue' /\ UserResumes' /\ exposed' = FALSE
  BY <1>1, <1>2 DEF Uart, Queue, UserResumes, uart, sched
<1>4. /\ Depth > 1 /\ Depth \in Nat /\ stk \in Task /\ Top \in Activations
      /\ Registers(Top, Depth, stk, sstatus, sepc, stvec)
      /\ stack[stk] \in Seq(Activations) /\ stack[stk] # <<>> /\ Layered(stack[stk], stk)
      /\ Top.sstatus = KernelStatus
      /\ Top.at = "back" => ~Top.hit
      /\ cur = stk <=> NoSwitch(stack[stk])
  <2>1. (Top.at = "back" /\ Top.fn = "kernel_trap") \/ Top.at = "sepc"
    BY DEF WriteSepc, WriteSstatus, At
  <2> QED BY <1>1, <2>1, InKernel DEF UserAts
<1>5. stvec = "kernel_vector"
  BY <1>1, KernelVector
<1> DEFINE a == IF Top.at = "back" THEN "sepc" ELSE "status"
<1>6. Goto(a) /\ a \in Ats /\ a \in KernelAts /\ a \in {"sepc", "status"} /\ a # "switch"
  BY DEF WriteSepc, WriteSstatus, At, Ats, KernelAts
<1>7. /\ sstatus' \in Statuses /\ sepc' \in Points
      /\ a = "status" => ~sstatus'.sie /\ sstatus'.spp = "S"
      /\ SepcReady(Top, Depth, stk, sepc')
  <2>1. CASE WriteSepc
    <3>1. Top.at = "back" /\ sstatus' = sstatus /\ sepc' = Top.sepc
      BY <2>1 DEF WriteSepc, At
    <3>2. Top.sepc \in Points
      BY <1>4 DEF Activations
    <3> QED BY <1>2, <1>4, <3>1, <3>2 DEF SepcReady
  <2>2. CASE WriteSstatus
    <3>1. Top.at = "sepc" /\ sstatus' = KernelStatus /\ sepc' = sepc
      BY <1>4, <2>2 DEF WriteSstatus, SavedStatus, At
    <3>2. KernelStatus \in Statuses /\ KernelStatus.sie = FALSE /\ KernelStatus.spp = "S"
      BY BuiltStatus DEF KernelStatus
    <3> QED BY <1>2, <1>4, <3>1, <3>2 DEF Registers, Hart
  <2> QED BY <2>1, <2>2
<1>8. Hart'
  BY <1>1, <1>2, <1>7 DEF Hart
<1> HIDE DEF a
<1>9. LET e == [Top EXCEPT !.at = a] IN e.at = a /\ e.hit = Top.hit /\ e.sepc = Top.sepc
  BY <1>4 DEF Activations
<1>10. Registers([Top EXCEPT !.at = a], Depth, stk, sstatus', sepc', stvec')
  BY <1>1, <1>5, <1>6, <1>7, <1>9 DEF Registers, SepcReady
<1>11. NoSwitch(Moved(stack[stk], a)) <=> NoSwitch(stack[stk])
  <2>1. Len(stack[stk]) = Depth /\ stack[stk][Len(stack[stk])] = Top /\ Top.at # "switch" /\ Depth # 1
    BY <1>1, <1>4 DEF Depth, Top
  <2> QED BY <1>4, <1>6, <2>1, MovedLayered
<1>12. UNCHANGED <<priv, epc, stk>> /\ alive' \subseteq alive /\ cur' = cur /\ Depth # 1
  BY <1>1, <1>4 DEF sched
<1>13. Stacks' /\ Machine'
  BY <1>1, <1>4, <1>6, <1>10, <1>11, <1>12, GotoStep
<1> QED BY <1>3, <1>8, <1>13 DEF IInv

\* The end of kernel_vector: if sepc is the point this trap saved, the CPU is there.
LEMMA KernelReturnKeeps ==
    ASSUME IInv, KernelReturn
    PROVE  IInv'
<1>1. fate = "ok" /\ priv = "S" /\ Top.at = "status"
      /\ UNCHANGED <<sepc, stvec, ssip, seip, uart, sched, epc, exposed>>
  BY DEF KernelReturn, At
<1> DEFINE s == stack[stk]
           n == Len(s)
           r == Popped(s)
<1>2. /\ n > 1 /\ n \in Nat /\ n <= MaxDepth /\ stk \in Task /\ s \in Seq(Activations)
      /\ Layered(s, stk) /\ s[n] = Top /\ n = Depth
      /\ Top.sepc = <<stk, n - 1, s[n - 1].at>>
      /\ sstatus.spp = "S" /\ epc = [t \in Task |-> UserPc(t)]
      /\ cur = stk <=> NoSwitch(s)
  <2>1. n = Depth /\ s[n] = Top
    BY DEF Depth, Top
  <2> HIDE DEF n
  <2> QED BY <1>1, <2>1, InKernel DEF Registers, UserAts
<1>3. stvec = "kernel_vector"
  BY <1>1, KernelVector
<1>4. priv' = "S" /\ sstatus' = Status(sstatus.spie, TRUE, "U")
      /\ fate' = (IF sepc = Top.sepc THEN "ok" ELSE "lost_kernel")
      /\ stack' = [stack EXCEPT ![stk] = r]
  BY <1>1, <1>2 DEF KernelReturn, Sret, Popped, Depth
<1>5. sstatus' \in Statuses
  BY <1>4, StatusFields, BuiltStatus DEF IInv, Hart
<1>6. Hart' /\ Uart' /\ Queue' /\ UserResumes' /\ exposed' = FALSE
  BY <1>1, <1>4, <1>5 DEF IInv, Hart, Uart, Queue, UserResumes, sched, uart, Fates
<1> HIDE DEF s
<1>7. /\ r \in Seq(Activations) /\ Len(r) = n - 1 /\ r[n - 1] = s[n - 1] /\ Layered(r, stk)
      /\ NoSwitch(r) <=> NoSwitch(s)
  BY <1>1, <1>2, PoppedLayered
<1> HIDE DEF r, n
<1>8. r # <<>> /\ Len(r) <= MaxDepth /\ n - 1 \in 1 .. n - 1 /\ Len(r) \in Nat
  BY <1>2, <1>7, BoundsAssumption
<1>9. Stacks'
  BY <1>2, <1>4, <1>7, <1>8 DEF IInv, Stacks
<1>10. ASSUME fate' = "ok" PROVE Machine'
  <2> DEFINE e == s[n - 1]
  <2>1. e.at \in Interruptible /\ (e.at = "sepc" => e.hit)
    BY <1>2, <1>8 DEF Layered, Covered, n
  <2>2. sepc' = <<stk, n - 1, e.at>> /\ stvec' = "kernel_vector"
    BY <1>1, <1>2, <1>3, <1>4, <1>10
  <2> HIDE DEF e
  <2>3. Registers(e, n - 1, stk, sstatus', sepc', stvec')
    BY <2>1, <2>2 DEF Registers, SepcReady, Interruptible
  <2>4. stk' = stk /\ cur' = cur /\ alive' \subseteq alive /\ epc' = [t \in Task |-> UserPc(t)]
    BY <1>1, <1>2 DEF sched
  <2>5. Cpu(r, stk, priv', cur', sstatus', sepc', stvec')
    BY <1>2, <1>4, <1>7, <1>8, <2>3, <2>4 DEF Cpu, e
  <2> QED BY <1>1, <1>4, <1>7, <1>8, <2>4, <2>5, OneStack
<1> QED BY <1>6, <1>9, <1>10 DEF IInv

\* exit_process(): init may not exit.
LEMMA ExitKeeps ==
    ASSUME IInv, Exit
    PROVE  IInv'
<1>1. fate = "ok" /\ priv = "S" /\ Top.at = "exit"
  BY DEF Exit, At
<1>2. CASE cur = init
  <2>1. fate' = "panic_init"
        /\ UNCHANGED <<priv, sstatus, sepc, stvec, ssip, seip, uart, sched, stack, epc, exposed>>
    BY <1>2 DEF Exit
  <2> QED BY <2>1 DEF IInv, Hart, Uart, Queue, Stacks, UserResumes, Fates, sched, uart
<1>3. CASE cur # init
  BY <1>1, <1>3, YieldKeeps DEF Exit
<1> QED BY <1>2, <1>3

-----------------------------------------------------------------------------
(* The invariant and the theorems. *)

\* scheduler() has just switched to init.
LEMMA InitKeeps == Init => IInv
<1> SUFFICES ASSUME Init PROVE IInv
  OBVIOUS
<1> DEFINE e == Activation("user_trap", "ret", "none", UserPc(init), Status(FALSE, FALSE, "U"))
<1>1. init \in Task /\ MaxDepth \in Nat \ {0} /\ FifoSize \in Nat \ {0}
  BY InitAssumption, BoundsAssumption
<1>2. e \in Activations /\ e.fn = "user_trap" /\ e.at = "ret" /\ "ret" \in UserAts \ {"switch"}
  BY <1>1, UserPoints, BuiltStatus DEF Activation, Activations, UserAts, Ats
<1>3. stack = [t \in Task |-> IF t = init THEN <<e>> ELSE <<>>]
  BY DEF Init, Fresh
<1> HIDE DEF e
<1>4. /\ <<e>> \in Seq(Activations) /\ Len(<<e>>) = 1 /\ <<e>> # <<>> /\ <<e>>[1] = e
      /\ Layered(<<e>>, init) /\ NoSwitch(<<e>>)
  BY <1>2, SingleLayered
<1>5. \A t \in Task : <<>> \in Seq(Activations) /\ Len(<<>>) = 0 /\ Layered(<<>>, t)
  BY EmptyLayered
<1>6. Stacks
  BY <1>1, <1>3, <1>4, <1>5 DEF Stacks
<1>7. Hart
  BY <1>1, UserPoints, BuiltStatus DEF Init, Hart, Fates
<1>8. Uart
  <2>1. rx = <<>> /\ typed = 0 /\ ssip = FALSE /\ seip = FALSE
    BY DEF Init
  <2>2. rx \in Seq(1 .. typed) /\ Len(rx) = 0 /\ 0 <= FifoSize
    BY <1>1, <2>1
  <2> QED BY <2>1, <2>2 DEF Uart
<1>9. Queue
  BY <1>1 DEF Init, Queue
<1>10. \A t \in Task : Layered(stack[t], t)
  BY <1>3, <1>4, <1>5
<1>11. stack[stk] = <<e>> /\ stk = init /\ cur = init /\ priv = "S" /\ alive = {init}
  BY <1>1, <1>3 DEF Init
<1>12. sstatus.sie = FALSE /\ stvec = "none"
  BY BuiltStatus DEF Init
<1>13. Registers(e, 1, stk, sstatus, sepc, stvec)
  BY <1>2, <1>12 DEF Registers
<1>14. Cpu(stack[stk], stk, priv, cur, sstatus, sepc, stvec)
  BY <1>4, <1>11, <1>13 DEF Cpu
<1>15. Machine
  BY <1>10, <1>11, <1>14 DEF Machine, Init
<1> QED BY <1>6, <1>7, <1>8, <1>9, <1>15 DEF IInv, UserResumes, Init

\* Every step keeps the invariant.
LEMMA StepKeeps == IInv /\ [Next]_vars => IInv'
<1> SUFFICES ASSUME IInv, [Next]_vars PROVE IInv'
  OBVIOUS
<1>1. CASE UNCHANGED vars
  BY <1>1 DEF vars, uart, sched, IInv, Hart, Uart, Queue, Stacks, UserResumes, Machine
<1>2. CASE YieldStep
  <2>1. fate = "ok" /\ priv = "S" /\ Top.at = "yield" /\ Yield(FALSE)
    BY <1>2 DEF YieldStep, At
  <2> QED BY <2>1, YieldKeeps
<1>3. CASE Lost
  BY <1>1, <1>3 DEF Lost
<1> QED BY <1>1, <1>2, <1>3, DevicesKeep, TrapsKeep, ExitKeeps, SwitchKeeps, CharsKeep, ForkKeeps,
           ExecKeeps, UserReturnsKeep, UserReturnKeeps, KernelWritesKeep, KernelReturnKeeps
        DEF Next, Kernel

\* The inductive invariant holds throughout.
THEOREM Invariance == Spec => []IInv
  BY InitKeeps, StepKeeps, PTL DEF Spec

\* Every variable has its type: in particular no kernel stack outgrows MaxDepth and the
\* run queue of yield() holds living tasks other than the running one.
THEOREM Typed == Spec => []TypeOK
  BY Invariance, TypesOf, PTL

\* A program resumes exactly where it was interrupted, and the panics of user_trap()
\* and kernel_trap() about the mode they came from are unreachable.
THEOREM ProgramsResume == Spec => []UserResumes
<1>1. IInv => UserResumes
  BY DEF IInv
<1> QED BY <1>1, Invariance, PTL

\* kernel_trap() is about to return to the point it interrupted, in supervisor mode,
\* exactly if no trap came between its write_sepc() and its write_sstatus().
THEOREM KernelTrapResumes == Spec => []KernelResumes
<1>1. IInv => KernelResumes
  <2> SUFFICES ASSUME IInv, At("status")
               PROVE  sstatus.spp = "S" /\ (sepc = Top.sepc <=> ~Top.hit)
    BY DEF KernelResumes
  <2>1. fate = "ok" /\ priv = "S" /\ Top.at = "status"
    BY DEF At
  <2>2. /\ Depth > 1 /\ Depth \in Nat /\ Top.sepc = <<stk, Depth - 1, stack[stk][Depth - 1].at>>
        /\ Registers(Top, Depth, stk, sstatus, sepc, stvec) /\ Top \in Activations
    BY <2>1, InKernel DEF UserAts
  <2>3. Top.sepc # <<stk, Depth, "sepc">>
    BY <2>2
  <2> QED BY <2>1, <2>2, <2>3 DEF Registers, SepcReady, Activations
<1> QED BY <1>1, Invariance, PTL

\* allocate(), deallocate(), kmalloc() and kfree() are never called with interrupts on.
THEOREM AllocatorAlone == Spec => []AllocatorMasked
<1>1. IInv => AllocatorMasked
  BY DEF IInv, AllocatorMasked
<1> QED BY <1>1, Invariance, PTL
=============================================================================
