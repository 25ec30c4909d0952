---------------------------- MODULE ProcessProofs ----------------------------
(***************************************************************************)
(* For every number of tasks, every workload, with and without ticks in    *)
(* the kernel and failing allocations: the run queue is exact, one task    *)
(* runs, the process tree is sound and no waiter overlooks a zombie; no    *)
(* wakeup is lost, a death is announced once and to the right task; kernel *)
(* stacks are reclaimed safely except in the two named cases, and the CPU  *)
(* leaves the code's defined paths in the four named ways only.            *)
(***************************************************************************)
EXTENDS Process, WellFoundedInduction, TLAPS

\* The inductive invariant: the five invariants need each other.  An exit must
\* know that its caller is not queued, that its parent is alive, and so on.
IInv ==
    /\ TypeOK
    /\ RunQueueExact
    /\ OneRunning
    /\ ParentsAlive
    /\ WaiterHasNoZombie

-----------------------------------------------------------------------------
(* Queues. *)

\* push_tail() of a task that is not in the queue.
LEMMA ListsAppend ==
    ASSUME NEW q, NEW S, NEW t \in Task, Lists(q, S), t \notin S
    PROVE  Lists(Append(q, t), S \cup {t})
<1> DEFINE r == Append(q, t)
<1>1. q \in Seq(Task) /\ Len(q) \in Nat
  BY DEF Lists
<1>2. r \in Seq(Task) /\ Len(r) = Len(q) + 1
  BY <1>1
<1>3. \A i \in 1 .. Len(r) : r[i] = IF i = Len(q) + 1 THEN t ELSE q[i]
  BY <1>1
<1>4. \A i \in 1 .. Len(q) : q[i] \in S /\ q[i] \in Task
  BY <1>1 DEF Lists
<1>5. \A i, j \in 1 .. Len(r) : r[i] = r[j] => i = j
  <2> TAKE i, j \in 1 .. Len(r)
  <2> HAVE r[i] = r[j]
  <2> QED BY <1>1, <1>2, <1>3, <1>4 DEF Lists
<1>6. \A u \in Task : u \in S \cup {t} <=> \E i \in 1 .. Len(r) : r[i] = u
  <2> TAKE u \in Task
  <2>1. ASSUME u \in S PROVE \E i \in 1 .. Len(r) : r[i] = u
    <3>1. PICK i \in 1 .. Len(q) : q[i] = u
      BY <2>1 DEF Lists
    <3>2. i \in 1 .. Len(r) /\ r[i] = u
      BY <3>1, <1>1, <1>2, <1>3
    <3> QED BY <3>2
  <2>2. Len(r) \in 1 .. Len(r) /\ r[Len(r)] = t
    BY <1>1, <1>2, <1>3
  <2>3. ASSUME NEW i \in 1 .. Len(r) PROVE r[i] \in S \cup {t}
    BY <1>1, <1>2, <1>3, <1>4
  <2> QED BY <2>1, <2>2, <2>3
<1> HIDE DEF r
<1>7. Lists(r, S \cup {t})
  BY <1>2, <1>5, <1>6 DEF Lists
<1> QED BY <1>7 DEF r

\* pop_head_without_free() of a non-empty queue.
LEMMA ListsTail ==
    ASSUME NEW q, NEW S, Lists(q, S), q # <<>>
    PROVE  /\ Head(q) \in Task
           /\ Head(q) \in S
           /\ Lists(Tail(q), S \ {Head(q)})
<1> DEFINE r == Tail(q)
<1>1. q \in Seq(Task) /\ Len(q) \in Nat /\ Len(q) > 0
  BY DEF Lists
<1>2. Head(q) = q[1] /\ 1 \in 1 .. Len(q) /\ Head(q) \in Task
  BY <1>1
<1>3. Head(q) \in S
  BY <1>2 DEF Lists
<1>4. r \in Seq(Task) /\ Len(r) = Len(q) - 1
  BY <1>1
<1>5. \A i \in 1 .. Len(r) : i + 1 \in 1 .. Len(q) /\ r[i] = q[i + 1]
  BY <1>1, <1>4
<1>6. \A i, j \in 1 .. Len(r) : r[i] = r[j] => i = j
  <2> TAKE i, j \in 1 .. Len(r)
  <2> HAVE r[i] = r[j]
  <2>1. q[i + 1] = q[j + 1]
    BY <1>5
  <2>2. i + 1 = j + 1
    BY <2>1, <1>5 DEF Lists
  <2> QED BY <2>2
<1>7. \A u \in Task : u \in S \ {Head(q)} <=> \E i \in 1 .. Len(r) : r[i] = u
  <2> TAKE u \in Task
  <2>1. ASSUME u \in S \ {Head(q)} PROVE \E i \in 1 .. Len(r) : r[i] = u
    <3>1. PICK i \in 1 .. Len(q) : q[i] = u
      BY <2>1 DEF Lists
    <3>2. i # 1
      BY <3>1, <2>1, <1>2
    <3>3. i - 1 \in 1 .. Len(r) /\ (i - 1) + 1 = i
      BY <3>2, <1>1, <1>4
    <3>4. r[i - 1] = u
      BY <3>1, <3>3, <1>5
    <3> QED BY <3>3, <3>4
  <2>2. ASSUME NEW i \in 1 .. Len(r), r[i] = u PROVE u \in S \ {Head(q)}
    <3>1. q[i + 1] = u /\ i + 1 \in 1 .. Len(q) /\ i + 1 # 1
      BY <2>2, <1>5
    <3>2. u \in S
      BY <3>1 DEF Lists
    <3>3. u # q[1]
      BY <3>1, <1>2 DEF Lists
    <3> QED BY <3>2, <3>3, <1>2
  <2> QED BY <2>1, <2>2
<1> HIDE DEF r
<1>8. Lists(r, S \ {Head(q)})
  BY <1>4, <1>6, <1>7 DEF Lists
<1> QED BY <1>2, <1>3, <1>8 DEF r

\* removeAt() of a task that is not in the queue leaves it alone.
LEMMA RemoveAtAbsent ==
    ASSUME NEW q, NEW S, NEW t \in Task, Lists(q, S), t \notin S
    PROVE  RemoveAt(q, t) = q
<1>1. Len(q) \in Nat
  BY DEF Lists
<1>2. \A i \in 1 .. Len(q) : q[i] # t
  BY DEF Lists
<1>3. {i \in 2 .. Len(q) : q[i] = t} = {}
  BY <1>1, <1>2
<1> QED BY <1>3 DEF RemoveAt

\* next_task_to_run() takes the head of a queue of RUNNABLE tasks.
LEMMA NextIsHead ==
    ASSUME NEW st, NEW q, Lists(q, {t \in Task : st[t] = "RUNNABLE"}), q # <<>>
    PROVE  /\ Candidates(st, q) # {}
           /\ NextTaskToRun(st, q) = q
<1>1. q \in Seq(Task) /\ Len(q) \in Nat /\ Len(q) > 0
  BY DEF Lists
<1>2. 1 \in Candidates(st, q)
  BY <1>1 DEF Lists, Candidates
<1>3. \A i \in Candidates(st, q) : i \in Nat /\ 1 <= i
  BY <1>1 DEF Candidates
<1> DEFINE first == CHOOSE i \in Candidates(st, q) :
                        \A j \in Candidates(st, q) : i <= j
<1>4. first \in Candidates(st, q) /\ \A j \in Candidates(st, q) : first <= j
  BY <1>2, <1>3
<1>5. first = 1
  BY <1>2, <1>3, <1>4
<1>6. SubSeq(q, 1, Len(q)) = q
  BY <1>1
<1> QED BY <1>2, <1>5, <1>6 DEF NextTaskToRun

-----------------------------------------------------------------------------
(* yield(). *)

RunnableIn(st) == {t \in Task : st[t] = "RUNNABLE"}

\* yield() only exchanges RUNNING and RUNNABLE.
SameLife(st, new) ==
    \A t \in Task :
        \/ new[t] = st[t]
        \/ st[t] \in {"RUNNING", "RUNNABLE"} /\ new[t] \in {"RUNNING", "RUNNABLE"}

\* The caller's view of the tasks when it calls yield().
Coherent(st, q) ==
    /\ st \in [Task -> States]
    /\ Lists(q, RunnableIn(st))
    /\ \A t \in Task : st[t] = "RUNNING" => t = cur

\* The running task is put back: nobody is RUNNING and the queue is exact.
LEMMA RequeueExact ==
    ASSUME NEW st, NEW q, Coherent(st, q), cur \in Task
    PROVE  LET rq == Requeue(st, q)
           IN  /\ rq.st \in [Task -> States]
               /\ Lists(rq.q, RunnableIn(rq.st))
               /\ \A t \in Task : rq.st[t] # "RUNNING"
               /\ rq.old \in Task \cup {NULL}
               /\ q # <<>> => rq.q # <<>>
               /\ SameLife(st, rq.st)
<1>1. CASE st[cur] = "RUNNING"
  <2> DEFINE new == [st EXCEPT ![cur] = "RUNNABLE"]
  <2>1. /\ Requeue(st, q).st = new
        /\ Requeue(st, q).q = Append(q, cur)
        /\ Requeue(st, q).old = cur
    BY <1>1 DEF Requeue
  <2>2. new \in [Task -> States] /\ SameLife(st, new)
    BY <1>1 DEF Coherent, States, SameLife
  <2>3. RunnableIn(new) = RunnableIn(st) \cup {cur} /\ cur \notin RunnableIn(st)
    BY <1>1 DEF Coherent, RunnableIn
  <2>4. Lists(Append(q, cur), RunnableIn(new))
    <3>1. Lists(q, RunnableIn(st)) /\ cur \notin RunnableIn(st)
      BY <2>3 DEF Coherent
    <3>2. Lists(Append(q, cur), RunnableIn(st) \cup {cur})
      BY <3>1, ListsAppend
    <3> HIDE DEF new
    <3> QED BY <3>2, <2>3
  <2>5. \A t \in Task : new[t] # "RUNNING"
    BY <1>1 DEF Coherent
  <2>6. Append(q, cur) # <<>>
    <3>1. q \in Seq(Task)
      BY DEF Coherent, Lists
    <3>2. Len(Append(q, cur)) = Len(q) + 1 /\ Len(q) \in Nat
      BY <3>1
    <3>3. Len(<<>>) = 0
      OBVIOUS
    <3> QED BY <3>2, <3>3
  <2> QED BY <2>1, <2>2, <2>4, <2>5, <2>6
<1>2. CASE st[cur] # "RUNNING"
  <2>1. /\ Requeue(st, q).st = st
        /\ Requeue(st, q).q = q
        /\ Requeue(st, q).old = NULL
    BY <1>2 DEF Requeue
  <2> QED BY <1>2, <2>1 DEF Coherent, SameLife
<1> QED BY <1>1, <1>2

\* Dispatching keeps the queue exact and makes one task RUNNING.
LEMMA DispatchExact ==
    ASSUME NEW st, NEW q, NEW k, Coherent(st, q), q # <<>>, cur \in Task,
           Dispatch(st, q, k)
    PROVE  /\ state' \in [Task -> States]
           /\ Lists(runq', RunnableIn(state'))
           /\ \A t \in Task : state'[t] = "RUNNING" => t = cur'
           /\ cur' \in Task /\ state'[cur'] = "RUNNING"
           /\ mode' = "switch" /\ kont' = k
           /\ dst' \in Task \cup {NULL}
           /\ SameLife(st, state')
<1> DEFINE rst == Requeue(st, q).st
           rqq == Requeue(st, q).q
<1>1. /\ rst \in [Task -> States]
      /\ Lists(rqq, RunnableIn(rst))
      /\ \A t \in Task : rst[t] # "RUNNING"
      /\ Requeue(st, q).old \in Task \cup {NULL}
      /\ rqq # <<>>
      /\ SameLife(st, rst)
  BY RequeueExact
<1> HIDE DEF rst, rqq
<1>2. Candidates(rst, rqq) # {} /\ NextTaskToRun(rst, rqq) = rqq
  BY <1>1, NextIsHead DEF RunnableIn
<1>3. /\ state' = [rst EXCEPT ![Head(rqq)] = "RUNNING"]
      /\ runq' = Tail(rqq)
      /\ cur' = Head(rqq)
      /\ mode' = "switch"
      /\ dst' = Requeue(st, q).old
      /\ kont' = k
  BY <1>2 DEF Dispatch, rst, rqq
<1>4. /\ Head(rqq) \in Task
      /\ Head(rqq) \in RunnableIn(rst)
      /\ Lists(Tail(rqq), RunnableIn(rst) \ {Head(rqq)})
  BY <1>1, ListsTail
<1>5. RunnableIn(state') = RunnableIn(rst) \ {Head(rqq)}
  BY <1>1, <1>3, <1>4 DEF RunnableIn
<1>6. state' \in [Task -> States]
  BY <1>1, <1>3, <1>4 DEF States
<1>7. \A t \in Task : state'[t] = "RUNNING" => t = cur'
  BY <1>1, <1>3, <1>4
<1>8. SameLife(st, state')
  BY <1>1, <1>3, <1>4 DEF SameLife, RunnableIn
<1>9. state'[cur'] = "RUNNING"
  BY <1>1, <1>3, <1>4
<1> QED BY <1>1, <1>3, <1>4, <1>5, <1>6, <1>7, <1>8, <1>9

Bookkeeping ==
    /\ mode \in Modes
    /\ stk \in Task \cup {NULL}
    /\ dst \in Task \cup {NULL}
    /\ kont \in Konts
    /\ context \in [Task -> Contexts]
    /\ frame \in [Task -> Frames]
    /\ toRemove \in Task \cup {NULL}
    /\ toRemoveNext \in Task \cup {NULL}
    /\ kfreed \subseteq Task
    /\ execed \subseteq Task /\ ticked \in BOOLEAN

\* What the rest of a system call leaves behind.
LEMMA ResumeTyped ==
    ASSUME NEW k, NEW fr \in [Task -> Frames], cur \in Task, Resume(k, fr)
    PROVE  /\ frame' \in [Task -> Frames]
           /\ mode' = IF k = "exit" THEN "panic_exit" ELSE "user"
           /\ dst' = NULL /\ kont' = "none"
<1>1. NULL \in Values
  BY DEF Values
<1>2. fr[cur] \in Frames /\ fr[cur].a1 \in Values
  BY DEF Frames
<1>3. [fr EXCEPT ![cur].a0 = NULL, ![cur].at = FALSE] \in [Task -> Frames]
  BY <1>1, <1>2 DEF Frames
<1>4. [fr EXCEPT ![cur].shm = fr[cur].a1, ![cur].at = FALSE] \in [Task -> Frames]
  BY <1>2 DEF Frames
<1>5. [fr EXCEPT ![cur].at = FALSE] \in [Task -> Frames]
  BY <1>2 DEF Frames
<1> QED BY <1>3, <1>4, <1>5 DEF Resume

\* yield(): whatever state the caller was left in, the queue is exact again.
LEMMA YieldExact ==
    ASSUME NEW st, NEW q, NEW next \in Task \cup {NULL}, NEW k \in Konts,
           NEW fr \in [Task -> Frames],
           Coherent(st, q), cur \in Task, Bookkeeping,
           k = "exit" \/ st[cur] \in {"RUNNING", "SLEEPING"},
           Yield(st, q, next, k, fr)
    PROVE  /\ state' \in [Task -> States]
           /\ Lists(runq', RunnableIn(state'))
           /\ OneRunning'
           /\ cur' \in Task
           /\ Bookkeeping'
           /\ SameLife(st, state')
<1>1. stk' = stk /\ context' = context /\ execed' = execed /\ ticked' \in BOOLEAN
  BY DEF Yield
<1>2. toRemove' \in Task \cup {NULL} /\ toRemoveNext' \in Task \cup {NULL} /\ kfreed' \subseteq Task
  BY DEF Yield, Collect, Bookkeeping
<1>3. CASE toRemove \in kfreed
  <2>1. state' = st /\ runq' = q /\ frame' = fr /\ mode' = "wild"
        /\ cur' = cur /\ dst' = dst /\ kont' = kont
    BY <1>3 DEF Yield
  <2>2. OneRunning'
    BY <2>1 DEF OneRunning, Coherent
  <2>3. Bookkeeping'
    BY <1>1, <1>2, <2>1 DEF Bookkeeping, Modes, Halted
  <2> QED BY <2>1, <2>2, <2>3 DEF Coherent, SameLife
<1>4. CASE toRemove \notin kfreed /\ q = <<>>
  <2>1. state' = st /\ runq' = q /\ cur' = cur /\ Resume(k, fr)
    BY <1>4 DEF Yield
  <2>2. /\ frame' \in [Task -> Frames]
        /\ mode' = IF k = "exit" THEN "panic_exit" ELSE "user"
        /\ dst' = NULL /\ kont' = "none"
    BY <2>1, ResumeTyped
  <2>3. OneRunning'
    BY <2>1, <2>2 DEF OneRunning, Coherent
  <2>4. Bookkeeping'
    BY <1>1, <1>2, <2>2 DEF Bookkeeping, Modes, Halted, Konts
  <2> QED BY <2>1, <2>3, <2>4 DEF Coherent, SameLife
<1>5. CASE toRemove \notin kfreed /\ q # <<>>
  <2>1. Dispatch(st, q, k) /\ frame' = fr
    BY <1>5 DEF Yield
  <2>2. /\ state' \in [Task -> States]
        /\ Lists(runq', RunnableIn(state'))
        /\ \A t \in Task : state'[t] = "RUNNING" => t = cur'
        /\ cur' \in Task /\ state'[cur'] = "RUNNING"
        /\ mode' = "switch" /\ kont' = k
        /\ dst' \in Task \cup {NULL}
        /\ SameLife(st, state')
    BY <1>5, <2>1, DispatchExact
  <2>3. OneRunning'
    BY <2>2 DEF OneRunning
  <2>4. Bookkeeping'
    BY <1>1, <1>2, <2>1, <2>2 DEF Bookkeeping, Modes
  <2> QED BY <2>2, <2>3, <2>4
<1> QED BY <1>3, <1>4, <1>5

-----------------------------------------------------------------------------
(* The process tree. *)

\* ParentsAlive and WaiterHasNoZombie, for states st and links par and ch.
Family(st, par, ch, np) ==
    /\ st[init] \notin Exited
    /\ \A t \in Task :
           /\ st[t] = "UNUSED" <=> t >= np
           /\ (st[t] # "UNUSED" /\ t # init) => par[t] # NULL
           /\ par[t] # NULL =>
                  par[t] < t /\ st[par[t]] \notin Exited \cup {"UNUSED"}
    /\ \A p \in Task \ {init} : \A c \in Task :
           ~(st[p] = "SLEEPING" /\ ch[p] = p /\ par[c] = p /\ st[c] = "ZOMBIE")

TreeTyped ==
    /\ parent \in [Task -> Task \cup {NULL}]
    /\ channel \in [Task -> Task \cup {NULL}]
    /\ exitStatus \in [Task -> Values]
    /\ nextPid \in 2 .. MaxTasks + 1

\* MaxTasks is positive, so init is a task.
LEMMA InitIsTask == init \in Task
BY MaxTasksAssumption DEF init, Task

\* The tree invariants of a state, in terms of the Family of its functions.
LEMMA FamilyIs ==
    (ParentsAlive /\ WaiterHasNoZombie) <=> Family(state, parent, channel, nextPid)
<1>1. WaiterHasNoZombie <=>
        \A p \in Task \ {init} : \A c \in Task :
           ~(state[p] = "SLEEPING" /\ channel[p] = p /\ parent[c] = p /\ state[c] = "ZOMBIE")
  BY DEF WaiterHasNoZombie, ZombieChildren, Children
<1> QED BY <1>1 DEF ParentsAlive, Family

\* Exchanging RUNNING and RUNNABLE does not touch the tree.
LEMMA FamilySameLife ==
    ASSUME NEW st \in [Task -> States], NEW new \in [Task -> States],
           NEW par \in [Task -> Task \cup {NULL}], NEW ch, NEW np,
           Family(st, par, ch, np), SameLife(st, new)
    PROVE  Family(new, par, ch, np)
<1>1. \A t \in Task : /\ new[t] \in Exited <=> st[t] \in Exited
                      /\ new[t] = "UNUSED" <=> st[t] = "UNUSED"
                      /\ new[t] = "SLEEPING" <=> st[t] = "SLEEPING"
                      /\ new[t] = "ZOMBIE" <=> st[t] = "ZOMBIE"
  BY DEF SameLife, Exited
<1>2. new[init] \notin Exited
  BY <1>1, InitIsTask DEF Family
<1>3. \A t \in Task :
           /\ new[t] = "UNUSED" <=> t >= np
           /\ (new[t] # "UNUSED" /\ t # init) => par[t] # NULL
           /\ par[t] # NULL =>
                  par[t] < t /\ new[par[t]] \notin Exited \cup {"UNUSED"}
  BY <1>1 DEF Family
<1>4. \A p \in Task \ {init} : \A c \in Task :
           ~(new[p] = "SLEEPING" /\ ch[p] = p /\ par[c] = p /\ new[c] = "ZOMBIE")
  BY <1>1 DEF Family
<1> QED BY <1>2, <1>3, <1>4 DEF Family

\* The pieces of the invariant, before and after a step.
LEMMA PiecesOf ==
    IInv => /\ Bookkeeping /\ TreeTyped
            /\ Coherent(state, runq)
            /\ OneRunning
            /\ Family(state, parent, channel, nextPid)
<1> SUFFICES ASSUME IInv
             PROVE  /\ Bookkeeping /\ TreeTyped
                    /\ Coherent(state, runq)
                    /\ OneRunning
                    /\ Family(state, parent, channel, nextPid)
  OBVIOUS
<1>1. Bookkeeping /\ TreeTyped
  BY DEF IInv, TypeOK, Bookkeeping, TreeTyped
<1>2. Coherent(state, runq)
  BY DEF IInv, TypeOK, Coherent, RunQueueExact, Runnable, RunnableIn, OneRunning
<1> QED BY <1>1, <1>2, FamilyIs DEF IInv

\* The same pieces give the invariant of the next state.
LEMMA PiecesAfter ==
    ASSUME Bookkeeping', TreeTyped', state' \in [Task -> States],
           Lists(runq', RunnableIn(state')), OneRunning',
           cur' \in Task \cup {NULL},
           Family(state', parent', channel', nextPid')
    PROVE  IInv'
<1>1. runq' \in Seq(Task)
  BY DEF Lists
<1>2. TypeOK'
  BY <1>1 DEF TypeOK, Bookkeeping, TreeTyped
<1>3. RunQueueExact'
  BY DEF RunQueueExact, Runnable, RunnableIn
<1>4. ParentsAlive'
  BY DEF ParentsAlive, Family
<1>5. WaiterHasNoZombie'
  BY DEF WaiterHasNoZombie, ZombieChildren, Children, Family
<1> QED BY <1>2, <1>3, <1>4, <1>5 DEF IInv

\* A step that ends in yield() keeps the invariant if the states it hands to
\* yield() are coherent.
LEMMA YieldKeeps ==
    ASSUME NEW st, NEW q, NEW next \in Task \cup {NULL}, NEW k \in Konts,
           NEW fr \in [Task -> Frames],
           IInv, cur \in Task, Coherent(st, q), TreeTyped',
           k = "exit" \/ st[cur] \in {"RUNNING", "SLEEPING"},
           Yield(st, q, next, k, fr),
           Family(st, parent', channel', nextPid')
    PROVE  IInv'
<1>1. Bookkeeping
  BY PiecesOf
<1>2. /\ state' \in [Task -> States]
      /\ Lists(runq', RunnableIn(state'))
      /\ OneRunning'
      /\ cur' \in Task
      /\ Bookkeeping'
      /\ SameLife(st, state')
  BY <1>1, YieldExact
<1>3. Family(state', parent', channel', nextPid')
  <2>1. st \in [Task -> States] /\ parent' \in [Task -> Task \cup {NULL}]
    BY DEF Coherent, TreeTyped
  <2> QED BY <1>2, <2>1, FamilySameLife
<1> QED BY <1>2, <1>3, PiecesAfter

\* A step that leaves tasks, tree and queue alone.
LEMMA QuietKeeps ==
    ASSUME IInv, UNCHANGED <<state, tree, runq, cur>>, Bookkeeping',
           \/ mode' = mode
           \/ mode' \in Halted
           \/ /\ mode' \in {"user", "kernel", "masked"}
              /\ mode \in {"user", "kernel", "masked", "switch"}
    PROVE  IInv'
<1>1. state' = state /\ parent' = parent /\ channel' = channel
      /\ exitStatus' = exitStatus /\ nextPid' = nextPid /\ runq' = runq /\ cur' = cur
  BY DEF tree
<1>2. OneRunning'
  BY <1>1 DEF IInv, OneRunning, Halted
<1>3. TypeOK'
  BY <1>1 DEF IInv, TypeOK, Bookkeeping
<1>4. RunQueueExact'
  BY <1>1 DEF IInv, RunQueueExact, Runnable
<1>5. ParentsAlive' /\ WaiterHasNoZombie'
  BY <1>1 DEF IInv, ParentsAlive, WaiterHasNoZombie, ZombieChildren, Children
<1> QED BY <1>2, <1>3, <1>4, <1>5 DEF IInv

-----------------------------------------------------------------------------
(* exit_process() and sleep(). *)

\* exit_process() keeps the invariant: reparenting repairs the tree, the wakeup
\* queues a parent that was not queued, and yield() does the rest.
LEMMA ExitKeeps ==
    ASSUME IInv, mode = "user", NEW s \in Values, ExitProcess(cur, s)
    PROVE  IInv'
<1>1. /\ cur \in Task /\ state[cur] \in {"RUNNING", "SLEEPING"}
      /\ Bookkeeping /\ TreeTyped /\ Coherent(state, runq)
      /\ Family(state, parent, channel, nextPid)
  BY PiecesOf DEF OneRunning
<1>2. CASE parent[cur] = NULL
  <2>1. mode' = "panic_init"
        /\ UNCHANGED <<state, tree, runq, cur, stk, dst, kont, context, frame, reap, past>>
    BY <1>2 DEF ExitProcess
  <2>2. Bookkeeping'
    BY <1>1, <2>1 DEF Bookkeeping, reap, past, Modes, Halted
  <2> QED BY <2>1, <2>2, QuietKeeps DEF Halted
<1>3. CASE parent[cur] # NULL
  <2> DEFINE par == Reparent([state EXCEPT ![cur] = "ZOMBIE"])
             p   == par[cur]
             st  == Buried(cur, p)
             q   == IF Wakes(cur, p) THEN Append(runq, p) ELSE runq
             fr  == IF Wakes(cur, p) THEN [frame EXCEPT ![p].a0 = cur, ![p].a1 = s]
                    ELSE frame
  <2>1. /\ parent' = par /\ exitStatus' = [exitStatus EXCEPT ![cur] = s]
        /\ channel' = channel /\ nextPid' = nextPid
        /\ Yield(st, q, cur, "exit", fr)
    BY <1>3 DEF ExitProcess
  <2>2. /\ parent[cur] \in Task /\ parent[cur] < cur /\ parent[cur] # cur
        /\ state[parent[cur]] \notin Exited \cup {"UNUSED"}
    BY <1>1, <1>3 DEF Family, TreeTyped, Task, NULL
  <2>3. cur # init /\ init < cur
    BY <1>1, <2>2 DEF Task, init
  <2>4. \A t \in Task : par[t] = IF parent[t] = cur THEN init ELSE parent[t]
    <3> TAKE t \in Task
    <3>1. state \in [Task -> States] /\ parent[t] \in Task \cup {NULL} /\ NULL \notin Task
      BY <1>1 DEF Coherent, TreeTyped, Task, NULL
    <3>2. CASE parent[t] = NULL
      BY <3>1, <3>2, <1>1 DEF Reparent
    <3>3. CASE parent[t] # NULL
      <4>1. parent[t] \in Task /\ state[parent[t]] # "ZOMBIE"
        BY <3>1, <3>3, <1>1 DEF Family, Exited
      <4> QED BY <3>1, <3>3, <4>1, <1>1 DEF Reparent
    <3> QED BY <3>2, <3>3
  <2>5. par \in [Task -> Task \cup {NULL}]
    <3>1. par = [t \in Task |-> par[t]]
      BY DEF Reparent
    <3>2. \A t \in Task : par[t] \in Task \cup {NULL}
      BY <2>4, InitIsTask, <1>1 DEF TreeTyped
    <3> HIDE DEF par
    <3> QED BY <3>1, <3>2
  <2> HIDE DEF par
  <2>6. p = parent[cur]
    BY <2>4, <2>2, <1>1
  <2>7. /\ st \in [Task -> States]
        /\ st[cur] = IF Wakes(cur, p) THEN "DEAD" ELSE "ZOMBIE"
        /\ st[p] = IF Wakes(cur, p) THEN "RUNNABLE" ELSE state[p]
        /\ \A t \in Task : t # cur /\ t # p => st[t] = state[t]
    <3>1. state \in [Task -> States] /\ p \in Task /\ p # cur
      BY <1>1, <2>2, <2>6 DEF Coherent
    <3> HIDE DEF p
    <3> QED BY <3>1, <1>1 DEF Buried, States
  <2> HIDE DEF p, st
  <2>8. Coherent(st, q)
    <3>1. CASE Wakes(cur, p)
      <4>1. state[p] = "SLEEPING"
        BY <3>1 DEF Wakes
      <4>2. p \notin RunnableIn(state) /\ RunnableIn(st) = RunnableIn(state) \cup {p}
        BY <3>1, <4>1, <2>2, <2>6, <2>7, <1>1 DEF RunnableIn
      <4>3. Lists(Append(runq, p), RunnableIn(state) \cup {p})
        BY <4>2, <2>2, <2>6, <1>1, ListsAppend DEF Coherent
      <4>4. Lists(q, RunnableIn(st))
        BY <4>2, <4>3, <3>1
      <4> QED BY <4>4, <2>2, <2>6, <2>7, <3>1, <1>1 DEF Coherent
    <3>2. CASE ~Wakes(cur, p)
      <4>1. RunnableIn(st) = RunnableIn(state)
        BY <3>2, <2>2, <2>6, <2>7, <1>1 DEF RunnableIn
      <4>2. Lists(q, RunnableIn(st))
        BY <4>1, <3>2, <1>1 DEF Coherent
      <4> QED BY <4>2, <2>2, <2>6, <2>7, <3>2, <1>1 DEF Coherent
    <3> QED BY <3>1, <3>2
  <2>9. \A t \in Task : /\ t # cur => (st[t] \in Exited <=> state[t] \in Exited)
                        /\ st[t] = "UNUSED" <=> state[t] = "UNUSED"
                        /\ st[t] = "SLEEPING" => state[t] = "SLEEPING" /\ t # cur
    BY <2>2, <2>6, <2>7, <1>1 DEF Exited
  <2>10. Family(st, par, channel, nextPid)
    <3>1. st[init] \notin Exited
      BY <2>9, <2>3, InitIsTask, <1>1 DEF Family
    <3>2. ASSUME NEW t \in Task
          PROVE  /\ st[t] = "UNUSED" <=> t >= nextPid
                 /\ (st[t] # "UNUSED" /\ t # init) => par[t] # NULL
                 /\ par[t] # NULL =>
                        par[t] < t /\ st[par[t]] \notin Exited \cup {"UNUSED"}
      <4>1. st[t] = "UNUSED" <=> t >= nextPid
        BY <2>9, <1>1 DEF Family
      <4>2. CASE parent[t] = cur
        <5>1. par[t] = init /\ cur < t /\ NULL # init
          BY <4>2, <2>4, <1>1 DEF Family, Task, NULL, init
        <5>2. init < t
          BY <5>1, <2>3, <1>1 DEF Task, init
        <5>3. st[init] # "UNUSED"
          BY <2>9, InitIsTask, <1>1 DEF Family, TreeTyped, init
        <5> QED BY <4>1, <5>1, <5>2, <5>3, <3>1
      <4>3. CASE parent[t] # cur
        <5>1. par[t] = parent[t]
          BY <4>3, <2>4
        <5>2. (st[t] # "UNUSED" /\ t # init) => parent[t] # NULL
          BY <2>9, <1>1 DEF Family
        <5>3. parent[t] # NULL => parent[t] \in Task
          BY <1>1 DEF TreeTyped
        <5>4. parent[t] # NULL =>
                parent[t] < t /\ state[parent[t]] \notin Exited \cup {"UNUSED"}
          BY <1>1 DEF Family
        <5> QED BY <4>1, <4>3, <5>1, <5>2, <5>3, <5>4, <2>9
      <4> QED BY <4>2, <4>3
    <3>3. ASSUME NEW w \in Task \ {init}, NEW c \in Task,
                 st[w] = "SLEEPING", channel[w] = w, par[c] = w, st[c] = "ZOMBIE"
          PROVE  FALSE
      <4>1. state[w] = "SLEEPING" /\ parent[c] = w
        BY <3>3, <2>9, <2>4
      <4>2. CASE c = cur
        BY <4>1, <4>2, <3>3, <2>6, <2>7 DEF Wakes
      <4>3. CASE c # cur
        <5>1. state[c] = "ZOMBIE"
          BY <3>3, <4>3, <2>7, <2>2, <2>6
        <5> QED BY <5>1, <4>1, <3>3, <1>1 DEF Family
      <4> QED BY <4>2, <4>3
    <3> QED BY <3>1, <3>2, <3>3 DEF Family
  <2>11. fr \in [Task -> Frames]
    <3>1. cur \in Values /\ frame \in [Task -> Frames] /\ p \in Task
      BY <1>1, <2>2, <2>6 DEF Values, Bookkeeping
    <3> QED BY <3>1 DEF Frames
  <2>12. TreeTyped'
    BY <2>1, <2>5, <1>1 DEF TreeTyped
  <2>13. Family(st, parent', channel', nextPid')
    BY <2>1, <2>10
  <2> HIDE DEF q, fr
  <2>14. "exit" \in Konts
    BY DEF Konts
  <2> QED BY <2>1, <2>8, <2>11, <2>12, <2>13, <2>14, <1>1, YieldKeeps
<1> QED BY <1>2, <1>3

\* sleep() in wait() or wait_pid() keeps the invariant: there is no zombie to miss.
LEMMA SleepKeeps ==
    ASSUME IInv, mode = "user", NEW ch \in Task, NEW k \in Konts, Sleep(ch, k),
           ch = cur => ZombieChildren(cur) = {}
    PROVE  IInv'
<1>1. /\ cur \in Task /\ state[cur] \in {"RUNNING", "SLEEPING"}
      /\ Bookkeeping /\ TreeTyped /\ Coherent(state, runq)
      /\ Family(state, parent, channel, nextPid)
  BY PiecesOf DEF OneRunning
<1> DEFINE st == [state EXCEPT ![cur] = "SLEEPING"]
<1>2. /\ channel' = [channel EXCEPT ![cur] = ch]
      /\ Yield(st, RemoveAt(runq, cur), toRemoveNext, k, frame)
      /\ parent' = parent /\ exitStatus' = exitStatus /\ nextPid' = nextPid
  BY DEF Sleep
<1>3. state \in [Task -> States] /\ Lists(runq, RunnableIn(state))
      /\ cur \notin RunnableIn(state)
  BY <1>1 DEF Coherent, RunnableIn
<1>4. RemoveAt(runq, cur) = runq
  BY <1>1, <1>3, RemoveAtAbsent
<1>5. st \in [Task -> States] /\ st[cur] = "SLEEPING"
      /\ \A t \in Task : t # cur => st[t] = state[t]
  BY <1>1, <1>3 DEF States
<1> HIDE DEF st
<1>6. RunnableIn(st) = RunnableIn(state)
  BY <1>1, <1>5 DEF RunnableIn
<1>7. Coherent(st, runq)
  BY <1>1, <1>3, <1>5, <1>6 DEF Coherent
<1>8. Family(st, parent, channel', nextPid)
  <2>1. \A t \in Task : /\ st[t] \in Exited <=> state[t] \in Exited
                        /\ st[t] = "UNUSED" <=> state[t] = "UNUSED"
                        /\ st[t] = "ZOMBIE" <=> state[t] = "ZOMBIE"
    BY <1>1, <1>5 DEF Exited
  <2>2. st[init] \notin Exited
    BY <2>1, InitIsTask, <1>1 DEF Family
  <2>3. \A t \in Task :
           /\ st[t] = "UNUSED" <=> t >= nextPid
           /\ (st[t] # "UNUSED" /\ t # init) => parent[t] # NULL
           /\ parent[t] # NULL =>
                  parent[t] < t /\ st[parent[t]] \notin Exited \cup {"UNUSED"}
    BY <2>1, <1>1 DEF Family, TreeTyped
  <2>4. ASSUME NEW w \in Task \ {init}, NEW c \in Task,
               st[w] = "SLEEPING", channel'[w] = w, parent[c] = w, st[c] = "ZOMBIE"
        PROVE  FALSE
    <3>1. state[c] = "ZOMBIE" /\ channel \in [Task -> Task \cup {NULL}]
      BY <2>1, <2>4, <1>1 DEF TreeTyped
    <3>2. CASE w = cur
      <4>1. c \in ZombieChildren(cur) /\ ch = cur
        BY <3>1, <3>2, <2>4, <1>1, <1>2 DEF ZombieChildren, Children
      <4> QED BY <4>1
    <3>3. CASE w # cur
      <4>1. state[w] = "SLEEPING" /\ channel[w] = w
        BY <3>1, <3>3, <2>4, <1>2, <1>5
      <4> QED BY <4>1, <3>1, <2>4, <1>1 DEF Family
    <3> QED BY <3>2, <3>3
  <2> QED BY <2>2, <2>3, <2>4 DEF Family
<1>9. TreeTyped'
  BY <1>1, <1>2 DEF TreeTyped
<1>10. Yield(st, runq, toRemoveNext, k, frame) /\ Family(st, parent', channel', nextPid')
  BY <1>2, <1>4, <1>8
<1>11. toRemoveNext \in Task \cup {NULL} /\ frame \in [Task -> Frames]
  BY <1>1 DEF Bookkeeping
<1> QED BY <1>1, <1>5, <1>7, <1>9, <1>10, <1>11, YieldKeeps

-----------------------------------------------------------------------------
(* One lemma per kind of step. *)

\* What init_scheduler() leaves behind satisfies the invariant.
LEMMA InitEstablishes == Init => IInv
<1> SUFFICES ASSUME Init PROVE IInv
  OBVIOUS
<1>1. init \in Task /\ NULL \notin Task /\ NULL \in Values
  BY InitIsTask DEF Task, NULL, Values
<1>2. NoFrame \in Frames
  BY <1>1 DEF NoFrame, Frames
<1>3. TypeOK
  <2>1. nextPid \in 2 .. MaxTasks + 1
    BY MaxTasksAssumption DEF Init, init
  <2>2. runq \in Seq(Task)
    BY <1>1 DEF Init
  <2> QED BY <1>1, <1>2, <2>1, <2>2
         DEF Init, TypeOK, States, Modes, Konts, Contexts
<1>4. RunQueueExact
  <2>1. runq = <<init>> /\ Len(runq) = 1 /\ runq[1] = init /\ runq \in Seq(Task)
    BY <1>1 DEF Init
  <2>2. \A t \in Task : t \in Runnable <=> t = init
    BY DEF Init, Runnable
  <2>3. \A i, j \in 1 .. Len(runq) : runq[i] = runq[j] => i = j
    BY <2>1
  <2>4. \A t \in Task : t \in Runnable <=> \E i \in 1 .. Len(runq) : runq[i] = t
    BY <2>1, <2>2
  <2> QED BY <2>1, <2>3, <2>4 DEF RunQueueExact, Lists
<1>5. OneRunning
  BY DEF Init, OneRunning
<1>6. ParentsAlive
  <2>1. \A t \in Task : t # init <=> t >= init + 1
    BY DEF Task, init
  <2> QED BY <1>1, <2>1 DEF Init, ParentsAlive, Exited
<1>7. WaiterHasNoZombie
  BY DEF Init, WaiterHasNoZombie
<1> QED BY <1>3, <1>4, <1>5, <1>6, <1>7 DEF IInv

\* The first switch, out of scheduler(), keeps the invariant.
LEMMA SchedulerKeeps == ASSUME IInv, Scheduler PROVE IInv'
<1>1. /\ Bookkeeping /\ TreeTyped /\ Coherent(state, runq) /\ OneRunning
      /\ Family(state, parent, channel, nextPid)
  BY PiecesOf
<1>2. cur = NULL /\ NULL \notin Task
  BY <1>1 DEF Scheduler, OneRunning, Task, NULL
<1>3. /\ Head(runq) \in Task /\ Head(runq) \in RunnableIn(state)
      /\ Lists(Tail(runq), RunnableIn(state) \ {Head(runq)})
  BY <1>1, ListsTail DEF Scheduler, Coherent
<1>4. /\ state' = [state EXCEPT ![Head(runq)] = "RUNNING"]
      /\ runq' = Tail(runq) /\ cur' = Head(runq) /\ stk' = Head(runq) /\ mode' = "user"
      /\ UNCHANGED <<tree, dst, kont, context, frame, reap, past>>
  BY DEF Scheduler
<1>5. state' \in [Task -> States] /\ SameLife(state, state')
  BY <1>1, <1>3, <1>4 DEF Coherent, States, SameLife, RunnableIn
<1>6. RunnableIn(state') = RunnableIn(state) \ {Head(runq)}
  BY <1>1, <1>3, <1>4 DEF Coherent, RunnableIn
<1>7. OneRunning'
  BY <1>1, <1>2, <1>3, <1>4 DEF OneRunning, Coherent
<1>8. Bookkeeping' /\ TreeTyped'
  BY <1>1, <1>3, <1>4 DEF Bookkeeping, TreeTyped, tree, reap, past, Modes
<1>9. Family(state', parent', channel', nextPid')
  <2>1. parent' = parent /\ channel' = channel /\ nextPid' = nextPid
    BY <1>4 DEF tree
  <2>2. Family(state', parent, channel, nextPid)
    BY <1>1, <1>5, FamilySameLife DEF Coherent, TreeTyped
  <2> QED BY <2>1, <2>2
<1>10. Lists(runq', RunnableIn(state')) /\ cur' \in Task \cup {NULL}
  BY <1>3, <1>4, <1>6
<1> QED BY <1>5, <1>7, <1>8, <1>9, <1>10, PiecesAfter

\* A step that only yields: a tick, yield(), get_char().
LEMMA PlainYieldKeeps ==
    ASSUME IInv, mode \in {"user", "kernel", "switch"}, NEW k \in Konts,
           Yield(state, runq, toRemoveNext, k, frame), UNCHANGED tree
    PROVE  IInv'
<1>1. /\ cur \in Task /\ state[cur] \in {"RUNNING", "SLEEPING"}
      /\ Bookkeeping /\ TreeTyped /\ Coherent(state, runq)
      /\ Family(state, parent, channel, nextPid)
  BY PiecesOf DEF OneRunning
<1>2. TreeTyped' /\ parent' = parent /\ channel' = channel /\ nextPid' = nextPid
  BY <1>1 DEF TreeTyped, tree
<1>3. Family(state, parent', channel', nextPid')
  BY <1>1, <1>2
<1>4. toRemoveNext \in Task \cup {NULL} /\ frame \in [Task -> Frames]
  BY <1>1 DEF Bookkeeping
<1> QED BY <1>1, <1>2, <1>3, <1>4, YieldKeeps

\* A system call that returns v and changes nothing else.
LEMMA ReturnKeeps ==
    ASSUME IInv, mode = "user", NEW v \in Values, Return(v),
           UNCHANGED <<state, tree, context>>
    PROVE  IInv'
<1>1. cur \in Task /\ Bookkeeping
  BY PiecesOf DEF OneRunning
<1>2. [frame EXCEPT ![cur].a0 = v, ![cur].at = FALSE] \in [Task -> Frames]
  BY <1>1 DEF Bookkeeping, Frames
<1>3. Bookkeeping' /\ mode' = mode /\ UNCHANGED <<state, tree, runq, cur>>
  BY <1>1, <1>2 DEF Return, Bookkeeping, reap, past
<1> QED BY <1>3, QuietKeeps

\* Only frames and the CPU's own variables change.
LEMMA WildKeeps == ASSUME IInv, Wild PROVE IInv'
<1>1. Bookkeeping
  BY PiecesOf
<1>2. Bookkeeping' /\ mode' \in Halted /\ UNCHANGED <<state, tree, runq, cur>>
  BY <1>1 DEF Wild, Bookkeeping, reap, past, Modes, Halted
<1> QED BY <1>2, QuietKeeps

\* fork_process() adds a fresh pid at the tail of the queue and below a live parent.
LEMMA ForkKeeps == ASSUME IInv, Fork PROVE IInv'
<1>1. /\ cur \in Task /\ mode = "user" /\ state[cur] \in {"RUNNING", "SLEEPING"}
      /\ Bookkeeping /\ TreeTyped /\ Coherent(state, runq) /\ OneRunning
      /\ Family(state, parent, channel, nextPid)
  BY PiecesOf DEF OneRunning, Fork, Syscall
<1>2. CASE /\ nextPid <= MaxTasks
           /\ state' = [state EXCEPT ![nextPid] = "RUNNABLE"]
           /\ parent' = [parent EXCEPT ![nextPid] = cur]
           /\ nextPid' = nextPid + 1
           /\ runq' = Append(runq, nextPid)
           /\ frame' = [frame EXCEPT
                          ![nextPid] = [frame[cur] EXCEPT !.a0 = NULL, !.at = FALSE,
                                                          !.shm = NULL],
                          ![cur].a0 = nextPid, ![cur].at = FALSE]
           /\ UNCHANGED <<channel, exitStatus, cur, mode, stk, dst, kont, context, reap, past>>
  <2>1. nextPid \in Task /\ nextPid \in Nat /\ nextPid # init /\ NULL \notin Task
    BY <1>1, <1>2, MaxTasksAssumption DEF TreeTyped, Task, init, NULL
  <2>2. state[nextPid] = "UNUSED" /\ nextPid # cur /\ cur < nextPid
    BY <1>1, <2>1 DEF Family, Task
  <2>3. state' \in [Task -> States] /\ state'[nextPid] = "RUNNABLE"
        /\ \A t \in Task : t # nextPid => state'[t] = state[t]
    BY <1>1, <1>2, <2>1 DEF Coherent, States
  <2>4. nextPid \notin RunnableIn(state)
        /\ RunnableIn(state') = RunnableIn(state) \cup {nextPid}
    BY <2>1, <2>2, <2>3 DEF RunnableIn
  <2>5. Lists(Append(runq, nextPid), RunnableIn(state) \cup {nextPid})
    BY <1>1, <2>1, <2>4, ListsAppend DEF Coherent
  <2>6. Lists(runq', RunnableIn(state'))
    BY <1>2, <2>4, <2>5
  <2>7. OneRunning' /\ cur' \in Task \cup {NULL}
    BY <1>1, <1>2, <2>2, <2>3 DEF OneRunning
  <2>8. TreeTyped'
    BY <1>1, <1>2, <2>1, MaxTasksAssumption DEF TreeTyped
  <2>9. frame' \in [Task -> Frames]
    <3>1. nextPid \in Values /\ NULL \in Values /\ frame \in [Task -> Frames]
      BY <1>1, <2>1 DEF Values, Bookkeeping
    <3>2. [frame[cur] EXCEPT !.a0 = NULL, !.at = FALSE, !.shm = NULL] \in Frames
      BY <1>1, <3>1 DEF Frames
    <3>3. [frame[cur] EXCEPT !.a0 = nextPid, !.at = FALSE] \in Frames
      BY <1>1, <3>1 DEF Frames
    <3>4. frame' = [frame EXCEPT
                      ![nextPid] = [frame[cur] EXCEPT !.a0 = NULL, !.at = FALSE, !.shm = NULL],
                      ![cur] = [frame[cur] EXCEPT !.a0 = nextPid, !.at = FALSE]]
      BY <1>1, <1>2, <2>1, <2>2, <3>1
    <3> QED BY <3>1, <3>2, <3>3, <3>4
  <2>10. Bookkeeping'
    BY <1>1, <1>2, <2>9 DEF Bookkeeping, reap, past
  <2>11. \A t \in Task : t # nextPid => parent'[t] = parent[t] /\ parent[t] # nextPid
    BY <1>1, <1>2, <2>1, <2>2 DEF TreeTyped, Family
  <2>12. parent'[nextPid] = cur
    BY <1>1, <1>2, <2>1 DEF TreeTyped
  <2>13. Family(state', parent', channel', nextPid')
    <3>1. state'[init] \notin Exited
      BY <2>1, <2>3, InitIsTask, <1>1 DEF Family
    <3>2. ASSUME NEW t \in Task
          PROVE  /\ state'[t] = "UNUSED" <=> t >= nextPid'
                 /\ (state'[t] # "UNUSED" /\ t # init) => parent'[t] # NULL
                 /\ parent'[t] # NULL =>
                        parent'[t] < t /\ state'[parent'[t]] \notin Exited \cup {"UNUSED"}
      <4>1. CASE t = nextPid
        <5>1. ~(t >= nextPid') /\ cur # NULL
          BY <4>1, <2>1, <1>1, <1>2
        <5>2. state'[cur] \notin Exited \cup {"UNUSED"}
          BY <2>2, <2>3, <1>1 DEF Exited
        <5> QED BY <4>1, <5>1, <5>2, <2>2, <2>3, <2>12
      <4>2. CASE t # nextPid
        <5>1. t >= nextPid' <=> t >= nextPid
          BY <4>2, <2>1, <1>2 DEF Task
        <5>2. parent[t] # NULL => state'[parent[t]] = state[parent[t]]
          BY <2>3, <2>11, <4>2, <1>1 DEF TreeTyped
        <5> QED BY <4>2, <5>1, <5>2, <2>3, <2>11, <1>1 DEF Family
      <4> QED BY <4>1, <4>2
    <3>3. ASSUME NEW w \in Task \ {init}, NEW c \in Task,
                 state'[w] = "SLEEPING", channel'[w] = w, parent'[c] = w,
                 state'[c] = "ZOMBIE"
          PROVE  FALSE
      <4>1. c # nextPid /\ w # nextPid
        BY <3>3, <2>3
      <4> QED BY <4>1, <3>3, <2>3, <2>11, <1>1, <1>2 DEF Family
    <3> QED BY <3>1, <3>2, <3>3 DEF Family
  <2> QED BY <2>3, <2>6, <2>7, <2>8, <2>10, <2>13, PiecesAfter
<1>3. CASE Return(ERR) /\ UNCHANGED <<state, tree, context>>
  BY <1>1, <1>3, ReturnKeeps DEF Values
<1>4. CASE Wild
  BY <1>4, WildKeeps
<1> QED BY <1>2, <1>3, <1>4 DEF Fork

\* exec_process(), in every outcome, keeps the invariant.
LEMMA ExecKeeps == ASSUME IInv, Exec PROVE IInv'
<1>1. cur \in Task /\ mode = "user" /\ Bookkeeping
  BY PiecesOf DEF OneRunning, Exec, Syscall
<1>2. CASE Return(ERR) /\ UNCHANGED <<state, tree, context>>
  BY <1>1, <1>2, ReturnKeeps DEF Values
<1>3. CASE /\ toRemoveNext' = cur
           /\ frame' = [frame EXCEPT ![cur] =
                           [NoFrame EXCEPT !.a1 = PTR, !.shm = frame[cur].shm]]
           /\ mode' = "kernel"
           /\ kont' = "ret"
           /\ execed' = execed \cup {cur}
           /\ UNCHANGED <<state, tree, runq, cur, stk, dst, context, toRemove, kfreed, ticked>>
  <2>1. PTR \in Values /\ NULL \in Values /\ frame[cur].shm \in Values
    BY <1>1 DEF Values, Bookkeeping, Frames
  <2>2. [NoFrame EXCEPT !.a1 = PTR, !.shm = frame[cur].shm] \in Frames
    BY <2>1 DEF NoFrame, Frames
  <2>3. frame' \in [Task -> Frames]
    BY <1>1, <1>3, <2>2 DEF Bookkeeping
  <2>4. Bookkeeping'
    BY <1>1, <1>3, <2>3 DEF Bookkeeping, Modes, Konts
  <2> QED BY <1>1, <1>3, <2>4, QuietKeeps
<1>4. CASE ExitProcess(cur, ERR)
  BY <1>1, <1>4, ExitKeeps DEF Values
<1>5. CASE /\ mode' = "panic_unmap"
           /\ UNCHANGED <<state, tree, runq, cur, stk, dst, kont, context, frame, reap, past>>
  <2>1. Bookkeeping' /\ mode' \in Halted
    BY <1>1, <1>5 DEF Bookkeeping, reap, past, Modes, Halted
  <2> QED BY <1>5, <2>1, QuietKeeps
<1>6. CASE Wild
  BY <1>6, WildKeeps
<1> QED BY <1>2, <1>3, <1>4, <1>5, <1>6 DEF Exec

\* Reaping a zombie child keeps the invariant.
LEMMA BuryKeeps ==
    ASSUME IInv, mode = "user", NEW z \in ZombieChildren(cur), NEW ptr, Bury(z, ptr)
    PROVE  IInv'
<1>1. /\ cur \in Task /\ state[cur] \in {"RUNNING", "SLEEPING"}
      /\ Bookkeeping /\ TreeTyped /\ Coherent(state, runq) /\ OneRunning
      /\ Family(state, parent, channel, nextPid)
  BY PiecesOf DEF OneRunning
<1>2. z \in Task /\ state[z] = "ZOMBIE" /\ z # cur
  BY <1>1 DEF ZombieChildren, Children
<1>3. state' \in [Task -> States] /\ state'[z] = "DEAD"
      /\ \A t \in Task : t # z => state'[t] = state[t]
  BY <1>1, <1>2 DEF Bury, Coherent, States
<1>4. UNCHANGED <<parent, channel, exitStatus, nextPid, runq, cur, mode, stk, dst, kont,
                  context, toRemove, toRemoveNext, kfreed, execed, ticked>>
  BY DEF Bury, tree, reap, past
<1>5. RunnableIn(state') = RunnableIn(state)
  BY <1>2, <1>3 DEF RunnableIn
<1>6. Lists(runq', RunnableIn(state'))
  BY <1>1, <1>4, <1>5 DEF Coherent
<1>7. OneRunning' /\ cur' \in Task \cup {NULL}
  BY <1>1, <1>2, <1>3, <1>4 DEF OneRunning
<1>8. frame' \in [Task -> Frames]
  <2>1. z \in Values /\ exitStatus[z] \in Values /\ frame \in [Task -> Frames]
        /\ frame[cur].shm \in Values
    BY <1>1, <1>2 DEF Values, TreeTyped, Bookkeeping, Frames
  <2>2. (IF ptr # NULL THEN exitStatus[z] ELSE frame[cur].shm) \in Values
    BY <2>1
  <2> DEFINE v == IF ptr # NULL THEN exitStatus[z] ELSE frame[cur].shm
  <2>3. [frame[cur] EXCEPT !.a0 = z, !.at = FALSE, !.shm = v] \in Frames
    <3> HIDE DEF v
    <3> QED BY <1>1, <2>1, <2>2 DEF Frames, v
  <2>4. frame' = [frame EXCEPT ![cur] = [frame[cur] EXCEPT !.a0 = z, !.at = FALSE, !.shm = v]]
    BY <1>1, <2>1 DEF Bury
  <2> QED BY <2>1, <2>3, <2>4
<1>9. Bookkeeping' /\ TreeTyped'
  BY <1>1, <1>4, <1>8 DEF Bookkeeping, TreeTyped
<1>10. Family(state', parent', channel', nextPid')
  <2>1. \A t \in Task : /\ state'[t] \in Exited <=> state[t] \in Exited
                        /\ state'[t] = "UNUSED" <=> state[t] = "UNUSED"
                        /\ state'[t] = "SLEEPING" <=> state[t] = "SLEEPING"
                        /\ state'[t] = "ZOMBIE" => state[t] = "ZOMBIE"
    BY <1>2, <1>3 DEF Exited
  <2>2. state'[init] \notin Exited
    BY <2>1, InitIsTask, <1>1 DEF Family
  <2>3. \A t \in Task :
           /\ state'[t] = "UNUSED" <=> t >= nextPid
           /\ (state'[t] # "UNUSED" /\ t # init) => parent[t] # NULL
           /\ parent[t] # NULL =>
                  parent[t] < t /\ state'[parent[t]] \notin Exited \cup {"UNUSED"}
    BY <2>1, <1>1 DEF Family, TreeTyped
  <2>4. \A w \in Task \ {init} : \A c \in Task :
           ~(state'[w] = "SLEEPING" /\ channel[w] = w /\ parent[c] = w /\ state'[c] = "ZOMBIE")
    BY <2>1, <1>1 DEF Family
  <2> QED BY <2>2, <2>3, <2>4, <1>4 DEF Family
<1> QED BY <1>3, <1>6, <1>7, <1>9, <1>10, PiecesAfter

\* The first zombie child in order of creation is a zombie child.
LEMMA OneZombieChildIs ==
    ASSUME NEW t, ZombieChildren(t) # {}
    PROVE  OneZombieChild(t) \in ZombieChildren(t)
<1>1. ZombieChildren(t) \subseteq Task
  BY DEF ZombieChildren, Children
<1>2. ZombieChildren(t) \subseteq Nat
  BY <1>1 DEF Task
<1> DEFINE R == OpToRel(<, Nat)
<1>3. IsWellFoundedOn(R, Nat)
  BY NatLessThanWellFounded
<1> HIDE DEF R
<1>4. PICK x \in ZombieChildren(t) : \A y \in ZombieChildren(t) : ~(<<y, x>> \in R)
  BY <1>2, <1>3, WFMin
<1>5. \A y \in ZombieChildren(t) : x <= y
  <2> TAKE y \in ZombieChildren(t)
  <2>1. x \in Nat /\ y \in Nat
    BY <1>2
  <2>2. y < x => <<y, x>> \in R
    <3>1. R = {ss \in Nat \X Nat : ss[1] < ss[2]}
      BY DEF R, OpToRel
    <3> QED BY <2>1, <3>1
  <2> QED BY <1>4, <2>1, <2>2
<1> QED BY <1>5 DEF OneZombieChild

\* The continuation of a wait is a continuation.
LEMMA WaitKontTyped == \A ptr : WaitKont(ptr) \in Konts
BY DEF WaitKont, Konts

\* sys_wait() keeps the invariant.
LEMMA WaitKeeps == ASSUME IInv, Wait PROVE IInv'
<1>1. cur \in Task /\ mode = "user"
  BY PiecesOf DEF OneRunning, Wait, Syscall
<1>2. CASE ZombieChildren(cur) # {}
  BY <1>1, <1>2, OneZombieChildIs, BuryKeeps DEF Wait
<1>3. CASE ZombieChildren(cur) = {} /\ ~HasAliveChild(cur)
  BY <1>1, <1>3, ReturnKeeps DEF Wait, Values
<1>4. CASE ZombieChildren(cur) = {} /\ HasAliveChild(cur)
  BY <1>1, <1>4, SleepKeeps, WaitKontTyped DEF Wait
<1> QED BY <1>2, <1>3, <1>4

\* sys_wait_pid() keeps the invariant.
LEMMA WaitPidKeeps == ASSUME IInv, WaitPid PROVE IInv'
<1>1. cur \in Task /\ mode = "user" /\ ERR \in Values
  BY PiecesOf DEF OneRunning, WaitPid, Syscall, Values
<1> DEFINE pid   == frame[cur].a0
           ptr   == frame[cur].a1
           child == ChildWithPid(cur, pid)
<1>2. CASE pid = ERR /\ ZombieChildren(cur) # {}
  BY <1>1, <1>2, OneZombieChildIs, BuryKeeps DEF WaitPid
<1>3. CASE pid = ERR /\ ZombieChildren(cur) = {} /\ ~HasAliveChild(cur)
  BY <1>1, <1>3, ReturnKeeps DEF WaitPid
<1>4. CASE pid = ERR /\ ZombieChildren(cur) = {} /\ HasAliveChild(cur)
  BY <1>1, <1>4, SleepKeeps, WaitKontTyped DEF WaitPid
<1>5. CASE pid # ERR /\ child = NULL
  BY <1>1, <1>5, ReturnKeeps DEF WaitPid
<1>6. CASE pid # ERR /\ child # NULL
  <2>1. child \in Task /\ parent[child] = cur /\ state[child] # "ZOMBIE"
    BY <1>6 DEF ChildWithPid, FindTask
  <2>2. child # cur
    BY <2>1, <1>1, PiecesOf DEF Family, Task, NULL
  <2> HIDE DEF child
  <2>3. Sleep(child, WaitKont(ptr))
    BY <1>6, <2>1 DEF WaitPid, child
  <2> QED BY <1>1, <2>1, <2>2, <2>3, SleepKeeps, WaitKontTyped
<1> QED BY <1>2, <1>3, <1>4, <1>5, <1>6

\* is_alive() holds of every task, so send_signal() always returns -1.
LEMMA SendSignalKeeps == ASSUME IInv, SendSignal PROVE IInv'
<1>1. mode = "user" /\ ERR \in Values
  BY DEF SendSignal, Syscall, Values
<1>2. \A t : ~IsAncestor(cur, t) \/ IsAlive(t)
  BY DEF IsAncestor, IsAlive
<1>3. Return(ERR) /\ UNCHANGED <<state, tree, context>>
  BY <1>2 DEF SendSignal
<1> QED BY <1>1, <1>3, ReturnKeeps

\* The stubs pass values of the right kind.
LEMMA ArgumentsTyped ==
    \A c \in SysCalls : \A arg \in Arguments(c) : arg[1] \in Values /\ arg[2] \in Values
<1> TAKE c \in SysCalls
<1> TAKE arg \in Arguments(c)
<1>1. /\ {NULL, PTR, ERR, NOTHING, SIGINT, SIGKILL} \subseteq Values
      /\ Task \subseteq Values /\ ExitStatuses \subseteq Values
  BY DEF Values
<1>2. CASE c = "exit"
  <2>1. arg \in ExitStatuses \X {NULL}
    BY <1>2 DEF Arguments
  <2> QED BY <1>1, <2>1
<1>3. CASE c = "wait"
  <2>1. arg \in {NULL, PTR} \X {NULL}
    BY <1>3 DEF Arguments
  <2> QED BY <1>1, <2>1
<1>4. CASE c = "wait_pid"
  <2>1. arg \in (Task \cup {ERR}) \X {NULL, PTR}
    BY <1>4 DEF Arguments
  <2> QED BY <1>1, <2>1
<1>5. CASE c = "send_signal"
  <2>1. arg \in Task \X {NOTHING, SIGINT, SIGKILL}
    BY <1>5 DEF Arguments
  <2> QED BY <1>1, <2>1
<1>6. CASE c \notin {"exit", "wait", "wait_pid", "send_signal"}
  <2>1. arg = <<NULL, NULL>>
    BY <1>6 DEF Arguments
  <2> QED BY <1>1, <2>1
<1> QED BY <1>2, <1>3, <1>4, <1>5, <1>6

\* A user program loads its registers.
LEMMA UserProgramKeeps == ASSUME IInv, UserProgram PROVE IInv'
<1>1. cur \in Task /\ Bookkeeping
  BY PiecesOf DEF OneRunning, UserProgram
<1>0. PICK c \in UserCalls : \E arg \in Arguments(c) :
          frame' = [frame EXCEPT ![cur] =
                      [@ EXCEPT !.call = c, !.a0 = arg[1], !.a1 = arg[2], !.at = TRUE]]
  BY DEF UserProgram
<1>2. PICK arg \in Arguments(c) :
          frame' = [frame EXCEPT ![cur] =
                      [@ EXCEPT !.call = c, !.a0 = arg[1], !.a1 = arg[2], !.at = TRUE]]
  BY <1>0
<1>3. c \in SysCalls /\ arg[1] \in Values /\ arg[2] \in Values
  BY ArgumentsTyped, UserCallsAssumption
<1>4. [frame[cur] EXCEPT !.call = c, !.a0 = arg[1], !.a1 = arg[2], !.at = TRUE] \in Frames
  BY <1>1, <1>3 DEF Bookkeeping, Frames
<1>5. frame' \in [Task -> Frames]
  BY <1>1, <1>2, <1>4 DEF Bookkeeping
<1>6. Bookkeeping' /\ mode' = mode /\ UNCHANGED <<state, tree, runq, cur>>
  BY <1>1, <1>5 DEF UserProgram, Bookkeeping, reap, past
<1> QED BY <1>6, QuietKeeps

\* sys_power_off() stops the machine or refuses.
LEMMA PowerOffKeeps == ASSUME IInv, PowerOff PROVE IInv'
<1>1. mode = "user" /\ Bookkeeping
  BY PiecesOf DEF PowerOff, Syscall
<1>2. CASE cur = init
  <2>1. Bookkeeping' /\ mode' \in Halted /\ UNCHANGED <<state, tree, runq, cur>>
    BY <1>1, <1>2 DEF PowerOff, Bookkeeping, reap, past, Modes, Halted
  <2> QED BY <2>1, QuietKeeps
<1>3. CASE cur # init
  BY <1>1, <1>3, ReturnKeeps DEF PowerOff, Values
<1> QED BY <1>2, <1>3

\* An unknown system call only sets a0.
LEMMA UnknownCallKeeps == ASSUME IInv, UnknownCall PROVE IInv'
<1>1. cur \in Task /\ Bookkeeping /\ ERR \in Values
  BY PiecesOf DEF OneRunning, UnknownCall, Syscall, Values
<1>2. [frame EXCEPT ![cur].a0 = ERR] \in [Task -> Frames]
  BY <1>1 DEF Bookkeeping, Frames
<1>3. Bookkeeping' /\ mode' = mode /\ UNCHANGED <<state, tree, runq, cur>>
  BY <1>1, <1>2 DEF UnknownCall, Bookkeeping, reap, past
<1> QED BY <1>3, QuietKeeps

\* The first loop of sys_get_char() yields or goes on to the second.
LEMMA GetCharKeeps == ASSUME IInv, GetChar PROVE IInv'
<1>1. mode \in {"user", "kernel"} /\ Bookkeeping /\ UNCHANGED tree
  BY PiecesOf DEF GetChar, Syscall
<1>2. CASE Yield(state, runq, toRemoveNext, "getc", frame)
  BY <1>1, <1>2, PlainYieldKeeps DEF Konts
<1>3. CASE /\ mode' = IF mode = "user" THEN "masked" ELSE "kernel"
           /\ kont' = "poll"
           /\ UNCHANGED <<state, runq, cur, stk, dst, context, frame, reap, past>>
  <2>1. Bookkeeping'
    BY <1>1, <1>3 DEF Bookkeeping, reap, past, Modes, Konts
  <2> QED BY <1>1, <1>3, <2>1, QuietKeeps
<1> QED BY <1>2, <1>3 DEF GetChar

\* The second loop of sys_get_char() ends.
LEMMA InputKeeps == ASSUME IInv, Input PROVE IInv'
<1>1. cur \in Task /\ Bookkeeping /\ CHAR \in Values
  BY PiecesOf DEF OneRunning, Input, Values
<1>2. [frame EXCEPT ![cur].a0 = CHAR, ![cur].at = FALSE] \in [Task -> Frames]
  BY <1>1 DEF Bookkeeping, Frames
<1>3. Bookkeeping'
  BY <1>1, <1>2 DEF Input, Bookkeeping, reap, past, Modes, Konts
<1> QED BY <1>3, QuietKeeps DEF Input

\* switch_context() touches contexts only.
LEMMA SwitchContextKeeps == ASSUME IInv, SwitchContext PROVE IInv'
<1>1. cur \in Task /\ Bookkeeping
  BY PiecesOf DEF OneRunning, SwitchContext
<1> DEFINE saved == IF dst = NULL THEN context ELSE [context EXCEPT ![dst] = kont]
<1>2. saved \in [Task -> Contexts]
  BY <1>1 DEF Bookkeeping, Contexts
<1>3. saved[cur] \in Contexts
  BY <1>1, <1>2
<1>4. context' \in [Task -> Contexts]
  BY <1>1, <1>2 DEF SwitchContext, Contexts
<1>5. mode' \in {"kernel", "wild"} /\ kont' \in Konts
  BY <1>3 DEF SwitchContext, Contexts, Konts
<1>6. Bookkeeping'
  BY <1>1, <1>4, <1>5 DEF SwitchContext, Bookkeeping, reap, past, Modes, Halted
<1>7. mode = "switch" /\ UNCHANGED <<state, tree, runq, cur>>
  BY DEF SwitchContext
<1> QED BY <1>5, <1>6, <1>7, QuietKeeps DEF Halted

\* Leaving the kernel changes the trap frame only.
LEMMA KernelReturnKeeps == ASSUME IInv, KernelReturn PROVE IInv'
<1>1. cur \in Task /\ Bookkeeping /\ mode = "kernel"
  BY PiecesOf DEF OneRunning, KernelReturn
<1>2. /\ frame' \in [Task -> Frames]
      /\ mode' = IF kont = "exit" THEN "panic_exit" ELSE "user"
      /\ dst' = NULL /\ kont' = "none"
  BY <1>1, ResumeTyped DEF KernelReturn, Bookkeeping
<1>3. Bookkeeping'
  BY <1>1, <1>2 DEF KernelReturn, Bookkeeping, reap, past, Modes, Halted, Konts
<1>4. UNCHANGED <<state, tree, runq, cur>>
  BY DEF KernelReturn
<1> QED BY <1>1, <1>2, <1>3, <1>4, QuietKeeps DEF Halted

\* A timer tick in the kernel, in the window before switch_context() too, keeps the
\* queue exact.
LEMMA KernelTickKeeps == ASSUME IInv, KernelTick PROVE IInv'
<1>1. Bookkeeping /\ mode \in {"switch", "kernel"} /\ UNCHANGED tree
  BY PiecesOf DEF KernelTick
<1>2. CASE runq = <<>> /\ toRemove \notin kfreed
  <2>1. Collect(toRemoveNext) /\ ticked' \in BOOLEAN
        /\ UNCHANGED <<state, runq, cur, mode, stk, dst, kont, context, frame, execed>>
    BY <1>2 DEF KernelTick
  <2>2. Bookkeeping'
    BY <1>1, <2>1 DEF Bookkeeping, Collect
  <2> QED BY <1>1, <2>1, <2>2, QuietKeeps
<1>3. CASE ~(runq = <<>> /\ toRemove \notin kfreed)
  <2> DEFINE k == IF mode = "switch" THEN "window" ELSE kont
  <2>1. Yield(state, runq, toRemoveNext, k, frame)
    BY <1>3 DEF KernelTick
  <2>2. k \in Konts
    BY <1>1 DEF Bookkeeping, Konts
  <2> HIDE DEF k
  <2> QED BY <1>1, <2>1, <2>2, PlainYieldKeeps
<1> QED BY <1>2, <1>3

-----------------------------------------------------------------------------
(* The theorems. *)

\* Every step, and stuttering, keeps the invariant.
LEMMA StepKeeps == IInv /\ [Next]_vars => IInv'
<1> SUFFICES ASSUME IInv, [Next]_vars PROVE IInv'
  OBVIOUS
<1>1. CASE UNCHANGED vars
  <2>1. Bookkeeping' /\ mode' = mode /\ UNCHANGED <<state, tree, runq, cur>>
    BY <1>1, PiecesOf DEF vars, reap, past, Bookkeeping
  <2> QED BY <2>1, QuietKeeps
<1>2. CASE Scheduler     BY <1>2, SchedulerKeeps
<1>3. CASE UserProgram   BY <1>3, UserProgramKeeps
<1>4. CASE UserTick
  BY <1>4, PlainYieldKeeps DEF UserTick, Konts
<1>5. CASE Fork          BY <1>5, ForkKeeps
<1>6. CASE Exec          BY <1>6, ExecKeeps
<1>7. CASE Exit
  <2>1. mode = "user" /\ frame[cur].a0 \in Values
    <3>1. mode = "user" /\ cur \in Task /\ Bookkeeping
      BY <1>7, PiecesOf DEF Exit, Syscall, OneRunning
    <3> QED BY <3>1 DEF Bookkeeping, Frames
  <2> QED BY <1>7, <2>1, ExitKeeps DEF Exit
<1>8. CASE Fault
  BY <1>8, ExitKeeps DEF Fault, Values
<1>9. CASE Wait          BY <1>9, WaitKeeps
<1>10. CASE WaitPid      BY <1>10, WaitPidKeeps
<1>11. CASE SendSignal   BY <1>11, SendSignalKeeps
<1>12. CASE YieldCall
  BY <1>12, PlainYieldKeeps DEF YieldCall, Syscall, Konts
<1>13. CASE PutChar
  BY <1>13, ReturnKeeps DEF PutChar, Syscall, Values
<1>14. CASE PowerOff     BY <1>14, PowerOffKeeps
<1>15. CASE UnknownCall  BY <1>15, UnknownCallKeeps
<1>16. CASE GetChar      BY <1>16, GetCharKeeps
<1>17. CASE Input        BY <1>17, InputKeeps
<1>18. CASE SwitchContext BY <1>18, SwitchContextKeeps
<1>19. CASE KernelReturn BY <1>19, KernelReturnKeeps
<1>20. CASE KernelTick   BY <1>20, KernelTickKeeps
<1>21. CASE Halt         BY <1>21, <1>1 DEF Halt
<1> QED BY <1>1, <1>2, <1>3, <1>4, <1>5, <1>6, <1>7, <1>8, <1>9, <1>10, <1>11, <1>12,
          <1>13, <1>14, <1>15, <1>16, <1>17, <1>18, <1>19, <1>20, <1>21 DEF Next

\* Every reachable state satisfies the inductive invariant.
THEOREM Invariance == Spec => []IInv
<1>1. Init => IInv
  BY InitEstablishes
<1>2. IInv /\ [Next]_vars => IInv'
  BY StepKeeps
<1> QED BY <1>1, <1>2, PTL DEF Spec

\* Every variable keeps its type, for every number of tasks and every workload.
THEOREM TypeCorrect == Spec => []TypeOK
<1>1. IInv => TypeOK
  BY DEF IInv
<1> QED BY <1>1, Invariance, PTL

\* yield(), sleep(), fork_process() and exit_process() keep runnable_tasks equal
\* to the set of RUNNABLE tasks, without duplicates.
THEOREM RunQueueCorrect == Spec => []RunQueueExact
<1>1. IInv => RunQueueExact
  BY DEF IInv
<1> QED BY <1>1, Invariance, PTL

\* At most one task is RUNNING and the CPU never works for a task that is queued
\* or has exited.
THEOREM OneRunningCorrect == Spec => []OneRunning
<1>1. IInv => OneRunning
  BY DEF IInv
<1> QED BY <1>1, Invariance, PTL

\* The process tree has no orphans: reparenting in exit_process() suffices.
THEOREM TreeCorrect == Spec => []ParentsAlive
<1>1. IInv => ParentsAlive
  BY DEF IInv
<1> QED BY <1>1, Invariance, PTL

\* sys_wait() and exit_process() never miss each other, init's inherited zombies
\* aside.
THEOREM NoMissedExit == Spec => []WaiterHasNoZombie
<1>1. IInv => WaiterHasNoZombie
  BY DEF IInv
<1> QED BY <1>1, Invariance, PTL


-----------------------------------------------------------------------------
(* What a step may do to the life of a task. *)

\* Nobody is born, blocked or buried.
Ordinary == SameLife(state, state') /\ UNCHANGED <<parent, channel, exitStatus>>

\* fork_process() creates nextPid.
Forks ==
    /\ nextPid \in Task /\ state[nextPid] = "UNUSED" /\ cur \in Task
    /\ state' = [state EXCEPT ![nextPid] = "RUNNABLE"]
    /\ parent' = [parent EXCEPT ![nextPid] = cur]
    /\ UNCHANGED <<channel, exitStatus>>

\* The task whose exit ends the sleep of p: any child (ch = p), or the child ch.
SleepsFor(p, ch) == ch = p \/ (parent[ch] = p /\ state[ch] \notin {"UNUSED", "ZOMBIE"})

\* sleep() blocks cur on ch.
Sleeps(ch) ==
    /\ cur \in Task /\ state[cur] \in {"RUNNING", "SLEEPING"} /\ SleepsFor(cur, ch)
    /\ channel' = [channel EXCEPT ![cur] = ch]
    /\ SameLife([state EXCEPT ![cur] = "SLEEPING"], state')
    /\ UNCHANGED <<parent, exitStatus>>

\* exit_process() ends cur with status s.
Exits(s) ==
    LET p == parent[cur]
    IN  /\ cur \in Task /\ state[cur] \in {"RUNNING", "SLEEPING"} /\ p \in Task /\ p # cur
        /\ parent' \in [Task -> Task \cup {NULL}]
        /\ \A t \in Task : parent'[t] = IF parent[t] = cur THEN init ELSE parent[t]
        /\ exitStatus' = [exitStatus EXCEPT ![cur] = s]
        /\ SameLife(Buried(cur, p), state')
        /\ Wakes(cur, p) => frame'[p].a0 = cur /\ frame'[p].a1 = s
        /\ UNCHANGED channel

\* wait() or wait_pid() takes the zombie z off.
Buries(z) ==
    /\ cur \in Task /\ z \in ZombieChildren(cur)
    /\ state' = [state EXCEPT ![z] = "DEAD"]
    /\ frame'[cur].a0 = z
    /\ UNCHANGED <<parent, channel, exitStatus>>

\* A yield() with nobody blocked, born or buried before it.
LEMMA YieldOrdinary ==
    ASSUME IInv, mode \in {"user", "kernel", "switch"}, NEW k \in Konts,
           Yield(state, runq, toRemoveNext, k, frame), UNCHANGED tree
    PROVE  Ordinary
<1>1. /\ cur \in Task /\ state[cur] \in {"RUNNING", "SLEEPING"}
      /\ Bookkeeping /\ Coherent(state, runq)
  BY PiecesOf DEF OneRunning
<1>2. toRemoveNext \in Task \cup {NULL} /\ frame \in [Task -> Frames]
  BY <1>1 DEF Bookkeeping
<1>3. SameLife(state, state')
  BY <1>1, <1>2, YieldExact
<1> QED BY <1>3 DEF Ordinary, tree

\* sleep() on oneself or on a child.
LEMMA SleepSleeps ==
    ASSUME IInv, mode = "user", NEW ch \in Task, NEW k \in Konts, Sleep(ch, k),
           SleepsFor(cur, ch)
    PROVE  Sleeps(ch)
<1>1. /\ cur \in Task /\ state[cur] \in {"RUNNING", "SLEEPING"}
      /\ Bookkeeping /\ Coherent(state, runq)
  BY PiecesOf DEF OneRunning
<1> DEFINE st == [state EXCEPT ![cur] = "SLEEPING"]
<1>2. /\ channel' = [channel EXCEPT ![cur] = ch]
      /\ Yield(st, RemoveAt(runq, cur), toRemoveNext, k, frame)
      /\ parent' = parent /\ exitStatus' = exitStatus
  BY DEF Sleep
<1>3. state \in [Task -> States] /\ Lists(runq, RunnableIn(state))
      /\ cur \notin RunnableIn(state)
  BY <1>1 DEF Coherent, RunnableIn
<1>4. RemoveAt(runq, cur) = runq
  BY <1>1, <1>3, RemoveAtAbsent
<1>5. st \in [Task -> States] /\ st[cur] = "SLEEPING"
      /\ \A t \in Task : t # cur => st[t] = state[t]
  BY <1>1, <1>3 DEF States
<1> HIDE DEF st
<1>6. RunnableIn(st) = RunnableIn(state)
  BY <1>1, <1>5 DEF RunnableIn
<1>7. Coherent(st, runq)
  BY <1>1, <1>3, <1>5, <1>6 DEF Coherent
<1>8. toRemoveNext \in Task \cup {NULL} /\ frame \in [Task -> Frames]
  BY <1>1 DEF Bookkeeping
<1>9. Yield(st, runq, toRemoveNext, k, frame)
  BY <1>2, <1>4
<1>10. SameLife(st, state')
  BY <1>1, <1>5, <1>7, <1>8, <1>9, YieldExact
<1> QED BY <1>1, <1>2, <1>10 DEF Sleeps, st

\* What exit_process() hands to yield(): the parent of the caller is the same as
\* before, its state says who was woken, and the queue is exact.
LEMMA ExitHandsOver ==
    ASSUME IInv, mode = "user", NEW s \in Values, ExitProcess(cur, s), parent[cur] # NULL
    PROVE  LET p == parent[cur]
               st == Buried(cur, p)
               q == IF Wakes(cur, p) THEN Append(runq, p) ELSE runq
               fr == IF Wakes(cur, p) THEN [frame EXCEPT ![p].a0 = cur, ![p].a1 = s]
                     ELSE frame
           IN  /\ p \in Task /\ p # cur
               /\ parent' \in [Task -> Task \cup {NULL}]
               /\ \A t \in Task : parent'[t] = IF parent[t] = cur THEN init ELSE parent[t]
               /\ exitStatus' = [exitStatus EXCEPT ![cur] = s]
               /\ channel' = channel
               /\ Coherent(st, q) /\ fr \in [Task -> Frames]
               /\ st[cur] = IF Wakes(cur, p) THEN "DEAD" ELSE "ZOMBIE"
               /\ st[p] = IF Wakes(cur, p) THEN "RUNNABLE" ELSE state[p]
               /\ \A t \in Task : t # cur /\ t # p => st[t] = state[t]
               /\ Yield(st, q, cur, "exit", fr)
<1>1. /\ cur \in Task /\ state[cur] \in {"RUNNING", "SLEEPING"}
      /\ Bookkeeping /\ TreeTyped /\ Coherent(state, runq)
      /\ Family(state, parent, channel, nextPid)
  BY PiecesOf DEF OneRunning
<1> DEFINE par == Reparent([state EXCEPT ![cur] = "ZOMBIE"])
           p   == parent[cur]
           st  == Buried(cur, p)
           q   == IF Wakes(cur, p) THEN Append(runq, p) ELSE runq
           fr  == IF Wakes(cur, p) THEN [frame EXCEPT ![p].a0 = cur, ![p].a1 = s]
                  ELSE frame
<1>2. /\ p \in Task /\ p # cur /\ state[p] \notin Exited \cup {"UNUSED"}
  BY <1>1 DEF Family, TreeTyped, Task, NULL
<1>3. \A t \in Task : par[t] = IF parent[t] = cur THEN init ELSE parent[t]
  <2> TAKE t \in Task
  <2>1. state \in [Task -> States] /\ parent[t] \in Task \cup {NULL} /\ NULL \notin Task
    BY <1>1 DEF Coherent, TreeTyped, Task, NULL
  <2>2. CASE parent[t] = NULL
    BY <2>1, <2>2, <1>1 DEF Reparent
  <2>3. CASE parent[t] # NULL
    <3>1. parent[t] \in Task /\ state[parent[t]] # "ZOMBIE"
      BY <2>1, <2>3, <1>1 DEF Family, Exited
    <3> QED BY <2>1, <2>3, <3>1, <1>1 DEF Reparent
  <2> QED BY <2>2, <2>3
<1>4. par \in [Task -> Task \cup {NULL}]
  <2>1. par = [t \in Task |-> par[t]]
    BY DEF Reparent
  <2>2. \A t \in Task : par[t] \in Task \cup {NULL}
    BY <1>3, InitIsTask, <1>1 DEF TreeTyped
  <2> HIDE DEF par
  <2> QED BY <2>1, <2>2
<1>5. par[cur] = p
  BY <1>1, <1>2, <1>3
<1>6. /\ parent' = par /\ exitStatus' = [exitStatus EXCEPT ![cur] = s] /\ channel' = channel
      /\ Yield(st, q, cur, "exit", fr)
  <2> HIDE DEF par
  <2> QED BY <1>5 DEF ExitProcess, par
<1> HIDE DEF par
<1>7. /\ st \in [Task -> States]
      /\ st[cur] = IF Wakes(cur, p) THEN "DEAD" ELSE "ZOMBIE"
      /\ st[p] = IF Wakes(cur, p) THEN "RUNNABLE" ELSE state[p]
      /\ \A t \in Task : t # cur /\ t # p => st[t] = state[t]
  <2>1. state \in [Task -> States]
    BY <1>1 DEF Coherent
  <2> HIDE DEF p
  <2> QED BY <1>1, <1>2, <2>1 DEF Buried, States
<1> HIDE DEF p, st
<1>8. Coherent(st, q)
  <2>1. CASE Wakes(cur, p)
    <3>1. state[p] = "SLEEPING"
      BY <2>1 DEF Wakes
    <3>2. p \notin RunnableIn(state) /\ RunnableIn(st) = RunnableIn(state) \cup {p}
      BY <2>1, <3>1, <1>2, <1>7, <1>1 DEF RunnableIn
    <3>3. Lists(Append(runq, p), RunnableIn(state) \cup {p})
      BY <3>2, <1>2, <1>1, ListsAppend DEF Coherent
    <3>4. Lists(q, RunnableIn(st))
      BY <2>1, <3>2, <3>3
    <3> QED BY <3>4, <1>2, <1>7, <2>1, <1>1 DEF Coherent
  <2>2. CASE ~Wakes(cur, p)
    <3>1. RunnableIn(st) = RunnableIn(state)
      BY <2>2, <1>2, <1>7, <1>1 DEF RunnableIn
    <3>2. Lists(q, RunnableIn(st))
      BY <3>1, <2>2, <1>1 DEF Coherent
    <3> QED BY <3>2, <1>2, <1>7, <2>2, <1>1 DEF Coherent
  <2> QED BY <2>1, <2>2
<1>9. fr \in [Task -> Frames]
  <2>1. cur \in Values /\ frame \in [Task -> Frames]
    BY <1>1 DEF Values, Bookkeeping
  <2> QED BY <2>1, <1>2 DEF Frames
<1>10. \A t \in Task : parent'[t] = IF parent[t] = cur THEN init ELSE parent[t]
  BY <1>3, <1>6
<1> HIDE DEF q, fr
<1> QED BY <1>2, <1>4, <1>6, <1>7, <1>8, <1>9, <1>10 DEF p, st, q, fr

\* exit_process() of the caller: a panic if it is init, otherwise an exit.
LEMMA ExitExits ==
    ASSUME IInv, mode = "user", NEW s \in Values, ExitProcess(cur, s)
    PROVE  Ordinary \/ Exits(s)
<1>1. CASE parent[cur] = NULL
  BY <1>1 DEF ExitProcess, Ordinary, SameLife, tree
<1>2. CASE parent[cur] # NULL
  <2> DEFINE p  == parent[cur]
             st == Buried(cur, p)
             q  == IF Wakes(cur, p) THEN Append(runq, p) ELSE runq
             fr == IF Wakes(cur, p) THEN [frame EXCEPT ![p].a0 = cur, ![p].a1 = s]
                   ELSE frame
  <2>1. /\ cur \in Task /\ state[cur] \in {"RUNNING", "SLEEPING"} /\ Bookkeeping
    BY PiecesOf DEF OneRunning
  <2>2. /\ p \in Task /\ p # cur
        /\ parent' \in [Task -> Task \cup {NULL}]
        /\ \A t \in Task : parent'[t] = IF parent[t] = cur THEN init ELSE parent[t]
        /\ exitStatus' = [exitStatus EXCEPT ![cur] = s]
        /\ channel' = channel
        /\ Coherent(st, q) /\ fr \in [Task -> Frames]
        /\ Yield(st, q, cur, "exit", fr)
    BY <1>2, ExitHandsOver
  <2>3. "exit" \in Konts
    BY DEF Konts
  <2>4. SameLife(st, state')
    <3> HIDE DEF st, q, fr
    <3> QED BY <2>1, <2>2, <2>3, YieldExact
  <2>5. ASSUME Wakes(cur, p) PROVE frame'[p].a0 = cur /\ frame'[p].a1 = s
    <3>1. q # <<>>
      <4>1. runq \in Seq(Task) /\ q = Append(runq, p)
        BY <2>5 DEF IInv, TypeOK
      <4> QED BY <4>1, <2>2
    <3>2. frame' = fr
      <4> HIDE DEF st, q, fr
      <4> QED BY <2>2, <3>1 DEF Yield
    <3>3. frame \in [Task -> Frames] /\ fr = [frame EXCEPT ![p].a0 = cur, ![p].a1 = s]
      BY <2>1, <2>5 DEF Bookkeeping
    <3> HIDE DEF fr, p
    <3> QED BY <2>2, <3>2, <3>3 DEF Frames
  <2> HIDE DEF q, fr
  <2> QED BY <2>1, <2>2, <2>4, <2>5 DEF Exits
<1> QED BY <1>1, <1>2

\* bury a zombie child.
LEMMA BuryBuries ==
    ASSUME IInv, mode = "user", NEW z \in ZombieChildren(cur), NEW ptr, Bury(z, ptr)
    PROVE  Buries(z)
<1>1. cur \in Task /\ frame \in [Task -> Frames]
  BY PiecesOf DEF OneRunning, Bookkeeping
<1>2. frame'[cur].a0 = z
  <2> DEFINE v == IF ptr # NULL THEN exitStatus[z] ELSE frame[cur].shm
  <2>1. frame' = [frame EXCEPT ![cur] = [frame[cur] EXCEPT !.a0 = z, !.at = FALSE, !.shm = v]]
    BY <1>1 DEF Bury
  <2> HIDE DEF v
  <2> QED BY <1>1, <2>1 DEF Frames
<1> QED BY <1>1, <1>2 DEF Bury, Buries, tree

\* What a step may be.
Kind ==
    \/ Ordinary \/ Forks
    \/ \E ch \in Task : Sleeps(ch)
    \/ \E s \in Values : Exits(s)
    \/ \E z \in Task : Buries(z)

\* Every step is of one of these kinds.
LEMMA LifeStep ==
    ASSUME IInv, [Next]_vars
    PROVE  Kind
<1>1. ASSUME UNCHANGED <<state, tree>> PROVE Kind
  BY <1>1 DEF Kind, Ordinary, SameLife, tree
<1>2. ASSUME NEW k \in Konts, mode \in {"user", "kernel", "switch"},
             Yield(state, runq, toRemoveNext, k, frame), UNCHANGED tree
      PROVE  Kind
  BY <1>2, YieldOrdinary DEF Kind
<1>3. ASSUME NEW s \in Values, mode = "user", ExitProcess(cur, s) PROVE Kind
  BY <1>3, ExitExits DEF Kind
<1>4. ASSUME NEW z \in ZombieChildren(cur), NEW ptr, mode = "user", Bury(z, ptr) PROVE Kind
  <2>1. z \in Task
    BY DEF ZombieChildren, Children
  <2> QED BY <2>1, <1>4, BuryBuries DEF Kind
<1>5. ASSUME NEW ch \in Task, NEW ptr, mode = "user", Sleep(ch, WaitKont(ptr)), SleepsFor(cur, ch)
      PROVE  Kind
  BY <1>5, SleepSleeps, WaitKontTyped DEF Kind
<1>6. ERR \in Values /\ {"ret", "yield", "getc", "window"} \subseteq Konts /\ kont \in Konts
  BY PiecesOf DEF Values, Konts, Bookkeeping
<1>7. mode = "user" => cur \in Task /\ frame[cur].a0 \in Values
  <2>1. mode = "user" => cur \in Task /\ frame \in [Task -> Frames]
    BY PiecesOf DEF OneRunning, Bookkeeping
  <2> QED BY <2>1 DEF Frames
<1>8. CASE Scheduler
  <2>1. Coherent(state, runq) /\ runq # <<>>
    BY <1>8, PiecesOf DEF Scheduler
  <2>2. Head(runq) \in Task /\ Head(runq) \in RunnableIn(state) /\ state \in [Task -> States]
    BY <2>1, ListsTail DEF Coherent
  <2>3. state' = [state EXCEPT ![Head(runq)] = "RUNNING"] /\ UNCHANGED tree
    BY <1>8 DEF Scheduler
  <2>4. Ordinary
    BY <2>2, <2>3 DEF Ordinary, SameLife, RunnableIn, tree
  <2> QED BY <2>4 DEF Kind
<1>9. CASE UserProgram \/ PutChar \/ PowerOff \/ UnknownCall \/ Input \/ SwitchContext
           \/ KernelReturn \/ Halt \/ UNCHANGED vars
  BY <1>1, <1>9 DEF UserProgram, PutChar, PowerOff, UnknownCall, Input, SwitchContext,
                    KernelReturn, Halt, vars
<1>10. CASE UserTick
  BY <1>2, <1>6, <1>10 DEF UserTick
<1>11. CASE Fork
  <2>1. CASE /\ nextPid <= MaxTasks
             /\ state' = [state EXCEPT ![nextPid] = "RUNNABLE"]
             /\ parent' = [parent EXCEPT ![nextPid] = cur]
             /\ UNCHANGED <<channel, exitStatus>>
    <3>1. nextPid \in Task /\ cur \in Task
      BY <1>7, <1>11, <2>1, PiecesOf, MaxTasksAssumption DEF TreeTyped, Task, Fork, Syscall
    <3>2. nextPid >= nextPid
      BY <3>1 DEF Task
    <3>3. state[nextPid] = "UNUSED"
      BY <3>1, <3>2, PiecesOf DEF Family
    <3> QED BY <2>1, <3>1, <3>3 DEF Kind, Forks
  <2>2. CASE UNCHANGED <<state, tree>>
    BY <2>2, <1>1
  <2> QED BY <1>11, <2>1, <2>2 DEF Fork, Wild
<1>12. CASE Exec
  <2>1. CASE ExitProcess(cur, ERR)
    BY <1>3, <1>6, <1>12, <2>1 DEF Exec, Syscall
  <2>2. CASE UNCHANGED <<state, tree>>
    BY <2>2, <1>1
  <2> QED BY <1>12, <2>1, <2>2 DEF Exec, Wild
<1>13. CASE Exit
  BY <1>3, <1>7, <1>13 DEF Exit, Syscall
<1>14. CASE Fault
  BY <1>3, <1>6, <1>14 DEF Fault
<1>15. CASE Wait
  <2>1. mode = "user" /\ cur \in Task
    BY <1>7, <1>15 DEF Wait, Syscall
  <2>2. CASE ZombieChildren(cur) # {}
    BY <1>4, <1>15, <2>1, <2>2, OneZombieChildIs DEF Wait
  <2>3. CASE Sleep(cur, WaitKont(frame[cur].a0))
    BY <1>5, <2>1, <2>3 DEF SleepsFor
  <2>4. CASE UNCHANGED <<state, tree>>
    BY <2>4, <1>1
  <2> QED BY <1>15, <2>2, <2>3, <2>4 DEF Wait
<1>16. CASE WaitPid
  <2> DEFINE pid   == frame[cur].a0
             ptr   == frame[cur].a1
             child == ChildWithPid(cur, pid)
  <2>1. mode = "user" /\ cur \in Task
    BY <1>7, <1>16 DEF WaitPid, Syscall
  <2>2. CASE pid = ERR /\ ZombieChildren(cur) # {}
    BY <1>4, <1>16, <2>1, <2>2, OneZombieChildIs DEF WaitPid
  <2>3. CASE pid = ERR /\ Sleep(cur, WaitKont(ptr))
    BY <1>5, <2>1, <2>3 DEF SleepsFor
  <2>4. CASE pid # ERR /\ child # NULL
    <3>1. child \in Task /\ parent[child] = cur /\ state[child] \notin {"UNUSED", "ZOMBIE"}
      BY <2>4 DEF ChildWithPid, FindTask
    <3> HIDE DEF child
    <3>2. Sleep(child, WaitKont(ptr))
      BY <1>16, <2>4, <3>1 DEF WaitPid, child
    <3> QED BY <1>5, <2>1, <3>1, <3>2 DEF SleepsFor
  <2>5. CASE UNCHANGED <<state, tree>>
    BY <2>5, <1>1
  <2> QED BY <1>16, <2>2, <2>3, <2>4, <2>5 DEF WaitPid
<1>17. CASE SendSignal
  <2>1. \A t : ~IsAncestor(cur, t) \/ IsAlive(t)
    BY DEF IsAncestor, IsAlive
  <2>2. UNCHANGED <<state, tree>>
    BY <1>17, <2>1 DEF SendSignal
  <2> QED BY <2>2, <1>1
<1>18. CASE YieldCall
  BY <1>2, <1>6, <1>18 DEF YieldCall, Syscall
<1>19. CASE GetChar
  <2>1. mode \in {"user", "kernel"} /\ UNCHANGED tree
    BY <1>19 DEF GetChar, Syscall
  <2>2. CASE Yield(state, runq, toRemoveNext, "getc", frame)
    BY <1>2, <1>6, <2>1, <2>2
  <2>3. CASE UNCHANGED state
    BY <1>1, <2>1, <2>3
  <2> QED BY <1>19, <2>2, <2>3 DEF GetChar
<1>20. CASE KernelTick
  <2>1. mode \in {"switch", "kernel"} /\ UNCHANGED tree
    BY <1>20 DEF KernelTick
  <2> DEFINE k == IF mode = "switch" THEN "window" ELSE kont
  <2>2. CASE UNCHANGED state
    BY <1>1, <2>1, <2>2
  <2>3. CASE Yield(state, runq, toRemoveNext, k, frame)
    <3>1. k \in Konts
      BY <1>6
    <3> HIDE DEF k
    <3> QED BY <1>2, <2>1, <2>3, <3>1
  <2> QED BY <1>20, <2>2, <2>3 DEF KernelTick
<1> QED
  BY <1>8, <1>9, <1>10, <1>11, <1>12, <1>13, <1>14, <1>15, <1>16, <1>17, <1>18, <1>19, <1>20
       DEF Next

-----------------------------------------------------------------------------
(* wait_pid() against exit_process(). *)

\* A sleeper sleeps on itself or on a child of its own that is not to be collected.
SleepsOnChild ==
    \A p \in Task : state[p] = "SLEEPING" => channel[p] \in Task /\ SleepsFor(p, channel[p])

\* The child's link to the sleeper and the state of both change only together.
LEMMA SleepsOnChildKept ==
    ASSUME IInv, SleepsOnChild, [Next]_vars
    PROVE  SleepsOnChild'
<1>1. /\ state \in [Task -> States] /\ state' \in [Task -> States]
      /\ parent \in [Task -> Task \cup {NULL}] /\ channel \in [Task -> Task \cup {NULL}]
      /\ parent' \in [Task -> Task \cup {NULL}] /\ channel' \in [Task -> Task \cup {NULL}]
  <2>1. IInv'
    BY StepKeeps
  <2> QED BY <2>1 DEF IInv, TypeOK
<1>2. SUFFICES ASSUME NEW p \in Task, state'[p] = "SLEEPING"
               PROVE  /\ channel'[p] \in Task
                      /\ \/ channel'[p] = p
                         \/ /\ parent'[channel'[p]] = p
                            /\ state'[channel'[p]] \notin {"UNUSED", "ZOMBIE"}
  BY DEF SleepsOnChild, SleepsFor
<1>3. ASSUME state[p] = "SLEEPING"
      PROVE  /\ channel[p] \in Task
             /\ \/ channel[p] = p
                \/ parent[channel[p]] = p /\ state[channel[p]] \notin {"UNUSED", "ZOMBIE"}
  BY <1>3 DEF SleepsOnChild, SleepsFor
<1>4. CASE Ordinary
  <2>1. \A t \in Task : /\ state'[t] = "SLEEPING" => state[t] = "SLEEPING"
                        /\ state'[t] \in {"UNUSED", "ZOMBIE"} => state[t] = state'[t]
    BY <1>4 DEF Ordinary, SameLife
  <2> QED BY <1>2, <1>3, <1>4, <2>1 DEF Ordinary
<1>5. CASE Forks
  <2>1. p # nextPid /\ state[p] = "SLEEPING" /\ channel' = channel
    BY <1>1, <1>2, <1>5 DEF Forks
  <2>2. channel[p] # nextPid
    BY <1>3, <1>5, <2>1 DEF Forks
  <2>3. /\ parent'[channel[p]] = parent[channel[p]] /\ state'[channel[p]] = state[channel[p]]
    BY <1>1, <1>3, <1>5, <2>1, <2>2 DEF Forks
  <2> QED BY <1>3, <2>1, <2>3
<1>6. ASSUME NEW ch \in Task, Sleeps(ch)
      PROVE  /\ channel'[p] \in Task
             /\ \/ channel'[p] = p
                \/ /\ parent'[channel'[p]] = p
                   /\ state'[channel'[p]] \notin {"UNUSED", "ZOMBIE"}
  <2> DEFINE st == [state EXCEPT ![cur] = "SLEEPING"]
  <2>1. /\ cur \in Task /\ state[cur] \in {"RUNNING", "SLEEPING"} /\ SleepsFor(cur, ch)
        /\ channel' = [channel EXCEPT ![cur] = ch] /\ SameLife(st, state') /\ parent' = parent
    BY <1>6 DEF Sleeps
  <2>2. \A t \in Task : /\ (state'[t] = "SLEEPING" /\ t # cur) => state[t] = "SLEEPING"
                        /\ state'[t] \in {"UNUSED", "ZOMBIE"} => state[t] = state'[t]
    BY <1>1, <2>1 DEF SameLife
  <2>3. CASE p = cur
    BY <1>1, <2>1, <2>2, <2>3 DEF SleepsFor
  <2>4. CASE p # cur
    BY <1>1, <1>2, <1>3, <2>1, <2>2, <2>4
  <2> QED BY <2>3, <2>4
<1>7. ASSUME NEW s \in Values, Exits(s)
      PROVE  /\ channel'[p] \in Task
             /\ \/ channel'[p] = p
                \/ /\ parent'[channel'[p]] = p
                   /\ state'[channel'[p]] \notin {"UNUSED", "ZOMBIE"}
  <2> DEFINE q  == parent[cur]
             st == Buried(cur, q)
  <2>1. /\ cur \in Task /\ q \in Task /\ q # cur /\ channel' = channel /\ SameLife(st, state')
        /\ \A t \in Task : parent'[t] = IF parent[t] = cur THEN init ELSE parent[t]
    BY <1>7 DEF Exits
  <2>2. /\ st[cur] = (IF Wakes(cur, q) THEN "DEAD" ELSE "ZOMBIE")
        /\ st[q] = (IF Wakes(cur, q) THEN "RUNNABLE" ELSE state[q])
        /\ \A t \in Task : t # cur /\ t # q => st[t] = state[t]
    <3> HIDE DEF q
    <3> QED BY <1>1, <2>1 DEF Buried
  <2> HIDE DEF st
  <2>3. st[p] = "SLEEPING"
    BY <1>2, <2>1 DEF SameLife
  <2>4. p # cur /\ state[p] = "SLEEPING" /\ (p = q => ~Wakes(cur, q))
    BY <2>1, <2>2, <2>3
  <2>5. CASE channel[p] = p
    BY <2>1, <2>5
  <2>6. CASE channel[p] # p
    <3>1. channel[p] \in Task /\ parent[channel[p]] = p
          /\ state[channel[p]] \notin {"UNUSED", "ZOMBIE"}
      BY <1>3, <2>4, <2>6
    <3>2. channel[p] # cur
      BY <2>4, <3>1 DEF Wakes
    <3>3. st[channel[p]] \notin {"UNUSED", "ZOMBIE"}
      BY <2>2, <3>1, <3>2
    <3>4. state'[channel[p]] \notin {"UNUSED", "ZOMBIE"}
      BY <2>1, <3>1, <3>3 DEF SameLife
    <3>5. parent'[channel[p]] = p
      BY <2>1, <2>4, <3>1
    <3> QED BY <2>1, <3>1, <3>4, <3>5
  <2> QED BY <2>5, <2>6
<1>8. ASSUME NEW z \in Task, Buries(z)
      PROVE  /\ channel'[p] \in Task
             /\ \/ channel'[p] = p
                \/ /\ parent'[channel'[p]] = p
                   /\ state'[channel'[p]] \notin {"UNUSED", "ZOMBIE"}
  <2>1. /\ state' = [state EXCEPT ![z] = "DEAD"] /\ parent' = parent /\ channel' = channel
    BY <1>8 DEF Buries
  <2>2. state[p] = "SLEEPING"
    BY <1>1, <1>2, <2>1
  <2> QED BY <1>1, <1>3, <2>1, <2>2
<1> QED BY <1>4, <1>5, <1>6, <1>7, <1>8, LifeStep DEF Kind

\* A task never sleeps in wait_pid() on one that has exited and is still to be
\* collected: however wait_pid(), exits, reparenting and ticks interleave.
THEOREM WakeupsArrive == Spec => []NoLostWakeup
<1>1. Init => SleepsOnChild
  BY DEF Init, SleepsOnChild
<1>2. IInv /\ SleepsOnChild /\ [Next]_vars => SleepsOnChild'
  BY SleepsOnChildKept
<1>3. IInv /\ SleepsOnChild => NoLostWakeup
  BY DEF SleepsOnChild, SleepsFor, NoLostWakeup
<1> QED BY <1>1, <1>2, <1>3, Invariance, PTL DEF Spec

-----------------------------------------------------------------------------
(* Deaths. *)

\* States of the tasks before and after an exit.
LEMMA ExitStates ==
    ASSUME IInv, NEW s \in Values, Exits(s)
    PROVE  /\ state'[cur] = IF Wakes(cur, parent[cur]) THEN "DEAD" ELSE "ZOMBIE"
           /\ \A t \in Task : t # cur => /\ state'[t] \in Exited <=> state[t] \in Exited
                                         /\ state'[t] = "DEAD" <=> state[t] = "DEAD"
                                         /\ state'[t] = "UNUSED" <=> state[t] = "UNUSED"
<1> DEFINE p  == parent[cur]
           st == Buried(cur, p)
<1>1. cur \in Task /\ p \in Task /\ p # cur /\ SameLife(st, state') /\ state \in [Task -> States]
  BY DEF Exits, IInv, TypeOK
<1>2. /\ st[cur] = (IF Wakes(cur, p) THEN "DEAD" ELSE "ZOMBIE")
      /\ st[p] = (IF Wakes(cur, p) THEN "RUNNABLE" ELSE state[p])
      /\ \A t \in Task : t # cur /\ t # p => st[t] = state[t]
  <2> HIDE DEF p
  <2> QED BY <1>1 DEF Buried
<1>3. Wakes(cur, p) => state[p] = "SLEEPING"
  BY DEF Wakes
<1> HIDE DEF st, p
<1>4. state'[cur] = IF Wakes(cur, p) THEN "DEAD" ELSE "ZOMBIE"
  BY <1>1, <1>2 DEF SameLife
<1>5. ASSUME NEW t \in Task, t # cur
      PROVE  /\ state'[t] \in Exited <=> state[t] \in Exited
             /\ state'[t] = "DEAD" <=> state[t] = "DEAD"
             /\ state'[t] = "UNUSED" <=> state[t] = "UNUSED"
  BY <1>1, <1>2, <1>3, <1>5 DEF SameLife, Exited
<1> QED BY <1>4, <1>5 DEF p

\* Every death is announced, once, to the task that waits or will wait for it, with
\* its status, and the dead stay dead (exit_process, sys_wait, sys_wait_pid).
THEOREM DeathsAnnounced == Spec => DeathAnnounced
<1>1. ASSUME IInv, [Next]_vars, NEW t \in Task
      PROVE  /\ (state[t] # "DEAD" /\ state'[t] = "DEAD") =>
                 /\ frame'[parent'[t]].a0 = t
                 /\ state[t] = "RUNNING" \/ state[t] = "SLEEPING" =>
                        frame'[parent'[t]].a1 = exitStatus'[t]
             /\ state[t] \in Exited => state'[t] \in Exited
             /\ state[t] = "DEAD" => state'[t] = "DEAD"
  <2> DEFINE Goal == /\ (state[t] # "DEAD" /\ state'[t] = "DEAD") =>
                         /\ frame'[parent'[t]].a0 = t
                         /\ state[t] = "RUNNING" \/ state[t] = "SLEEPING" =>
                                frame'[parent'[t]].a1 = exitStatus'[t]
                     /\ state[t] \in Exited => state'[t] \in Exited
                     /\ state[t] = "DEAD" => state'[t] = "DEAD"
  <2>1. /\ state \in [Task -> States] /\ parent \in [Task -> Task \cup {NULL}]
        /\ exitStatus \in [Task -> Values]
    BY <1>1 DEF IInv, TypeOK
  <2>2. ASSUME Ordinary PROVE Goal
    BY <2>2 DEF Ordinary, SameLife, Exited
  <2>3. ASSUME Forks PROVE Goal
    BY <2>1, <2>3 DEF Forks, Exited
  <2>4. ASSUME NEW ch \in Task, Sleeps(ch) PROVE Goal
    BY <2>1, <2>4 DEF Sleeps, SameLife, Exited
  <2>5. ASSUME NEW s \in Values, Exits(s) PROVE Goal
    <3>1. CASE t # cur
      BY <1>1, <2>5, <3>1, ExitStates
    <3>2. CASE t = cur
      <4>1. /\ cur \in Task /\ state[cur] \in {"RUNNING", "SLEEPING"} /\ parent[cur] # cur
            /\ \A u \in Task : parent'[u] = IF parent[u] = cur THEN init ELSE parent[u]
            /\ exitStatus' = [exitStatus EXCEPT ![cur] = s]
            /\ Wakes(cur, parent[cur]) => frame'[parent[cur]].a0 = cur /\ frame'[parent[cur]].a1 = s
        BY <2>5 DEF Exits
      <4>2. parent'[cur] = parent[cur] /\ exitStatus'[cur] = s
        BY <2>1, <4>1
      <4>3. state'[cur] = "DEAD" => Wakes(cur, parent[cur])
        BY <1>1, <2>5, ExitStates
      <4> QED BY <3>2, <4>1, <4>2, <4>3 DEF Exited
    <3> QED BY <3>1, <3>2
  <2>6. ASSUME NEW z \in Task, Buries(z) PROVE Goal
    <3>1. /\ state' = [state EXCEPT ![z] = "DEAD"] /\ frame'[cur].a0 = z /\ parent' = parent
          /\ parent[z] = cur /\ state[z] = "ZOMBIE"
      BY <2>6 DEF Buries, ZombieChildren, Children
    <3> QED BY <2>1, <3>1 DEF Exited
  <2>7. Kind
    BY <1>1, LifeStep
  <2> HIDE DEF Goal
  <2>8. Goal
    BY <2>2, <2>3, <2>4, <2>5, <2>6, <2>7 DEF Kind
  <2> QED BY <2>8 DEF Goal
<1>2. IInv /\ [Next]_vars =>
        [\A t \in Task :
          /\ (state[t] # "DEAD" /\ state'[t] = "DEAD") =>
                 /\ frame'[parent'[t]].a0 = t
                 /\ state[t] = "RUNNING" \/ state[t] = "SLEEPING" =>
                        frame'[parent'[t]].a1 = exitStatus'[t]
          /\ state[t] \in Exited => state'[t] \in Exited
          /\ state[t] = "DEAD" => state'[t] = "DEAD"
        ]_vars
  BY <1>1
<1> QED BY <1>2, Invariance, PTL DEF Spec, DeathAnnounced

\* A task that does not exist has no parent.
UnusedBare == \A t \in Task : state[t] = "UNUSED" => parent[t] = NULL

\* Only fork_process() gives a task its first parent.
LEMMA UnusedBareKept ==
    ASSUME IInv, UnusedBare, [Next]_vars
    PROVE  UnusedBare'
<1>1. state \in [Task -> States] /\ parent \in [Task -> Task \cup {NULL}]
  BY DEF IInv, TypeOK
<1>2. CASE Ordinary
  BY <1>2 DEF Ordinary, SameLife, UnusedBare
<1>3. CASE Forks
  BY <1>1, <1>3 DEF Forks, UnusedBare
<1>4. ASSUME NEW ch \in Task, Sleeps(ch) PROVE UnusedBare'
  BY <1>1, <1>4 DEF Sleeps, SameLife, UnusedBare
<1>5. ASSUME NEW s \in Values, Exits(s) PROVE UnusedBare'
  <2>1. /\ cur \in Task /\ \A u \in Task : parent'[u] = IF parent[u] = cur THEN init ELSE parent[u]
    BY <1>5 DEF Exits
  <2>2. \A t \in Task : state'[t] = "UNUSED" => state[t] = "UNUSED"
    BY <1>5, ExitStates
  <2>3. NULL \notin Task
    BY DEF NULL, Task
  <2> QED BY <2>1, <2>2, <2>3 DEF UnusedBare
<1>6. ASSUME NEW z \in Task, Buries(z) PROVE UnusedBare'
  BY <1>1, <1>6 DEF Buries, UnusedBare
<1> QED BY <1>2, <1>3, <1>4, <1>5, <1>6, LifeStep DEF Kind

\* The status of a zombie is the one it exited with until somebody reads it, and a
\* parent changes only to init, when the old one exits (reparent in exit_process).
THEOREM StatusesStable == Spec => StatusStable
<1>1. ASSUME IInv, UnusedBare, [Next]_vars, NEW t \in Task
      PROVE  /\ state[t] \in Exited => exitStatus'[t] = exitStatus[t]
             /\ (parent[t] # NULL /\ parent'[t] # parent[t]) =>
                    parent'[t] = init /\ state'[parent[t]] \in Exited
  <2>1. /\ state \in [Task -> States] /\ parent \in [Task -> Task \cup {NULL}]
        /\ exitStatus \in [Task -> Values]
    BY <1>1 DEF IInv, TypeOK
  <2>2. CASE UNCHANGED <<parent, exitStatus>>
    BY <2>2
  <2>3. CASE Forks
    BY <1>1, <2>1, <2>3 DEF Forks, UnusedBare
  <2>4. ASSUME NEW s \in Values, Exits(s)
        PROVE  /\ state[t] \in Exited => exitStatus'[t] = exitStatus[t]
               /\ (parent[t] # NULL /\ parent'[t] # parent[t]) =>
                      parent'[t] = init /\ state'[parent[t]] \in Exited
    <3>1. /\ cur \in Task /\ state[cur] \in {"RUNNING", "SLEEPING"}
          /\ \A u \in Task : parent'[u] = IF parent[u] = cur THEN init ELSE parent[u]
          /\ exitStatus' = [exitStatus EXCEPT ![cur] = s]
      BY <2>4 DEF Exits
    <3>2. state'[cur] \in Exited
      BY <1>1, <2>4, ExitStates DEF Exited
    <3> QED BY <2>1, <3>1, <3>2 DEF Exited
  <2> QED BY <1>1, <2>2, <2>3, <2>4, LifeStep DEF Kind, Ordinary, Sleeps, Buries
<1>2. IInv /\ UnusedBare /\ [Next]_vars =>
        [\A t \in Task :
          /\ state[t] \in Exited => exitStatus'[t] = exitStatus[t]
          /\ (parent[t] # NULL /\ parent'[t] # parent[t]) =>
                 parent'[t] = init /\ state'[parent[t]] \in Exited
        ]_vars
  BY <1>1
<1>3. Init => UnusedBare
  BY DEF Init, UnusedBare
<1>4. IInv /\ UnusedBare /\ [Next]_vars => UnusedBare'
  BY UnusedBareKept
<1> QED BY <1>2, <1>3, <1>4, Invariance, PTL DEF Spec, StatusStable

\* The context of an exiting task is never saved, so that nothing resumes it.
ExitNotResumed ==
    /\ \A t \in Task : context[t] # "exit"
    /\ kont = "exit" => mode \in {"switch"} \cup Halted /\ dst = NULL

\* A yield() for another reason.
LEMMA YieldNotExit ==
    ASSUME ExitNotResumed, NEW st, NEW q, NEW next, NEW k, k # "exit", NEW fr,
           Yield(st, q, next, k, fr)
    PROVE  ExitNotResumed' /\ mode' # "panic_exit"
<1>1. context' = context
  BY DEF Yield
<1>2. \/ mode' = "wild" /\ kont' = kont /\ dst' = dst
      \/ mode' = "user" /\ kont' = "none"
      \/ mode' = "switch" /\ kont' = k
  BY DEF Yield, Resume, Dispatch
<1> QED BY <1>1, <1>2 DEF ExitNotResumed, Halted

\* exit_process() is returned into only if nobody can run, and nobody waits for the
\* task that exits.
LEMMA ExitReturns ==
    ASSUME IInv, ExitNotResumed, mode = "user", NEW s \in Values, ExitProcess(cur, s)
    PROVE  ExitNotResumed' /\ ExitReturnsIdle'
<1>1. kont # "exit"
  BY DEF ExitNotResumed, Halted
<1>2. CASE parent[cur] = NULL
  BY <1>1, <1>2 DEF ExitProcess, ExitNotResumed, ExitReturnsIdle
<1>3. CASE parent[cur] # NULL
  <2> DEFINE p  == parent[cur]
             st == Buried(cur, p)
             q  == IF Wakes(cur, p) THEN Append(runq, p) ELSE runq
             fr == IF Wakes(cur, p) THEN [frame EXCEPT ![p].a0 = cur, ![p].a1 = s]
                   ELSE frame
  <2>1. /\ p \in Task /\ p # cur
        /\ \A t \in Task : parent'[t] = IF parent[t] = cur THEN init ELSE parent[t]
        /\ channel' = channel /\ Coherent(st, q)
        /\ st[cur] = (IF Wakes(cur, p) THEN "DEAD" ELSE "ZOMBIE")
        /\ st[p] = (IF Wakes(cur, p) THEN "RUNNABLE" ELSE state[p])
        /\ Yield(st, q, cur, "exit", fr)
    BY <1>3, ExitHandsOver
  <2>2. cur \in Task /\ Coherent(state, runq)
    BY PiecesOf DEF OneRunning
  <2>3. Wakes(cur, p) => q # <<>>
    <3>1. runq \in Seq(Task)
      BY <2>2 DEF Coherent, Lists
    <3>2. Append(runq, p) # <<>>
      <4> HIDE DEF p, st, q, fr
      <4>1. Len(Append(runq, p)) = Len(runq) + 1 /\ Len(runq) \in Nat
        BY <2>1, <3>1
      <4> QED BY <4>1
    <3> QED BY <3>2, Zenon
  <2> HIDE DEF st, q, fr
  <2>4. context' = context
    BY <2>1 DEF Yield
  <2>5. CASE toRemove \in kfreed
    <3>1. mode' = "wild" /\ kont' = kont
      BY <2>1, <2>5 DEF Yield
    <3> QED BY <1>1, <2>4, <3>1 DEF ExitNotResumed, ExitReturnsIdle
  <2>6. CASE toRemove \notin kfreed /\ q # <<>>
    <3>1. Dispatch(st, q, "exit")
      BY <2>1, <2>6 DEF Yield
    <3>2. mode' = "switch" /\ kont' = "exit"
      BY <2>1, <2>2, <2>6, <3>1, DispatchExact
    <3>3. dst' = NULL
      <4>1. Requeue(st, q).old = NULL
        BY <2>1 DEF Requeue
      <4> QED BY <3>1, <3>2, <4>1 DEF Dispatch
    <3> QED BY <2>4, <3>2, <3>3 DEF ExitNotResumed, ExitReturnsIdle
  <2>7. CASE toRemove \notin kfreed /\ q = <<>>
    <3>1. state' = st /\ cur' = cur /\ kont' = "none"
      BY <2>1, <2>7 DEF Yield, Resume
    <3>2. ~Wakes(cur, p)
      BY <2>3, <2>7
    <3>3. st \in [Task -> States] /\ \A t \in Task : st[t] = "RUNNING" => t = cur
      BY <2>1 DEF Coherent
    <3>4. \A t \in Task : st[t] # "RUNNABLE"
      BY <2>1, <2>7 DEF Coherent, Lists, RunnableIn
    <3>5. \A t \in Task \ {cur} : state'[t] \in {"UNUSED", "SLEEPING"} \cup Exited
      BY <3>1, <3>3, <3>4 DEF States, Exited
    <3>6. parent'[cur'] = p
      BY <2>1, <2>2, <3>1
    <3>7. ASSUME NEW t \in Task \ {cur}, state'[t] = "SLEEPING", parent'[cur'] = t
          PROVE  channel'[t] \notin {t, cur'}
      <4>1. t = p /\ state[p] = "SLEEPING"
        BY <2>1, <3>1, <3>2, <3>6, <3>7
      <4> QED BY <2>1, <3>1, <3>2, <4>1 DEF Wakes
    <3> QED BY <2>4, <3>1, <3>5, <3>7 DEF ExitNotResumed, ExitReturnsIdle
  <2> QED BY <2>5, <2>6, <2>7
<1> QED BY <1>2, <1>3

\* No other step reaches the panic.
LEMMA ExitReturnsKept ==
    ASSUME IInv, ExitNotResumed, ExitReturnsIdle, [Next]_vars
    PROVE  ExitNotResumed' /\ ExitReturnsIdle'
<1>1. ASSUME mode' # "panic_exit", ExitNotResumed' PROVE ExitNotResumed' /\ ExitReturnsIdle'
  BY <1>1 DEF ExitReturnsIdle
<1>2. ASSUME NEW st, NEW q, NEW next, NEW k, k # "exit", NEW fr, Yield(st, q, next, k, fr)
      PROVE  ExitNotResumed' /\ ExitReturnsIdle'
  BY <1>1, <1>2, YieldNotExit
<1>3. mode = "user" => cur \in Task /\ frame[cur].a0 \in Values /\ kont # "exit"
  <2>1. mode = "user" => cur \in Task /\ frame \in [Task -> Frames]
    BY PiecesOf DEF OneRunning, Bookkeeping
  <2>2. mode = "user" => kont # "exit"
    BY DEF ExitNotResumed, Halted
  <2> QED BY <2>1, <2>2 DEF Frames
<1>4. ERR \in Values
  BY DEF Values
<1>5. ASSUME context' = context, kont' = kont, dst' = dst, mode' = mode,
             mode \notin Halted \/ UNCHANGED <<state, tree, cur>>
      PROVE  ExitNotResumed' /\ ExitReturnsIdle'
  BY <1>5 DEF ExitNotResumed, ExitReturnsIdle, Halted, tree
<1>6. ASSUME context' = context, kont' = kont, dst' = dst, mode = "user",
             mode' \in Halted \ {"panic_exit"}
      PROVE  ExitNotResumed' /\ ExitReturnsIdle'
  BY <1>3, <1>6 DEF ExitNotResumed, ExitReturnsIdle
<1>7. mode \in {"user", "boot"} => mode \notin Halted
  BY DEF Halted
<1>8. CASE Scheduler
  BY <1>8, <1>1 DEF Scheduler, ExitNotResumed, Halted
<1>9. CASE Halt \/ UNCHANGED vars
  BY <1>5, <1>9 DEF Halt, vars
<1>10. CASE UserProgram \/ PutChar \/ UnknownCall
  BY <1>5, <1>7, <1>10 DEF UserProgram, PutChar, UnknownCall, Syscall, Return
<1>11. CASE UserTick
  BY <1>2, <1>11 DEF UserTick
<1>12. CASE Fork
  <2>1. mode = "user" /\ (mode' = mode \/ mode' = "wild")
        /\ context' = context /\ kont' = kont /\ dst' = dst
    BY <1>12 DEF Fork, Syscall, Return, Wild
  <2> QED BY <1>5, <1>6, <1>7, <2>1 DEF Halted
<1>13. CASE Exec
  <2>1. mode = "user"
    BY <1>13 DEF Exec, Syscall
  <2>2. CASE ExitProcess(cur, ERR)
    BY <1>4, <2>1, <2>2, ExitReturns
  <2>3. CASE mode' \in {mode, "wild", "panic_unmap"} /\ context' = context /\ kont' = kont /\ dst' = dst
    BY <1>5, <1>6, <1>7, <2>1, <2>3 DEF Halted
  <2>4. CASE mode' = "kernel" /\ kont' = "ret" /\ context' = context
    BY <1>1, <2>4 DEF ExitNotResumed
  <2> QED BY <1>13, <2>2, <2>3, <2>4 DEF Exec, Return, Wild
<1>14. CASE Exit
  BY <1>3, <1>14, ExitReturns DEF Exit, Syscall
<1>15. CASE Fault
  BY <1>4, <1>15, ExitReturns DEF Fault
<1>16. \A ptr : WaitKont(ptr) # "exit"
  BY DEF WaitKont
<1>17. ASSUME NEW ch, NEW ptr, Sleep(ch, WaitKont(ptr)) PROVE ExitNotResumed' /\ ExitReturnsIdle'
  BY <1>2, <1>16, <1>17 DEF Sleep
<1>18. ASSUME NEW z, NEW ptr, mode = "user", Bury(z, ptr) PROVE ExitNotResumed' /\ ExitReturnsIdle'
  BY <1>5, <1>7, <1>18 DEF Bury
<1>19. ASSUME mode = "user", Return(ERR), context' = context PROVE ExitNotResumed' /\ ExitReturnsIdle'
  BY <1>5, <1>7, <1>19 DEF Return
<1>20. CASE Wait
  BY <1>17, <1>18, <1>19, <1>20 DEF Wait, Syscall
<1>21. CASE WaitPid
  <2> DEFINE pid   == frame[cur].a0
             ptr   == frame[cur].a1
             child == ChildWithPid(cur, pid)
  <2>1. mode = "user"
    BY <1>21 DEF WaitPid, Syscall
  <2>2. \/ Bury(OneZombieChild(cur), ptr) \/ Bury(child, ptr)
        \/ Sleep(cur, WaitKont(ptr)) \/ Sleep(child, WaitKont(ptr))
        \/ Return(ERR) /\ context' = context
    BY <1>21 DEF WaitPid
  <2> HIDE DEF child, pid, ptr
  <2> QED BY <1>17, <1>18, <1>19, <2>1, <2>2
<1>22. CASE SendSignal
  <2>1. \A t : ~IsAncestor(cur, t) \/ IsAlive(t)
    BY DEF IsAncestor, IsAlive
  <2> QED BY <1>19, <1>22, <2>1 DEF SendSignal, Syscall
<1>23. CASE YieldCall
  BY <1>2, <1>23 DEF YieldCall
<1>24. CASE PowerOff
  <2>1. mode = "user"
    BY <1>24 DEF PowerOff, Syscall
  <2>2. \/ mode' = "off" /\ context' = context /\ kont' = kont /\ dst' = dst
        \/ Return(ERR) /\ context' = context
    BY <1>24 DEF PowerOff
  <2> QED BY <1>6, <1>19, <2>1, <2>2 DEF Halted
<1>25. CASE GetChar
  <2>1. CASE Yield(state, runq, toRemoveNext, "getc", frame)
    BY <1>2, <2>1
  <2>2. CASE mode' \in {"masked", "kernel"} /\ kont' = "poll" /\ context' = context
    BY <1>1, <2>2 DEF ExitNotResumed
  <2> QED BY <1>25, <2>1, <2>2 DEF GetChar
<1>26. CASE Input
  BY <1>1, <1>26 DEF Input, ExitNotResumed
<1>27. CASE SwitchContext
  <2> DEFINE saved == IF dst = NULL THEN context ELSE [context EXCEPT ![dst] = kont]
  <2>1. dst \in Task \cup {NULL} /\ context \in [Task -> Contexts] /\ cur \in Task
    BY <1>27, PiecesOf DEF Bookkeeping, OneRunning, SwitchContext
  <2>2. \A t \in Task : saved[t] # "exit"
    BY <2>1 DEF ExitNotResumed
  <2>3. saved \in [Task -> Contexts]
    BY <2>1, PiecesOf DEF Bookkeeping, Contexts
  <2>4. /\ mode' \in {"kernel", "wild"} /\ kont' \in {"ret", "none", saved[cur]}
        /\ context' = IF saved[cur] \in {"fresh", "window"} THEN saved
                      ELSE [saved EXCEPT ![cur] = "stale"]
    BY <1>27 DEF SwitchContext
  <2> HIDE DEF saved
  <2> QED BY <1>1, <2>1, <2>2, <2>3, <2>4 DEF ExitNotResumed
<1>28. CASE KernelReturn
  <2>1. mode = "kernel" /\ context' = context /\ kont # "exit"
    BY <1>28 DEF KernelReturn, ExitNotResumed, Halted
  <2>2. mode' = "user" /\ kont' = "none"
    BY <1>28, <2>1 DEF KernelReturn, Resume
  <2> QED BY <1>1, <2>1, <2>2 DEF ExitNotResumed
<1>29. CASE KernelTick
  <2>1. mode \in {"switch", "kernel"} /\ mode \notin Halted
    BY <1>29 DEF KernelTick, Halted
  <2>2. (IF mode = "switch" THEN "window" ELSE kont) # "exit"
    BY <2>1 DEF ExitNotResumed
  <2> QED BY <1>2, <1>5, <1>29, <2>1, <2>2 DEF KernelTick
<1> QED
  BY <1>8, <1>9, <1>10, <1>11, <1>12, <1>13, <1>14, <1>15, <1>20, <1>21, <1>22, <1>23, <1>24,
     <1>25, <1>26, <1>27, <1>28, <1>29 DEF Next

\* yield() comes back to exit_process(), and the kernel panics, only in a system in
\* which nobody can run and no parent waits for the task that exits.
THEOREM PanicsIdle == Spec => []ExitReturnsIdle
<1>1. Init => ExitNotResumed /\ ExitReturnsIdle
  BY DEF Init, ExitNotResumed, ExitReturnsIdle
<1>2. IInv /\ ExitNotResumed /\ ExitReturnsIdle /\ [Next]_vars => ExitNotResumed' /\ ExitReturnsIdle'
  BY ExitReturnsKept
<1> QED BY <1>1, <1>2, Invariance, PTL DEF Spec

-----------------------------------------------------------------------------
(* Kernel stacks and saved contexts. *)
\* What waits in the two stages: the stack of a task that has exited, or one that
\* exec has retired.
StagesSound ==
    /\ toRemoveNext # NULL => toRemoveNext \in execed
    /\ (toRemove # NULL /\ toRemove \notin execed) =>
           state[toRemove] \in Exited /\ toRemove \notin kfreed
    /\ \A t \in kfreed \ execed : state[t] \in Exited

\* The CPU is on the stack of the running task, except between yield() and the
\* switch, where only a tick can have freed it.
OnStack ==
    /\ mode \in {"user", "kernel", "masked"} => stk = cur
    /\ stk \in kfreed \ execed => ticked

\* old_context points into a task only until the switch.
DstSound ==
    /\ kont = "window" => mode = "switch" /\ dst # NULL
    /\ dst # NULL => mode = "switch" /\ state[dst] \in {"RUNNABLE", "RUNNING"}

\* A context saved inside another yield() waits for its task to be dispatched.
WindowSound ==
    \A t \in Task : context[t] = "window" =>
        \/ state[t] = "RUNNABLE" /\ t # dst
        \/ mode = "switch" /\ t = cur /\ t # dst
        \/ mode = "switch" /\ t = dst /\ kont = "window"

\* A task that is to be resumed from a context already used has slept, or will
\* have a new context, or a yield() was interrupted.
StaleSound ==
    \A t \in Task :
        (context[t] = "stale" /\ (state[t] = "RUNNABLE" \/ (mode = "switch" /\ t = cur)))
            => channel[t] # NULL \/ Torn \/ t = dst

\* Nobody has used the context of a new task.
FreshSound ==
    \A t \in Task : state[t] = "UNUSED" \/ mode = "boot" => context[t] = "fresh"

ContextsSound == DstSound /\ WindowSound /\ StaleSound /\ FreshSound

\* The strengthening of StackReclaimSafe and WildExplained.
StackInv ==
    /\ StagesSound /\ OnStack /\ WildExplained
    /\ mode # "wild" => ContextsSound

\* A step of the running task that switches to nobody: what the invariant says of
\* the tasks, the stacks and the contexts stays.
LEMMA StayStacks ==
    ASSUME IInv, StackInv, mode \in {"user", "kernel", "masked"},
           mode' \notin {"switch", "wild", "boot"}, dst' = NULL, kont' # "window",
           \A t \in Task : /\ state'[t] \in Exited <=> state[t] \in Exited
                           /\ state'[t] = "RUNNABLE" => state[t] = "RUNNABLE"
                           /\ state[t] = "RUNNABLE" => state'[t] = "RUNNABLE"
                           /\ state'[t] = "UNUSED" => state[t] = "UNUSED",
           UNCHANGED <<channel, cur, stk, context, toRemove, toRemoveNext, kfreed,
                       execed, ticked>>
    PROVE  StackInv'
<1>1. /\ stk = cur /\ dst = NULL /\ kont # "window" /\ ContextsSound
      /\ kfreed \subseteq Task /\ toRemove \in Task \cup {NULL}
  BY PiecesOf DEF StackInv, OnStack, ContextsSound, DstSound, Bookkeeping
<1>2. StagesSound'
  BY <1>1 DEF StackInv, StagesSound
<1>3. OnStack'
  BY <1>1 DEF StackInv, OnStack
<1>4. DstSound' /\ WindowSound' /\ FreshSound'
  BY <1>1 DEF ContextsSound, DstSound, WindowSound, FreshSound
<1>5. StaleSound'
  <2>1. Torn => Torn'
    BY <1>1 DEF Torn
  <2>2. \A t \in Task : (context[t] = "stale" /\ state[t] = "RUNNABLE")
                            => channel[t] # NULL \/ Torn \/ t = NULL
    BY <1>1 DEF ContextsSound, StaleSound
  <2> QED BY <2>1, <2>2 DEF StaleSound
<1> QED BY <1>2, <1>3, <1>4, <1>5 DEF StackInv, WildExplained, ContextsSound

\* The CPU goes wild where it stands.
LEMMA WildStacks ==
    ASSUME StackInv, Wild,
           \/ kfreed \cap execed # {}
           \/ OutOfMemory /\ frame[cur].call = "fork" /\ frame[cur].at
    PROVE  StackInv'
BY DEF Wild, StackInv, StagesSound, OnStack, WildExplained, reap, past

\* A freed stack whose owner lives is one that exec retired.
LEMMA LiveFreedExeced ==
    ASSUME StackInv, LiveStackFreed
    PROVE  kfreed \cap execed # {}
BY DEF StackInv, StagesSound, LiveStackFreed

\* A yield() of a task that runs, sleeps or has just exited, with a parent woken
\* perhaps, or the second yield() that a tick makes before the switch.
LEMMA YieldStacks ==
    ASSUME IInv, StackInv, mode \in {"user", "kernel", "switch"},
           NEW st, NEW q, NEW next, NEW k \in Konts, NEW fr \in [Task -> Frames],
           Coherent(st, q),
           \A t \in Task : t # cur =>
               st[t] = state[t] \/ (state[t] = "SLEEPING" /\ st[t] = "RUNNABLE"
                                    /\ channel[t] # NULL),
           st[cur] \in {"RUNNING", "SLEEPING"} \cup Exited,
           \/ next = toRemoveNext /\ st[cur] \notin Exited
           \/ next = cur /\ st[cur] \in Exited /\ mode = "user",
           mode = "switch" => k = "window" /\ st[cur] = "RUNNING"
                              /\ (q # <<>> \/ toRemove \in kfreed),
           mode # "switch" => k # "window",
           \A t \in Task : channel[t] # NULL => channel'[t] # NULL,
           Yield(st, q, next, k, fr)
    PROVE  StackInv'
<1>1. /\ cur \in Task /\ NULL \notin Task /\ kfreed \subseteq Task
      /\ toRemove \in Task \cup {NULL} /\ toRemoveNext \in Task \cup {NULL}
      /\ execed \subseteq Task /\ state[cur] \in {"RUNNING", "SLEEPING"}
      /\ context \in [Task -> Contexts]
  BY PiecesOf DEF OneRunning, Bookkeeping, Task, NULL
<1>2. /\ kfreed' = kfreed \cup ({toRemove} \ {NULL}) /\ toRemove' = next /\ toRemoveNext' = NULL
      /\ stk' = stk /\ context' = context /\ execed' = execed /\ ticked' = (mode = "switch")
  BY DEF Yield, Collect
<1>3. \A t \in kfreed' \ execed : t \in Task /\ t # cur /\ st[t] \in Exited
  <2>1. \A t \in kfreed' \ execed : t \in Task /\ state[t] \in Exited
    BY <1>1, <1>2 DEF StackInv, StagesSound
  <2> QED BY <1>1, <2>1 DEF Exited
<1>4. mode # "switch" => stk = cur /\ dst = NULL /\ kont # "window"
  BY DEF StackInv, OnStack, ContextsSound, DstSound
<1>5. stk' \in kfreed' \ execed => ticked'
  BY <1>2, <1>3, <1>4
<1>6. ASSUME NEW s2, s2 = state',
             \A t \in Task : st[t] \in Exited => s2[t] \in Exited
      PROVE  StagesSound'
  <2>1. next # NULL /\ next \notin execed => st[next] \in Exited /\ next \notin kfreed'
    BY <1>3 DEF StackInv, StagesSound
  <2>2. next # NULL => next \in Task
    BY <1>1
  <2> QED BY <1>1, <1>2, <1>3, <1>6, <2>1, <2>2 DEF StagesSound
<1>7. CASE toRemove \in kfreed
  <2>1. state' = st /\ mode' = "wild"
    BY <1>7 DEF Yield
  <2>2. toRemove \in execed
    BY <1>1, <1>7 DEF StackInv, StagesSound
  <2>3. kfreed' \cap execed' # {}
    BY <1>2, <1>7, <2>2
  <2>4. StagesSound'
    BY <1>6, <2>1
  <2>5. OnStack'
    BY <1>2, <1>5, <2>1 DEF OnStack
  <2> QED BY <2>1, <2>3, <2>4, <2>5 DEF StackInv, WildExplained
<1>8. CASE toRemove \notin kfreed /\ q = <<>>
  <2>1. state' = st /\ cur' = cur /\ Resume(k, fr) /\ mode # "switch"
    BY <1>8 DEF Yield
  <2>2. mode' \in {"user", "panic_exit"} /\ dst' = NULL /\ kont' = "none"
    BY <2>1 DEF Resume
  <2>3. StagesSound'
    BY <1>6, <2>1
  <2>4. OnStack'
    BY <1>2, <1>4, <1>5, <2>1 DEF OnStack
  <2>5. DstSound' /\ FreshSound'
    <3>1. \A t \in Task : st[t] = "UNUSED" => state[t] = "UNUSED"
      BY <1>1 DEF Exited
    <3> QED BY <1>2, <2>1, <2>2, <3>1 DEF StackInv, ContextsSound, DstSound, FreshSound
  <2>6. WindowSound'
    <3>1. \A t \in Task : context[t] = "window" => state[t] = "RUNNABLE" /\ t # cur
      BY <1>1, <2>1 DEF StackInv, ContextsSound, WindowSound
    <3> QED BY <1>1, <1>2, <2>1, <2>2, <3>1 DEF WindowSound
  <2>7. StaleSound'
    <3>1. Torn => Torn'
      BY <1>2, <1>4, <2>1 DEF Torn
    <3>2. \A t \in Task : context[t] = "stale" /\ state[t] = "RUNNABLE" =>
                              channel[t] # NULL \/ Torn
      BY <1>1, <1>4, <2>1 DEF StackInv, ContextsSound, StaleSound
    <3>3. \A t \in Task : st[t] = "RUNNABLE" => state[t] = "RUNNABLE" \/ channel[t] # NULL
      BY <1>1 DEF Exited
    <3> QED BY <1>2, <2>1, <2>2, <3>1, <3>2, <3>3 DEF StaleSound
  <2> QED BY <2>2, <2>3, <2>4, <2>5, <2>6, <2>7 DEF StackInv, WildExplained, ContextsSound
<1>9. CASE toRemove \notin kfreed /\ q # <<>>
  <2>1. Dispatch(st, q, k)
    BY <1>9 DEF Yield
  <2>2. /\ cur' \in Task /\ state'[cur'] = "RUNNING" /\ mode' = "switch" /\ kont' = k
        /\ SameLife(st, state')
    BY <1>1, <1>9, <2>1, DispatchExact
  <2>3. dst' = IF st[cur] = "RUNNING" THEN cur ELSE NULL
    <3>1. Requeue(st, q).old = IF st[cur] = "RUNNING" THEN cur ELSE NULL
      BY DEF Requeue
    <3> QED BY <2>1, <2>2, <3>1 DEF Dispatch
  <2>4. \A t \in Task : /\ state'[t] \in Exited <=> st[t] \in Exited
                        /\ state'[t] = "UNUSED" => st[t] = "UNUSED" /\ state[t] = "UNUSED"
                                                   /\ t # cur
                        /\ state'[t] = "RUNNABLE" \/ t = cur' =>
                               st[t] \in {"RUNNABLE", "RUNNING"}
    BY <1>1, <2>2 DEF SameLife, Exited
  <2>5. StagesSound'
    BY <1>6, <2>4
  <2>6. OnStack'
    BY <1>5, <2>2, <1>2 DEF OnStack
  <2>7. DstSound'
    <3>1. k = "window" => dst' = cur
      BY <2>3
    <3>2. dst' # NULL => state'[dst'] \in {"RUNNABLE", "RUNNING"}
      BY <1>1, <2>2, <2>3 DEF SameLife
    <3> QED BY <1>1, <2>2, <3>1, <3>2 DEF DstSound
  <2>8. FreshSound'
    BY <1>2, <2>2, <2>4 DEF StackInv, ContextsSound, FreshSound
  <2>9. WindowSound'
    <3> SUFFICES ASSUME NEW t \in Task, context[t] = "window"
                 PROVE  \/ state'[t] = "RUNNABLE" /\ t # dst'
                        \/ t = cur' /\ t # dst'
                        \/ t = dst' /\ kont' = "window"
      BY <1>2, <2>2 DEF WindowSound
    <3>1. CASE t = cur
      <4>1. mode = "switch"
        BY <1>1, <3>1 DEF StackInv, ContextsSound, WindowSound
      <4> QED BY <2>2, <2>3, <3>1, <4>1
    <3>2. CASE t # cur
      <4>1. state[t] \in {"RUNNABLE", "RUNNING"}
        BY <1>1, <3>2 DEF StackInv, ContextsSound, WindowSound, DstSound
      <4>2. st[t] \in {"RUNNABLE", "RUNNING"}
        BY <3>2, <4>1
      <4>3. state'[t] \in {"RUNNABLE", "RUNNING"}
        BY <2>2, <4>2 DEF SameLife
      <4>4. state'[t] = "RUNNING" => t = cur'
        BY <1>1, <1>9, <2>1, DispatchExact
      <4> QED BY <1>1, <2>3, <3>2, <4>3, <4>4
    <3> QED BY <3>1, <3>2
  <2>10. StaleSound'
    <3> SUFFICES ASSUME NEW t \in Task, context[t] = "stale",
                        state'[t] = "RUNNABLE" \/ t = cur', t # dst'
                 PROVE  channel'[t] # NULL \/ Torn'
      BY <1>2, <2>2 DEF StaleSound
    <3>1. st[t] \in {"RUNNABLE", "RUNNING"}
      BY <2>4
    <3>2. t # cur
      BY <2>3, <3>1 DEF Exited, Coherent
    <3>3. st[t] = "RUNNABLE"
      BY <3>1, <3>2 DEF Coherent
    <3>4. CASE channel[t] # NULL
      BY <3>4
    <3>5. CASE channel[t] = NULL
      <4>1. state[t] = "RUNNABLE"
        BY <3>2, <3>3, <3>5
      <4>2. Torn \/ t = dst
        BY <3>5, <4>1 DEF StackInv, ContextsSound, StaleSound
      <4>3. mode = "switch" => Torn'
        BY <2>2 DEF Torn
      <4>4. mode # "switch" => (Torn => Torn') /\ t # dst
        BY <1>1, <1>2, <1>4 DEF Torn
      <4> QED BY <4>2, <4>3, <4>4
    <3> QED BY <3>4, <3>5
  <2> QED BY <2>2, <2>5, <2>6, <2>7, <2>8, <2>9, <2>10 DEF StackInv, WildExplained, ContextsSound
<1> QED BY <1>7, <1>8, <1>9

\* The yield() of a tick, of sys_yield() and of sys_get_char().
LEMMA PlainYieldStacks ==
    ASSUME IInv, StackInv, mode \in {"user", "kernel"}, NEW k \in Konts, k # "window",
           Yield(state, runq, toRemoveNext, k, frame), UNCHANGED tree
    PROVE  StackInv'
<1>1. /\ state[cur] \in {"RUNNING", "SLEEPING"} /\ Coherent(state, runq)
      /\ frame \in [Task -> Frames]
  BY PiecesOf DEF OneRunning, Bookkeeping
<1>2. channel' = channel /\ state[cur] \notin Exited
  BY <1>1 DEF tree, Exited
<1> QED BY <1>1, <1>2, YieldStacks

\* sleep().
LEMMA SleepStacks ==
    ASSUME IInv, StackInv, mode = "user", NEW ch \in Task, NEW k \in Konts, k # "window",
           Sleep(ch, k)
    PROVE  StackInv'
<1>1. /\ cur \in Task /\ Bookkeeping /\ TreeTyped /\ Coherent(state, runq) /\ NULL \notin Task
      /\ state[cur] \in {"RUNNING", "SLEEPING"}
  BY PiecesOf DEF OneRunning, Task, NULL
<1> DEFINE st == [state EXCEPT ![cur] = "SLEEPING"]
<1>2. /\ channel' = [channel EXCEPT ![cur] = ch]
      /\ Yield(st, RemoveAt(runq, cur), toRemoveNext, k, frame)
  BY DEF Sleep
<1>3. state \in [Task -> States] /\ Lists(runq, RunnableIn(state))
      /\ cur \notin RunnableIn(state)
  BY <1>1 DEF Coherent, RunnableIn
<1>4. RemoveAt(runq, cur) = runq
  BY <1>1, <1>3, RemoveAtAbsent
<1>5. st \in [Task -> States] /\ st[cur] = "SLEEPING"
      /\ \A t \in Task : t # cur => st[t] = state[t]
  BY <1>1, <1>3 DEF States
<1> HIDE DEF st
<1>6. RunnableIn(st) = RunnableIn(state)
  BY <1>1, <1>5 DEF RunnableIn
<1>7. Coherent(st, runq)
  BY <1>1, <1>3, <1>5, <1>6 DEF Coherent
<1>8. frame \in [Task -> Frames] /\ st[cur] \notin Exited
  BY <1>1, <1>5 DEF Bookkeeping, Exited
<1>9. \A t \in Task : channel[t] # NULL => channel'[t] # NULL
  BY <1>1, <1>2 DEF TreeTyped
<1> QED BY <1>2, <1>4, <1>5, <1>7, <1>8, <1>9, YieldStacks

\* exit_process(): the stack is retired, and left at the next switch.
LEMMA ExitStacks ==
    ASSUME IInv, StackInv, mode = "user", NEW s \in Values, ExitProcess(cur, s)
    PROVE  StackInv'
<1>1. CASE parent[cur] = NULL
  <2>1. /\ mode' = "panic_init"
        /\ UNCHANGED <<state, channel, cur, stk, dst, kont, context, toRemove, toRemoveNext,
                       kfreed, execed, ticked>>
    BY <1>1 DEF ExitProcess, reap, past, tree
  <2>2. dst = NULL /\ kont # "window"
    BY DEF StackInv, ContextsSound, DstSound
  <2> QED BY <2>1, <2>2, StayStacks
<1>2. CASE parent[cur] # NULL
  <2> DEFINE p  == parent[cur]
             st == Buried(cur, p)
             q  == IF Wakes(cur, p) THEN Append(runq, p) ELSE runq
             fr == IF Wakes(cur, p) THEN [frame EXCEPT ![p].a0 = cur, ![p].a1 = s]
                   ELSE frame
  <2>1. /\ p \in Task /\ p # cur /\ Coherent(st, q) /\ fr \in [Task -> Frames]
        /\ channel' = channel
        /\ st[cur] = (IF Wakes(cur, p) THEN "DEAD" ELSE "ZOMBIE")
        /\ st[p] = (IF Wakes(cur, p) THEN "RUNNABLE" ELSE state[p])
        /\ \A t \in Task : t # cur /\ t # p => st[t] = state[t]
        /\ Yield(st, q, cur, "exit", fr)
    BY <1>2, ExitHandsOver
  <2>2. Wakes(cur, p) => state[p] = "SLEEPING" /\ channel[p] # NULL
    <3>1. cur \in Task /\ NULL \notin Task
      BY PiecesOf DEF OneRunning, Task, NULL
    <3> QED BY <2>1, <3>1 DEF Wakes
  <2>3. "exit" \in Konts /\ st[cur] \in Exited
    <3> HIDE DEF p, st
    <3> QED BY <2>1 DEF Konts, Exited
  <2> HIDE DEF p, st, q, fr
  <2> QED BY <2>1, <2>2, <2>3, YieldStacks
<1> QED BY <1>1, <1>2

\* wait() or wait_pid() takes a zombie off.
LEMMA BuryStacks ==
    ASSUME IInv, StackInv, mode = "user", NEW z \in ZombieChildren(cur), NEW ptr, Bury(z, ptr)
    PROVE  StackInv'
<1>1. z \in Task /\ state[z] = "ZOMBIE" /\ state \in [Task -> States]
  BY PiecesOf DEF ZombieChildren, Children, Coherent
<1>2. /\ state' = [state EXCEPT ![z] = "DEAD"]
      /\ UNCHANGED <<mode, channel, cur, stk, dst, kont, context, toRemove, toRemoveNext,
                     kfreed, execed, ticked>>
  BY DEF Bury, tree, reap, past
<1>3. dst = NULL /\ kont # "window"
  BY DEF StackInv, ContextsSound, DstSound
<1>4. \A t \in Task : /\ t # z => state'[t] = state[t]
                      /\ state'[z] = "DEAD"
  BY <1>1, <1>2
<1> QED BY <1>1, <1>2, <1>3, <1>4, StayStacks DEF Exited

\* wait() and wait_pid() bury, refuse or sleep.
LEMMA WaitStacks ==
    ASSUME IInv, StackInv, Wait \/ WaitPid
    PROVE  StackInv'
<1>1. mode = "user" /\ cur \in Task /\ dst = NULL /\ kont # "window"
  BY PiecesOf DEF Wait, WaitPid, Syscall, OneRunning, StackInv, ContextsSound, DstSound
<1>2. \A ptr : WaitKont(ptr) \in Konts /\ WaitKont(ptr) # "window"
  BY DEF WaitKont, Konts
<1>3. CASE Return(ERR) /\ UNCHANGED <<state, tree, context>>
  BY <1>1, <1>3, StayStacks DEF Return, tree, reap, past
<1>4. CASE \E ptr : ZombieChildren(cur) # {} /\ Bury(OneZombieChild(cur), ptr)
  BY <1>1, <1>4, OneZombieChildIs, BuryStacks
<1>5. CASE \E ptr : Sleep(cur, WaitKont(ptr))
  BY <1>1, <1>2, <1>5, SleepStacks
<1>6. CASE \E c \in Task : \E ptr : Sleep(c, WaitKont(ptr))
  BY <1>1, <1>2, <1>6, SleepStacks
<1>7. CASE WaitPid /\ frame[cur].a0 # ERR /\ ChildWithPid(cur, frame[cur].a0) # NULL
  <2> DEFINE child == ChildWithPid(cur, frame[cur].a0)
  <2>1. child \in Task /\ state[child] # "ZOMBIE"
    BY <1>7 DEF ChildWithPid, FindTask
  <2> HIDE DEF child
  <2>2. Sleep(child, WaitKont(frame[cur].a1))
    BY <1>7, <2>1 DEF WaitPid, child
  <2> QED BY <1>6, <2>1, <2>2
<1>8. CASE WaitPid /\ frame[cur].a0 # ERR /\ ChildWithPid(cur, frame[cur].a0) = NULL
  BY <1>3, <1>8 DEF WaitPid
<1>9. CASE WaitPid /\ frame[cur].a0 = ERR
  BY <1>3, <1>4, <1>5, <1>9 DEF WaitPid
<1>10. CASE Wait
  BY <1>3, <1>4, <1>5, <1>10 DEF Wait
<1> QED BY <1>7, <1>8, <1>9, <1>10

\* switch_context(): what it resumes, and what it cannot.
LEMMA SwitchStacks ==
    ASSUME IInv, StackInv, SwitchContext
    PROVE  StackInv'
<1> DEFINE saved == IF dst = NULL THEN context ELSE [context EXCEPT ![dst] = kont]
<1>1. /\ dst \in Task \cup {NULL} /\ cur \in Task /\ state[cur] = "RUNNING" /\ mode = "switch"
      /\ context \in [Task -> Contexts] /\ NULL \notin Task /\ ContextsSound
      /\ state \in [Task -> States] /\ kont \in Konts
  BY PiecesOf DEF Bookkeeping, Coherent, OneRunning, SwitchContext, StackInv, Task, NULL
<1>2. saved \in [Task -> Contexts] /\ \A t \in Task : saved[t] = IF t = dst THEN kont ELSE context[t]
  BY <1>1 DEF Contexts
<1>3. /\ mode' \in {"kernel", "wild"} /\ stk' = cur /\ dst' = NULL /\ ticked' = FALSE
      /\ kont' \in {"ret", "none"} \/ (kont' = saved[cur] /\ saved[cur] # "window")
      /\ mode' = "wild" => saved[cur] \in {"stale", "window"}
      /\ context' = (IF saved[cur] \in {"fresh", "window"} THEN saved
                     ELSE [saved EXCEPT ![cur] = "stale"])
      /\ UNCHANGED <<state, channel, cur, toRemove, toRemoveNext, kfreed, execed>>
  BY DEF SwitchContext, reap, tree
<1> HIDE DEF saved
<1>4. \A t \in Task : context'[t] = IF t = cur /\ saved[cur] \notin {"fresh", "window"}
                                    THEN "stale" ELSE saved[t]
  BY <1>1, <1>2, <1>3
<1>5. StagesSound'
  BY <1>3 DEF StackInv, StagesSound
<1>6. OnStack'
  BY <1>1, <1>3 DEF StackInv, StagesSound, OnStack, Exited
<1>7. Torn => Torn'
  <2>1. CASE kont = "window"
    <3>1. dst \in Task /\ saved[dst] = "window"
      BY <1>1, <1>2, <2>1 DEF ContextsSound, DstSound
    <3>2. context'[dst] = "window"
      BY <1>4, <3>1
    <3> QED BY <3>1, <3>2 DEF Torn
  <2>2. ASSUME NEW t \in Task, context[t] = "window" PROVE Torn'
    <3>1. t = dst => kont = "window"
      BY <1>1, <2>2 DEF ContextsSound, WindowSound
    <3>2. saved[t] = "window"
      BY <1>2, <2>2, <3>1
    <3>3. context'[t] = "window"
      BY <1>4, <3>2
    <3> QED BY <3>3 DEF Torn
  <2> QED BY <2>1, <2>2 DEF Torn
<1>8. WildExplained'
  <2> SUFFICES ASSUME mode' = "wild" PROVE Torn' \/ channel'[cur'] # NULL
    BY DEF WildExplained
  <2>1. CASE saved[cur] = "window"
    <3>1. context'[cur] = "window"
      BY <1>1, <1>4, <2>1
    <3> QED BY <1>1, <3>1 DEF Torn
  <2>2. CASE saved[cur] = "stale"
    <3>1. cur # dst /\ context[cur] = "stale"
      BY <1>1, <1>2, <2>2 DEF Konts
    <3>2. channel[cur] # NULL \/ Torn
      BY <1>1, <3>1 DEF ContextsSound, StaleSound
    <3> QED BY <1>3, <1>7, <3>2
  <2> QED BY <1>3, <2>1, <2>2
<1>9. ASSUME mode' # "wild" PROVE ContextsSound'
  <2>1. DstSound'
    BY <1>3 DEF DstSound
  <2>2. FreshSound'
    <3>1. \A t \in Task : state[t] = "UNUSED" => t # cur /\ t # dst
      BY <1>1 DEF ContextsSound, DstSound
    <3> QED BY <1>2, <1>3, <1>4, <3>1, <1>1 DEF ContextsSound, FreshSound
  <2>3. saved[cur] # "window"
    <3>1. mode' = "kernel"
      BY <1>3, <1>9
    <3> QED BY <3>1 DEF SwitchContext, saved
  <2>4. WindowSound'
    <3> SUFFICES ASSUME NEW t \in Task, context'[t] = "window"
                 PROVE  state[t] = "RUNNABLE" /\ t # NULL
      BY <1>3 DEF WindowSound
    <3>1. t # cur /\ saved[t] = "window"
      BY <1>4, <2>3
    <3>2. CASE t = dst
      BY <1>1, <3>1, <3>2, PiecesOf DEF ContextsSound, DstSound, OneRunning
    <3>3. CASE t # dst
      BY <1>1, <1>2, <3>1, <3>3 DEF ContextsSound, WindowSound
    <3> QED BY <3>2, <3>3
  <2>5. StaleSound'
    <3> SUFFICES ASSUME NEW t \in Task, context'[t] = "stale", state[t] = "RUNNABLE"
                 PROVE  channel[t] # NULL \/ Torn'
      BY <1>3, <1>9 DEF StaleSound
    <3>1. t # cur /\ saved[t] = "stale"
      BY <1>1, <1>4
    <3>2. t # dst /\ context[t] = "stale"
      BY <1>1, <1>2, <3>1 DEF Konts
    <3> QED BY <1>1, <1>7, <3>2 DEF ContextsSound, StaleSound
  <2> QED BY <2>1, <2>2, <2>4, <2>5 DEF ContextsSound
<1> QED BY <1>5, <1>6, <1>8, <1>9 DEF StackInv

\* Every step, and stuttering, keeps the stacks and the contexts sound.
LEMMA StackStep ==
    ASSUME IInv, StackInv, [Next]_vars
    PROVE  StackInv'
<1>1. /\ frame \in [Task -> Frames] /\ state \in [Task -> States] /\ NULL \notin Task
      /\ context \in [Task -> Contexts] /\ kfreed \subseteq Task
      /\ toRemove \in Task \cup {NULL} /\ dst \in Task \cup {NULL} /\ kont \in Konts
  BY PiecesOf DEF Bookkeeping, Coherent, Task, NULL
<1>2. mode \in {"user", "kernel", "masked"} =>
          cur \in Task /\ state[cur] \in {"RUNNING", "SLEEPING"} /\ stk = cur
          /\ dst = NULL /\ kont # "window"
  BY PiecesOf DEF OneRunning, StackInv, OnStack, ContextsSound, DstSound
<1>3. ASSUME NEW c, Syscall(c)
      PROVE  mode = "user" /\ cur \in Task /\ frame[cur].call = c /\ frame[cur].at
  BY <1>2, <1>3 DEF Syscall
<1>4. ASSUME NEW v, mode = "user", Return(v), UNCHANGED <<state, tree, context>> PROVE StackInv'
  BY <1>2, <1>4, StayStacks DEF Return, tree, reap, past
<1>5. ERR \in Values
  BY DEF Values
<1>6. CASE Scheduler
  <2>1. /\ mode = "boot" /\ mode' = "user" /\ cur' = Head(runq) /\ stk' = Head(runq)
        /\ state' = [state EXCEPT ![Head(runq)] = "RUNNING"]
        /\ UNCHANGED <<channel, dst, kont, context, toRemove, toRemoveNext, kfreed,
                       execed, ticked>>
    BY <1>6 DEF Scheduler, reap, past, tree
  <2>2. Head(runq) \in Task /\ state[Head(runq)] = "RUNNABLE"
    <3>1. Lists(runq, RunnableIn(state)) /\ runq # <<>>
      BY <1>6, PiecesOf DEF Scheduler, Coherent
    <3>2. Head(runq) \in RunnableIn(state)
      BY <3>1, ListsTail
    <3> QED BY <3>2 DEF RunnableIn
  <2>3. dst = NULL /\ kont # "window" /\ ContextsSound
    BY <2>1 DEF StackInv, ContextsSound, DstSound
  <2>4. cur = NULL
    BY <2>1, PiecesOf DEF OneRunning
  <2>5. \A t \in Task : /\ t # Head(runq) => state'[t] = state[t]
                        /\ state'[Head(runq)] = "RUNNING"
    BY <1>1, <2>1, <2>2
  <2>6. \A t \in Task : state[t] \in Exited => state'[t] \in Exited /\ t # Head(runq)
    BY <2>2, <2>5 DEF Exited
  <2>7. StagesSound'
    BY <1>1, <2>1, <2>6 DEF StackInv, StagesSound
  <2>8. OnStack'
    BY <1>1, <2>1, <2>6 DEF StackInv, StagesSound, OnStack
  <2>9. DstSound' /\ FreshSound'
    BY <1>1, <2>1, <2>2, <2>3, <2>5 DEF DstSound, ContextsSound, FreshSound
  <2>10. Torn => Torn'
    BY <2>1 DEF Torn
  <2>11. StaleSound'
    BY <2>1, <2>3, <2>5, <2>10 DEF ContextsSound, StaleSound
  <2>12. WindowSound'
    BY <2>1, <2>3 DEF ContextsSound, FreshSound, WindowSound
  <2> QED BY <2>1, <2>7, <2>8, <2>9, <2>11, <2>12 DEF StackInv, WildExplained, ContextsSound
<1>7. CASE UserProgram
  BY <1>2, <1>7, StayStacks DEF UserProgram, tree, reap, past
<1>8. CASE UserTick
  BY <1>8, PlainYieldStacks DEF UserTick, Konts
<1>9. CASE Fork
  <2>1. mode = "user" /\ cur \in Task /\ frame[cur].call = "fork" /\ frame[cur].at
    BY <1>3, <1>9 DEF Fork
  <2>2. CASE Return(ERR) /\ UNCHANGED <<state, tree, context>>
    BY <1>4, <2>1, <2>2
  <2>3. CASE Wild /\ (OutOfMemory \/ LiveStackFreed)
    BY <2>1, <2>3, WildStacks, LiveFreedExeced
  <2>4. CASE /\ nextPid <= MaxTasks
             /\ state' = [state EXCEPT ![nextPid] = "RUNNABLE"]
             /\ UNCHANGED <<channel, exitStatus, cur, mode, stk, dst, kont, context, reap, past>>
    <3>1. nextPid \in Task /\ nextPid # cur /\ state[nextPid] = "UNUSED"
      <4>1. nextPid \in Task
        BY <2>4, PiecesOf, MaxTasksAssumption DEF TreeTyped, Task
      <4>2. nextPid >= nextPid
        BY <4>1 DEF Task
      <4> QED BY <1>2, <2>1, <4>1, <4>2, PiecesOf DEF Family
    <3>2. /\ cur' = cur /\ mode' = mode /\ stk' = stk /\ dst' = dst /\ kont' = kont
          /\ context' = context /\ toRemove' = toRemove /\ toRemoveNext' = toRemoveNext
          /\ kfreed' = kfreed /\ channel' = channel /\ execed' = execed /\ ticked' = ticked
      BY <2>4 DEF reap, past
    <3>3. /\ \A t \in Task : t # nextPid => state'[t] = state[t]
          /\ state'[nextPid] = "RUNNABLE"
      BY <1>1, <2>4, <3>1
    <3>4. context[nextPid] = "fresh" /\ ContextsSound
      BY <2>1, <3>1 DEF StackInv, ContextsSound, FreshSound
    <3>5. StagesSound'
      <4>1. \A t \in Task : state[t] \in Exited => state'[t] \in Exited
        BY <3>1, <3>3 DEF Exited
      <4> QED BY <1>1, <3>2, <4>1 DEF StackInv, StagesSound
    <3>6. OnStack'
      BY <3>2 DEF StackInv, OnStack
    <3>7. DstSound' /\ WindowSound' /\ FreshSound'
      BY <1>2, <2>1, <3>1, <3>2, <3>3, <3>4 DEF ContextsSound, DstSound, WindowSound, FreshSound
    <3>8. StaleSound'
      <4>1. Torn => Torn'
        BY <3>2 DEF Torn
      <4> QED BY <1>2, <2>1, <3>2, <3>3, <3>4, <4>1 DEF ContextsSound, StaleSound
    <3> QED BY <2>1, <3>2, <3>5, <3>6, <3>7, <3>8 DEF StackInv, WildExplained, ContextsSound
  <2> QED BY <1>9, <2>2, <2>3, <2>4 DEF Fork
<1>10. CASE Exec
  <2>1. mode = "user" /\ cur \in Task
    BY <1>3, <1>10 DEF Exec
  <2>2. CASE Return(ERR) /\ UNCHANGED <<state, tree, context>>
    BY <1>4, <2>1, <2>2
  <2>3. CASE /\ toRemoveNext' = cur /\ mode' = "kernel" /\ kont' = "ret"
             /\ execed' = execed \cup {cur}
             /\ UNCHANGED <<state, tree, runq, cur, stk, dst, context, toRemove, kfreed, ticked>>
    <3>1. StagesSound'
      BY <2>3 DEF StackInv, StagesSound
    <3>2. OnStack'
      BY <1>2, <2>1, <2>3 DEF StackInv, OnStack
    <3>3. ContextsSound /\ dst = NULL
      BY <1>2, <2>1 DEF StackInv
    <3>4. DstSound' /\ WindowSound' /\ FreshSound'
      BY <2>1, <2>3, <3>3 DEF ContextsSound, DstSound, WindowSound, FreshSound
    <3>5. StaleSound'
      <4>1. Torn => Torn'
        BY <1>2, <2>1, <2>3 DEF Torn
      <4>2. channel' = channel
        BY <2>3 DEF tree
      <4> QED BY <2>1, <2>3, <3>3, <4>1, <4>2 DEF ContextsSound, StaleSound
    <3> QED BY <2>3, <3>1, <3>2, <3>4, <3>5 DEF StackInv, WildExplained, ContextsSound
  <2>4. CASE ExitProcess(cur, ERR)
    BY <1>5, <2>1, <2>4, ExitStacks
  <2>5. CASE /\ mode' = "panic_unmap"
             /\ UNCHANGED <<state, tree, runq, cur, stk, dst, kont, context, frame, reap, past>>
    BY <1>2, <2>1, <2>5, StayStacks DEF tree, reap, past
  <2>6. CASE LiveStackFreed /\ Wild
    BY <2>6, WildStacks, LiveFreedExeced
  <2> QED BY <1>10, <2>2, <2>3, <2>4, <2>5, <2>6 DEF Exec
<1>11. CASE Exit
  <2>1. mode = "user" /\ cur \in Task
    BY <1>3, <1>11 DEF Exit
  <2>2. frame[cur].a0 \in Values
    BY <1>1, <2>1 DEF Frames
  <2> QED BY <1>11, <2>1, <2>2, ExitStacks DEF Exit
<1>12. CASE Fault
  BY <1>5, <1>12, ExitStacks DEF Fault
<1>13. CASE Wait \/ WaitPid
  BY <1>13, WaitStacks
<1>14. CASE SendSignal
  <2>1. \A t : ~IsAncestor(cur, t) \/ IsAlive(t)
    BY DEF IsAncestor, IsAlive
  <2> QED BY <1>3, <1>4, <1>14, <2>1 DEF SendSignal
<1>15. CASE YieldCall
  BY <1>3, <1>15, PlainYieldStacks DEF YieldCall, Konts
<1>16. CASE PutChar
  BY <1>3, <1>4, <1>16 DEF PutChar
<1>17. CASE PowerOff
  <2>1. mode = "user"
    BY <1>3, <1>17 DEF PowerOff
  <2>2. CASE Return(ERR) /\ UNCHANGED <<state, tree, context>>
    BY <1>4, <2>1, <2>2
  <2>3. CASE mode' = "off" /\ UNCHANGED <<state, tree, runq, cur, stk, dst, kont, context, frame, reap, past>>
    BY <1>2, <2>1, <2>3, StayStacks DEF tree, reap, past
  <2> QED BY <1>17, <2>2, <2>3 DEF PowerOff
<1>18. CASE UnknownCall
  <2>1. mode = "user"
    BY <1>3, <1>18 DEF UnknownCall
  <2> QED BY <1>2, <1>18, <2>1, StayStacks DEF UnknownCall, tree, reap, past
<1>19. CASE GetChar
  <2>1. mode \in {"user", "kernel"} /\ UNCHANGED tree
    BY <1>19 DEF GetChar, Syscall
  <2>2. CASE Yield(state, runq, toRemoveNext, "getc", frame)
    BY <2>1, <2>2, PlainYieldStacks DEF Konts
  <2>3. CASE /\ mode' = (IF mode = "user" THEN "masked" ELSE "kernel") /\ kont' = "poll"
             /\ UNCHANGED <<state, runq, cur, stk, dst, context, frame, reap, past>>
    BY <1>2, <2>1, <2>3, StayStacks DEF tree, reap, past
  <2> QED BY <1>19, <2>2, <2>3 DEF GetChar
<1>20. CASE Input
  BY <1>2, <1>20, StayStacks DEF Input, tree, reap, past
<1>21. CASE SwitchContext
  BY <1>21, SwitchStacks
<1>22. CASE KernelReturn
  <2>1. /\ mode = "kernel" /\ Resume(kont, frame)
        /\ UNCHANGED <<state, channel, cur, stk, context, toRemove, toRemoveNext, kfreed,
                       execed, ticked>>
    BY <1>22 DEF KernelReturn, tree, reap, past
  <2>2. mode' \in {"user", "panic_exit"} /\ dst' = NULL /\ kont' = "none"
    BY <2>1 DEF Resume
  <2> QED BY <2>1, <2>2, StayStacks
<1>23. CASE KernelTick
  <2>1. mode \in {"switch", "kernel"} /\ UNCHANGED tree
    BY <1>23 DEF KernelTick
  <2>2. CASE runq = <<>> /\ toRemove \notin kfreed
    <3>1. /\ kfreed' = kfreed \cup ({toRemove} \ {NULL}) /\ toRemove' = toRemoveNext
          /\ toRemoveNext' = NULL /\ ticked' = (mode = "switch")
          /\ UNCHANGED <<state, cur, mode, stk, dst, kont, context, execed>>
      BY <1>23, <2>2 DEF KernelTick, Collect
    <3>2. channel' = channel /\ ContextsSound
      BY <2>1 DEF tree, StackInv
    <3>3. StagesSound'
      BY <1>1, <3>1 DEF StackInv, StagesSound
    <3>4. OnStack'
      <4>1. mode = "kernel" => stk \notin kfreed' \ execed
        BY <1>1, <1>2, <3>1 DEF StackInv, StagesSound, Exited
      <4> QED BY <1>2, <2>1, <3>1, <4>1 DEF OnStack
    <3>5. DstSound' /\ WindowSound' /\ FreshSound'
      BY <3>1, <3>2 DEF ContextsSound, DstSound, WindowSound, FreshSound
    <3>6. StaleSound'
      <4>1. Torn => Torn'
        BY <3>1 DEF Torn
      <4> QED BY <3>1, <3>2, <4>1 DEF ContextsSound, StaleSound
    <3> QED BY <2>1, <3>1, <3>3, <3>4, <3>5, <3>6 DEF StackInv, WildExplained, ContextsSound
  <2>3. CASE ~(runq = <<>> /\ toRemove \notin kfreed)
    <3>1. CASE mode = "kernel"
      <4>1. Yield(state, runq, toRemoveNext, kont, frame)
        BY <1>23, <2>3, <3>1 DEF KernelTick
      <4> QED BY <1>1, <1>2, <2>1, <3>1, <4>1, PlainYieldStacks
    <3>2. CASE mode = "switch"
      <4>1. Yield(state, runq, toRemoveNext, "window", frame)
        BY <1>23, <2>3, <3>2 DEF KernelTick
      <4>2. /\ state[cur] = "RUNNING" /\ Coherent(state, runq) /\ channel' = channel
            /\ state[cur] \notin Exited /\ "window" \in Konts
        BY <2>1, <3>2, PiecesOf DEF OneRunning, tree, Exited, Konts
      <4> QED BY <1>1, <2>3, <3>2, <4>1, <4>2, YieldStacks
    <3> QED BY <2>1, <3>1, <3>2
  <2> QED BY <2>2, <2>3
<1>24. CASE Halt \/ UNCHANGED vars
  <2>1. UNCHANGED <<state, channel, cur, mode, stk, dst, kont, context, frame, toRemove,
                    toRemoveNext, kfreed, execed, ticked>>
    BY <1>24 DEF Halt, vars, tree, reap, past
  <2> QED BY <2>1 DEF StackInv, StagesSound, OnStack, WildExplained, ContextsSound, DstSound,
                      WindowSound, StaleSound, FreshSound, Torn
<1> QED
  BY <1>6, <1>7, <1>8, <1>9, <1>10, <1>11, <1>12, <1>13, <1>14, <1>15, <1>16, <1>17, <1>18,
     <1>19, <1>20, <1>21, <1>22, <1>23, <1>24 DEF Next

\* The stacks and contexts are sound from the boot on.
LEMMA StackInvariance == Spec => []StackInv
<1>1. Init => StackInv
  BY DEF Init, StackInv, StagesSound, OnStack, WildExplained, ContextsSound, DstSound,
         WindowSound, StaleSound, FreshSound
<1>2. IInv /\ StackInv /\ [Next]_vars => StackInv'
  BY StackStep
<1> QED BY <1>1, <1>2, Invariance, PTL DEF Spec

\* The two stages stack_to_remove_next and stack_to_remove of yield() are enough,
\* for every workload and with ticks anywhere in the kernel, for every stack that
\* exec has not retired: it is deallocated after its owner's exit, and only a tick
\* before switch_context() can catch the CPU still on it.
THEOREM StacksReclaimedSafely == Spec => []StackReclaimSafe
<1>1. StackInv => StackReclaimSafe
  BY DEF StackInv, StagesSound, OnStack, StackReclaimSafe
<1> QED BY <1>1, StackInvariance, PTL

\* The CPU leaves the code's defined paths in the four named ways only.
THEOREM WildOnlyAsNamed == Spec => []WildExplained
<1>1. StackInv => WildExplained
  BY DEF StackInv
<1> QED BY <1>1, StackInvariance, PTL
=============================================================================
